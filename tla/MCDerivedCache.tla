----------------------------- MODULE MCDerivedCache -----------------------------
(* DerivedCache on a small instance: a monolingual dictionary that is       *)
(* installed and not yet master, and a frequency list that is not.         *)
EXTENDS DerivedCache, TLC

MCZips  == <<"jiten">>
MCHolds == [meikyo |-> [entries |-> 2, freqs |-> 0], jiten |-> [entries |-> 0, freqs |-> 1]]
MCReparsed == [meikyo |-> {3}, jiten |-> {0}]
MCInstalled ==
    <<[zip |-> "meikyo", role |-> "reference", priority |-> 1, entries |-> 2, freqs |-> 0]>>

Alike == Permutations(Commands)
=============================================================================
