------------------------------ MODULE DerivedCache ------------------------------
(***************************************************************************)
(* The cache of what the tokenizer derives from the dictionaries           *)
(* (jp-core/src/highlight/derived.rs).  Servers load it when they start    *)
(* and derive it themselves when it is not current; jp-dict brings it up   *)
(* to date after each of its commands (Dictionaries).  Nothing is locked   *)
(* and nothing but a statement is atomic: a fingerprint is counted         *)
(* dictionary by dictionary, a build reads the tables query by query and a *)
(* store writes section by section, each while the dictionaries change.    *)
(*                                                                         *)
(* Two of the six sections stand for them all: what the dictionaries of a  *)
(* role list, and the ranks of the first list by priority.                 *)
(***************************************************************************)
EXTENDS Dictionaries

CONSTANTS
    Servers,   \* processes that build a pipeline when they start
    MaxStarts  \* bound: how often they do

ASSUME CacheAssumption == Servers \cap Commands = {} /\ MaxStarts \in Nat

VARIABLES
    cache,    \* derived_cache: section -> [stamp, payload], or the empty record
    work,     \* where each process is with the cache
    starts,   \* servers started
    was,      \* history: what the dictionaries have been
    returned  \* history: some part of a fingerprint came back to what it had been

cacheVars == <<cache, work, starts, was, returned>>
vars == <<dictVars, cacheVars>>

SECTIONS == <<"master", "reader_ranks">>
Workers  == Servers \cup Commands

\* What each section's query answers, now.
Derive(section) ==
    CASE section = "master" -> {<<dicts[i].zip, dicts[i].entries>> : i \in Masters}
      [] section = "reader_ranks" ->
           {<<dicts[i].zip, dicts[i].freqs>> : i \in Foremost(RoleIs("frequency"), Listed)}

\* A fingerprint: the listing, and the two counts of every dictionary in it.
Counted(i) == IF i \in DOMAIN dicts THEN <<dicts[i].entries, dicts[i].freqs>> ELSE <<0, 0>>
Fingerprint     == [rows |-> Listed, counts |-> [i \in DOMAIN dicts |-> Counted(i)]]
NoFingerprint   == [rows |-> << >>, counts |-> << >>]

\* listed: the listing was read; print: what the fingerprint has of it; read:
\* the rows of the cache, once fetched; built: the sections derived so far.
AtRest == [pc |-> "rest", listed |-> FALSE, print |-> NoFingerprint, read |-> << >>,
           built |-> << >>, todo |-> << >>, moved |-> FALSE]

TypeOK ==
    /\ DictTypeOK
    /\ DOMAIN cache \subseteq Range(SECTIONS)
    /\ \A w \in Workers : work[w].pc \in
          {"rest", "load", "print", "stored", "build", "store", "ready"}
    /\ starts \in 0 .. MaxStarts /\ returned \in BOOLEAN

\* Every section is there and carries this fingerprint.
Agrees(rows, print) ==
    \A n \in DOMAIN SECTIONS :
      SECTIONS[n] \in DOMAIN rows /\ rows[SECTIONS[n]].stamp = print

Init ==
    /\ DictInit
    /\ cache = << >>
    /\ work = [w \in Workers |-> AtRest]
    /\ starts = 0 /\ was = {} /\ returned = FALSE

---------------------------------------------------------------------------
In(w, pc)   == work[w].pc = pc
Quiet       == UNCHANGED <<starts, was, returned>>
Only(w, rec) == work' = [work EXCEPT ![w] = rec]
Still       == UNCHANGED dictVars
Rest(w)     == IF w \in Commands THEN Ends(w) ELSE UNCHANGED cmd
\* A command that has done with the cache exits; a server goes on with what it has.
Ready(w, built) ==
    IF w \in Commands THEN /\ Only(w, AtRest) /\ Ends(w)
                           /\ UNCHANGED <<dicts, runs, deaths, overlap>>
    ELSE /\ Only(w, [AtRest EXCEPT !.pc = "ready", !.built = built, !.moved = work[w].moved])
         /\ Still

\* Derived::load, when a server starts.
Start(s) ==
    /\ work[s].pc \in {"rest", "ready"} /\ starts < MaxStarts
    /\ starts' = starts + 1
    /\ Only(s, [AtRest EXCEPT !.pc = "load"])
    /\ Still /\ UNCHANGED <<cache, was, returned>>

\* fingerprint: the listing, then the counts in its order.
List(w, pc) ==
    Only(w, [work[w] EXCEPT !.pc = pc, !.listed = TRUE,
                            !.print = [rows |-> Listed, counts |-> << >>]])
PrintList(s) ==
    /\ work[s].pc \in {"load", "print"} /\ ~work[s].listed
    /\ List(s, work[s].pc) /\ Still /\ UNCHANGED cache /\ Quiet
\* rebuild, after a command, begins with one.
Rebuild(c) ==
    /\ At(c, "refresh") /\ Goto(c, "deriving") /\ List(c, "print")
    /\ UNCHANGED <<dicts, runs, deaths, overlap, cache>> /\ Quiet
Uncounted(w) == DOMAIN work[w].print.rows \ DOMAIN work[w].print.counts
PrintCount(w) ==
    /\ work[w].pc \in {"load", "print"} /\ work[w].listed /\ Uncounted(w) # {}
    /\ \E i \in Foremost(Uncounted(w), work[w].print.rows) :
       Only(w, [work[w] EXCEPT !.print.counts = Put(work[w].print.counts, i, Counted(i))])
    /\ Still /\ UNCHANGED cache /\ Quiet
Printed(w) == work[w].listed /\ Uncounted(w) = {}

\* load: the rows are fetched beside the fingerprint, in one statement.
LoadRows(s) ==
    /\ In(s, "load") /\ work[s].read = << >>
    /\ Only(s, [work[s] EXCEPT !.read = <<cache>>])
    /\ Still /\ UNCHANGED cache /\ Quiet
\* A hit, or the way down to a build of its own, which takes a fingerprint afresh.
Loaded(s) ==
    /\ In(s, "load") /\ Printed(s) /\ work[s].read # << >>
    /\ LET rows == work[s].read[1] IN
       IF Agrees(rows, work[s].print)
       THEN Ready(s, [x \in DOMAIN rows |-> rows[x].payload])
       ELSE Only(s, [AtRest EXCEPT !.pc = "print", !.moved = work[s].moved]) /\ Still
    /\ UNCHANGED cache /\ Quiet

\* rebuild goes on only where stored_fingerprint differs; a miss always does.
Stored(w) ==
    /\ In(w, "print") /\ Printed(w)
    /\ IF w \in Commands /\ Agrees(cache, work[w].print)
       THEN Ready(w, << >>)
       ELSE Only(w, [work[w] EXCEPT !.pc = "build", !.todo = SECTIONS]) /\ Still
    /\ UNCHANGED cache /\ Quiet
\* build: query after query.
Build(w) ==
    LET x == Head(work[w].todo) IN
    /\ In(w, "build")
    /\ Only(w, [work[w] EXCEPT !.built = Put(work[w].built, x, Derive(x)),
                  !.todo = IF Len(work[w].todo) = 1 THEN SECTIONS ELSE Tail(work[w].todo),
                  !.pc = IF Len(work[w].todo) = 1 THEN "store" ELSE "build"])
    /\ Still /\ UNCHANGED cache /\ Quiet
\* Mutant: the fingerprint is read when the build is over.
X_Store(w) ==
    LET x == Head(work[w].todo) IN
    /\ In(w, "store")
    /\ cache' = Put(cache, x, [stamp |-> Fingerprint, payload |-> work[w].built[x]])
    /\ IF Len(work[w].todo) = 1 THEN Ready(w, work[w].built)
       ELSE Only(w, [work[w] EXCEPT !.todo = Tail(work[w].todo)]) /\ Still
    /\ Quiet
\* store: section after section, each an upsert of its own.
Store(w) ==
    LET x == Head(work[w].todo) IN
    /\ In(w, "store")
    /\ cache' = Put(cache, x, [stamp |-> work[w].print, payload |-> work[w].built[x]])
    /\ IF Len(work[w].todo) = 1 THEN Ready(w, work[w].built)
       ELSE Only(w, [work[w] EXCEPT !.todo = Tail(work[w].todo)]) /\ Still
    /\ Quiet
\* A store that fails part-way is only warned of.  A process killed stops there too; killed
\* before it, it leaves the cache as one that never came so far.
StoreFails(w) ==
    /\ In(w, "store") /\ deaths < MaxDeaths
    /\ Only(w, IF w \in Commands THEN AtRest
               ELSE [AtRest EXCEPT !.pc = "ready", !.built = work[w].built, !.moved = work[w].moved])
    /\ deaths' = deaths + 1 /\ Rest(w)
    /\ UNCHANGED <<dicts, runs, overlap, cache>> /\ Quiet

\* A command is killed among its own statements.
Killed(c) == In(c, "rest") /\ Die(c) /\ UNCHANGED cacheVars
---------------------------------------------------------------------------
\* Bookkeeping of a step of jp-dict on the dictionaries: who it happened under,
\* and whether a part of the fingerprint came back to an earlier value.
Parts(t) == {<<i, "row", t.rows[i]>> : i \in DOMAIN t.rows}
              \cup {<<i, "count", t.counts[i]>> : i \in DOMAIN t.counts}
              \cup {<<i, "absent">> : i \in Ids \ DOMAIN t.rows}
Noted ==
    LET new == Parts(Fingerprint') \ Parts(Fingerprint)
        old == Parts(Fingerprint) \ Parts(Fingerprint') IN
    /\ returned' = (returned \/ new \cap was # {})
    /\ was' = IF returned' THEN {} ELSE was \cup old
    /\ work' = [w \in Workers |->
                  [work[w] EXCEPT !.moved = work[w].moved \/ (Fingerprint' # Fingerprint /\ ~In(w, "rest") /\ w \in Servers)]]
    /\ UNCHANGED <<cache, starts>>

Caching(w) ==
    /\ work[w].pc \notin {"rest", "ready"}
    /\ \/ PrintCount(w) \/ Stored(w) \/ Build(w) \/ Store(w) \/ StoreFails(w)
       \/ w \in Servers /\ (PrintList(w) \/ LoadRows(w) \/ Loaded(w))
Next ==
    \/ \E c \in Commands : (Step(c) \/ Typed(c)) /\ Noted
    \/ \E s \in Servers : Start(s)
    \/ \E c \in Commands : Rebuild(c) \/ Killed(c)
    \/ \E w \in Workers : Caching(w)
Spec == Init /\ [][Next]_vars
---------------------------------------------------------------------------
(* "The next reader derives again instead of trusting a mix": a server that *)
(* started while no dictionary changed has what a build would give it,      *)
(* whatever builds, stores and changes came before, as long as no part of a *)
(* fingerprint ever came back to an earlier value.                          *)
TrustsNoMix ==
    /\ TypeOK
    /\ \A s \in Servers :
         In(s, "ready") /\ ~work[s].moved /\ ~returned =>
           work[s].built = [x \in Range(SECTIONS) |-> Derive(x)]
=============================================================================
