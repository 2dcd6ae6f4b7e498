------------------------------ MODULE LedgerIngest ------------------------------
(***************************************************************************)
(* The incremental tokenization of the hooked lines into the counting      *)
(* sinks (kotodex-server/src/ingest.rs over db/lines.rs).                  *)
(*                                                                         *)
(* A pass is one HTTP request: `POST /api/anki/refresh` runs               *)
(* ingest_new_lines, `POST /api/vocab/rebuild` runs reset_vocabulary and   *)
(* then ingest_new_lines.  Nothing serialises passes, so every statement   *)
(* that awaits the database is a step of its own, and a pass may end       *)
(* between any two of them: a `?` returns early, the client hangs up and   *)
(* the handler's future is dropped, or the server exits.                   *)
(*                                                                         *)
(* The sinks are additive, so what a sink holds is abstracted to how many  *)
(* times it was given each line: not at all, once, or more than once.      *)
(***************************************************************************)
EXTENDS Integers, FiniteSets

CONSTANTS
    NSinks,      \* sinks in the order commit() writes them: 1 is word_days,
                 \* 2 vocabulary, 3 work_terms, 4 term_surfaces
    MaxLine,     \* bound on the ids of `lines`
    Passes,      \* requests that may run at the same time
    Rebuilders,  \* those of them that are /api/vocab/rebuild
    Unreadable,  \* lines tokenizer.tokenize() fails on: warned about, skipped
    Failures     \* whether a pass may end early

ASSUME NSinksAssumption     == NSinks \in Nat \ {0}
ASSUME MaxLineAssumption    == MaxLine \in Nat
ASSUME RebuildersAssumption == Rebuilders \subseteq Passes
ASSUME UnreadableAssumption == Unreadable \subseteq 1..MaxLine
ASSUME FailuresAssumption   == Failures \in BOOLEAN

Sinks   == 1..NSinks
Rebuilt == 2..NSinks       \* what reset_vocabulary clears: all but word_days
Lines   == 1..MaxLine

VARIABLES
    last,        \* the newest id in `lines`
    hidden,      \* lines with discarded = 1
    everHidden,  \* history: lines that were discarded at some time
    mark,        \* the sinks' line watermarks, rows of `settings`
    credit,      \* credit[s][i]: how often sink s was given line i, up to 2
    cleared,     \* history: sinks some rebuild has cleared
    pc, at,      \* where each pass is: the statement, and the sink it is at
    seen,        \* the watermarks each pass read when it began
    batch, top,  \* the lines each pass fetched, and max_id
    alone,       \* history: no other pass has run since this one began
    spoiled      \* history: passes overlapped, one failed, or one was a rebuild

stored   == <<last, hidden, everHidden>>
counts   == <<mark, credit, cleared>>
locals   == <<seen, batch, top>>
vars     == <<last, hidden, everHidden, mark, credit, cleared,
              pc, at, seen, batch, top, alone, spoiled>>

PCs == {"idle", "clear", "rewind", "marks", "fetch", "write", "save"}

TypeOK ==
    /\ last \in 0..MaxLine
    /\ hidden \subseteq 1..last
    /\ hidden \subseteq everHidden
    /\ everHidden \subseteq 1..last
    /\ mark \in [Sinks -> 0..MaxLine]
    /\ credit \in [Sinks -> [Lines -> 0..2]]
    /\ cleared \subseteq Rebuilt
    /\ pc \in [Passes -> PCs]
    /\ at \in [Passes -> Sinks]
    /\ seen \in [Passes -> [Sinks -> 0..MaxLine]]
    /\ batch \in [Passes -> SUBSET Lines]
    /\ top \in [Passes -> 0..MaxLine]
    /\ alone \in [Passes -> BOOLEAN]
    /\ spoiled \in BOOLEAN

Init ==
    /\ last = 0 /\ hidden = {} /\ everHidden = {}
    /\ mark = [s \in Sinks |-> 0]
    /\ credit = [s \in Sinks |-> [i \in Lines |-> 0]]
    /\ cleared = {}
    /\ pc = [p \in Passes |-> "idle"]
    /\ at = [p \in Passes |-> 1]
    /\ seen = [p \in Passes |-> [s \in Sinks |-> 0]]
    /\ batch = [p \in Passes |-> {}]
    /\ top = [p \in Passes |-> 0]
    /\ alone = [p \in Passes |-> TRUE]
    /\ spoiled = FALSE

---------------------------------------------------------------------------
(* The line table, written while passes run.                               *)

AppendLine ==        \* db::insert_lines; a batch is several of these in a row
    /\ last < MaxLine
    /\ last' = last + 1
    /\ UNCHANGED <<hidden, everHidden, counts, pc, at, locals, alone, spoiled>>

Discard(i) ==        \* set_lines_discarded(true), retract_last_line
    /\ i \in (1..last) \ hidden
    /\ hidden' = hidden \cup {i}
    /\ everHidden' = everHidden \cup {i}
    /\ UNCHANGED <<last, counts, pc, at, locals, alone, spoiled>>

Restore(i) ==        \* set_lines_discarded(false), the reader's undo
    /\ i \in hidden
    /\ hidden' = hidden \ {i}
    /\ UNCHANGED <<last, everHidden, counts, pc, at, locals, alone, spoiled>>

---------------------------------------------------------------------------
(* One pass.                                                               *)

Goto(p, label, sink) ==
    /\ pc' = [pc EXCEPT ![p] = label]
    /\ at' = [at EXCEPT ![p] = sink]

\* To the next sink under the same statement, or on to the next statement.
Advance(p, label, sink) ==
    IF at[p] < NSinks THEN Goto(p, pc[p], at[p] + 1) ELSE Goto(p, label, sink)

\* The handler returns and its locals are gone.
Return(p) ==
    /\ Goto(p, "idle", 1)
    /\ seen' = [seen EXCEPT ![p] = [s \in Sinks |-> 0]]
    /\ batch' = [batch EXCEPT ![p] = {}]
    /\ top' = [top EXCEPT ![p] = 0]

Start(p) ==
    /\ pc[p] = "idle"
    /\ IF p \in Rebuilders /\ Rebuilt # {} THEN Goto(p, "clear", 2)
                                           ELSE Goto(p, "marks", 1)
    /\ alone' = [q \in Passes |-> q = p /\ \A r \in Passes : pc[r] = "idle"]
    /\ spoiled' = (spoiled \/ p \in Rebuilders \/ \E q \in Passes : pc[q] # "idle")
    /\ UNCHANGED <<stored, counts, locals>>

\* Mutant: the reset leaves the counts standing.
Clear_KeepsCounts(p) ==
    /\ pc[p] = "clear"
    /\ cleared' = cleared \cup {at[p]}
    /\ Advance(p, "rewind", 2)
    /\ UNCHANGED <<stored, mark, credit, locals, alone, spoiled>>

\* reset_vocabulary: the tables one by one ...
Clear(p) ==
    /\ pc[p] = "clear"
    /\ credit' = [credit EXCEPT ![at[p]] = [i \in Lines |-> 0]]
    /\ cleared' = cleared \cup {at[p]}
    /\ Advance(p, "rewind", 2)
    /\ UNCHANGED <<stored, mark, locals, alone, spoiled>>

\* ... and then their watermarks.
Rewind(p) ==
    /\ pc[p] = "rewind"
    /\ mark' = [mark EXCEPT ![at[p]] = 0]
    /\ Advance(p, "marks", 1)
    /\ UNCHANGED <<stored, credit, cleared, locals, alone, spoiled>>

ReadMark(p) ==
    /\ pc[p] = "marks"
    /\ seen' = [seen EXCEPT ![p][at[p]] = mark[at[p]]]
    /\ Advance(p, "fetch", 1)
    /\ UNCHANGED <<stored, counts, batch, top, alone, spoiled>>

\* Mutants: reads every line; reads on from the sink that is furthest ahead.
NewLines_All(p) == (1..last) \ hidden
NewLines_FromFurthest(p) ==
    {i \in (1..last) \ hidden : \A s \in Sinks : i > seen[p][s]}

\* id > behind, the least of the marks read: past at least one of them.
NewLines(p) == {i \in (1..last) \ hidden : \E s \in Sinks : i > seen[p][s]}

\* Nothing new: IngestOutcome::none(), and no watermark is written.
FetchNothing(p) ==
    /\ pc[p] = "fetch"
    /\ NewLines(p) = {}
    /\ Return(p)
    /\ UNCHANGED <<stored, counts, alone, spoiled>>

Fetch(p) ==
    /\ pc[p] = "fetch"
    /\ \E newest \in NewLines(p) :
         /\ \A i \in NewLines(p) : i <= newest
         /\ top' = [top EXCEPT ![p] = newest]
    /\ batch' = [batch EXCEPT ![p] = NewLines(p)]
    /\ Goto(p, "write", 1)
    /\ UNCHANGED <<stored, counts, seen, alone, spoiled>>

\* Mutant: the first line past the mark is left out.
Harvest_SkipsFirst(p, s) == {i \in batch[p] \ Unreadable : i > seen[p][s] + 1}

\* What the harvest holds for a sink: each line past the mark read for it.
Harvest(p, s) == {i \in batch[p] \ Unreadable : i > seen[p][s]}

Capped(n) == IF n < 2 THEN n + 1 ELSE 2

\* commit(): each sink in a transaction of its own ...
Write(p) ==
    /\ pc[p] = "write"
    /\ credit' = [credit EXCEPT ![at[p]] =
                    [i \in Lines |-> IF i \in Harvest(p, at[p])
                                     THEN Capped(credit[at[p]][i])
                                     ELSE credit[at[p]][i]]]
    /\ Advance(p, "save", 1)
    /\ UNCHANGED <<stored, mark, cleared, locals, alone, spoiled>>

\* Mutant: the number of lines in the batch is saved in place of the last id.
Save_BatchSize(p) ==
    /\ pc[p] = "save"
    /\ mark' = [mark EXCEPT ![at[p]] = Cardinality(batch[p])]
    /\ IF at[p] < NSinks
       THEN Goto(p, "save", at[p] + 1) /\ UNCHANGED locals
       ELSE Return(p)
    /\ UNCHANGED <<stored, credit, cleared, alone, spoiled>>

\* ... and then the watermarks, every one of them set to max_id.
Save(p) ==
    /\ pc[p] = "save"
    /\ mark' = [mark EXCEPT ![at[p]] = top[p]]
    /\ IF at[p] < NSinks
       THEN Goto(p, "save", at[p] + 1) /\ UNCHANGED locals
       ELSE Return(p)
    /\ UNCHANGED <<stored, credit, cleared, alone, spoiled>>

\* An error, a dropped request or a server exit before the next statement.
Abort(p) ==
    /\ Failures
    /\ pc[p] # "idle"
    /\ Return(p)
    /\ spoiled' = TRUE
    /\ UNCHANGED <<stored, counts, alone>>

Pass(p) == \/ Start(p) \/ Clear(p) \/ Rewind(p) \/ ReadMark(p)
           \/ FetchNothing(p) \/ Fetch(p) \/ Write(p) \/ Save(p) \/ Abort(p)

Next == \/ AppendLine
        \/ \E i \in Lines : Discard(i) \/ Restore(i)
        \/ \E p \in Passes : Pass(p)

Spec == Init /\ [][Next]_vars

---------------------------------------------------------------------------
(* Properties.                                                             *)

\* Every line up to n that the tokenizer reads and nobody ever discarded has
\* been given to sink s.
Counted(s, n) == \A i \in 1..n :
    i \in everHidden \cup Unreadable \/ credit[s][i] >= 1

\* A watermark never runs ahead of its sink: whatever interleaving of passes,
\* failures, captures and undos came before, a line at or below a sink's mark
\* is in the sink, so no line is ever skipped for good (ingest.rs commit()
\* writes the sinks before the watermarks).  A rebuild overlapping another
\* pass can break this for the sinks it clears; it never does for word_days.
NoLineLost == \A s \in Sinks \ cleared : Counted(s, mark[s])

\* What makes NoLineLost inductive: the marks a pass read were safe too, its
\* batch has every line it may cross, and the sinks it has written are
\* counted up to max_id.
MarksReadSafe == \A p \in Passes : \A s \in Sinks \ cleared :
    Counted(s, seen[p][s])

BatchComplete == \A p \in Passes : pc[p] \in {"write", "save"} =>
    /\ top[p] <= last
    /\ \A i \in 1..top[p] : \/ i \in everHidden \cup batch[p]
                            \/ \A s \in Sinks : i <= seen[p][s]

WrittenCounted == \A p \in Passes : \A s \in Sinks \ cleared :
    pc[p] = "save" \/ (pc[p] = "write" /\ s < at[p]) => Counted(s, top[p])

ClearsRebuilt == \A p \in Passes : pc[p] \in {"clear", "rewind"} => at[p] \in Rebuilt

IngestInv == TypeOK /\ ClearsRebuilt /\ NoLineLost /\ MarksReadSafe
             /\ BatchComplete /\ WrittenCounted

\* A rebuild that no other pass overlapped leaves the rebuilt sinks holding
\* each line up to max_id exactly once (one discarded meanwhile at most once)
\* and nothing newer, whatever failures and races damaged them before ("rows are recreated from scratch rather than
\* added to, so a second run gives the same numbers").
RebuildIsExact == [][\A p \in Rebuilders :
    pc[p] = "save" /\ pc'[p] = "idle" /\ alone[p] /\ mark' # mark =>
        \A s \in Rebuilt :
            /\ mark'[s] = top[p]
            /\ \A i \in Lines : credit'[s][i] \in
                 IF i > top[p] \/ i \in Unreadable THEN {0}
                 ELSE IF i \in everHidden THEN {0, 1} ELSE {1}]_vars

\* Refreshes one after another, none failing, count no line twice in any sink,
\* whatever is discarded and restored meanwhile.
CountedOnce == spoiled \/ \A s \in Sinks, i \in Lines : credit[s][i] <= 1

\* commit(): "each watermark only moves for the sink that was actually
\* behind", so among such refreshes a mark only ever rises.
MarksOnlyRise == [][\A s \in Sinks :
    mark'[s] # mark[s] => spoiled \/ mark'[s] > mark[s]]_vars
=============================================================================
