------------------------------ MODULE SessionIngest ------------------------------
(***************************************************************************)
(* The ingest of hand-logged sessions that carry their text                *)
(* (ingest_new_sessions over db/sessions.rs).  The pass is the one of      *)
(* LedgerIngest; what differs is the table.  A line is only ever flagged,  *)
(* a session is DELETEd, and `id INTEGER PRIMARY KEY` without              *)
(* AUTOINCREMENT gives the next session the largest id still present plus  *)
(* one, so an id that a watermark has crossed can come back with another   *)
(* text under it.                                                          *)
(*                                                                         *)
(* Passes run one at a time here (LedgerIngest overlaps them) and may end  *)
(* between any two writes; sessions are logged and deleted meanwhile.      *)
(***************************************************************************)
EXTENDS Integers, FiniteSets

CONSTANTS
    NSinks,        \* as in LedgerIngest: 1 is word_days, the rest are rebuilt
    MaxText,       \* bound on the texts ever logged
    MaxId,         \* bound on the ids of manual_sessions
    Failures       \* whether a pass may end early

ASSUME SessionAssumptions ==
    /\ NSinks \in Nat \ {0}
    /\ MaxText \in Nat /\ MaxId \in Nat
    /\ Failures \in BOOLEAN

Sinks   == 1..NSinks
Rebuilt == 2..NSinks
Texts   == 1..MaxText
NoText  == 0                \* logged as pages or a character count

VARIABLES
    rows,      \* manual_sessions: id |-> the text it carries, or NoText
    logged,    \* history: how many texts have been logged
    mark,      \* the sinks' session watermarks
    credit,    \* credit[s][t]: how often sink s was given text t, up to 2
    pc, at,    \* the running pass: the statement, and the sink it is at
    seen,      \* the watermarks it read
    batch,     \* the rows it fetched
    torn,      \* history: sinks cleared whose watermark is not rewound yet
    again,     \* history: ids given out more than once
    used,      \* history: ids ever given out
    broken     \* history: a pass ended early

past == <<again, used>>
vars == <<rows, logged, mark, credit, pc, at, seen, batch, torn, past, broken>>

TypeOK ==
    /\ DOMAIN rows \subseteq 1..MaxId
    /\ \A i \in DOMAIN rows : rows[i] \in {NoText} \cup 1..logged
    /\ logged \in 0..MaxText
    /\ mark \in [Sinks -> 0..MaxId]
    /\ credit \in [Sinks -> [Texts -> 0..2]]
    /\ pc \in {"idle", "clear", "rewind", "write", "save"}
    /\ at \in Sinks
    /\ seen \in [Sinks -> 0..MaxId]
    /\ DOMAIN batch \subseteq 1..MaxId
    /\ torn \subseteq Rebuilt
    /\ again \subseteq used /\ used \subseteq 1..MaxId
    /\ DOMAIN rows \subseteq used
    /\ broken \in BOOLEAN

Zero == [s \in Sinks |-> 0]
None == [i \in {} |-> NoText]

Init ==
    /\ rows = None /\ logged = 0
    /\ mark = Zero
    /\ credit = [s \in Sinks |-> [t \in Texts |-> 0]]
    /\ pc = "idle" /\ at = 1
    /\ seen = Zero /\ batch = None /\ torn = {}
    /\ again = {} /\ used = {} /\ broken = FALSE

Newest(ids) == CHOOSE i \in ids \cup {0} : \A j \in ids : j <= i

---------------------------------------------------------------------------
(* The table.                                                              *)

NewId(ids) == Newest(ids) + 1

Insert(text) ==
    LET id == NewId(DOMAIN rows)
    IN  /\ id <= MaxId
        /\ rows' = [i \in DOMAIN rows \cup {id} |->
                      IF i = id THEN text ELSE rows[i]]
        /\ used' = used \cup {id}
        /\ again' = again \cup (used \cap {id})
        /\ UNCHANGED <<mark, credit, pc, at, seen, batch, torn, broken>>

LogText == /\ logged < MaxText
           /\ logged' = logged + 1
           /\ Insert(logged + 1)

LogCount == Insert(NoText) /\ UNCHANGED logged

Delete(id) ==
    /\ id \in DOMAIN rows
    /\ rows' = [i \in DOMAIN rows \ {id} |-> rows[i]]
    /\ UNCHANGED <<logged, mark, credit, pc, at, seen, batch, torn, past, broken>>

---------------------------------------------------------------------------
(* The pass.                                                               *)

Goto(label, sink) == pc' = label /\ at' = sink
Advance(label, sink) ==
    IF at < NSinks THEN Goto(pc, at + 1) ELSE Goto(label, sink)
Return == Goto("idle", 1) /\ seen' = Zero /\ batch' = None

StartRebuild ==
    /\ pc = "idle" /\ Rebuilt # {}
    /\ Goto("clear", 2)
    /\ UNCHANGED <<rows, logged, mark, credit, seen, batch, torn, past, broken>>

Clear ==
    /\ pc = "clear"
    /\ credit' = [credit EXCEPT ![at] = [t \in Texts |-> 0]]
    /\ torn' = torn \cup {at}
    /\ Advance("rewind", 2)
    /\ UNCHANGED <<rows, logged, mark, seen, batch, past, broken>>

Rewind ==
    /\ pc = "rewind"
    /\ mark' = [mark EXCEPT ![at] = 0]
    /\ torn' = torn \ {at}
    /\ Advance("idle", 1)   \* and on to a pass, like any other
    /\ UNCHANGED <<rows, logged, credit, seen, batch, past, broken>>

\* Rows with content past the least of the marks.
NewSessions == {i \in DOMAIN rows : rows[i] # NoText /\ \E s \in Sinks : i > mark[s]}

\* Nothing else moves a mark while a pass runs, so reading the four marks and
\* fetching the rows is one step here; an empty fetch returns and changes
\* nothing.
Fetch ==
    /\ pc = "idle"
    /\ NewSessions # {}
    /\ seen' = mark
    /\ batch' = [i \in NewSessions |-> rows[i]]
    /\ Goto("write", 1)
    /\ UNCHANGED <<rows, logged, mark, credit, torn, past, broken>>

\* Mutant: every sink is given the whole batch.
Harvest_IgnoresMark(s) == {batch[i] : i \in DOMAIN batch}

Harvest(s) == {batch[i] : i \in {j \in DOMAIN batch : j > seen[s]}}

Write ==
    /\ pc = "write"
    /\ credit' = [credit EXCEPT ![at] =
                    [t \in Texts |-> IF t \in Harvest(at) /\ credit[at][t] < 2
                                     THEN credit[at][t] + 1 ELSE credit[at][t]]]
    /\ Advance("save", 1)
    /\ UNCHANGED <<rows, logged, mark, seen, batch, torn, past, broken>>

\* Mutant: the newest id of the table is saved in place of the batch's.
MaxIdOf_Table == Newest(DOMAIN rows)

MaxIdOf == Newest(DOMAIN batch)

Save ==
    /\ pc = "save"
    /\ mark' = [mark EXCEPT ![at] = MaxIdOf]
    /\ IF at < NSinks THEN Goto("save", at + 1) /\ UNCHANGED <<seen, batch>>
                      ELSE Return
    /\ UNCHANGED <<rows, logged, credit, torn, past, broken>>

Abort ==
    /\ Failures
    /\ pc # "idle"
    /\ Return
    /\ broken' = TRUE
    /\ UNCHANGED <<rows, logged, mark, credit, torn, past>>

Next == \/ LogText \/ LogCount
        \/ \E id \in 1..MaxId : Delete(id)
        \/ StartRebuild \/ Clear \/ Rewind \/ Fetch \/ Write \/ Save \/ Abort

Spec == Init /\ [][Next]_vars

---------------------------------------------------------------------------
(* Properties.                                                             *)

Held(s, i) == i <= mark[s] /\ rows[i] # NoText => credit[s][rows[i]] >= 1

\* A session's text "feeds the same tokenization the live line stream does"
\* (db/sessions.rs): a session whose id a sink's watermark has crossed is in
\* that sink, wherever passes and rebuilds failed and whatever was deleted,
\* unless its id was given out twice or a rebuild stopped between clearing the
\* sink and rewinding its watermark.
SessionsCounted ==
    /\ TypeOK
    /\ \A s \in Sinks \ torn, i \in DOMAIN rows \ again : Held(s, i)

\* Until a pass fails, no text is counted twice in a sink, whatever rebuilds
\* rewound and whatever ids a deletion and the next session reused.
TextCountedOnce == broken \/ \A s \in Sinks, t \in Texts : credit[s][t] <= 1
=============================================================================
