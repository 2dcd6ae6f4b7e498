--------------------------- MODULE LedgerIngestProofs ---------------------------
(***************************************************************************)
(* LedgerIngest for every number of sinks, lines and overlapping passes:   *)
(* its invariant is inductive, so no line is ever skipped for good; while  *)
(* refreshes run one after another no line is counted twice and no         *)
(* watermark falls; and a rebuild that ran alone is exact.                 *)
(***************************************************************************)
EXTENDS LedgerIngest, TLAPS

USE DEF Sinks, Rebuilt, Lines

\* The invariant holds initially: every mark is 0 and 1..0 is empty.
LEMMA InitInv == Init => IngestInv
<1> SUFFICES ASSUME Init PROVE IngestInv
    OBVIOUS
<1> USE NSinksAssumption, MaxLineAssumption DEF Init
<1>1. TypeOK
    <2>1. spoiled \in BOOLEAN
        OBVIOUS
    <2>2. alone \in [Passes -> BOOLEAN]
        OBVIOUS
    <2> QED
        BY <2>1, <2>2 DEF TypeOK, PCs
<1>2. NoLineLost /\ MarksReadSafe
    BY DEF NoLineLost, MarksReadSafe, Counted
<1>3. BatchComplete /\ WrittenCounted /\ ClearsRebuilt
    BY DEF BatchComplete, WrittenCounted, ClearsRebuilt
<1> QED
    BY <1>1, <1>2, <1>3 DEF IngestInv

\* Counted only asks more of a longer prefix.
LEMMA CountedPrefix ==
    ASSUME NEW s \in Sinks, NEW n \in Nat, NEW m \in Nat, m <= n, Counted(s, n)
    PROVE  Counted(s, m)
BY DEF Counted

\* A step of the lines table leaves every pass and every count alone: the
\* lines it hides are excused, the line it appends is past every max_id.
LEMMA StoreStep ==
    ASSUME IngestInv,
           \/ AppendLine
           \/ \E i \in Lines : Discard(i) \/ Restore(i)
    PROVE  IngestInv'
<1> USE NSinksAssumption, MaxLineAssumption, UnreadableAssumption
<1>1. /\ everHidden \subseteq everHidden'
      /\ last <= last'
      /\ UNCHANGED <<mark, credit, cleared, pc, at, seen, batch, top, alone, spoiled>>
      /\ TypeOK'
    <2>1. CASE AppendLine
        BY <2>1 DEF IngestInv, TypeOK, AppendLine, counts, locals
    <2>2. CASE \E i \in Lines : Discard(i)
        BY <2>2 DEF IngestInv, TypeOK, Discard, counts, locals
    <2>3. CASE \E i \in Lines : Restore(i)
        <3> PICK i \in Lines : Restore(i)
            BY <2>3
        <3>1. UNCHANGED <<last, everHidden, mark, credit, cleared,
                          pc, at, seen, batch, top, alone, spoiled>>
            BY DEF Restore, counts, locals
        <3>2. hidden' \subseteq hidden
            BY DEF Restore
        <3>3. TypeOK
            BY DEF IngestInv
        <3>4. /\ hidden' \subseteq 1..last /\ hidden' \subseteq everHidden
              /\ last \in Nat
            BY <3>2, <3>3 DEF TypeOK
        <3>5. TypeOK'
            BY <3>1, <3>3, <3>4 DEF TypeOK
        <3> QED
            BY <3>1, <3>4, <3>5
    <2> QED
        BY <2>1, <2>2, <2>3
<1>2. \A s, n : Counted(s, n) => Counted(s, n)'
    BY <1>1 DEF Counted
<1>3. NoLineLost' /\ MarksReadSafe' /\ WrittenCounted' /\ ClearsRebuilt'
    BY <1>1, <1>2 DEF IngestInv, NoLineLost, MarksReadSafe, WrittenCounted, ClearsRebuilt
<1>4. BatchComplete'
    <2> SUFFICES ASSUME NEW p \in Passes, pc[p] \in {"write", "save"}
                 PROVE  /\ top[p] <= last'
                        /\ \A i \in 1..top[p] : \/ i \in everHidden' \cup batch[p]
                                                \/ \A s \in Sinks : i <= seen[p][s]
        BY <1>1 DEF BatchComplete
    <2> QED
        BY <1>1 DEF IngestInv, BatchComplete, TypeOK
<1> QED
    BY <1>1, <1>3, <1>4 DEF IngestInv

\* Overwriting one value of a function with another of its range.
LEMMA UpdateInRange ==
    ASSUME NEW S, NEW T, NEW f \in [S -> T], NEW x \in S, NEW v \in T
    PROVE  [f EXCEPT ![x] = v] \in [S -> T]
OBVIOUS

\* Returning clears the locals, which asks nothing of the invariant.
LEMMA ReturnStep ==
    ASSUME IngestInv, NEW p \in Passes, Return(p),
           UNCHANGED <<last, hidden, everHidden, credit, cleared, alone>>,
           spoiled' \in BOOLEAN,
           mark' \in [Sinks -> 0..MaxLine],
           \A s \in Sinks \ cleared : Counted(s, mark'[s])
    PROVE  IngestInv'
<1> USE NSinksAssumption, MaxLineAssumption
<1> TypeOK
    BY DEF IngestInv
<1>1. TypeOK'
    <2>1. pc' \in [Passes -> PCs] /\ at' \in [Passes -> Sinks]
        BY DEF TypeOK, PCs, Return, Goto
    <2>2. seen' \in [Passes -> [Sinks -> 0..MaxLine]]
        <3>1. seen \in [Passes -> [Sinks -> 0..MaxLine]]
            BY DEF TypeOK
        <3>2. seen' = [seen EXCEPT ![p] = [s \in Sinks |-> 0]]
            BY DEF Return
        <3>3. [s \in Sinks |-> 0] \in [Sinks -> 0..MaxLine]
            OBVIOUS
        <3> QED
            BY <3>1, <3>2, <3>3, UpdateInRange
    <2>3. batch' \in [Passes -> SUBSET Lines]
        <3>1. batch \in [Passes -> SUBSET Lines]
            BY DEF TypeOK
        <3>2. batch' = [batch EXCEPT ![p] = {}]
            BY DEF Return
        <3>3. {} \in SUBSET Lines
            OBVIOUS
        <3> HIDE DEF Lines
        <3> QED
            BY <3>1, <3>2, <3>3, UpdateInRange
    <2>4. top' \in [Passes -> 0..MaxLine]
        <3>1. top \in [Passes -> 0..MaxLine]
            BY DEF TypeOK
        <3>2. top' = [top EXCEPT ![p] = 0]
            BY DEF Return
        <3>3. 0 \in 0..MaxLine
            OBVIOUS
        <3> QED
            BY <3>1, <3>2, <3>3, UpdateInRange
    <2> QED
        BY <2>1, <2>2, <2>3, <2>4 DEF TypeOK
<1>2. \A s, n : Counted(s, n) => Counted(s, n)'
    BY DEF Counted
<1>3. NoLineLost'
    BY <1>2 DEF NoLineLost
<1>4. \A q \in Passes : seen'[q] = IF q = p THEN [s \in Sinks |-> 0] ELSE seen[q]
    BY DEF TypeOK, Return
<1>5. \A q \in Passes \ {p} : top'[q] = top[q] /\ batch'[q] = batch[q]
    BY DEF TypeOK, Return
<1>6. \A q \in Passes : pc'[q] = IF q = p THEN "idle" ELSE pc[q]
    BY DEF TypeOK, Return, Goto
<1>7. \A q \in Passes \ {p} : at'[q] = at[q]
    BY DEF TypeOK, Return, Goto
<1>8. MarksReadSafe'
    <2> SUFFICES ASSUME NEW q \in Passes, NEW s \in Sinks \ cleared
                 PROVE  Counted(s, seen'[q][s])
        BY <1>2 DEF MarksReadSafe
    <2>1. CASE q = p
        BY <2>1, <1>4 DEF Counted
    <2>2. CASE q # p
        BY <2>2, <1>4 DEF IngestInv, MarksReadSafe
    <2> QED
        BY <2>1, <2>2
<1>9. BatchComplete'
    <2> SUFFICES ASSUME NEW q \in Passes, pc'[q] \in {"write", "save"}
                 PROVE  /\ top'[q] <= last
                        /\ \A i \in 1..top'[q] : \/ i \in everHidden \cup batch'[q]
                                                 \/ \A s \in Sinks : i <= seen'[q][s]
        BY DEF BatchComplete
    <2> q # p /\ pc[q] \in {"write", "save"}
        BY <1>6
    <2> QED
        BY <1>4, <1>5 DEF IngestInv, BatchComplete
<1>10. WrittenCounted'
    <2> SUFFICES ASSUME NEW q \in Passes, NEW s \in Sinks \ cleared,
                        pc'[q] = "save" \/ (pc'[q] = "write" /\ s < at'[q])
                 PROVE  Counted(s, top'[q])
        BY <1>2 DEF WrittenCounted
    <2> q # p /\ pc'[q] = pc[q]
        BY <1>6
    <2> QED
        BY <1>5, <1>7 DEF IngestInv, WrittenCounted
<1>11. ClearsRebuilt'
    BY <1>6, <1>7 DEF IngestInv, ClearsRebuilt
<1> QED
    BY <1>1, <1>3, <1>8, <1>9, <1>10, <1>11 DEF IngestInv

\* Where Goto and Advance leave the passes.
LEMMA GotoFacts ==
    ASSUME TypeOK, NEW p \in Passes, NEW label \in PCs, NEW sink \in Sinks,
           Goto(p, label, sink)
    PROVE  /\ pc' \in [Passes -> PCs]
           /\ at' \in [Passes -> Sinks]
           /\ pc'[p] = label /\ at'[p] = sink
           /\ \A q \in Passes \ {p} : pc'[q] = pc[q] /\ at'[q] = at[q]
BY DEF TypeOK, Goto

\* Where a pass goes next, and that no other moves.
LEMMA AdvanceFacts ==
    ASSUME TypeOK, NEW p \in Passes, NEW label \in PCs, NEW sink \in Sinks,
           Advance(p, label, sink)
    PROVE  /\ pc' \in [Passes -> PCs]
           /\ at' \in [Passes -> Sinks]
           /\ \A q \in Passes \ {p} : pc'[q] = pc[q] /\ at'[q] = at[q]
           /\ \/ at[p] < NSinks /\ pc'[p] = pc[p] /\ at'[p] = at[p] + 1
              \/ at[p] = NSinks /\ pc'[p] = label /\ at'[p] = sink
<1> at[p] \in Sinks /\ pc[p] \in PCs
    BY DEF TypeOK
<1>1. CASE at[p] < NSinks
    <2> at[p] + 1 \in Sinks
        BY <1>1, NSinksAssumption
    <2> Goto(p, pc[p], at[p] + 1)
        BY <1>1 DEF Advance
    <2> HIDE DEF Sinks
    <2> QED
        BY <1>1, GotoFacts
<1>2. CASE ~(at[p] < NSinks)
    <2> at[p] = NSinks
        BY <1>2, NSinksAssumption
    <2> Goto(p, label, sink)
        BY <1>2 DEF Advance
    <2> HIDE DEF Sinks
    <2> QED
        BY GotoFacts
<1> QED
    BY <1>1, <1>2

\* A pass that only moves, or that reads a mark, leaves every count alone;
\* what it read is safe because the mark it read was.
LEMMA MoveStep ==
    ASSUME IngestInv, NEW p \in Passes, Start(p) \/ ReadMark(p)
    PROVE  IngestInv'
<1> USE NSinksAssumption, MaxLineAssumption
<1> TypeOK
    BY DEF IngestInv
<1>1. /\ UNCHANGED <<last, hidden, everHidden, mark, credit, cleared, batch, top>>
      /\ alone' \in [Passes -> BOOLEAN]
      /\ spoiled' \in BOOLEAN
    BY DEF Start, ReadMark, stored, counts, locals, TypeOK
<1>2. /\ pc' \in [Passes -> PCs] /\ at' \in [Passes -> Sinks]
      /\ pc'[p] \notin {"write", "save"}
      /\ pc'[p] \in {"clear", "rewind"} => at'[p] \in Rebuilt
      /\ \A q \in Passes \ {p} : pc'[q] = pc[q] /\ at'[q] = at[q]
    <2>1. CASE Start(p)
        <3>1. CASE p \in Rebuilders /\ Rebuilt # {}
            <4> 2 \in Sinks /\ 2 \in Rebuilt /\ "clear" \in PCs /\ Goto(p, "clear", 2)
                BY <2>1, <3>1 DEF Start, PCs
            <4> HIDE DEF Sinks, Rebuilt
            <4> QED
                BY GotoFacts
        <3>2. CASE ~(p \in Rebuilders /\ Rebuilt # {})
            <4> 1 \in Sinks /\ "marks" \in PCs /\ Goto(p, "marks", 1)
                BY <2>1, <3>2 DEF Start, PCs
            <4> HIDE DEF Sinks, Rebuilt
            <4> QED
                BY GotoFacts
        <3> QED
            BY <3>1, <3>2
    <2>2. CASE ReadMark(p)
        <3> 1 \in Sinks /\ "fetch" \in PCs /\ Advance(p, "fetch", 1) /\ pc[p] = "marks"
            BY <2>2 DEF ReadMark, PCs
        <3> HIDE DEF Sinks, Rebuilt
        <3> QED
            BY AdvanceFacts
    <2> QED
        BY <2>1, <2>2
<1>3. /\ seen' \in [Passes -> [Sinks -> 0..MaxLine]]
      /\ \A q \in Passes \ {p} : seen'[q] = seen[q]
      /\ \A s \in Sinks : seen'[p][s] \in {seen[p][s], mark[s]}
    <2>1. CASE Start(p)
        BY <2>1 DEF Start, locals, TypeOK
    <2>2. CASE ReadMark(p)
        BY <2>2 DEF ReadMark, TypeOK
    <2> QED
        BY <2>1, <2>2
<1>4. TypeOK'
    BY <1>1, <1>2, <1>3 DEF TypeOK
<1>5. \A s, n : Counted(s, n) => Counted(s, n)'
    BY <1>1 DEF Counted
<1>6. NoLineLost' /\ ClearsRebuilt'
    BY <1>1, <1>2, <1>5 DEF IngestInv, NoLineLost, ClearsRebuilt
<1>7. MarksReadSafe'
    BY <1>1, <1>3, <1>5 DEF IngestInv, NoLineLost, MarksReadSafe
<1>8. BatchComplete'
    BY <1>1, <1>2, <1>3 DEF IngestInv, BatchComplete
<1>9. WrittenCounted'
    BY <1>1, <1>2, <1>5 DEF IngestInv, WrittenCounted
<1> QED
    BY <1>4, <1>6, <1>7, <1>8, <1>9 DEF IngestInv

\* A rebuild clearing a table takes that sink out of the promise, and one
\* rewinding a watermark only shortens the prefix promised.
LEMMA ResetStep ==
    ASSUME IngestInv, NEW p \in Passes, Clear(p) \/ Rewind(p)
    PROVE  IngestInv'
<1> USE NSinksAssumption, MaxLineAssumption
<1> TypeOK
    BY DEF IngestInv
<1>1. at[p] \in Rebuilt /\ at[p] \in Sinks
    BY DEF IngestInv, ClearsRebuilt, Clear, Rewind
<1>2. UNCHANGED <<last, hidden, everHidden, seen, batch, top, alone, spoiled>>
    BY DEF Clear, Rewind, stored, locals
<1>3. /\ cleared \subseteq cleared' /\ cleared' \subseteq Rebuilt
      /\ mark' \in [Sinks -> 0..MaxLine]
      /\ credit' \in [Sinks -> [Lines -> 0..2]]
      /\ \A s \in Sinks \ cleared' : credit'[s] = credit[s] /\ mark'[s] \in {0, mark[s]}
    <2>1. CASE Clear(p)
        <3>1. /\ cleared' = cleared \cup {at[p]} /\ mark' = mark
              /\ credit' = [credit EXCEPT ![at[p]] = [i \in Lines |-> 0]]
            BY <2>1 DEF Clear
        <3>2. credit' \in [Sinks -> [Lines -> 0..2]]
            BY <1>1, <3>1 DEF TypeOK
        <3>3. \A s \in Sinks \ cleared' : credit'[s] = credit[s]
            BY <1>1, <3>1 DEF TypeOK
        <3> QED
            BY <1>1, <3>1, <3>2, <3>3 DEF TypeOK
    <2>2. CASE Rewind(p)
        BY <1>1, <2>2 DEF Rewind, TypeOK
    <2> QED
        BY <2>1, <2>2
<1>4. /\ pc' \in [Passes -> PCs] /\ at' \in [Passes -> Sinks]
      /\ pc'[p] \notin {"write", "save"}
      /\ pc'[p] \in {"clear", "rewind"} => at'[p] \in Rebuilt
      /\ \A q \in Passes \ {p} : pc'[q] = pc[q] /\ at'[q] = at[q]
    <2> PICK label \in PCs, k \in {1, 2} :
            /\ Advance(p, label, k)
            /\ pc[p] \in {"clear", "rewind"}
            /\ <<label, k>> \in {<<"rewind", 2>>, <<"marks", 1>>}
        <3> USE DEF PCs
        <3>1. CASE Clear(p)
            <4> WITNESS "rewind" \in PCs, 2 \in {1, 2}
            <4> QED
                BY <3>1 DEF Clear
        <3>2. CASE Rewind(p)
            <4> WITNESS "marks" \in PCs, 1 \in {1, 2}
            <4> QED
                BY <3>2 DEF Rewind
        <3> QED
            BY <3>1, <3>2
    <2> k \in Sinks /\ (k = 2 => k \in Rebuilt)
        BY <1>1
    <2> \/ at[p] < NSinks /\ pc'[p] = pc[p] /\ at'[p] = at[p] + 1
        \/ at[p] = NSinks /\ pc'[p] = label /\ at'[p] = k
        <3> HIDE DEF Sinks, Rebuilt
        <3> QED
            BY AdvanceFacts
    <2> /\ pc' \in [Passes -> PCs] /\ at' \in [Passes -> Sinks]
        /\ \A q \in Passes \ {p} : pc'[q] = pc[q] /\ at'[q] = at[q]
        <3> HIDE DEF Sinks, Rebuilt
        <3> QED
            BY AdvanceFacts
    <2> QED
        BY <1>1
<1>5. TypeOK'
    BY <1>2, <1>3, <1>4 DEF TypeOK
<1>6. \A n : \A s \in Sinks \ cleared' : Counted(s, n) => Counted(s, n)'
    BY <1>2, <1>3 DEF Counted
<1>7. NoLineLost'
    <2> SUFFICES ASSUME NEW s \in Sinks \ cleared'
                 PROVE  Counted(s, mark'[s])
        BY <1>6 DEF NoLineLost
    <2>1. CASE mark'[s] = 0
        BY <2>1 DEF Counted
    <2>2. CASE mark'[s] = mark[s]
        BY <1>3, <2>2 DEF IngestInv, NoLineLost
    <2> QED
        BY <1>3, <2>1, <2>2
<1>8. MarksReadSafe'
    BY <1>2, <1>3, <1>6 DEF IngestInv, MarksReadSafe
<1>9. BatchComplete' /\ ClearsRebuilt'
    BY <1>2, <1>4 DEF IngestInv, BatchComplete, ClearsRebuilt
<1>10. WrittenCounted'
    BY <1>2, <1>3, <1>4, <1>6 DEF IngestInv, WrittenCounted
<1> QED
    BY <1>5, <1>7, <1>8, <1>9, <1>10 DEF IngestInv

\* A fetch takes every line it may cross that is not below all its marks.
LEMMA FetchStep ==
    ASSUME IngestInv, NEW p \in Passes, Fetch(p)
    PROVE  IngestInv'
<1> USE NSinksAssumption, MaxLineAssumption
<1> TypeOK
    BY DEF IngestInv
<1>1. UNCHANGED <<last, hidden, everHidden, mark, credit, cleared, seen, alone, spoiled>>
    BY DEF Fetch, stored, counts
<1>2. PICK newest \in NewLines(p) :
        /\ \A i \in NewLines(p) : i <= newest
        /\ top' = [top EXCEPT ![p] = newest]
    BY DEF Fetch
<1>3. /\ batch' = [batch EXCEPT ![p] = NewLines(p)]
      /\ Goto(p, "write", 1)
    BY DEF Fetch
<1>4. NewLines(p) \subseteq 1..last /\ 1..last \subseteq Lines
    BY DEF NewLines, TypeOK
<1>5. /\ pc' \in [Passes -> PCs] /\ at' \in [Passes -> Sinks]
      /\ pc'[p] = "write" /\ at'[p] = 1
      /\ \A q \in Passes \ {p} : pc'[q] = pc[q] /\ at'[q] = at[q]
    <2> 1 \in Sinks /\ "write" \in PCs
        BY DEF PCs
    <2> HIDE DEF Sinks
    <2> QED
        BY <1>3, GotoFacts
<1>6. /\ top' \in [Passes -> 0..MaxLine]
      /\ top'[p] = newest
      /\ \A q \in Passes \ {p} : top'[q] = top[q]
    <2> newest \in 0..MaxLine
        BY <1>4
    <2> QED
        BY <1>2 DEF TypeOK
<1>7. /\ batch' \in [Passes -> SUBSET Lines]
      /\ batch'[p] = NewLines(p)
      /\ \A q \in Passes \ {p} : batch'[q] = batch[q]
    <2> batch \in [Passes -> SUBSET Lines] /\ NewLines(p) \in SUBSET Lines
        BY <1>4 DEF TypeOK
    <2> QED
        BY <1>3
<1>8. TypeOK'
    BY <1>1, <1>5, <1>6, <1>7 DEF TypeOK
<1>9. \A s, n : Counted(s, n) => Counted(s, n)'
    BY <1>1 DEF Counted
<1>10. NoLineLost' /\ MarksReadSafe'
    BY <1>1, <1>9 DEF IngestInv, NoLineLost, MarksReadSafe
<1>11. BatchComplete'
    <2> SUFFICES ASSUME NEW q \in Passes, pc'[q] \in {"write", "save"}
                 PROVE  /\ top'[q] <= last
                        /\ \A i \in 1..top'[q] : \/ i \in everHidden \cup batch'[q]
                                                 \/ \A s \in Sinks : i <= seen[q][s]
        BY <1>1 DEF BatchComplete
    <2>1. CASE q = p
        <3>1. newest <= last
            BY <1>4 DEF TypeOK
        <3>2. ASSUME NEW i \in 1..newest,
                     i \notin everHidden,
                     NEW s \in Sinks, ~(i <= seen[p][s])
              PROVE  i \in NewLines(p)
            <4> seen[p][s] \in 0..MaxLine
                BY DEF TypeOK
            <4> last \in 0..MaxLine
                BY DEF TypeOK
            <4> newest \in 1..last
                BY <1>4
            <4> i \in 1..last /\ i > seen[p][s]
                BY <3>1, <3>2
            <4> i \notin hidden
                BY <3>2 DEF TypeOK
            <4> i \in (1..last) \ hidden
                OBVIOUS
            <4> QED
                BY Zenon DEF NewLines
        <3> QED
            BY <2>1, <3>1, <3>2, <1>6, <1>7
    <2>2. CASE q # p
        BY <2>2, <1>5, <1>6, <1>7 DEF IngestInv, BatchComplete
    <2> QED
        BY <2>1, <2>2
<1>12. WrittenCounted'
    <2> SUFFICES ASSUME NEW q \in Passes, NEW s \in Sinks \ cleared,
                        \/ pc'[q] = "save"
                        \/ pc'[q] = "write" /\ s < at'[q]
                 PROVE  Counted(s, top'[q])
        BY <1>1, <1>9 DEF WrittenCounted
    <2> q # p
        BY <1>5
    <2> QED
        BY <1>5, <1>6 DEF IngestInv, WrittenCounted
<1>13. ClearsRebuilt'
    BY <1>5 DEF IngestInv, ClearsRebuilt
<1> QED
    BY <1>8, <1>10, <1>11, <1>12, <1>13 DEF IngestInv

\* Credits only rise when a sink is written ...
LEMMA WriteRaises ==
    ASSUME TypeOK, NEW p \in Passes, Write(p)
    PROVE  /\ credit' \in [Sinks -> [Lines -> 0..2]]
           /\ \A s \in Sinks, i \in Lines : credit'[s][i] >= credit[s][i]
           /\ \A i \in Harvest(p, at[p]) \cap Lines : credit'[at[p]][i] >= 1
<1> DEFINE new == [i \in Lines |-> IF i \in Harvest(p, at[p])
                                   THEN Capped(credit[at[p]][i])
                                   ELSE credit[at[p]][i]]
<1>1. at[p] \in Sinks /\ credit \in [Sinks -> [Lines -> 0..2]]
    BY DEF TypeOK
<1>2. credit' = [credit EXCEPT ![at[p]] = new]
    BY DEF Write
<1>3. \A i \in Lines : /\ new[i] \in 0..2
                       /\ new[i] >= credit[at[p]][i]
                       /\ i \in Harvest(p, at[p]) => new[i] >= 1
    <2> TAKE i \in Lines
    <2> credit[at[p]][i] \in 0..2
        BY <1>1
    <2> QED
        BY DEF Capped
<1>4. new \in [Lines -> 0..2]
    BY <1>3
<1> HIDE DEF new
<1>5. credit' \in [Sinks -> [Lines -> 0..2]]
    BY <1>1, <1>2, <1>4
<1>6. ASSUME NEW s \in Sinks, NEW i \in Lines
      PROVE  credit'[s][i] >= credit[s][i]
    <2> credit[s][i] \in 0..2
        BY <1>1
    <2> CASE s = at[p]
        BY <1>1, <1>2, <1>3
    <2> CASE s # at[p]
        BY <1>1, <1>2
    <2> QED
        OBVIOUS
<1> QED
    BY <1>1, <1>2, <1>3, <1>5, <1>6

\* ... so a sink that has been written holds everything up to max_id that is
\* above the mark read for it, and MarksReadSafe covers the rest.
LEMMA WriteStep ==
    ASSUME IngestInv, NEW p \in Passes, Write(p)
    PROVE  IngestInv'
<1> USE NSinksAssumption, MaxLineAssumption
<1> TypeOK
    BY DEF IngestInv
<1>1. UNCHANGED <<last, hidden, everHidden, mark, cleared, seen, batch, top, alone, spoiled>>
    BY DEF Write, stored, locals
<1>2. /\ pc[p] = "write" /\ at[p] \in Sinks
      /\ pc' \in [Passes -> PCs] /\ at' \in [Passes -> Sinks]
      /\ \A q \in Passes \ {p} : pc'[q] = pc[q] /\ at'[q] = at[q]
      /\ \/ at[p] < NSinks /\ pc'[p] = "write" /\ at'[p] = at[p] + 1
         \/ at[p] = NSinks /\ pc'[p] = "save" /\ at'[p] = 1
    <2> /\ 1 \in Sinks /\ "save" \in PCs /\ at[p] \in Sinks
        /\ Advance(p, "save", 1) /\ pc[p] = "write"
        BY DEF Write, TypeOK, PCs
    <2> HIDE DEF Sinks
    <2> QED
        BY AdvanceFacts
<1>3. TypeOK'
    BY <1>1, <1>2, WriteRaises DEF TypeOK
<1>4. ASSUME NEW s \in Sinks, NEW n \in 0..MaxLine, Counted(s, n)
      PROVE  Counted(s, n)'
    <2> SUFFICES ASSUME NEW i \in 1..n, i \notin everHidden \cup Unreadable
                 PROVE  credit'[s][i] >= 1
        BY <1>1 DEF Counted
    <2>1. i \in Lines
        OBVIOUS
    <2>2. credit[s][i] \in 0..2
        BY <2>1 DEF TypeOK
    <2>3. credit'[s][i] \in 0..2
        BY <2>1, WriteRaises
    <2>4. credit[s][i] >= 1
        BY <1>4 DEF Counted
    <2> QED
        BY <2>1, <2>2, <2>3, <2>4, WriteRaises
<1>5. NoLineLost' /\ MarksReadSafe'
    <2>1. ASSUME NEW s \in Sinks \ cleared
          PROVE  Counted(s, mark[s])'
        <3> mark[s] \in 0..MaxLine /\ Counted(s, mark[s])
            BY DEF TypeOK, IngestInv, NoLineLost
        <3> QED
            BY <1>1, <1>4
    <2>2. ASSUME NEW q \in Passes, NEW s \in Sinks \ cleared
          PROVE  Counted(s, seen[q][s])'
        <3> seen[q][s] \in 0..MaxLine /\ Counted(s, seen[q][s])
            BY DEF TypeOK, IngestInv, MarksReadSafe
        <3> QED
            BY <1>1, <1>4
    <2> QED
        BY <1>1, <2>1, <2>2 DEF NoLineLost, MarksReadSafe
<1>6. BatchComplete' /\ ClearsRebuilt'
    BY <1>1, <1>2 DEF IngestInv, BatchComplete, ClearsRebuilt
<1>7. ASSUME NEW s \in Sinks \ cleared, s = at[p]
      PROVE  Counted(s, top[p])'
    <2> SUFFICES ASSUME NEW i \in 1..top[p], i \notin everHidden \cup Unreadable
                 PROVE  credit'[s][i] >= 1
        BY <1>1 DEF Counted
    <2>1. top[p] \in 0..MaxLine /\ seen[p][s] \in 0..MaxLine
        BY DEF TypeOK
    <2>2. i \in Lines
        BY <2>1
    <2>3. CASE i <= seen[p][s]
        <3>1. i \in 1..seen[p][s]
            BY <2>1, <2>3
        <3>2. credit[s][i] >= 1
            BY <3>1 DEF IngestInv, MarksReadSafe, Counted
        <3>3. credit[s][i] \in 0..2
            BY <2>2 DEF TypeOK
        <3>4. credit'[s][i] \in 0..2
            BY <2>2, WriteRaises
        <3> QED
            BY <2>2, <3>2, <3>3, <3>4, WriteRaises
    <2>4. CASE ~(i <= seen[p][s])
        <3> i \in batch[p]
            BY <1>2, <2>4 DEF IngestInv, BatchComplete
        <3> i \in Harvest(p, at[p])
            BY <2>1, <2>4, <1>7 DEF Harvest
        <3> QED
            BY <2>2, <1>7, WriteRaises
    <2> QED
        BY <2>3, <2>4
<1>8. WrittenCounted'
    <2> SUFFICES ASSUME NEW q \in Passes, NEW s \in Sinks \ cleared,
                        \/ pc'[q] = "save"
                        \/ pc'[q] = "write" /\ s < at'[q]
                 PROVE  Counted(s, top[q])'
        BY <1>1 DEF WrittenCounted
    <2> top[q] \in 0..MaxLine
        BY DEF TypeOK
    <2>1. CASE q = p
        <3>1. CASE s = at[p]
            BY <2>1, <3>1, <1>7
        <3>2. CASE s # at[p]
            <4> s < at[p]
                BY <2>1, <3>2, <1>2
            <4> Counted(s, top[p])
                BY <1>2 DEF IngestInv, WrittenCounted
            <4> QED
                BY <2>1, <1>4, <1>1
        <3> QED
            BY <3>1, <3>2
    <2>2. CASE q # p
        <3> Counted(s, top[q])
            BY <2>2, <1>2 DEF IngestInv, WrittenCounted
        <3> QED
            BY <1>1, <1>4
    <2> QED
        BY <2>1, <2>2
<1> QED
    BY <1>3, <1>5, <1>6, <1>8 DEF IngestInv

\* Saving a watermark is safe because every sink was written first.
LEMMA SaveStep ==
    ASSUME IngestInv, NEW p \in Passes, Save(p)
    PROVE  IngestInv'
<1> USE NSinksAssumption, MaxLineAssumption
<1> TypeOK
    BY DEF IngestInv
<1>1. /\ UNCHANGED <<last, hidden, everHidden, credit, cleared, alone, spoiled>>
      /\ pc[p] = "save" /\ at[p] \in Sinks
      /\ mark' = [mark EXCEPT ![at[p]] = top[p]]
    BY DEF Save, stored, TypeOK
<1>2. mark' \in [Sinks -> 0..MaxLine]
    <2> mark \in [Sinks -> 0..MaxLine] /\ top[p] \in 0..MaxLine
        BY DEF TypeOK
    <2> QED
        BY <1>1
<1>3. ASSUME NEW s \in Sinks \ cleared
      PROVE  Counted(s, mark'[s])
    <2>1. CASE s = at[p]
        <3> mark'[s] = top[p]
            BY <1>1, <2>1 DEF TypeOK
        <3> QED
            BY <1>1 DEF IngestInv, WrittenCounted
    <2>2. CASE s # at[p]
        <3> mark'[s] = mark[s]
            BY <1>1, <2>2 DEF TypeOK
        <3> QED
            BY DEF IngestInv, NoLineLost
    <2> QED
        BY <2>1, <2>2
<1>4. CASE at[p] < NSinks
    <2>1. Goto(p, "save", at[p] + 1) /\ UNCHANGED <<seen, batch, top>>
        BY <1>4 DEF Save, locals
    <2>2. /\ pc' \in [Passes -> PCs] /\ at' \in [Passes -> Sinks]
          /\ pc'[p] = "save"
          /\ \A q \in Passes \ {p} : pc'[q] = pc[q] /\ at'[q] = at[q]
        <3> at[p] + 1 \in Sinks /\ "save" \in PCs
            BY <1>1, <1>4 DEF PCs
        <3> HIDE DEF Sinks
        <3> QED
            BY <2>1, GotoFacts
    <2>3. TypeOK'
        BY <1>1, <1>2, <2>1, <2>2 DEF TypeOK
    <2>4. \A s, n : Counted(s, n) => Counted(s, n)'
        BY <1>1 DEF Counted
    <2>5. NoLineLost'
        BY <1>1, <1>3, <2>4 DEF NoLineLost
    <2>6. MarksReadSafe'
        BY <1>1, <2>1, <2>4 DEF IngestInv, MarksReadSafe
    <2>7. BatchComplete' /\ ClearsRebuilt'
        BY <1>1, <2>1, <2>2 DEF IngestInv, BatchComplete, ClearsRebuilt
    <2>8. WrittenCounted'
        BY <1>1, <2>1, <2>2, <2>4 DEF IngestInv, WrittenCounted
    <2> QED
        BY <2>3, <2>5, <2>6, <2>7, <2>8 DEF IngestInv
<1>5. CASE ~(at[p] < NSinks)
    <2> Return(p)
        BY <1>5 DEF Save
    <2> spoiled' \in BOOLEAN
        BY <1>1 DEF TypeOK
    <2> QED
        BY <1>1, <1>2, <1>3, ReturnStep
<1> QED
    BY <1>4, <1>5

\* A pass with nothing to do, or cut short, keeps the counts as they are.
LEMMA EndStep ==
    ASSUME IngestInv, NEW p \in Passes, FetchNothing(p) \/ Abort(p)
    PROVE  IngestInv'
<1>1. /\ Return(p)
      /\ UNCHANGED <<last, hidden, everHidden, mark, credit, cleared, alone>>
      /\ spoiled' \in BOOLEAN
    BY DEF FetchNothing, Abort, stored, counts, IngestInv, TypeOK
<1>2. mark' \in [Sinks -> 0..MaxLine]
    BY <1>1 DEF IngestInv, TypeOK
<1>3. \A s \in Sinks \ cleared : Counted(s, mark'[s])
    BY <1>1 DEF IngestInv, NoLineLost
<1> QED
    BY <1>1, <1>2, <1>3, ReturnStep

\* IngestInv holds in every reachable state, for every number of sinks, lines
\* and overlapping passes: it is what every step of ingest.rs keeps.
THEOREM IngestInvariant == Spec => []IngestInv
<1>1. IngestInv /\ [Next]_vars => IngestInv'
    <2> SUFFICES ASSUME IngestInv, [Next]_vars
                 PROVE  IngestInv'
        OBVIOUS
    <2>1. CASE AppendLine \/ \E i \in Lines : Discard(i) \/ Restore(i)
        BY <2>1, StoreStep
    <2>2. ASSUME NEW p \in Passes, Pass(p)
          PROVE  IngestInv'
        BY <2>2, MoveStep, ResetStep, FetchStep, WriteStep, SaveStep, EndStep DEF Pass
    <2>3. CASE UNCHANGED vars
        BY <2>3 DEF vars, IngestInv, TypeOK, NoLineLost, MarksReadSafe, BatchComplete,
                    WrittenCounted, ClearsRebuilt, Counted
    <2> QED
        BY <2>1, <2>2, <2>3 DEF Next
<1> QED
    BY <1>1, InitInv, PTL DEF Spec

\* Every variable keeps its type.
THEOREM TypeCorrect == Spec => []TypeOK
<1>1. IngestInv => TypeOK
    BY DEF IngestInv
<1> QED
    BY <1>1, IngestInvariant, PTL

\* No line is ever skipped for good by a sink no rebuild has cleared: whatever
\* passes overlap, wherever they fail and whatever is captured, discarded and
\* restored meanwhile, a line at or below a sink's watermark is in the sink.
THEOREM LinesNeverLost == Spec => []NoLineLost
<1>1. IngestInv => NoLineLost
    BY DEF IngestInv
<1> QED
    BY <1>1, IngestInvariant, PTL

---------------------------------------------------------------------------
(* Refreshes one after another.                                            *)

\* Pass p has given sink s its share of the batch.
Written(p, s) == pc[p] = "save" \/ (pc[p] = "write" /\ s < at[p])

\* At most one pass runs, and none of them resets a sink.
OnePass ==
    /\ \A p, q \in Passes : pc[p] # "idle" /\ pc[q] # "idle" => p = q
    /\ \A p \in Passes : pc[p] \notin {"clear", "rewind"}

\* All watermarks are the same line, except while a pass is saving them.
MarksTogether ==
    \/ \E p \in Passes : pc[p] = "save"
    \/ \A s, t \in Sinks : mark[s] = mark[t]

\* The marks a pass has read are the sinks' marks still, until it saves its
\* own, and that one is past each of them.
MarksCurrent == \A p \in Passes, s \in Sinks :
    /\ pc[p] = "marks" /\ s < at[p] => seen[p][s] = mark[s]
    /\ pc[p] \in {"fetch", "write"} => seen[p][s] = mark[s]
    /\ pc[p] = "save" => mark[s] = IF s < at[p] THEN top[p] ELSE seen[p][s]
    /\ pc[p] \in {"write", "save"} => seen[p][s] < top[p]

BatchBelowTop == \A p \in Passes :
    pc[p] \in {"write", "save"} => \A i \in batch[p] : i <= top[p]

\* A line is in a sink once, and only if it is below the sink's mark or the
\* running pass has just written it.
CreditOnce == \A s \in Sinks, i \in Lines :
    /\ credit[s][i] <= 1
    /\ credit[s][i] = 1 => \/ i <= mark[s]
                           \/ \E p \in Passes : Written(p, s) /\ i <= top[p]

Solo == OnePass /\ MarksTogether /\ MarksCurrent /\ BatchBelowTop /\ CreditOnce

SoloInv == spoiled \/ Solo

\* While one pass is under way every other one is idle.
LEMMA OthersIdle ==
    ASSUME Solo, NEW p \in Passes, pc[p] # "idle"
    PROVE  \A q \in Passes \ {p} : pc[q] = "idle"
BY DEF Solo, OnePass

\* What a step of pass p has to show when every other pass is idle after it.
LEMMA SoloStep ==
    ASSUME NEW p \in Passes,
           pc'[p] \notin {"clear", "rewind"},
           \A q \in Passes \ {p} : pc'[q] = "idle",
           MarksTogether',
           \A s \in Sinks :
              /\ pc'[p] = "marks" /\ s < at'[p] => seen'[p][s] = mark'[s]
              /\ pc'[p] \in {"fetch", "write"} => seen'[p][s] = mark'[s]
              /\ pc'[p] = "save" => mark'[s] = IF s < at'[p] THEN top'[p] ELSE seen'[p][s]
              /\ pc'[p] \in {"write", "save"} => seen'[p][s] < top'[p],
           pc'[p] \in {"write", "save"} => \A i \in batch'[p] : i <= top'[p],
           CreditOnce'
    PROVE  Solo'
<1>1. \A q \in Passes : pc'[q] # "idle" => q = p
    OBVIOUS
<1>2. OnePass'
    BY <1>1 DEF OnePass
<1>3. MarksCurrent'
    BY <1>1 DEF MarksCurrent
<1>4. BatchBelowTop'
    BY <1>1 DEF BatchBelowTop
<1> QED
    BY <1>2, <1>3, <1>4 DEF Solo

\* Nothing here looks at the line table.
LEMMA SoloUnchanged ==
    ASSUME Solo, UNCHANGED <<pc, at, mark, credit, seen, batch, top>>
    PROVE  Solo'
BY DEF Solo, OnePass, MarksTogether, MarksCurrent, BatchBelowTop, CreditOnce, Written

\* A refresh that no other pass overlaps starts from marks that are all equal.
LEMMA StartSolo ==
    ASSUME TypeOK, Solo, NEW p \in Passes, Start(p), ~spoiled'
    PROVE  Solo'
<1>1. /\ UNCHANGED <<mark, credit, seen, batch, top>>
      /\ \A q \in Passes : pc[q] = "idle"
      /\ p \notin Rebuilders
    BY DEF Start, counts, locals
<1>2. /\ pc'[p] = "marks" /\ at'[p] = 1
      /\ \A q \in Passes \ {p} : pc'[q] = pc[q]
    <2> 1 \in Sinks /\ "marks" \in PCs /\ Goto(p, "marks", 1)
        BY <1>1, NSinksAssumption DEF Start, PCs
    <2> HIDE DEF Sinks
    <2> QED
        BY GotoFacts
<1>3. MarksTogether'
    BY <1>1 DEF Solo, MarksTogether
<1>4. CreditOnce'
    <2> SUFFICES ASSUME NEW s \in Sinks, NEW i \in Lines
                 PROVE  credit[s][i] <= 1 /\ (credit[s][i] = 1 => i <= mark[s])
        BY <1>1 DEF CreditOnce
    <2> QED
        BY <1>1 DEF Solo, CreditOnce, Written
<1> QED
    BY <1>1, <1>2, <1>3, <1>4, SoloStep, NSinksAssumption

\* The mark a pass reads is still the sink's when it reads the next one.
LEMMA ReadMarkSolo ==
    ASSUME TypeOK, Solo, NEW p \in Passes, ReadMark(p)
    PROVE  Solo'
<1> USE NSinksAssumption
<1>1. /\ UNCHANGED <<mark, credit, batch, top>>
      /\ pc[p] = "marks" /\ at[p] \in Sinks
      /\ \A q \in Passes \ {p} : pc[q] = "idle"
    BY OthersIdle DEF ReadMark, counts, TypeOK
<1>2. /\ \A q \in Passes \ {p} : pc'[q] = pc[q] /\ at'[q] = at[q]
      /\ \/ at[p] < NSinks /\ pc'[p] = "marks" /\ at'[p] = at[p] + 1
         \/ at[p] = NSinks /\ pc'[p] = "fetch" /\ at'[p] = 1
    <2> 1 \in Sinks /\ "fetch" \in PCs /\ Advance(p, "fetch", 1)
        BY DEF ReadMark, PCs
    <2> HIDE DEF Sinks
    <2> QED
        BY <1>1, AdvanceFacts
<1>3. \A s \in Sinks : seen'[p][s] = IF s = at[p] THEN mark[s] ELSE seen[p][s]
    BY <1>1 DEF ReadMark, TypeOK
<1>4. \A s \in Sinks : s < at[p] => seen[p][s] = mark[s]
    BY <1>1 DEF Solo, MarksCurrent
<1>5. \A s \in Sinks : /\ pc'[p] = "marks" /\ s < at'[p] => seen'[p][s] = mark[s]
                       /\ pc'[p] = "fetch" => seen'[p][s] = mark[s]
    BY <1>1, <1>2, <1>3, <1>4
<1>6. pc'[p] \in {"marks", "fetch"}
    BY <1>2
<1>7. MarksTogether'
    <2> \A q \in Passes : pc[q] # "save"
        BY <1>1
    <2> QED
        BY <1>1 DEF Solo, MarksTogether
<1>8. CreditOnce'
    <2> SUFFICES ASSUME NEW s \in Sinks, NEW i \in Lines
                 PROVE  credit[s][i] <= 1 /\ (credit[s][i] = 1 => i <= mark[s])
        BY <1>1 DEF CreditOnce
    <2> QED
        BY <1>1 DEF Solo, CreditOnce, Written
<1> QED
    BY <1>1, <1>2, <1>5, <1>6, <1>7, <1>8, SoloStep

\* A pass that fetches past one mark fetches past all of them.
LEMMA FetchSolo ==
    ASSUME TypeOK, Solo, NEW p \in Passes, Fetch(p)
    PROVE  Solo'
<1> USE NSinksAssumption, MaxLineAssumption
<1>1. /\ UNCHANGED <<mark, credit, seen>>
      /\ pc[p] = "fetch" /\ Goto(p, "write", 1)
      /\ \A q \in Passes \ {p} : pc[q] = "idle"
    BY OthersIdle DEF Fetch, counts
<1>2. /\ pc'[p] = "write" /\ at'[p] = 1
      /\ \A q \in Passes \ {p} : pc'[q] = pc[q]
    <2> 1 \in Sinks /\ "write" \in PCs
        BY DEF PCs
    <2> HIDE DEF Sinks
    <2> QED
        BY <1>1, GotoFacts
<1>3. PICK newest \in NewLines(p) : /\ \A i \in NewLines(p) : i <= newest
                                    /\ top' = [top EXCEPT ![p] = newest]
    BY DEF Fetch
<1>4. top'[p] = newest /\ batch'[p] = NewLines(p)
    BY <1>3 DEF Fetch, TypeOK
<1>5. MarksTogether' /\ \A s, t \in Sinks : mark[s] = mark[t]
    <2> \A q \in Passes : pc[q] # "save"
        BY <1>1
    <2> QED
        BY <1>1 DEF Solo, MarksTogether
<1>6. \A s \in Sinks : seen[p][s] = mark[s]
    BY <1>1 DEF Solo, MarksCurrent
<1>7. \A s \in Sinks : seen[p][s] < newest
    <2> PICK t \in Sinks : newest > seen[p][t]
        BY DEF NewLines
    <2> TAKE s \in Sinks
    <2> seen[p][s] = seen[p][t]
        BY <1>5, <1>6
    <2> newest \in Int /\ seen[p][t] \in Int
        BY DEF NewLines, TypeOK
    <2> QED
        OBVIOUS
<1>8. CreditOnce'
    <2> SUFFICES ASSUME NEW s \in Sinks, NEW i \in Lines
                 PROVE  credit[s][i] <= 1 /\ (credit[s][i] = 1 => i <= mark[s])
        BY <1>1 DEF CreditOnce
    <2> QED
        BY <1>1 DEF Solo, CreditOnce, Written
<1> QED
    BY <1>1, <1>2, <1>3, <1>4, <1>5, <1>6, <1>7, <1>8, SoloStep

\* A sink is given only lines past its mark, which it did not have.
LEMMA WriteSolo ==
    ASSUME TypeOK, Solo, NEW p \in Passes, Write(p)
    PROVE  Solo'
<1> USE NSinksAssumption, MaxLineAssumption
<1>1. /\ UNCHANGED <<mark, seen, batch, top>>
      /\ pc[p] = "write" /\ at[p] \in Sinks
      /\ \A q \in Passes \ {p} : pc[q] = "idle"
    BY OthersIdle DEF Write, locals, TypeOK
<1>2. /\ \A q \in Passes \ {p} : pc'[q] = pc[q] /\ at'[q] = at[q]
      /\ \/ at[p] < NSinks /\ pc'[p] = "write" /\ at'[p] = at[p] + 1
         \/ at[p] = NSinks /\ pc'[p] = "save" /\ at'[p] = 1
    <2> 1 \in Sinks /\ "save" \in PCs /\ Advance(p, "save", 1)
        BY DEF Write, PCs
    <2> HIDE DEF Sinks
    <2> QED
        BY <1>1, AdvanceFacts
<1>3. /\ \A s \in Sinks : seen[p][s] = mark[s] /\ seen[p][s] < top[p]
      /\ \A i \in batch[p] : i <= top[p]
    BY <1>1 DEF Solo, MarksCurrent, BatchBelowTop
<1>4. MarksTogether'
    <2> \A q \in Passes : pc[q] # "save"
        BY <1>1
    <2> QED
        BY <1>1 DEF Solo, MarksTogether
<1>5. \A s \in Sinks : /\ (pc'[p] = "save" => s >= at'[p])
                       /\ Written(p, s)' <=> s <= at[p]
    BY <1>1, <1>2 DEF Written
<1>6. CreditOnce'
    <2> SUFFICES ASSUME NEW s \in Sinks, NEW i \in Lines
                 PROVE  /\ credit'[s][i] <= 1
                        /\ credit'[s][i] = 1 => i <= mark[s] \/ (s <= at[p] /\ i <= top[p])
        BY <1>1, <1>5 DEF CreditOnce
    <2>1. /\ credit[s][i] \in 0..2 /\ credit[s][i] <= 1
          /\ credit[s][i] = 1 => i <= mark[s] \/ (s < at[p] /\ i <= top[p])
        <3>1. credit[s][i] \in 0..2
            BY DEF TypeOK
        <3>2. \A q \in Passes : Written(q, s) => q = p /\ s < at[p]
            BY <1>1 DEF Written
        <3>3. /\ credit[s][i] <= 1
              /\ credit[s][i] = 1 => i <= mark[s] \/ (s < at[p] /\ i <= top[p])
            BY <3>2 DEF Solo, CreditOnce
        <3> QED
            BY <3>1, <3>3
    <2>2. CASE s = at[p] /\ i \in Harvest(p, s)
        <3>1. credit'[s][i] = Capped(credit[s][i])
            BY <2>2 DEF Write, TypeOK
        <3>2. i \in batch[p] /\ i > seen[p][s]
            BY <2>2 DEF Harvest
        <3>3. mark[s] \in Int
            BY DEF TypeOK
        <3>4. credit[s][i] # 1
            BY <2>1, <2>2, <3>2, <3>3, <1>3
        <3>5. credit'[s][i] = 1
            BY <2>1, <3>1, <3>4 DEF Capped
        <3> QED
            BY <2>2, <3>2, <3>5, <1>3
    <2>3. CASE ~(s = at[p] /\ i \in Harvest(p, s))
        <3> credit'[s][i] = credit[s][i]
            <4>1. CASE s = at[p]
                BY <2>3, <4>1 DEF Write, TypeOK
            <4>2. CASE s # at[p]
                BY <4>2 DEF Write, TypeOK
            <4> QED
                BY <4>1, <4>2
        <3> QED
            BY <2>1, <1>1
    <2> QED
        BY <2>2, <2>3
<1> QED
    <2> \A s \in Sinks :
            /\ pc'[p] = "write" => seen'[p][s] = mark'[s]
            /\ pc'[p] = "save" => mark'[s] = IF s < at'[p] THEN top'[p] ELSE seen'[p][s]
            /\ seen'[p][s] < top'[p]
        BY <1>1, <1>2, <1>3
    <2> pc'[p] \in {"write", "save"}
        BY <1>2
    <2> \A i \in batch'[p] : i <= top'[p]
        BY <1>1, <1>3
    <2> \A q \in Passes \ {p} : pc'[q] = "idle"
        BY <1>1, <1>2
    <2> QED
        BY <1>4, <1>6, SoloStep

\* When a pass returns, all that it leaves is the marks and what is below them.
LEMMA ReturnSolo ==
    ASSUME TypeOK, NEW p \in Passes, Return(p), UNCHANGED credit,
           \A q \in Passes \ {p} : pc[q] = "idle",
           \A s, t \in Sinks : mark'[s] = mark'[t],
           \A s \in Sinks, i \in Lines :
              credit[s][i] <= 1 /\ (credit[s][i] = 1 => i <= mark'[s])
    PROVE  Solo'
<1>1. \A q \in Passes : pc'[q] = "idle"
    BY DEF TypeOK, Return, Goto
<1>2. MarksTogether' /\ CreditOnce'
    BY DEF MarksTogether, CreditOnce
<1> QED
    BY <1>1, <1>2, SoloStep

\* A pass with nothing to do leaves the marks as they were.
LEMMA FetchNothingSolo ==
    ASSUME TypeOK, Solo, NEW p \in Passes, FetchNothing(p)
    PROVE  Solo'
<1>1. /\ UNCHANGED <<mark, credit>> /\ Return(p) /\ pc[p] = "fetch"
      /\ \A q \in Passes \ {p} : pc[q] = "idle"
    BY OthersIdle DEF FetchNothing, counts
<1>2. \A s, t \in Sinks : mark[s] = mark[t]
    BY <1>1 DEF Solo, MarksTogether
<1>3. \A s \in Sinks, i \in Lines :
         credit[s][i] <= 1 /\ (credit[s][i] = 1 => i <= mark[s])
    BY <1>1 DEF Solo, CreditOnce, Written
<1> QED
    BY <1>1, <1>2, <1>3, ReturnSolo

\* A save takes a mark from the one read to max_id, which is past it; after
\* the last of them all marks are max_id.
LEMMA SaveSolo ==
    ASSUME TypeOK, Solo, NEW p \in Passes, Save(p)
    PROVE  Solo'
<1> USE NSinksAssumption, MaxLineAssumption
<1>1. /\ UNCHANGED credit
      /\ pc[p] = "save" /\ at[p] \in Sinks
      /\ \A q \in Passes \ {p} : pc[q] = "idle"
    BY OthersIdle DEF Save, TypeOK
<1>2. \A s \in Sinks : mark'[s] = IF s = at[p] THEN top[p] ELSE mark[s]
    BY <1>1 DEF Save, TypeOK
<1>3. /\ \A s \in Sinks : /\ mark[s] = IF s < at[p] THEN top[p] ELSE seen[p][s]
                          /\ seen[p][s] < top[p]
      /\ \A i \in batch[p] : i <= top[p]
    BY <1>1 DEF Solo, MarksCurrent, BatchBelowTop
<1>4. /\ top[p] \in Int
      /\ \A s \in Sinks : mark[s] \in Int /\ mark[s] <= top[p] /\ mark[s] <= mark'[s]
    <2> top[p] \in Int /\ \A s \in Sinks : mark[s] \in Int
        BY DEF TypeOK
    <2> QED
        BY <1>2, <1>3
<1>5. \A s \in Sinks, i \in Lines :
         credit[s][i] <= 1 /\ (credit[s][i] = 1 => i <= mark[s] \/ i <= top[p])
    BY <1>1 DEF Solo, CreditOnce, Written
<1>6. CASE at[p] < NSinks
    <2>1. /\ UNCHANGED <<seen, batch, top>>
          /\ pc'[p] = "save" /\ at'[p] = at[p] + 1
          /\ \A q \in Passes \ {p} : pc'[q] = pc[q]
        <3> /\ at[p] + 1 \in Sinks /\ "save" \in PCs
            /\ Goto(p, "save", at[p] + 1) /\ UNCHANGED <<seen, batch, top>>
            BY <1>1, <1>6 DEF PCs, Save, locals
        <3> HIDE DEF Sinks
        <3> QED
            BY GotoFacts
    <2>2. MarksTogether'
        BY <2>1 DEF MarksTogether
    <2>3. CreditOnce'
        <3> SUFFICES ASSUME NEW s \in Sinks, NEW i \in Lines
                     PROVE  credit[s][i] <= 1 /\ (credit[s][i] = 1 => i <= top[p])
            BY <1>1, <2>1 DEF CreditOnce, Written
        <3> mark[s] \in Int /\ mark[s] <= top[p]
            BY <1>4
        <3> QED
            BY <1>4, <1>5
    <2>4. \A s \in Sinks : mark'[s] = IF s < at'[p] THEN top'[p] ELSE seen'[p][s]
        BY <2>1, <1>1, <1>2, <1>3
    <2> QED
        BY <2>1, <2>2, <2>3, <2>4, <1>1, <1>3, SoloStep
<1>7. CASE ~(at[p] < NSinks)
    <2>1. at[p] = NSinks /\ Return(p)
        BY <1>1, <1>7 DEF Save
    <2>2. \A s \in Sinks : mark'[s] = top[p]
        BY <2>1, <1>2, <1>3
    <2>3. \A s \in Sinks, i \in Lines :
             credit[s][i] <= 1 /\ (credit[s][i] = 1 => i <= mark'[s])
        <3> TAKE s \in Sinks, i \in Lines
        <3> mark[s] \in Int /\ mark[s] <= top[p]
            BY <1>4
        <3> QED
            BY <1>4, <1>5, <2>2
    <2> QED
        BY <2>1, <2>2, <2>3, <1>1, ReturnSolo
<1> QED
    BY <1>6, <1>7

\* Every step keeps it, unless it is the one that ends the run of refreshes
\* one after another.
LEMMA SoloNext ==
    ASSUME TypeOK, SoloInv, [Next]_vars
    PROVE  SoloInv'
<1> SUFFICES ASSUME ~spoiled' PROVE Solo'
    BY DEF SoloInv
<1>1. CASE AppendLine \/ \E i \in Lines : Discard(i) \/ Restore(i)
    <2> UNCHANGED <<pc, at, mark, credit, seen, batch, top, spoiled>>
        BY <1>1 DEF AppendLine, Discard, Restore, counts, locals
    <2> QED
        BY SoloUnchanged DEF SoloInv
<1>2. ASSUME NEW p \in Passes, Pass(p)
      PROVE  Solo'
    <2>1. CASE Start(p)
        <3> ~spoiled
            BY <2>1 DEF Start
        <3> QED
            BY <2>1, StartSolo DEF SoloInv
    <2>2. CASE Clear(p) \/ Rewind(p)
        <3> ~spoiled /\ pc[p] \in {"clear", "rewind"}
            BY <2>2 DEF Clear, Rewind
        <3> QED
            BY DEF SoloInv, Solo, OnePass
    <2>3. CASE ReadMark(p)
        <3> ~spoiled
            BY <2>3 DEF ReadMark
        <3> QED
            BY <2>3, ReadMarkSolo DEF SoloInv
    <2>4. CASE FetchNothing(p)
        <3> ~spoiled
            BY <2>4 DEF FetchNothing
        <3> QED
            BY <2>4, FetchNothingSolo DEF SoloInv
    <2>5. CASE Fetch(p)
        <3> ~spoiled
            BY <2>5 DEF Fetch
        <3> QED
            BY <2>5, FetchSolo DEF SoloInv
    <2>6. CASE Write(p)
        <3> ~spoiled
            BY <2>6 DEF Write
        <3> QED
            BY <2>6, WriteSolo DEF SoloInv
    <2>7. CASE Save(p)
        <3> ~spoiled
            BY <2>7 DEF Save
        <3> QED
            BY <2>7, SaveSolo DEF SoloInv
    <2>8. CASE Abort(p)
        BY <2>8 DEF Abort
    <2> QED
        BY <1>2, <2>1, <2>2, <2>3, <2>4, <2>5, <2>6, <2>7, <2>8 DEF Pass
<1>3. CASE UNCHANGED vars
    <2> UNCHANGED <<pc, at, mark, credit, seen, batch, top, spoiled>>
        BY <1>3 DEF vars
    <2> QED
        BY SoloUnchanged DEF SoloInv
<1> QED
    BY <1>1, <1>2, <1>3 DEF Next

\* The invariant of refreshes one after another holds in every state.
THEOREM SoloInvariant == Spec => []SoloInv
<1>1. Init => SoloInv
    <2> SUFFICES ASSUME Init PROVE Solo
        BY DEF SoloInv
    <2> QED
        BY DEF Init, Solo, OnePass, MarksTogether, MarksCurrent, BatchBelowTop,
               CreditOnce, Written
<1>2. TypeOK /\ SoloInv /\ [Next]_vars => SoloInv'
    BY SoloNext
<1> QED
    BY <1>1, <1>2, TypeCorrect, PTL DEF Spec

\* Refreshes one after another, none failing, count no line twice in any sink,
\* for every number of sinks and lines and whatever is discarded and restored
\* meanwhile (ingest.rs harvests a line for a sink only past the mark it read).
THEOREM NeverCountedTwice == Spec => []CountedOnce
<1>1. SoloInv => CountedOnce
    BY DEF SoloInv, Solo, CreditOnce, CountedOnce
<1> QED
    BY <1>1, SoloInvariant, PTL

\* Among such refreshes a watermark only ever rises: commit() "only moves for
\* the sink that was actually behind", because max_id is past every mark read
\* and no other pass has moved one since.
THEOREM MarksRise == Spec => MarksOnlyRise
<1> DEFINE Rises == \A s \in Sinks : mark'[s] # mark[s] => spoiled \/ mark'[s] > mark[s]
<1>1. TypeOK /\ SoloInv /\ [Next]_vars => [Rises]_vars
    <2> SUFFICES ASSUME TypeOK, SoloInv, Next, ~spoiled, NEW s \in Sinks, mark'[s] # mark[s]
                 PROVE  mark'[s] > mark[s]
        OBVIOUS
    <2>1. PICK p \in Passes : Rewind(p) \/ Save(p)
        BY DEF Next, Pass, AppendLine, Discard, Restore, Start, Clear, ReadMark,
               FetchNothing, Fetch, Write, Abort, counts
    <2>2. Save(p)
        BY <2>1 DEF Rewind, SoloInv, Solo, OnePass
    <2>3. /\ pc[p] = "save" /\ s = at[p] /\ mark'[s] = top[p]
          /\ top[p] \in Int /\ mark[s] \in Int
        BY <2>2 DEF Save, TypeOK
    <2>4. mark[s] = seen[p][s] /\ seen[p][s] < top[p]
        BY <2>3 DEF SoloInv, Solo, MarksCurrent
    <2> QED
        BY <2>3, <2>4
<1>2. TypeOK /\ SoloInv /\ [Next]_vars => [\A s \in Sinks :
          mark'[s] # mark[s] => spoiled \/ mark'[s] > mark[s]]_vars
    BY <1>1
<1> QED
    BY <1>2, TypeCorrect, SoloInvariant, PTL DEF Spec, MarksOnlyRise

---------------------------------------------------------------------------
(* A rebuild that ran alone is exact, whatever the passes before it did to  *)
(* the counts.                                                              *)

\* The counts of a sink after reset_vocabulary, and after this pass's commit().
Empty(s) == \A i \in Lines : credit[s][i] = 0
Given(p, s) == \A i \in Lines :
    credit[s][i] = IF i \in batch[p] \ Unreadable THEN 1 ELSE 0

\* What pass p has done to a rebuilt sink s by the statement it is at.
Cleared(p, s) ==
    /\ pc[p] = "clear" /\ s < at[p] => Empty(s)
    /\ pc[p] \in {"rewind", "marks", "fetch"} => Empty(s)
    /\ pc[p] = "write" /\ s >= at[p] => Empty(s)

Rewound(p, s) ==
    /\ pc[p] = "rewind" /\ s < at[p] => mark[s] = 0
    /\ pc[p] \in {"marks", "fetch"} => mark[s] = 0
    /\ pc[p] = "marks" /\ s < at[p] => seen[p][s] = 0
    /\ pc[p] \in {"fetch", "write", "save"} => seen[p][s] = 0

Recounted(p, s) ==
    /\ pc[p] \in {"write", "save"} => \A i \in batch[p] : i <= top[p]
    /\ pc[p] = "write" /\ s < at[p] => Given(p, s)
    /\ pc[p] = "save" => Given(p, s)
    /\ pc[p] = "save" /\ s < at[p] => mark[s] = top[p]

Progress(p) == \A s \in Rebuilt : Cleared(p, s) /\ Rewound(p, s) /\ Recounted(p, s)

Undisturbed(p) == \A q \in Passes \ {p} : pc[q] = "idle"

\* A rebuild that has run alone so far still does, and has got as far as that.
RebuildInv == \A p \in Rebuilders :
    alone[p] /\ pc[p] # "idle" => Undisturbed(p) /\ Progress(p)

\* What holds between steps of p: the counts, marks and locals it depends on.
LEMMA ProgressKept ==
    ASSUME NEW p \in Passes, Progress(p),
           UNCHANGED <<mark, credit, pc, at, seen, batch, top>>
    PROVE  Progress(p)'
BY DEF Progress, Cleared, Rewound, Recounted, Empty, Given

\* A step of one pass keeps the invariant if it keeps its own progress: while
\* another pass runs, no other rebuild has run alone.
LEMMA OwnStep ==
    ASSUME RebuildInv, NEW p \in Passes, pc[p] # "idle", UNCHANGED alone,
           \A q \in Passes \ {p} : pc'[q] = pc[q],
           p \in Rebuilders /\ alone[p] /\ pc'[p] # "idle" => Progress(p)'
    PROVE  RebuildInv'
<1> SUFFICES ASSUME NEW r \in Rebuilders, alone[r], pc'[r] # "idle"
             PROVE  Undisturbed(r)' /\ Progress(r)'
    BY DEF RebuildInv
<1>0. r \in Passes
    BY RebuildersAssumption
<1>1. r = p
    BY <1>0 DEF RebuildInv, Undisturbed
<1>2. Undisturbed(p)
    BY <1>1 DEF RebuildInv
<1> QED
    BY <1>1, <1>2 DEF Undisturbed

\* What Advance and Goto leave a single pass at.
LEMMA Advanced ==
    ASSUME TypeOK, NEW p \in Passes, NEW label \in PCs, NEW sink \in Sinks,
           Advance(p, label, sink)
    PROVE  /\ \A q \in Passes \ {p} : pc'[q] = pc[q]
           /\ \/ at[p] < NSinks /\ pc'[p] = pc[p] /\ at'[p] = at[p] + 1
              \/ at[p] = NSinks /\ pc'[p] = label /\ at'[p] = sink
<1> HIDE DEF Sinks
<1> QED
    BY AdvanceFacts

\* Clearing a sink keeps a rebuild on its way.
LEMMA ClearProgress ==
    ASSUME IngestInv, NEW p \in Passes, Progress(p), Clear(p)
    PROVE  /\ Progress(p)'
           /\ \A q \in Passes \ {p} : pc'[q] = pc[q]
<1> USE NSinksAssumption
<1>0. TypeOK /\ at[p] \in Rebuilt /\ pc[p] = "clear"
    BY DEF IngestInv, ClearsRebuilt, Clear
<1>1. CASE NSinks = 1
    BY <1>0, <1>1
<1>2. CASE NSinks # 1
    <2>1. 2 \in Sinks /\ "rewind" \in PCs /\ Advance(p, "rewind", 2)
        BY <1>2 DEF Clear, PCs
    <2>2. /\ \A q \in Passes \ {p} : pc'[q] = pc[q]
          /\ \/ at[p] < NSinks /\ pc'[p] = "clear" /\ at'[p] = at[p] + 1
             \/ at[p] = NSinks /\ pc'[p] = "rewind" /\ at'[p] = 2
        BY <1>0, <2>1, Advanced
    <2>3. /\ \A i \in Lines : credit'[at[p]][i] = 0
          /\ \A s \in Rebuilt \ {at[p]} : credit'[s] = credit[s]
        BY <1>0 DEF Clear, TypeOK
    <2>4. \A s \in Rebuilt : s <= at[p] => \A i \in Lines : credit'[s][i] = 0
        BY <1>0, <2>3 DEF Progress, Cleared, Empty
    <2>5. \A s \in Rebuilt : Cleared(p, s)'
        BY <1>0, <2>2, <2>4 DEF Cleared, Empty
    <2>6. \A s \in Rebuilt : Rewound(p, s)' /\ Recounted(p, s)'
        BY <1>0, <2>2 DEF Rewound, Recounted
    <2> QED
        BY <2>2, <2>5, <2>6 DEF Progress
<1> QED
    BY <1>1, <1>2

\* So does setting its mark back.
LEMMA RewindProgress ==
    ASSUME IngestInv, NEW p \in Passes, Progress(p), Rewind(p)
    PROVE  /\ Progress(p)'
           /\ \A q \in Passes \ {p} : pc'[q] = pc[q]
<1> USE NSinksAssumption
<1>0. TypeOK /\ at[p] \in Rebuilt /\ pc[p] = "rewind"
    BY DEF IngestInv, ClearsRebuilt, Rewind
<1>1. 1 \in Sinks /\ "marks" \in PCs /\ Advance(p, "marks", 1)
    BY DEF Rewind, PCs
<1>2. /\ \A q \in Passes \ {p} : pc'[q] = pc[q]
      /\ \/ at[p] < NSinks /\ pc'[p] = "rewind" /\ at'[p] = at[p] + 1
         \/ at[p] = NSinks /\ pc'[p] = "marks" /\ at'[p] = 1
    BY <1>0, <1>1, Advanced
<1>3. UNCHANGED <<credit, seen>>
    BY DEF Rewind, locals
<1>4. \A s \in Rebuilt : Cleared(p, s)'
    BY <1>0, <1>2, <1>3 DEF Progress, Cleared, Empty
<1>5. mark'[at[p]] = 0 /\ \A s \in Rebuilt \ {at[p]} : mark'[s] = mark[s]
    BY <1>0 DEF Rewind, TypeOK
<1>6. \A s \in Rebuilt : s <= at[p] => mark'[s] = 0
    BY <1>0, <1>5 DEF Progress, Rewound
<1>7. \A s \in Rebuilt : Rewound(p, s)'
    BY <1>0, <1>2, <1>6 DEF Rewound
<1>8. \A s \in Rebuilt : Recounted(p, s)'
    BY <1>2 DEF Recounted
<1> QED
    BY <1>2, <1>4, <1>7, <1>8 DEF Progress

\* So does reading the marks.
LEMMA MarksProgress ==
    ASSUME IngestInv, NEW p \in Passes, Progress(p), ReadMark(p)
    PROVE  /\ Progress(p)'
           /\ \A q \in Passes \ {p} : pc'[q] = pc[q]
<1> USE NSinksAssumption
<1>0. TypeOK /\ at[p] \in Sinks /\ pc[p] = "marks"
    BY DEF IngestInv, ReadMark, TypeOK
<1>1. 1 \in Sinks /\ "fetch" \in PCs /\ Advance(p, "fetch", 1)
    BY DEF ReadMark, PCs
<1>2. /\ \A q \in Passes \ {p} : pc'[q] = pc[q]
      /\ \/ at[p] < NSinks /\ pc'[p] = "marks" /\ at'[p] = at[p] + 1
         \/ at[p] = NSinks /\ pc'[p] = "fetch" /\ at'[p] = 1
    BY <1>0, <1>1, Advanced
<1>3. UNCHANGED <<credit, mark>>
    BY DEF ReadMark, counts
<1>4. \A s \in Rebuilt : Cleared(p, s)'
    BY <1>0, <1>2, <1>3 DEF Progress, Cleared, Empty
<1>5. seen'[p][at[p]] = mark[at[p]] /\ \A s \in Rebuilt \ {at[p]} : seen'[p][s] = seen[p][s]
    BY <1>0 DEF ReadMark, TypeOK
<1>6. \A s \in Rebuilt : s <= at[p] => seen'[p][s] = 0
    BY <1>0, <1>5 DEF Progress, Rewound
<1>7. \A s \in Rebuilt : mark[s] = 0
    BY <1>0 DEF Progress, Rewound
<1>8. \A s \in Rebuilt : Rewound(p, s)'
    BY <1>0, <1>2, <1>3, <1>6, <1>7 DEF Rewound
<1>9. \A s \in Rebuilt : Recounted(p, s)'
    BY <1>2 DEF Recounted
<1> QED
    BY <1>2, <1>4, <1>8, <1>9 DEF Progress

\* So does reading a batch.
LEMMA FetchProgress ==
    ASSUME IngestInv, NEW p \in Passes, Progress(p), Fetch(p)
    PROVE  /\ Progress(p)'
           /\ \A q \in Passes \ {p} : pc'[q] = pc[q]
<1> USE NSinksAssumption
<1>0. TypeOK /\ pc[p] = "fetch"
    BY DEF IngestInv, Fetch
<1>1. /\ \A q \in Passes \ {p} : pc'[q] = pc[q]
      /\ pc'[p] = "write" /\ at'[p] = 1
    BY <1>0 DEF Fetch, Goto, TypeOK
<1>2. UNCHANGED <<credit, mark, seen>>
    BY DEF Fetch, counts
<1>3. \A i \in batch'[p] : i <= top'[p]
    BY <1>0 DEF Fetch, TypeOK
<1>4. \A s \in Rebuilt : Cleared(p, s)'
    BY <1>0, <1>1, <1>2 DEF Progress, Cleared, Empty
<1>5. \A s \in Rebuilt : Rewound(p, s)'
    BY <1>0, <1>1, <1>2 DEF Progress, Rewound
<1>6. \A s \in Rebuilt : Recounted(p, s)'
    BY <1>1, <1>3 DEF Recounted
<1> QED
    BY <1>1, <1>4, <1>5, <1>6 DEF Progress

\* So does writing it to a sink.
LEMMA WriteProgress ==
    ASSUME IngestInv, NEW p \in Passes, Progress(p), Write(p)
    PROVE  /\ Progress(p)'
           /\ \A q \in Passes \ {p} : pc'[q] = pc[q]
<1> USE NSinksAssumption
<1>0. TypeOK /\ at[p] \in Sinks /\ pc[p] = "write"
    BY DEF IngestInv, Write, TypeOK
<1>1. 1 \in Sinks /\ "save" \in PCs /\ Advance(p, "save", 1)
    BY DEF Write, PCs
<1>2. /\ \A q \in Passes \ {p} : pc'[q] = pc[q]
      /\ \/ at[p] < NSinks /\ pc'[p] = "write" /\ at'[p] = at[p] + 1
         \/ at[p] = NSinks /\ pc'[p] = "save" /\ at'[p] = 1
    BY <1>0, <1>1, Advanced
<1>3. UNCHANGED <<seen, batch, top>>
    BY DEF Write, locals
<1>4. \A s \in Sinks \ {at[p]} : credit'[s] = credit[s]
    BY <1>0 DEF Write, TypeOK
<1>5. at[p] \in Rebuilt => \A i \in Lines :
        credit'[at[p]][i] = IF i \in batch[p] \ Unreadable THEN 1 ELSE 0
    <2> SUFFICES ASSUME at[p] \in Rebuilt, NEW i \in Lines
                 PROVE  credit'[at[p]][i] = IF i \in batch[p] \ Unreadable THEN 1 ELSE 0
        OBVIOUS
    <2>1. credit[at[p]][i] = 0 /\ seen[p][at[p]] = 0
        BY <1>0 DEF Progress, Cleared, Rewound, Empty
    <2>2. credit'[at[p]][i] = IF i \in Harvest(p, at[p]) THEN Capped(credit[at[p]][i])
                                                       ELSE credit[at[p]][i]
        BY <1>0 DEF Write, TypeOK
    <2>3. i \in Harvest(p, at[p]) <=> i \in batch[p] \ Unreadable
        BY <2>1, MaxLineAssumption DEF Harvest
    <2> QED
        BY <2>1, <2>2, <2>3 DEF Capped
<1>6. \A s \in Rebuilt : s <= at[p] => \A i \in Lines :
        credit'[s][i] = IF i \in batch[p] \ Unreadable THEN 1 ELSE 0
    <2> SUFFICES ASSUME NEW s \in Rebuilt, s <= at[p], s # at[p], NEW i \in Lines
                 PROVE  credit'[s][i] = IF i \in batch[p] \ Unreadable THEN 1 ELSE 0
        BY <1>5
    <2>1. Given(p, s)
        BY <1>0 DEF Progress, Recounted
    <2> QED
        BY <1>4, <2>1 DEF Given
<1>7. \A s \in Rebuilt : Cleared(p, s)'
    BY <1>0, <1>2, <1>4 DEF Progress, Cleared, Empty
<1>8. \A s \in Rebuilt : Rewound(p, s)'
    BY <1>0, <1>2, <1>3 DEF Progress, Rewound
<1>9. \A s \in Rebuilt : Recounted(p, s)'
    <2> SUFFICES ASSUME NEW s \in Rebuilt PROVE Recounted(p, s)'
        OBVIOUS
    <2>1. \A i \in batch'[p] : i <= top'[p]
        BY <1>0, <1>3 DEF Progress, Recounted
    <2>2. s <= at[p] => Given(p, s)'
        BY <1>3, <1>6 DEF Given
    <2>3. pc'[p] = "write" /\ s < at'[p] => s <= at[p]
        BY <1>0, <1>2
    <2>4. pc'[p] = "save" => s <= at[p] /\ ~(s < at'[p])
        BY <1>0, <1>2
    <2> QED
        BY <2>1, <2>2, <2>3, <2>4 DEF Recounted
<1> QED
    BY <1>2, <1>7, <1>8, <1>9 DEF Progress

\* The last save returns; before it, the marks saved are top.
LEMMA SaveProgress ==
    ASSUME IngestInv, NEW p \in Passes, Progress(p), Save(p)
    PROVE  /\ pc'[p] # "idle" => Progress(p)'
           /\ \A q \in Passes \ {p} : pc'[q] = pc[q]
<1> USE NSinksAssumption
<1>0. TypeOK /\ at[p] \in Sinks /\ pc[p] = "save" /\ UNCHANGED credit
    BY DEF IngestInv, Save, TypeOK
<1>1. CASE at[p] < NSinks
    <2>1. /\ \A q \in Passes \ {p} : pc'[q] = pc[q]
          /\ pc'[p] = "save" /\ at'[p] = at[p] + 1
          /\ UNCHANGED <<seen, batch, top>>
        BY <1>0, <1>1 DEF Save, Goto, TypeOK, locals
    <2>2. mark'[at[p]] = top[p] /\ \A s \in Rebuilt \ {at[p]} : mark'[s] = mark[s]
        BY <1>0 DEF Save, TypeOK
    <2>3. \A s \in Rebuilt : s <= at[p] => mark'[s] = top[p]
        BY <1>0, <2>2 DEF Progress, Recounted
    <2>4. \A s \in Rebuilt : Cleared(p, s)'
        BY <2>1 DEF Cleared
    <2>5. \A s \in Rebuilt : Rewound(p, s)'
        BY <1>0, <2>1 DEF Progress, Rewound
    <2>6. \A s \in Rebuilt : Recounted(p, s)'
        BY <1>0, <2>1, <2>3 DEF Progress, Recounted, Given
    <2> QED
        BY <2>1, <2>4, <2>5, <2>6 DEF Progress
<1>2. CASE ~(at[p] < NSinks)
    BY <1>0, <1>2 DEF Save, Return, Goto, TypeOK
<1> QED
    BY <1>1, <1>2

\* A pass that starts is alone, or takes that from every other.
LEMMA StartAlone ==
    ASSUME IngestInv, RebuildInv, NEW p \in Passes, Start(p)
    PROVE  RebuildInv'
<1> USE NSinksAssumption
<1> SUFFICES ASSUME NEW r \in Rebuilders, alone'[r], pc'[r] # "idle"
             PROVE  Undisturbed(r)' /\ Progress(r)'
    BY DEF RebuildInv
<1>0. TypeOK /\ r \in Passes
    BY RebuildersAssumption DEF IngestInv
<1>1. r = p /\ \A q \in Passes : pc[q] = "idle"
    BY <1>0 DEF Start
<1>2. \A q \in Passes \ {p} : pc'[q] = pc[q]
    BY <1>0 DEF Start, Goto, TypeOK
<1>3. CASE Rebuilt # {}
    <2>1. pc'[p] = "clear" /\ at'[p] = 2
        BY <1>0, <1>1, <1>3 DEF Start, Goto, TypeOK
    <2>2. \A s \in Rebuilt : Cleared(p, s)' /\ Rewound(p, s)' /\ Recounted(p, s)'
        BY <2>1 DEF Cleared, Rewound, Recounted
    <2> QED
        BY <1>1, <1>2, <2>2 DEF Undisturbed, Progress
<1>4. CASE Rebuilt = {}
    BY <1>1, <1>2, <1>4 DEF Undisturbed, Progress
<1> QED
    BY <1>3, <1>4

\* Every step keeps the invariant of a rebuild.
LEMMA RebuildStep ==
    ASSUME IngestInv, RebuildInv, [Next]_vars
    PROVE  RebuildInv'
<1>0. TypeOK
    BY DEF IngestInv
<1>1. CASE UNCHANGED <<mark, credit, pc, at, seen, batch, top, alone>>
    BY <1>1, ProgressKept, RebuildersAssumption DEF RebuildInv, Undisturbed
<1>2. ASSUME NEW p \in Passes, Pass(p)
      PROVE  RebuildInv'
    <2>1. CASE Start(p)
        BY <2>1, StartAlone
    <2>2. CASE Clear(p) \/ Rewind(p) \/ ReadMark(p) \/ Fetch(p) \/ Write(p) \/ Save(p)
        <3>1. pc[p] # "idle" /\ UNCHANGED alone
            BY <2>2 DEF Clear, Rewind, ReadMark, Fetch, Write, Save
        <3>2. \A q \in Passes \ {p} : pc'[q] = pc[q]
            BY <1>0, <2>2 DEF Clear, Rewind, ReadMark, Fetch, Write, Save, Advance,
                              Return, Goto, TypeOK
        <3>3. p \in Rebuilders /\ alone[p] => Progress(p)
            BY <3>1 DEF RebuildInv
        <3>4. Progress(p) /\ pc'[p] # "idle" => Progress(p)'
            BY <2>2, ClearProgress, RewindProgress, MarksProgress, FetchProgress,
               WriteProgress, SaveProgress
        <3> QED
            BY <3>1, <3>2, <3>3, <3>4, OwnStep
    <2>3. CASE FetchNothing(p) \/ Abort(p)
        <3>1. /\ pc[p] # "idle" /\ pc'[p] = "idle" /\ UNCHANGED alone
              /\ \A q \in Passes \ {p} : pc'[q] = pc[q]
            BY <1>0, <2>3 DEF FetchNothing, Abort, Return, Goto, TypeOK
        <3> QED
            BY <3>1, OwnStep
    <2> QED
        BY <1>2, <2>1, <2>2, <2>3 DEF Pass
<1>3. CASE AppendLine \/ \E i \in Lines : Discard(i) \/ Restore(i)
    BY <1>1, <1>3 DEF AppendLine, Discard, Restore, counts, locals
<1>4. CASE UNCHANGED vars
    BY <1>1, <1>4 DEF vars
<1> QED
    BY <1>2, <1>3, <1>4 DEF Next

\* The mark that moves as a rebuild that ran alone returns is its last: all
\* its sinks are then at max_id, and hold what is up to it once.
LEMMA LastSave ==
    ASSUME IngestInv, RebuildInv, [Next]_vars, NEW p \in Rebuilders,
           pc[p] = "save", pc'[p] = "idle", alone[p], mark' # mark
    PROVE  \A s \in Rebuilt :
            /\ mark'[s] = top[p]
            /\ \A i \in Lines : credit'[s][i] \in
                 IF i > top[p] \/ i \in Unreadable THEN {0}
                 ELSE IF i \in everHidden THEN {0, 1} ELSE {1}
<1> USE NSinksAssumption, MaxLineAssumption
<1>0. TypeOK /\ BatchComplete /\ p \in Passes /\ Undisturbed(p) /\ Progress(p)
    BY RebuildersAssumption DEF IngestInv, RebuildInv
<1>1. Save(p)
    <2>1. PICK q \in Passes : Rewind(q) \/ Save(q)
        BY DEF Next, vars, Pass, AppendLine, Discard, Restore, Start, Clear, ReadMark,
               FetchNothing, Fetch, Write, Abort, counts
    <2>2. pc[q] \in {"rewind", "save"}
        BY <2>1 DEF Rewind, Save
    <2>3. q = p
        BY <1>0, <2>2 DEF Undisturbed
    <2> QED
        BY <2>1, <2>2, <2>3 DEF Rewind
<1>2. at[p] = NSinks
    BY <1>0, <1>1 DEF Save, Goto, TypeOK
<1> SUFFICES ASSUME NEW s \in Rebuilt
             PROVE  /\ mark'[s] = top[p]
                    /\ \A i \in Lines : credit'[s][i] \in
                         IF i > top[p] \/ i \in Unreadable THEN {0}
                         ELSE IF i \in everHidden THEN {0, 1} ELSE {1}
    OBVIOUS
<1>3. mark'[s] = top[p]
    <2>1. mark' = [mark EXCEPT ![NSinks] = top[p]]
        BY <1>1, <1>2 DEF Save
    <2>2. s < NSinks => mark[s] = top[p]
        BY <1>0, <1>2 DEF Progress, Recounted
    <2> QED
        BY <1>0, <2>1, <2>2 DEF TypeOK
<1>4. ASSUME NEW i \in Lines
      PROVE  credit'[s][i] \in IF i > top[p] \/ i \in Unreadable THEN {0}
                               ELSE IF i \in everHidden THEN {0, 1} ELSE {1}
    <2>1. credit'[s][i] = IF i \in batch[p] \ Unreadable THEN 1 ELSE 0
        BY <1>0, <1>1 DEF Progress, Recounted, Given, Save
    <2>2. i > top[p] => i \notin batch[p]
        BY <1>0 DEF Progress, Recounted, TypeOK
    <2>3. ~(i > top[p]) => i \in everHidden \cup batch[p]
        <3>1. seen[p][s] = 0 /\ s \in Sinks
            BY <1>0 DEF Progress, Rewound
        <3>2. \A j \in 1..top[p] : \/ j \in everHidden \cup batch[p]
                                  \/ \A q \in Sinks : j <= seen[p][q]
            BY <1>0 DEF BatchComplete
        <3>3. top[p] \in Nat /\ i \in Nat \ {0}
            BY <1>0 DEF TypeOK
        <3> HIDE DEF Sinks
        <3>4. i \in 1..top[p] => i \in everHidden \cup batch[p]
            BY <3>1, <3>2, <3>3
        <3> QED
            BY <3>3, <3>4
    <2> QED
        BY <2>1, <2>2, <2>3
<1> QED
    BY <1>3, <1>4

\* A rebuild that no other pass overlapped leaves the rebuilt sinks holding
\* every line up to max_id exactly once and nothing newer, whatever races and
\* failures damaged them before (reset_vocabulary, then ingest_new_lines).
THEOREM RebuildExact == Spec => RebuildIsExact
<1>1. Init => RebuildInv
    BY RebuildersAssumption DEF Init, RebuildInv
<1>2. IngestInv /\ RebuildInv /\ [Next]_vars =>
        [\A p \in Rebuilders :
            pc[p] = "save" /\ pc'[p] = "idle" /\ alone[p] /\ mark' # mark =>
                \A s \in Rebuilt :
                    /\ mark'[s] = top[p]
                    /\ \A i \in Lines : credit'[s][i] \in
                         IF i > top[p] \/ i \in Unreadable THEN {0}
                         ELSE IF i \in everHidden THEN {0, 1} ELSE {1}]_vars
    BY LastSave
<1>3. IngestInv /\ RebuildInv /\ [Next]_vars => RebuildInv'
    BY RebuildStep
<1> QED
    BY <1>1, <1>2, <1>3, IngestInvariant, PTL DEF Spec, RebuildIsExact
=============================================================================
