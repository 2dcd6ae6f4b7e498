--------------------------- MODULE SessionIngestProofs ---------------------------
(***************************************************************************)
(* SessionIngest for every number of sinks, texts and ids: a session below *)
(* a sink's watermark is in the sink, though sessions are deleted, rebuilds *)
(* rewind, and passes fail anywhere; and until one fails no text is counted *)
(* twice.                                                                  *)
(***************************************************************************)
EXTENDS SessionIngest, TLAPS, WellFoundedInduction

\* Ids are given out without a hole, so one never given out is past every mark
\* and every batch.
IdsUnbroken == \A i \in used : 1..i \subseteq used
MarksUsed   == \A s \in Sinks : mark[s] \in used \cup {0}
Passing     == pc \in {"write", "save"}

\* What a pass read: marks that stand until it saves its own, and rows that are
\* the table's but for ids that came again.
MarksRead == Passing => \A s \in Sinks :
    mark[s] = IF pc = "save" /\ s < at THEN MaxIdOf ELSE seen[s]
Asked == {i \in DOMAIN rows \ again : rows[i] # NoText}
BatchAgrees == Passing =>
    /\ DOMAIN batch \subseteq used
    /\ \A i \in Asked : i <= MaxIdOf =>
         \/ i \in DOMAIN batch /\ batch[i] = rows[i]
         \/ \A s \in Sinks : i <= seen[s]

\* The sinks a pass has written hold what its last id is about to vouch for.
Written(s) == pc = "save" \/ (pc = "write" /\ s < at)
WrittenHold == \A s \in Sinks \ torn : Written(s) =>
    \A i \in Asked : i <= MaxIdOf => credit[s][rows[i]] >= 1

Counted == \A s \in Sinks \ torn, i \in DOMAIN rows \ again : Held(s, i)
RebuildsRebuilt == pc \in {"clear", "rewind"} => at \in Rebuilt

SessionInv ==
    /\ TypeOK /\ RebuildsRebuilt /\ IdsUnbroken /\ MarksUsed
    /\ MarksRead /\ BatchAgrees /\ WrittenHold /\ Counted

\* Every non-empty set of naturals has a least member.
LEMMA LeastOf ==
    ASSUME NEW T, T \subseteq Nat, T # {}
    PROVE  \E x \in T : \A y \in T : x <= y
<1> DEFINE Less == {ss \in Nat \X Nat : ss[1] < ss[2]}
<1>1. IsWellFoundedOn(Less, Nat)
    BY NatLessThanWellFounded DEF OpToRel
<1>2. \A y, x \in Nat : y < x => <<y, x>> \in Less
    OBVIOUS
<1> HIDE DEF Less
<1>3. PICK x \in T : \A y \in T : ~(<<y, x>> \in Less)
    BY <1>1, WFMin
<1>4. ASSUME NEW y \in T PROVE x <= y
    <2>1. x \in Nat /\ y \in Nat
        OBVIOUS
    <2>2. ~(y < x)
        BY <1>2, <1>3, <2>1
    <2> QED
        BY <2>1, <2>2
<1> QED
    BY <1>4

\* Newest picks the largest of a bounded set of ids, or 0 of none.
LEMMA NewestIs ==
    ASSUME NEW n \in Nat, NEW ids, ids \subseteq 1..n
    PROVE  /\ Newest(ids) \in ids \cup {0}
           /\ \A j \in ids : j <= Newest(ids)
<1>1. \E i \in ids \cup {0} : \A j \in ids : j <= i
    <2>1. CASE ids = {}
        BY <2>1
    <2>2. CASE ids # {}
        <3> DEFINE T == {k \in Nat : \E i \in ids : k = n - i}
        <3>1. \A i \in ids : n - i \in T
            OBVIOUS
        <3>2. T # {}
            BY <2>2, <3>1
        <3>3. PICK x \in T : \A y \in T : x <= y
            BY <3>2, LeastOf
        <3>4. PICK i \in ids : x = n - i
            BY <3>3
        <3>5. ASSUME NEW j \in ids PROVE j <= i
            <4>1. x <= n - j
                BY <3>1, <3>3
            <4> QED
                BY <3>4, <4>1
        <3> QED
            BY <3>5
    <2> QED
        BY <2>1, <2>2
<1> QED
    BY <1>1 DEF Newest

\* max_id is an id of the batch, or 0 of an empty one.
LEMMA MaxIdIs ==
    ASSUME TypeOK
    PROVE  /\ MaxIdOf \in DOMAIN batch \cup {0} /\ MaxIdOf \in 0..MaxId
           /\ \A j \in DOMAIN batch : j <= MaxIdOf
<1>1. DOMAIN batch \subseteq 1..MaxId /\ MaxId \in Nat
    BY SessionAssumptions DEF TypeOK
<1>2. /\ MaxIdOf \in DOMAIN batch \cup {0}
      /\ \A j \in DOMAIN batch : j <= MaxIdOf
    BY <1>1, NewestIs DEF MaxIdOf
<1> QED
    BY <1>1, <1>2

\* Nothing has been read, written or given out at the start.
LEMMA InitSession == Init => SessionInv
<1> SUFFICES ASSUME Init PROVE SessionInv
    OBVIOUS
<1>1. TypeOK
    <2>1. DOMAIN rows = {} /\ DOMAIN batch = {}
        BY DEF Init, None
    <2>2. mark \in [Sinks -> 0..MaxId] /\ seen \in [Sinks -> 0..MaxId] /\ at \in Sinks
        BY SessionAssumptions DEF Init, Zero, Sinks
    <2>3. credit \in [Sinks -> [Texts -> 0..2]]
        BY DEF Init
    <2>4. logged \in 0..MaxText /\ torn \subseteq Rebuilt
        BY SessionAssumptions DEF Init
    <2>6. broken \in BOOLEAN
        BY DEF Init
    <2>5. used = {} /\ again = {} /\ pc = "idle"
        BY DEF Init
    <2> QED
        BY <2>1, <2>2, <2>3, <2>4, <2>5, <2>6 DEF TypeOK
<1>2. RebuildsRebuilt /\ IdsUnbroken /\ MarksUsed
    BY DEF Init, RebuildsRebuilt, IdsUnbroken, MarksUsed, Zero
<1>3. MarksRead /\ BatchAgrees /\ WrittenHold
    BY DEF Init, MarksRead, BatchAgrees, WrittenHold, Passing, Written
<1>4. Counted
    BY DEF Init, Counted, None
<1> QED
    BY <1>1, <1>2, <1>3, <1>4 DEF SessionInv

\* A session that is deleted leaves the others as they were.
LEMMA DeleteKeeps ==
    ASSUME SessionInv, NEW id \in 1..MaxId, Delete(id)
    PROVE  SessionInv'
<1> USE DEF SessionInv
<1>1. TypeOK'
    BY DEF TypeOK, Delete, past
<1>2. Asked' \subseteq Asked /\ \A i \in DOMAIN rows' : i \in DOMAIN rows /\ rows'[i] = rows[i]
    BY DEF Delete, Asked, past
<1>3. /\ (RebuildsRebuilt /\ IdsUnbroken /\ MarksUsed /\ MarksRead)'
      /\ MaxIdOf' = MaxIdOf
    BY DEF Delete, past, RebuildsRebuilt, IdsUnbroken, MarksUsed, MarksRead, Passing, MaxIdOf
<1>4. BatchAgrees'
    BY <1>2, <1>3 DEF Delete, past, BatchAgrees, Passing, Asked
<1>5. WrittenHold'
    BY <1>2, <1>3 DEF Delete, past, WrittenHold, Written, Asked
<1>6. Counted'
    BY <1>2 DEF Delete, past, Counted, Held
<1> QED
    BY <1>1, <1>3, <1>4, <1>5, <1>6

\* The next id: past every id that is in the table, and past every mark and
\* every batch unless it was given out before.
LEMMA NewIdIs ==
    ASSUME SessionInv, NEW id, id = NewId(DOMAIN rows)
    PROVE  /\ id \in Nat \ {0} /\ id \notin DOMAIN rows
           /\ 1..(id - 1) \subseteq used
           /\ id \notin used => /\ \A s \in Sinks : mark[s] < id
                                /\ Passing => MaxIdOf < id
<1> USE DEF SessionInv
<1>1. DOMAIN rows \subseteq 1..MaxId /\ DOMAIN rows \subseteq used /\ MaxId \in Nat
    BY SessionAssumptions DEF TypeOK
<1>2. /\ Newest(DOMAIN rows) \in DOMAIN rows \cup {0}
      /\ \A j \in DOMAIN rows : j <= Newest(DOMAIN rows)
    BY <1>1, NewestIs
<1>3. id \in Nat \ {0} /\ id \notin DOMAIN rows
    BY <1>1, <1>2 DEF NewId
<1>4. 1..(id - 1) \subseteq used
    <2>1. id - 1 \in used \cup {0}
        BY <1>1, <1>2 DEF NewId
    <2> QED
        BY <2>1, <1>3 DEF IdsUnbroken
<1>5. ASSUME id \notin used, NEW m \in used \cup {0}
      PROVE  m < id
    <2>1. m \in Nat
        BY DEF TypeOK
    <2>2. CASE m = 0
        BY <2>2, <1>3
    <2>3. CASE m \in used
        <3>1. 1..m \subseteq used
            BY <2>3 DEF IdsUnbroken
        <3>2. ~(id <= m)
            BY <3>1, <1>3, <1>5, <2>1
        <3> QED
            BY <3>2, <2>1, <1>3
    <2> QED
        BY <2>2, <2>3
<1>6. id \notin used => \A s \in Sinks : mark[s] < id
    BY <1>5 DEF MarksUsed
<1>7. id \notin used /\ Passing => MaxIdOf < id
    <2>1. MaxIdOf \in DOMAIN batch \cup {0}
        BY MaxIdIs
    <2>2. Passing => DOMAIN batch \subseteq used
        BY DEF BatchAgrees
    <2> QED
        BY <2>1, <2>2, <1>5
<1> QED
    BY <1>3, <1>4, <1>6, <1>7

\* A session that is logged is past whatever a mark vouches for, or its id came
\* again and nothing is claimed of it.
LEMMA InsertKeeps ==
    ASSUME SessionInv, LogText \/ LogCount
    PROVE  SessionInv'
<1> USE DEF SessionInv
<1> DEFINE id == NewId(DOMAIN rows)
<1>1. PICK text \in {NoText} \cup 1..logged' : Insert(text)
    BY SessionAssumptions DEF LogText, LogCount, NoText, TypeOK
<1>2. logged' \in 0..MaxText /\ logged <= logged' /\ logged \in Nat
    BY SessionAssumptions DEF LogText, LogCount, TypeOK
<1>3. /\ id \in Nat \ {0} /\ id <= MaxId /\ id \notin DOMAIN rows
      /\ 1..(id - 1) \subseteq used
      /\ id \notin used => /\ \A s \in Sinks : mark[s] < id
                           /\ Passing => MaxIdOf < id
    BY <1>1, NewIdIs DEF Insert
<1>4. /\ DOMAIN rows' = DOMAIN rows \cup {id}
      /\ rows'[id] = text
      /\ \A i \in DOMAIN rows : rows'[i] = rows[i]
      /\ used' = used \cup {id} /\ again' = again \cup (used \cap {id})
      /\ UNCHANGED <<mark, credit, pc, at, seen, batch, torn, broken>>
    BY <1>1, <1>3 DEF Insert
<1> HIDE DEF id
<1>5. TypeOK'
    <2>1. DOMAIN rows' \subseteq 1..MaxId
        BY <1>3, <1>4, SessionAssumptions DEF TypeOK
    <2>2. \A i \in DOMAIN rows' : rows'[i] \in {NoText} \cup 1..logged'
        BY <1>1, <1>2, <1>4 DEF TypeOK
    <2>3. again' \subseteq used' /\ used' \subseteq 1..MaxId /\ DOMAIN rows' \subseteq used'
        BY <1>3, <1>4, SessionAssumptions DEF TypeOK
    <2> QED
        BY <1>2, <1>4, <2>1, <2>2, <2>3 DEF TypeOK
<1>6. MaxIdOf' = MaxIdOf /\ (RebuildsRebuilt /\ MarksUsed /\ MarksRead)'
    BY <1>4 DEF MaxIdOf, RebuildsRebuilt, MarksUsed, MarksRead, Passing
<1>7. IdsUnbroken'
    <2>1. 1..id \subseteq used \cup {id}
        BY <1>3
    <2> QED
        BY <2>1, <1>4 DEF IdsUnbroken
<1>8. \A i \in DOMAIN rows' \ again' :
        \/ i \in DOMAIN rows \ again /\ rows'[i] = rows[i]
        \/ /\ \A s \in Sinks : mark[s] < i
           /\ Passing => MaxIdOf < i
    <2> TAKE i \in DOMAIN rows' \ again'
    <2>1. CASE i \in DOMAIN rows
        BY <2>1, <1>4
    <2>2. CASE i \notin DOMAIN rows
        <3>1. i = id /\ id \notin used
            BY <2>2, <1>4
        <3>2. (\A s \in Sinks : mark[s] < id) /\ (Passing => MaxIdOf < id)
            BY <3>1, <1>3
        <3> QED
            BY <3>1, <3>2
    <2> QED
        BY <2>1, <2>2
<1>9. DOMAIN rows' \subseteq Nat /\ MaxIdOf \in Nat /\ \A s \in Sinks : mark[s] \in Nat
    <2>1. MaxIdOf \in Nat
        BY MaxIdIs
    <2> QED
        BY <2>1, <1>5, SessionAssumptions DEF TypeOK
<1>10. BatchAgrees'
    <2> SUFFICES ASSUME Passing'
                 PROVE  (/\ DOMAIN batch \subseteq used
                         /\ \A i \in Asked : i <= MaxIdOf =>
                              \/ i \in DOMAIN batch /\ batch[i] = rows[i]
                              \/ \A s \in Sinks : i <= seen[s])'
        BY DEF BatchAgrees
    <2>1. Passing
        BY <1>4 DEF Passing
    <2>2. DOMAIN batch' \subseteq used'
        BY <2>1, <1>4 DEF BatchAgrees
    <2>3. ASSUME NEW i \in Asked', i <= MaxIdOf'
          PROVE  i \in Asked /\ rows'[i] = rows[i] /\ i <= MaxIdOf
        <3>1. i \in DOMAIN rows' \ again' /\ rows'[i] # NoText
            BY <2>3 DEF Asked
        <3>2. ~(MaxIdOf < i)
            BY <1>6, <1>9, <2>3, <3>1
        <3> QED
            BY <1>6, <1>8, <2>1, <2>3, <3>1, <3>2 DEF Asked
    <2> QED
        BY <2>1, <2>2, <2>3, <1>4 DEF BatchAgrees
<1>11. WrittenHold'
    <2> SUFFICES ASSUME NEW s \in Sinks \ torn', Written(s)', NEW i \in Asked', i <= MaxIdOf'
                 PROVE  credit'[s][rows'[i]] >= 1
        BY DEF WrittenHold
    <2>1. Written(s) /\ Passing /\ s \in Sinks \ torn
        BY <1>4 DEF Written, Passing
    <2>2. i \in DOMAIN rows' \ again' /\ rows'[i] # NoText
        BY DEF Asked
    <2>3. ~(MaxIdOf < i) /\ i <= MaxIdOf
        BY <1>6, <1>9, <2>2
    <2>4. i \in Asked /\ rows'[i] = rows[i]
        BY <1>8, <2>1, <2>2, <2>3 DEF Asked
    <2> QED
        BY <1>4, <2>1, <2>3, <2>4 DEF WrittenHold
<1>12. Counted'
    <2> SUFFICES ASSUME NEW s \in Sinks \ torn', NEW i \in DOMAIN rows' \ again',
                        i <= mark'[s], rows'[i] # NoText
                 PROVE  credit'[s][rows'[i]] >= 1
        BY DEF Counted, Held
    <2>1. ~(mark[s] < i) /\ i <= mark[s] /\ s \in Sinks \ torn
        BY <1>4, <1>9
    <2>2. i \in DOMAIN rows \ again /\ rows'[i] = rows[i]
        BY <1>8, <2>1
    <2> QED
        BY <1>4, <2>1, <2>2 DEF Counted, Held
<1> QED
    BY <1>5, <1>6, <1>7, <1>10, <1>11, <1>12

\* A pass that ends, or never ran, claims nothing: of the invariant, only what
\* the marks vouch for and the types are left to show.
LEMMA AtRest ==
    ASSUME SessionInv, UNCHANGED <<rows, past>>, ~Passing',
           TypeOK', RebuildsRebuilt', MarksUsed', Counted'
    PROVE  SessionInv'
<1>1. IdsUnbroken'
    BY DEF SessionInv, IdsUnbroken, past
<1>2. (MarksRead /\ BatchAgrees /\ WrittenHold)'
    BY DEF MarksRead, BatchAgrees, WrittenHold, Written, Passing
<1> QED
    BY <1>1, <1>2 DEF SessionInv

\* The next sink, if there is one, is a sink; after a rebuilt one, rebuilt.
LEMMA NextSink ==
    ASSUME at \in Sinks, at < NSinks
    PROVE  at + 1 \in Rebuilt /\ at + 1 \in Sinks
BY SessionAssumptions DEF Sinks, Rebuilt

\* A rebuild begins with the sinks after the first.
LEMMA StartKeeps ==
    ASSUME SessionInv, StartRebuild
    PROVE  SessionInv'
<1> USE DEF SessionInv
<1>1. 2 \in Rebuilt /\ 2 \in Sinks
    BY SessionAssumptions DEF StartRebuild, Rebuilt, Sinks
<1>2. TypeOK'
    BY <1>1 DEF StartRebuild, Goto, TypeOK, past
<1>3. RebuildsRebuilt' /\ MarksUsed' /\ Counted' /\ ~Passing'
    BY <1>1 DEF StartRebuild, Goto, past, RebuildsRebuilt, MarksUsed, Counted, Held, Passing
<1> QED
    BY <1>2, <1>3, AtRest DEF StartRebuild, past

\* A sink that is cleared is torn until its mark is rewound.
LEMMA ClearKeeps ==
    ASSUME SessionInv, Clear
    PROVE  SessionInv'
<1> USE DEF SessionInv
<1>1. at \in Rebuilt /\ at \in Sinks /\ Rebuilt \subseteq Sinks
    BY SessionAssumptions DEF Clear, RebuildsRebuilt, TypeOK, Rebuilt, Sinks
<1>2. /\ pc' \in {"clear", "rewind"} /\ at' \in Rebuilt /\ at' \in Sinks
    <2>1. CASE at < NSinks
        BY <1>1, <2>1, NextSink DEF Clear, Advance, Goto
    <2>2. CASE ~(at < NSinks)
        BY <1>1, <2>2, SessionAssumptions DEF Clear, Advance, Goto, Rebuilt, Sinks
    <2> QED
        BY <2>1, <2>2
<1>3. credit' \in [Sinks -> [Texts -> 0..2]]
    BY DEF Clear, TypeOK
<1>4. torn' \subseteq Rebuilt
    BY <1>1 DEF Clear, TypeOK
<1>5. TypeOK'
    BY <1>2, <1>3, <1>4 DEF Clear, TypeOK, past
<1>6. RebuildsRebuilt' /\ MarksUsed' /\ ~Passing'
    BY <1>2 DEF Clear, past, RebuildsRebuilt, MarksUsed, Passing
<1>7. Counted'
    <2>1. \A s \in Sinks \ torn' : s \in Sinks \ torn /\ credit'[s] = credit[s]
        BY DEF Clear, TypeOK
    <2> QED
        BY <2>1 DEF Clear, past, Counted, Held
<1> QED
    BY <1>5, <1>6, <1>7, AtRest DEF Clear

\* A mark that is rewound vouches for nothing.
LEMMA RewindKeeps ==
    ASSUME SessionInv, Rewind
    PROVE  SessionInv'
<1> USE DEF SessionInv
<1>1. at \in Rebuilt /\ at \in Sinks
    BY DEF Rewind, RebuildsRebuilt, TypeOK
<1>2. /\ pc' \in {"rewind", "idle"} /\ at' \in Sinks
      /\ pc' = "rewind" => at' \in Rebuilt
    <2>1. CASE at < NSinks
        BY <1>1, <2>1, NextSink DEF Rewind, Advance, Goto
    <2>2. CASE ~(at < NSinks)
        BY <1>1, <2>2, SessionAssumptions DEF Rewind, Advance, Goto, Sinks
    <2> QED
        BY <2>1, <2>2
<1>3. mark' \in [Sinks -> 0..MaxId] /\ torn' \subseteq Rebuilt
    BY SessionAssumptions DEF Rewind, TypeOK
<1>4. TypeOK'
    BY <1>2, <1>3 DEF Rewind, TypeOK, past
<1>5. mark'[at] = 0 /\ \A s \in Sinks \ {at} : mark'[s] = mark[s]
    BY <1>1 DEF Rewind, TypeOK
<1>6. RebuildsRebuilt' /\ MarksUsed' /\ ~Passing'
    BY <1>2, <1>5 DEF Rewind, past, RebuildsRebuilt, MarksUsed, Passing
<1>7. Counted'
    <2> SUFFICES ASSUME NEW s \in Sinks \ torn', NEW i \in DOMAIN rows' \ again'
                 PROVE  Held(s, i)'
        BY DEF Counted
    <2>1. rows' = rows /\ again' = again /\ credit' = credit
        BY DEF Rewind, past
    <2>2. CASE s = at
        <3>1. i \in 1..MaxId
            BY <2>1 DEF TypeOK
        <3>2. ~(i <= mark'[s])
            BY <1>5, <2>2, <3>1, SessionAssumptions
        <3> QED
            BY <3>2 DEF Held
    <2>3. CASE s # at
        <3>1. s \in Sinks \ torn /\ mark'[s] = mark[s]
            BY <1>5, <2>3 DEF Rewind
        <3> QED
            BY <2>1, <3>1 DEF Counted, Held
    <2> QED
        BY <2>2, <2>3
<1> QED
    BY <1>4, <1>6, <1>7, AtRest DEF Rewind

\* A pass that fails leaves every sink and every mark as it is.
LEMMA AbortKeeps ==
    ASSUME SessionInv, Abort
    PROVE  SessionInv'
<1> USE DEF SessionInv
<1>1. 1 \in Sinks /\ Zero \in [Sinks -> 0..MaxId] /\ DOMAIN None = {}
    BY SessionAssumptions DEF Sinks, Zero, None
<1>2. TypeOK'
    BY <1>1 DEF Abort, Return, Goto, TypeOK, past
<1>3. RebuildsRebuilt' /\ MarksUsed' /\ Counted' /\ ~Passing'
    BY DEF Abort, Return, Goto, past, RebuildsRebuilt, MarksUsed, Counted, Held, Passing
<1> QED
    BY <1>2, <1>3, AtRest DEF Abort

\* A pass fetches every row past some mark, so a row it leaves out is below all.
LEMMA FetchKeeps ==
    ASSUME SessionInv, Fetch
    PROVE  SessionInv'
<1> USE DEF SessionInv
<1>1. 1 \in Sinks /\ \A s \in Sinks : s >= 1
    BY SessionAssumptions DEF Sinks
<1>2. /\ pc' = "write" /\ at' = 1 /\ seen' = mark
      /\ DOMAIN batch' = NewSessions /\ \A i \in NewSessions : batch'[i] = rows[i]
      /\ UNCHANGED <<rows, logged, mark, credit, torn, past, broken>>
    BY DEF Fetch, Goto
<1>3. NewSessions \subseteq DOMAIN rows
    BY DEF NewSessions
<1>4. TypeOK'
    BY <1>1, <1>2, <1>3 DEF TypeOK, past
<1>5. RebuildsRebuilt' /\ IdsUnbroken' /\ MarksUsed' /\ Counted'
    BY <1>2 DEF past, RebuildsRebuilt, IdsUnbroken, MarksUsed, Counted, Held
<1>6. MarksRead'
    BY <1>2 DEF MarksRead
<1>7. BatchAgrees'
    <2>1. DOMAIN batch' \subseteq used'
        BY <1>2, <1>3 DEF TypeOK, past
    <2>2. ASSUME NEW i \in Asked'
          PROVE  \/ i \in DOMAIN batch' /\ batch'[i] = rows'[i]
                 \/ \A s \in Sinks : i <= seen'[s]
        <3>1. i \in DOMAIN rows /\ rows[i] # NoText
            BY <1>2 DEF Asked, past
        <3>2. CASE i \in NewSessions
            BY <3>2, <1>2
        <3>3. CASE i \notin NewSessions
            <4>1. \A s \in Sinks : ~(i > mark[s])
                BY <3>1, <3>3 DEF NewSessions
            <4>2. i \in Nat /\ \A s \in Sinks : mark[s] \in Nat
                BY <3>1, SessionAssumptions DEF TypeOK
            <4> QED
                BY <4>1, <4>2, <1>2
        <3> QED
            BY <3>2, <3>3
    <2> QED
        BY <2>1, <2>2 DEF BatchAgrees
<1>8. WrittenHold'
    <2>1. \A s \in Sinks : ~Written(s)'
        BY <1>1, <1>2 DEF Written, Sinks
    <2> QED
        BY <2>1 DEF WrittenHold
<1> QED
    BY <1>4, <1>5, <1>6, <1>7, <1>8

\* A sink that is written holds what it held and, of the batch, all that its
\* mark does not vouch for already.
LEMMA WriteKeeps ==
    ASSUME SessionInv, Write
    PROVE  SessionInv'
<1> USE DEF SessionInv
<1>1. /\ pc = "write" /\ Passing /\ at \in Sinks
      /\ UNCHANGED <<rows, logged, mark, seen, batch, torn, past, broken>>
    BY DEF Write, Passing, TypeOK
<1>2. /\ at' \in Sinks
      /\ \/ pc' = "write" /\ at' = at + 1 /\ at < NSinks
         \/ pc' = "save" /\ at' = 1 /\ at = NSinks
    <2>1. CASE at < NSinks
        BY <1>1, <2>1, NextSink DEF Write, Advance, Goto
    <2>2. CASE ~(at < NSinks)
        BY <1>1, <2>2, SessionAssumptions DEF Write, Advance, Goto, Sinks
    <2> QED
        BY <2>1, <2>2
<1>3. /\ credit' \in [Sinks -> [Texts -> 0..2]]
      /\ \A s \in Sinks, t \in Texts : credit[s][t] >= 1 => credit'[s][t] >= 1
      /\ \A t \in Harvest(at) \cap Texts : credit'[at][t] >= 1
    <2> DEFINE More == [t \in Texts |-> IF t \in Harvest(at) /\ credit[at][t] < 2
                                        THEN credit[at][t] + 1 ELSE credit[at][t]]
    <2>1. credit' = [credit EXCEPT ![at] = More]
        BY DEF Write
    <2>2. \A t \in Texts : credit[at][t] \in 0..2
        BY <1>1 DEF TypeOK
    <2>3. /\ More \in [Texts -> 0..2]
          /\ \A t \in Texts : credit[at][t] >= 1 => More[t] >= 1
          /\ \A t \in Harvest(at) \cap Texts : More[t] >= 1
        BY <2>2
    <2> HIDE DEF More
    <2>4. /\ credit'[at] = More
          /\ \A s \in Sinks \ {at} : credit'[s] = credit[s]
          /\ credit' \in [Sinks -> [Texts -> 0..2]]
        BY <1>1, <2>1, <2>3 DEF TypeOK
    <2> QED
        BY <2>3, <2>4
<1>4. TypeOK'
    BY <1>1, <1>2, <1>3 DEF TypeOK, past
<1>5. \A i \in DOMAIN rows : rows[i] # NoText => rows[i] \in Texts
    BY SessionAssumptions DEF TypeOK, Texts
<1>6. MaxIdOf' = MaxIdOf /\ Asked' = Asked /\ Passing'
    BY <1>1, <1>2 DEF MaxIdOf, Asked, past, Passing
<1>7. RebuildsRebuilt' /\ IdsUnbroken' /\ MarksUsed'
    BY <1>1, <1>2 DEF past, RebuildsRebuilt, IdsUnbroken, MarksUsed
<1>8. \A s \in Sinks : mark[s] = seen[s]
    BY <1>1 DEF MarksRead
<1>9. MarksRead'
    <2>1. \A s \in Sinks : ~(pc' = "save" /\ s < at')
        BY <1>2 DEF Sinks
    <2> QED
        BY <1>1, <1>8, <2>1 DEF MarksRead
<1>10. BatchAgrees'
    BY <1>1, <1>6 DEF BatchAgrees, past
<1>11. WrittenHold'
    <2> SUFFICES ASSUME NEW s \in Sinks \ torn, Written(s)', NEW i \in Asked, i <= MaxIdOf
                 PROVE  credit'[s][rows[i]] >= 1
        BY <1>1, <1>6 DEF WrittenHold
    <2>1. i \in DOMAIN rows \ again /\ rows[i] \in Texts /\ rows[i] # NoText /\ i \in Nat
        BY <1>5, SessionAssumptions DEF Asked, TypeOK
    <2>2. CASE s # at
        <3>1. Written(s)
            BY <1>1, <1>2, <2>2 DEF Written, Sinks
        <3> QED
            BY <1>3, <2>1, <3>1 DEF WrittenHold
    <2>3. CASE s = at
        <3>1. CASE i <= seen[at]
            <4>1. credit[at][rows[i]] >= 1
                BY <1>8, <2>1, <2>3, <3>1 DEF Counted, Held
            <4> QED
                BY <1>3, <2>1, <2>3, <4>1
        <3>2. CASE ~(i <= seen[at])
            <4>1. i \in DOMAIN batch /\ batch[i] = rows[i]
                BY <1>1, <3>2 DEF BatchAgrees
            <4>2. i > seen[at]
                BY <1>1, <2>1, <3>2, SessionAssumptions DEF TypeOK
            <4>3. rows[i] \in Harvest(at)
                BY <4>1, <4>2 DEF Harvest
            <4> QED
                BY <1>3, <2>1, <2>3, <4>3
        <3> QED
            BY <3>1, <3>2
    <2> QED
        BY <2>2, <2>3
<1>12. Counted'
    <2> SUFFICES ASSUME NEW s \in Sinks \ torn, NEW i \in DOMAIN rows \ again,
                        i <= mark[s], rows[i] # NoText
                 PROVE  credit'[s][rows[i]] >= 1
        BY <1>1 DEF Counted, Held, past
    <2>1. credit[s][rows[i]] >= 1
        BY DEF Counted, Held
    <2> QED
        BY <1>3, <1>5, <2>1
<1> QED
    BY <1>4, <1>7, <1>9, <1>10, <1>11, <1>12

\* A mark that is saved vouches for what its sink was just given.
LEMMA SaveKeeps ==
    ASSUME SessionInv, Save
    PROVE  SessionInv'
<1> USE DEF SessionInv
<1>1. /\ pc = "save" /\ Passing /\ at \in Sinks
      /\ UNCHANGED <<rows, logged, credit, torn, past, broken>>
      /\ Asked' = Asked
    BY DEF Save, Passing, TypeOK, Asked, past
<1>2. /\ MaxIdOf \in DOMAIN batch \cup {0} /\ MaxIdOf \in 0..MaxId
      /\ DOMAIN batch \subseteq used
    BY <1>1, MaxIdIs DEF BatchAgrees
<1>3. /\ mark'[at] = MaxIdOf /\ \A s \in Sinks \ {at} : mark'[s] = mark[s]
      /\ mark' \in [Sinks -> 0..MaxId]
    BY <1>1, <1>2 DEF Save, TypeOK
<1>4. MarksUsed'
    BY <1>1, <1>2, <1>3 DEF MarksUsed, past
<1>5. Counted'
    <2> SUFFICES ASSUME NEW s \in Sinks \ torn, NEW i \in DOMAIN rows \ again,
                        i <= mark'[s], rows[i] # NoText
                 PROVE  credit[s][rows[i]] >= 1
        BY <1>1 DEF Counted, Held, past
    <2>1. CASE s = at
        <3>1. i \in Asked /\ i <= MaxIdOf /\ Written(s)
            BY <1>1, <1>3, <2>1 DEF Asked, Written
        <3> QED
            BY <3>1 DEF WrittenHold
    <2>2. CASE s # at
        BY <1>3, <2>2 DEF Counted, Held
    <2> QED
        BY <2>1, <2>2
<1>6. CASE at < NSinks
    <2>1. pc' = "save" /\ at' = at + 1 /\ at' \in Sinks /\ UNCHANGED <<seen, batch>>
        BY <1>1, <1>6, NextSink DEF Save, Goto
    <2>2. TypeOK'
        BY <1>1, <1>3, <2>1 DEF TypeOK, past
    <2>3. MaxIdOf' = MaxIdOf /\ RebuildsRebuilt' /\ IdsUnbroken'
        BY <1>1, <2>1 DEF MaxIdOf, RebuildsRebuilt, IdsUnbroken, past
    <2>4. MarksRead'
        <3> SUFFICES ASSUME NEW s \in Sinks
                     PROVE  mark'[s] = IF s < at' THEN MaxIdOf ELSE seen[s]
            BY <2>1, <2>3 DEF MarksRead
        <3>1. s \in Nat /\ at \in Nat
            BY <1>1 DEF Sinks
        <3>2. CASE s = at
            BY <1>3, <2>1, <3>1, <3>2
        <3>3. CASE s # at
            <4>1. mark[s] = IF s < at THEN MaxIdOf ELSE seen[s]
                BY <1>1 DEF MarksRead
            <4>2. s < at' <=> s < at
                BY <2>1, <3>1, <3>3
            <4> QED
                BY <1>3, <3>3, <4>1, <4>2
        <3> QED
            BY <3>2, <3>3
    <2>5. BatchAgrees'
        BY <1>1, <2>1, <2>3 DEF BatchAgrees, past
    <2>6. WrittenHold'
        BY <1>1, <2>1, <2>3 DEF WrittenHold, Written
    <2> QED
        BY <1>4, <1>5, <2>2, <2>3, <2>4, <2>5, <2>6
<1>7. CASE ~(at < NSinks)
    <2>1. 1 \in Sinks /\ Zero \in [Sinks -> 0..MaxId] /\ DOMAIN None = {}
        BY SessionAssumptions DEF Sinks, Zero, None
    <2>2. pc' = "idle" /\ at' = 1 /\ seen' = Zero /\ batch' = None
        BY <1>7 DEF Save, Return, Goto
    <2>3. TypeOK'
        BY <1>1, <1>3, <2>1, <2>2 DEF TypeOK, past
    <2>4. RebuildsRebuilt' /\ ~Passing'
        BY <2>2 DEF RebuildsRebuilt, Passing
    <2> QED
        BY <1>1, <1>4, <1>5, <2>3, <2>4, AtRest
<1> QED
    BY <1>6, <1>7

\* The invariant of the session ingest: what a running pass has read and written
\* is enough for the marks it is about to save.
THEOREM SessionInvariant == Spec => []SessionInv
<1>1. SessionInv /\ [Next]_vars => SessionInv'
    <2> SUFFICES ASSUME SessionInv, [Next]_vars PROVE SessionInv'
        OBVIOUS
    <2>1. CASE LogText \/ LogCount
        BY <2>1, InsertKeeps
    <2>2. CASE \E id \in 1..MaxId : Delete(id)
        BY <2>2, DeleteKeeps
    <2>3. CASE StartRebuild
        BY <2>3, StartKeeps
    <2>4. CASE Clear
        BY <2>4, ClearKeeps
    <2>5. CASE Rewind
        BY <2>5, RewindKeeps
    <2>6. CASE Fetch
        BY <2>6, FetchKeeps
    <2>7. CASE Write
        BY <2>7, WriteKeeps
    <2>8. CASE Save
        BY <2>8, SaveKeeps
    <2>9. CASE Abort
        BY <2>9, AbortKeeps
    <2>10. CASE UNCHANGED vars
        BY <2>10 DEF vars, past, SessionInv, TypeOK, RebuildsRebuilt, IdsUnbroken, MarksUsed,
               MarksRead, BatchAgrees, WrittenHold, Counted, Held, Passing, Written, Asked, MaxIdOf
    <2> QED
        BY <2>1, <2>2, <2>3, <2>4, <2>5, <2>6, <2>7, <2>8, <2>9, <2>10 DEF Next
<1> QED
    BY InitSession, <1>1, PTL DEF Spec

\* A hand-logged session whose id a sink's watermark has crossed is in that sink
\* (ingest_new_sessions, db/sessions.rs), for any number of sinks and sessions,
\* wherever passes and rebuilds failed and whatever was deleted, unless its id
\* was given out twice or a rebuild stopped between the sink and its watermark.
THEOREM SessionsStayCounted == Spec => []SessionsCounted
<1>1. SessionInv => SessionsCounted
    BY DEF SessionInv, SessionsCounted, Counted
<1> QED
    BY SessionInvariant, <1>1, PTL

---------------------------------------------------------------------------
(* No text is counted twice while no pass has failed.  A text is one row's *)
(* for good, and a sink that has it is past that row.                      *)

\* No two sessions carry the same text, and one not logged yet is nowhere.
TextsApart ==
    /\ \A i, j \in DOMAIN rows : rows[i] # NoText /\ rows[i] = rows[j] => i = j
    /\ \A s \in Sinks, t \in Texts : t > logged => credit[s][t] = 0

\* What a pass fetched: texts apart from each other, and those of the rows
\* they came from, if these are still there.
BatchApart == Passing =>
    /\ \A i \in DOMAIN batch : batch[i] \in 1..logged
    /\ \A i, j \in DOMAIN batch : batch[i] = batch[j] => i = j
    /\ \A i \in DOMAIN rows, j \in DOMAIN batch : rows[i] = batch[j] => i = j

\* A sink holds the text of a row only below its mark, or when the pass has
\* just given it; and the pass's last id is past every row some sink holds.
HeldBelow == \A s \in Sinks, i \in DOMAIN rows :
    rows[i] # NoText /\ credit[s][rows[i]] >= 1 =>
        /\ i <= mark[s] \/ Written(s)
        /\ Passing => i <= MaxIdOf

\* What a sink is about to be given it does not have.
BatchNew == pc = "write" => \A s \in Sinks, i \in DOMAIN batch :
    s >= at /\ i > seen[s] => credit[s][batch[i]] = 0

\* A mark is rewound only when its sink is empty.
RewindsEmpty == \A s \in Rebuilt : pc = "rewind" \/ (pc = "clear" /\ s < at) =>
    \A t \in Texts : credit[s][t] = 0

GivenOnce == \A s \in Sinks, t \in Texts : credit[s][t] <= 1

OnceInv == TextsApart /\ BatchApart /\ HeldBelow /\ BatchNew /\ RewindsEmpty /\ GivenOnce

\* Nothing is held and nothing is logged at the start.
LEMMA InitOnce == Init => OnceInv
<1> SUFFICES ASSUME Init PROVE OnceInv
    OBVIOUS
<1>1. DOMAIN rows = {} /\ ~Passing
    BY DEF Init, None, Passing
<1>2. \A s \in Sinks, t \in Texts : credit[s][t] = 0
    BY DEF Init
<1>3. RewindsEmpty /\ BatchNew
    BY DEF RewindsEmpty, BatchNew, Init
<1> QED
    BY <1>1, <1>2, <1>3 DEF OnceInv, TextsApart, BatchApart, HeldBelow, GivenOnce

\* A row's text is one of the texts.
LEMMA RowTexts ==
    ASSUME TypeOK
    PROVE  /\ \A i \in DOMAIN rows : rows[i] # NoText => rows[i] \in 1..logged
           /\ logged \in Nat /\ 1..logged \subseteq Texts
           /\ DOMAIN rows \subseteq Nat /\ DOMAIN batch \subseteq Nat
           /\ \A s \in Sinks : mark[s] \in Nat /\ seen[s] \in Nat
           /\ \A s \in Sinks, t \in Texts : credit[s][t] \in 0..2
BY SessionAssumptions DEF TypeOK, Texts

\* A session that is deleted takes its text with it.
LEMMA DeleteOnce ==
    ASSUME OnceInv, NEW id \in 1..MaxId, Delete(id)
    PROVE  OnceInv'
<1>1. /\ \A i \in DOMAIN rows' : i \in DOMAIN rows /\ rows'[i] = rows[i]
      /\ UNCHANGED <<logged, mark, credit, pc, at, seen, batch>>
    BY DEF Delete
<1>2. MaxIdOf' = MaxIdOf /\ Passing' = Passing /\ \A s \in Sinks : Written(s)' = Written(s)
    BY <1>1 DEF MaxIdOf, Passing, Written
<1>3. TextsApart' /\ BatchApart' /\ HeldBelow'
    BY <1>1, <1>2 DEF OnceInv, TextsApart, BatchApart, HeldBelow
<1>4. BatchNew' /\ RewindsEmpty' /\ GivenOnce'
    BY <1>1 DEF OnceInv, BatchNew, RewindsEmpty, GivenOnce
<1> QED
    BY <1>3, <1>4 DEF OnceInv

\* A session that is logged brings a text no sink and no batch has, or none.
LEMMA InsertOnce ==
    ASSUME SessionInv, OnceInv, LogText \/ LogCount
    PROVE  OnceInv'
<1> DEFINE id == NewId(DOMAIN rows)
<1> TypeOK
    BY DEF SessionInv
<1>1. PICK text : /\ Insert(text)
                  /\ \/ text = NoText /\ logged' = logged
                     \/ text = logged + 1 /\ logged' = logged + 1 /\ logged < MaxText
    BY DEF LogText, LogCount
<1>2. /\ id \notin DOMAIN rows
      /\ DOMAIN rows' = DOMAIN rows \cup {id}
      /\ rows'[id] = text
      /\ \A i \in DOMAIN rows : rows'[i] = rows[i]
      /\ UNCHANGED <<mark, credit, pc, at, seen, batch>>
    BY <1>1, NewIdIs DEF Insert
<1> HIDE DEF id
<1>3. /\ \A i \in DOMAIN rows : rows[i] # NoText => rows[i] \in 1..logged
      /\ logged \in Nat
    BY RowTexts
<1>4. text # NoText => /\ text \in Texts /\ text = logged + 1
                       /\ \A s \in Sinks : credit[s][text] = 0
    <2> SUFFICES ASSUME text # NoText
                 PROVE  /\ text \in Texts /\ text = logged + 1
                        /\ \A s \in Sinks : credit[s][text] = 0
        OBVIOUS
    <2>1. text \in Texts /\ text = logged + 1 /\ text > logged
        BY <1>1, <1>3, SessionAssumptions DEF Texts
    <2> QED
        BY <2>1 DEF OnceInv, TextsApart
<1>5. logged <= logged' /\ logged' \in Nat
    BY <1>1, <1>3
<1>6. MaxIdOf' = MaxIdOf /\ Passing' = Passing /\ \A s \in Sinks : Written(s)' = Written(s)
    BY <1>2 DEF MaxIdOf, Passing, Written
<1>7. TextsApart'
    <2>1. ASSUME NEW i \in DOMAIN rows', NEW j \in DOMAIN rows',
                 rows'[i] # NoText, rows'[i] = rows'[j]
          PROVE  i = j
        <3>1. CASE i \in DOMAIN rows /\ j \in DOMAIN rows
            BY <2>1, <3>1, <1>2 DEF OnceInv, TextsApart
        <3>2. CASE i = id /\ j = id
            BY <3>2
        <3>3. CASE i = id /\ j \in DOMAIN rows
            <4>1. rows[j] = text /\ text # NoText
                BY <2>1, <3>3, <1>2
            <4> QED
                BY <4>1, <3>3, <1>3, <1>4
        <3>4. CASE i \in DOMAIN rows /\ j = id
            <4>1. rows[i] = text /\ text # NoText
                BY <2>1, <3>4, <1>2
            <4> QED
                BY <4>1, <3>4, <1>3, <1>4
        <3> QED
            BY <1>2, <3>1, <3>2, <3>3, <3>4
    <2>2. \A s \in Sinks, t \in Texts : t > logged' => credit'[s][t] = 0
        <3> SUFFICES ASSUME NEW s \in Sinks, NEW t \in Texts, t > logged'
                     PROVE  credit[s][t] = 0
            BY <1>2
        <3>1. t > logged
            BY <1>3, <1>5 DEF Texts
        <3> QED
            BY <3>1 DEF OnceInv, TextsApart
    <2> QED
        BY <2>1, <2>2 DEF TextsApart
<1>8. BatchApart'
    <2> SUFFICES ASSUME Passing
                 PROVE  (/\ \A i \in DOMAIN batch : batch[i] \in 1..logged
                         /\ \A i, j \in DOMAIN batch : batch[i] = batch[j] => i = j
                         /\ \A i \in DOMAIN rows, j \in DOMAIN batch :
                               rows[i] = batch[j] => i = j)'
        BY <1>6 DEF BatchApart
    <2>1. /\ \A i \in DOMAIN batch : batch[i] \in 1..logged
          /\ \A i, j \in DOMAIN batch : batch[i] = batch[j] => i = j
          /\ \A i \in DOMAIN rows, j \in DOMAIN batch : rows[i] = batch[j] => i = j
        BY DEF OnceInv, BatchApart
    <2>2. \A i \in DOMAIN batch' : batch'[i] \in 1..logged'
        BY <1>2, <1>3, <1>5, <2>1
    <2>3. \A j \in DOMAIN batch : text # batch[j]
        BY <1>1, <1>3, <2>1 DEF NoText
    <2>4. \A i \in DOMAIN rows', j \in DOMAIN batch' : rows'[i] = batch'[j] => i = j
        BY <1>2, <2>1, <2>3
    <2> QED
        BY <1>2, <2>1, <2>2, <2>4
<1>9. HeldBelow'
    <2> SUFFICES ASSUME NEW s \in Sinks, NEW i \in DOMAIN rows',
                        rows'[i] # NoText, credit[s][rows'[i]] >= 1
                 PROVE  (i <= mark[s] \/ Written(s)) /\ (Passing => i <= MaxIdOf)
        BY <1>2, <1>6 DEF HeldBelow
    <2>1. i # id
        BY <1>2, <1>4
    <2>2. i \in DOMAIN rows /\ rows'[i] = rows[i]
        BY <1>2, <2>1
    <2> QED
        BY <2>2 DEF OnceInv, HeldBelow
<1>10. BatchNew' /\ RewindsEmpty' /\ GivenOnce'
    BY <1>2 DEF OnceInv, BatchNew, RewindsEmpty, GivenOnce
<1> QED
    BY <1>7, <1>8, <1>9, <1>10 DEF OnceInv

\* Clearing a sink leaves it with nothing.
LEMMA ClearOnce ==
    ASSUME SessionInv, OnceInv, Clear
    PROVE  OnceInv'
<1> TypeOK /\ RebuildsRebuilt
    BY DEF SessionInv
<1>1. /\ UNCHANGED <<rows, logged, mark, seen, batch>>
      /\ pc = "clear" /\ at \in Sinks
    BY DEF Clear, TypeOK
<1>2. /\ \A t \in Texts : credit'[at][t] = 0
      /\ \A s \in Sinks \ {at} : credit'[s] = credit[s]
    BY <1>1 DEF Clear, TypeOK
<1>3. \/ pc' = "clear" /\ at' = at + 1
      \/ pc' = "rewind" /\ at = NSinks
    BY <1>1, SessionAssumptions DEF Clear, Advance, Goto, Sinks
<1>4. ~Passing /\ ~Passing' /\ \A s \in Sinks : ~Written(s) /\ ~Written(s)'
    BY <1>1, <1>3 DEF Passing, Written
<1>5. \A s \in Sinks, t \in Texts : credit'[s][t] \in {0, credit[s][t]}
    BY <1>2
<1>6. TextsApart' /\ GivenOnce'
    BY <1>1, <1>5 DEF OnceInv, TextsApart, GivenOnce
<1>7. BatchApart' /\ BatchNew'
    BY <1>3, <1>4 DEF BatchApart, BatchNew
<1>8. HeldBelow'
    <2> SUFFICES ASSUME NEW s \in Sinks, NEW i \in DOMAIN rows,
                        rows[i] # NoText, credit'[s][rows[i]] >= 1
                 PROVE  i <= mark[s]
        BY <1>1, <1>4 DEF HeldBelow
    <2>1. rows[i] \in Texts
        BY RowTexts
    <2>2. credit'[s][rows[i]] = credit[s][rows[i]]
        BY <1>5, <2>1
    <2> QED
        BY <1>4, <2>2 DEF OnceInv, HeldBelow
<1>9. RewindsEmpty'
    <2> SUFFICES ASSUME NEW s \in Rebuilt, pc' = "rewind" \/ s < at', NEW t \in Texts
                 PROVE  credit'[s][t] = 0
        BY DEF RewindsEmpty
    <2>1. s \in Sinks
        BY SessionAssumptions DEF Rebuilt, Sinks
    <2>2. s = at \/ s < at
        BY <1>1, <1>3, <2>1 DEF Sinks
    <2>3. s < at => credit[s][t] = 0
        BY <1>1 DEF OnceInv, RewindsEmpty
    <2> QED
        BY <1>2, <2>1, <2>2, <2>3
<1> QED
    BY <1>6, <1>7, <1>8, <1>9 DEF OnceInv

\* A mark that is rewound is an empty sink's.
LEMMA RewindOnce ==
    ASSUME SessionInv, OnceInv, Rewind
    PROVE  OnceInv'
<1> TypeOK /\ RebuildsRebuilt
    BY DEF SessionInv
<1>1. /\ UNCHANGED <<rows, logged, credit, seen, batch>>
      /\ pc = "rewind" /\ at \in Sinks /\ at \in Rebuilt
      /\ pc' \in {"rewind", "idle"}
    BY DEF Rewind, Advance, Goto, TypeOK, RebuildsRebuilt
<1>2. \A s \in Sinks : s # at => mark'[s] = mark[s]
    BY <1>1 DEF Rewind, TypeOK
<1>3. ~Passing /\ ~Passing' /\ \A s \in Sinks : ~Written(s) /\ ~Written(s)'
    BY <1>1 DEF Passing, Written
<1>4. TextsApart' /\ GivenOnce' /\ RewindsEmpty'
    BY <1>1 DEF OnceInv, TextsApart, GivenOnce, RewindsEmpty
<1>5. BatchApart' /\ BatchNew'
    BY <1>1, <1>3 DEF BatchApart, BatchNew
<1>6. HeldBelow'
    <2> SUFFICES ASSUME NEW s \in Sinks, NEW i \in DOMAIN rows,
                        rows[i] # NoText, credit[s][rows[i]] >= 1
                 PROVE  i <= mark'[s]
        BY <1>1, <1>3 DEF HeldBelow
    <2>1. rows[i] \in Texts
        BY RowTexts
    <2>2. s # at
        BY <1>1, <2>1 DEF OnceInv, RewindsEmpty
    <2> QED
        BY <1>2, <1>3, <2>2 DEF OnceInv, HeldBelow
<1> QED
    BY <1>4, <1>5, <1>6 DEF OnceInv

\* What a pass fetches for a sink the sink does not have, and the newest of it
\* is past every row a sink has: one below all marks is below the newest too.
LEMMA FetchOnce ==
    ASSUME SessionInv, OnceInv, Fetch
    PROVE  OnceInv'
<1> TypeOK
    BY DEF SessionInv
<1>1. /\ pc = "idle" /\ pc' = "write" /\ at' = 1 /\ seen' = mark
      /\ DOMAIN batch' = NewSessions /\ \A i \in NewSessions : batch'[i] = rows[i]
      /\ UNCHANGED <<rows, logged, mark, credit>>
      /\ NewSessions # {}
    BY DEF Fetch, Goto
<1>2. /\ NewSessions \subseteq DOMAIN rows
      /\ \A i \in NewSessions : rows[i] # NoText
      /\ DOMAIN rows \subseteq 1..MaxId /\ MaxId \in Nat
    BY SessionAssumptions DEF NewSessions, TypeOK
<1>3. /\ MaxIdOf' \in NewSessions \cup {0}
      /\ \A j \in NewSessions : j <= MaxIdOf'
    BY <1>1, <1>2, NewestIs DEF MaxIdOf
<1>4. /\ \A i \in DOMAIN rows : i \in Nat /\ (rows[i] # NoText => rows[i] \in 1..logged)
      /\ 1..logged \subseteq Texts
      /\ \A s \in Sinks : mark[s] \in Nat
      /\ \A s \in Sinks, t \in Texts : credit[s][t] \in 0..2
    BY RowTexts
<1>5. \A s \in Sinks, i \in DOMAIN rows :
         rows[i] # NoText /\ credit[s][rows[i]] >= 1 => i <= mark[s]
    BY <1>1 DEF OnceInv, HeldBelow, Written
<1>6. TextsApart' /\ GivenOnce' /\ RewindsEmpty'
    BY <1>1 DEF OnceInv, TextsApart, GivenOnce, RewindsEmpty
<1>7. BatchApart'
    <2>1. \A i, j \in DOMAIN rows : rows[i] # NoText /\ rows[i] = rows[j] => i = j
        BY DEF OnceInv, TextsApart
    <2>2. \A i \in DOMAIN batch' : batch'[i] \in 1..logged'
        BY <1>1, <1>2, <1>4
    <2>3. /\ \A i, j \in DOMAIN batch' : batch'[i] = batch'[j] => i = j
          /\ \A i \in DOMAIN rows', j \in DOMAIN batch' : rows'[i] = batch'[j] => i = j
        BY <1>1, <1>2, <2>1
    <2> QED
        BY <2>2, <2>3 DEF BatchApart
<1>8. HeldBelow'
    <2> SUFFICES ASSUME NEW s \in Sinks, NEW i \in DOMAIN rows,
                        rows[i] # NoText, credit[s][rows[i]] >= 1
                 PROVE  i <= mark[s] /\ i <= MaxIdOf'
        BY <1>1 DEF HeldBelow
    <2>1. i <= mark[s]
        BY <1>5
    <2>2. CASE i \in NewSessions
        BY <2>1, <2>2, <1>3
    <2>3. CASE i \notin NewSessions
        <3>1. \A r \in Sinks : ~(i > mark[r])
            BY <2>3 DEF NewSessions
        <3>2. PICK j \in NewSessions : TRUE
            BY <1>1
        <3>3. PICK r \in Sinks : j > mark[r]
            BY <3>2 DEF NewSessions
        <3>4. j <= MaxIdOf' /\ MaxIdOf' \in Nat /\ j \in Nat /\ i \in Nat /\ mark[r] \in Nat
            BY <1>2, <1>3, <1>4
        <3> QED
            BY <2>1, <3>1, <3>3, <3>4
    <2> QED
        BY <2>2, <2>3
<1>9. BatchNew'
    <2> SUFFICES ASSUME NEW s \in Sinks, NEW i \in NewSessions, i > mark[s]
                 PROVE  credit[s][rows[i]] = 0
        BY <1>1 DEF BatchNew
    <2>1. /\ rows[i] # NoText /\ rows[i] \in Texts /\ i \in DOMAIN rows
          /\ i \in Nat /\ mark[s] \in Nat
          /\ credit[s][rows[i]] \in 0..2
        BY <1>2, <1>4
    <2>2. ~(credit[s][rows[i]] >= 1)
        BY <1>5, <2>1
    <2> QED
        BY <2>1, <2>2
<1> QED
    BY <1>6, <1>7, <1>8, <1>9 DEF OnceInv

\* What is written is new to the sink.
LEMMA WriteOnce ==
    ASSUME SessionInv, OnceInv, Write
    PROVE  OnceInv'
<1> TypeOK /\ MarksRead
    BY DEF SessionInv
<1>1. /\ pc = "write" /\ Passing /\ at \in Sinks
      /\ UNCHANGED <<rows, logged, mark, seen, batch>>
    BY DEF Write, Passing, TypeOK
<1>2. /\ \/ pc' = "write" /\ at' = at + 1 /\ at < NSinks
         \/ pc' = "save" /\ at' = 1 /\ at = NSinks
      /\ Passing' /\ MaxIdOf' = MaxIdOf
      /\ \A s \in Sinks : Written(s)' <=> s <= at
    <2>1. \/ pc' = "write" /\ at' = at + 1 /\ at < NSinks
          \/ pc' = "save" /\ at' = 1 /\ at = NSinks
        BY <1>1, SessionAssumptions DEF Write, Advance, Goto, Sinks
    <2>2. \A s \in Sinks : Written(s)' <=> s <= at
        BY <1>1, <2>1 DEF Written, Sinks
    <2> QED
        BY <1>1, <2>1, <2>2 DEF Passing, MaxIdOf
<1>3. /\ \A s \in Sinks, t \in Texts :
            s # at \/ t \notin Harvest(at) => credit'[s][t] = credit[s][t]
      /\ \A t \in Texts : t \in Harvest(at) /\ credit[at][t] = 0 => credit'[at][t] = 1
    BY <1>1 DEF Write, TypeOK
<1>4. /\ logged \in Nat /\ 1..logged \subseteq Texts
      /\ \A i \in DOMAIN rows : rows[i] # NoText => rows[i] \in 1..logged
      /\ DOMAIN rows \subseteq Nat /\ DOMAIN batch \subseteq Nat
    BY RowTexts
<1>5. \A t \in Harvest(at) : /\ t \in 1..logged
                             /\ credit[at][t] = 0
                             /\ \E j \in DOMAIN batch : t = batch[j]
    <2> TAKE t \in Harvest(at)
    <2>1. PICK j \in DOMAIN batch : t = batch[j] /\ j > seen[at]
        BY DEF Harvest
    <2>2. batch[j] \in 1..logged
        BY <1>1 DEF OnceInv, BatchApart
    <2>3. credit[at][batch[j]] = 0
        <3>1. at >= at
            BY <1>1 DEF Sinks
        <3> QED
            BY <1>1, <2>1, <3>1 DEF OnceInv, BatchNew
    <2> QED
        BY <2>1, <2>2, <2>3
<1>6. TextsApart'
    <2>1. ASSUME NEW s \in Sinks, NEW t \in Texts, t > logged
          PROVE  credit'[s][t] = 0
        <3>1. t \notin Harvest(at)
            BY <1>4, <1>5, <2>1 DEF Texts
        <3>2. credit[s][t] = 0
            BY <2>1 DEF OnceInv, TextsApart
        <3> QED
            BY <1>3, <3>1, <3>2
    <2> QED
        BY <1>1, <2>1 DEF OnceInv, TextsApart
<1>7. GivenOnce'
    <2> SUFFICES ASSUME NEW s \in Sinks, NEW t \in Texts
                 PROVE  credit'[s][t] <= 1
        BY DEF GivenOnce
    <2>1. CASE s = at /\ t \in Harvest(at)
        BY <1>3, <1>5, <2>1
    <2>2. CASE ~(s = at /\ t \in Harvest(at))
        BY <1>3, <2>2 DEF OnceInv, GivenOnce
    <2> QED
        BY <2>1, <2>2
<1>8. BatchApart'
    BY <1>1, <1>2 DEF OnceInv, BatchApart
<1>9. HeldBelow'
    <2> SUFFICES ASSUME NEW s \in Sinks, NEW i \in DOMAIN rows,
                        rows[i] # NoText, credit'[s][rows[i]] >= 1
                 PROVE  (i <= mark[s] \/ s <= at) /\ i <= MaxIdOf
        BY <1>1, <1>2 DEF HeldBelow
    <2>1. rows[i] \in Texts
        BY <1>4
    <2>2. CASE s = at /\ rows[i] \in Harvest(at)
        <3>1. PICK j \in DOMAIN batch : rows[i] = batch[j]
            BY <1>5, <2>2
        <3>2. i \in DOMAIN batch
            BY <1>1, <3>1 DEF OnceInv, BatchApart
        <3>3. i <= MaxIdOf
            BY <3>2, MaxIdIs
        <3>4. s <= at
            BY <2>2 DEF Sinks
        <3> QED
            BY <3>3, <3>4
    <2>3. CASE ~(s = at /\ rows[i] \in Harvest(at))
        <3>1. credit[s][rows[i]] >= 1
            BY <1>3, <2>1, <2>3
        <3>2. (i <= mark[s] \/ Written(s)) /\ i <= MaxIdOf
            BY <1>1, <3>1 DEF OnceInv, HeldBelow
        <3>3. Written(s) => s <= at
            BY <1>1 DEF Written, Sinks
        <3> QED
            BY <3>2, <3>3
    <2> QED
        BY <2>2, <2>3
<1>10. BatchNew'
    <2> SUFFICES ASSUME pc' = "write", NEW s \in Sinks, NEW i \in DOMAIN batch,
                        s >= at', i > seen[s]
                 PROVE  credit'[s][batch[i]] = 0
        BY <1>1 DEF BatchNew
    <2>1. s # at /\ s >= at
        BY <1>1, <1>2 DEF Sinks
    <2>2. credit[s][batch[i]] = 0 /\ batch[i] \in 1..logged
        BY <1>1, <2>1 DEF OnceInv, BatchNew, BatchApart
    <2> QED
        BY <1>3, <1>4, <2>1, <2>2
<1>11. RewindsEmpty'
    BY <1>2 DEF RewindsEmpty
<1> QED
    BY <1>6, <1>7, <1>8, <1>9, <1>10, <1>11 DEF OnceInv

\* A mark that is saved is past every row its sink holds.
LEMMA SaveOnce ==
    ASSUME SessionInv, OnceInv, Save
    PROVE  OnceInv'
<1> TypeOK /\ MarksRead
    BY DEF SessionInv
<1>1. /\ pc = "save" /\ Passing /\ at \in Sinks
      /\ UNCHANGED <<rows, logged, credit>>
    BY DEF Save, Passing, TypeOK
<1>2. MaxIdOf \in 0..MaxId
    BY MaxIdIs
<1>3. mark'[at] = MaxIdOf /\ \A s \in Sinks \ {at} : mark'[s] = mark[s]
    BY <1>1 DEF Save, TypeOK
<1>4. TextsApart' /\ GivenOnce'
    BY <1>1 DEF OnceInv, TextsApart, GivenOnce
<1>5. \A s \in Sinks, i \in DOMAIN rows :
         rows[i] # NoText /\ credit[s][rows[i]] >= 1 => i <= MaxIdOf
    BY <1>1 DEF OnceInv, HeldBelow
<1>6. CASE at < NSinks
    <2>1. pc' = "save" /\ at' = at + 1 /\ UNCHANGED <<seen, batch>>
        BY <1>1, <1>6 DEF Save, Goto
    <2>2. MaxIdOf' = MaxIdOf /\ Passing' /\ \A s \in Sinks : Written(s)'
        BY <2>1 DEF MaxIdOf, Passing, Written
    <2>3. BatchApart' /\ BatchNew' /\ RewindsEmpty'
        BY <1>1, <2>1 DEF OnceInv, BatchApart, BatchNew, RewindsEmpty
    <2>4. HeldBelow'
        BY <1>1, <1>5, <2>2 DEF HeldBelow
    <2> QED
        BY <1>4, <2>3, <2>4 DEF OnceInv
<1>7. CASE ~(at < NSinks)
    <2>1. pc' = "idle" /\ at = NSinks
        BY <1>1, <1>7, SessionAssumptions DEF Save, Return, Goto, Sinks
    <2>2. ~Passing'
        BY <2>1 DEF Passing
    <2>3. BatchApart' /\ BatchNew' /\ RewindsEmpty'
        BY <2>1, <2>2 DEF BatchApart, BatchNew, RewindsEmpty
    <2>4. \A s \in Sinks : mark'[s] = MaxIdOf
        <3> TAKE s \in Sinks
        <3>1. CASE s = at
            BY <1>3, <3>1
        <3>2. CASE s # at
            <4>1. s < at
                BY <2>1, <3>2, SessionAssumptions DEF Sinks
            <4> QED
                BY <1>1, <1>3, <3>2, <4>1 DEF MarksRead
        <3> QED
            BY <3>1, <3>2
    <2>5. HeldBelow'
        BY <1>1, <1>5, <2>2, <2>4 DEF HeldBelow
    <2> QED
        BY <1>4, <2>3, <2>5 DEF OnceInv
<1> QED
    BY <1>6, <1>7

\* Starting a rebuild moves no mark and no count.
LEMMA StartOnce ==
    ASSUME OnceInv, StartRebuild
    PROVE  OnceInv'
<1>1. /\ pc = "idle" /\ pc' = "clear" /\ at' = 2
      /\ UNCHANGED <<rows, logged, mark, credit, seen, batch>>
    BY DEF StartRebuild, Goto
<1>2. ~Passing' /\ \A s \in Sinks : ~Written(s)
    BY <1>1 DEF Passing, Written
<1>3. TextsApart' /\ GivenOnce' /\ BatchApart' /\ BatchNew'
    BY <1>1, <1>2 DEF OnceInv, TextsApart, GivenOnce, BatchApart, BatchNew
<1>4. HeldBelow'
    BY <1>1, <1>2 DEF OnceInv, HeldBelow
<1>5. RewindsEmpty'
    BY <1>1 DEF RewindsEmpty, Rebuilt
<1> QED
    BY <1>3, <1>4, <1>5 DEF OnceInv

\* Until a pass fails, OnceInv holds in every state.
THEOREM OnceInvariant == Spec => [](broken \/ OnceInv)
<1>1. SessionInv /\ (broken \/ OnceInv) /\ [Next]_vars => (broken \/ OnceInv)'
    <2> SUFFICES ASSUME SessionInv, broken \/ OnceInv, [Next]_vars, ~broken'
                 PROVE  OnceInv'
        OBVIOUS
    <2>1. ~Abort
        BY DEF Abort
    <2>2. OnceInv
        <3>1. broken' = broken
            <4>1. CASE LogText \/ LogCount
                BY <4>1 DEF LogText, LogCount, Insert
            <4>2. CASE \E id \in 1..MaxId : Delete(id)
                BY <4>2 DEF Delete
            <4>3. CASE StartRebuild \/ Clear \/ Rewind \/ Fetch \/ Write \/ Save
                BY <4>3 DEF StartRebuild, Clear, Rewind, Fetch, Write, Save
            <4>4. CASE UNCHANGED vars
                BY <4>4 DEF vars
            <4> QED
                BY <2>1, <4>1, <4>2, <4>3, <4>4 DEF Next
        <3> QED
            BY <3>1
    <2>3. CASE LogText \/ LogCount
        BY <2>2, <2>3, InsertOnce
    <2>4. CASE \E id \in 1..MaxId : Delete(id)
        BY <2>2, <2>4, DeleteOnce
    <2>5. CASE StartRebuild
        BY <2>2, <2>5, StartOnce
    <2>6. CASE Clear
        BY <2>2, <2>6, ClearOnce
    <2>7. CASE Rewind
        BY <2>2, <2>7, RewindOnce
    <2>8. CASE Fetch
        BY <2>2, <2>8, FetchOnce
    <2>9. CASE Write
        BY <2>2, <2>9, WriteOnce
    <2>10. CASE Save
        BY <2>2, <2>10, SaveOnce
    <2>11. CASE UNCHANGED vars
        BY <2>2, <2>11 DEF vars, OnceInv, TextsApart, BatchApart, HeldBelow, BatchNew,
               RewindsEmpty, GivenOnce, Passing, Written, MaxIdOf
    <2> QED
        BY <2>1, <2>3, <2>4, <2>5, <2>6, <2>7, <2>8, <2>9, <2>10, <2>11 DEF Next
<1> QED
    BY InitOnce, <1>1, SessionInvariant, PTL DEF Spec

\* Until a pass fails, no hand-logged text is counted twice in a sink, whatever
\* rebuilds rewound and whatever ids a deletion and the next session reused.
THEOREM TextsCountOnce == Spec => []TextCountedOnce
<1>1. (broken \/ OnceInv) => TextCountedOnce
    BY DEF OnceInv, GivenOnce, TextCountedOnce
<1> QED
    BY OnceInvariant, <1>1, PTL
=============================================================================
