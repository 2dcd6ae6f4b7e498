---------------------------- MODULE VocabLedgerProofs ----------------------------
(***************************************************************************)
(* VocabLedger for every set of terms, versions of the tokenizer, requests *)
(* at once and contents of the deck, whatever the tokenizer and the         *)
(* dictionaries call a term: nothing is said of a word but what the reader  *)
(* said of it, or of one whose judgement was put on its row, and nothing    *)
(* the reader said is lost; and a rebuild that ran alone leaves the words   *)
(* of the reading it saw, as long as no repair takes their keys away.       *)
(***************************************************************************)
EXTENDS VocabLedger, FiniteSetTheorems, TLAPS

RowType == [status : Status, mined : BOOLEAN, met : BOOLEAN]

\* The row being repaired has another key to go to.
RepairsMove == \A t \in fixing.from : RealKey[t] # t

VocabInv == TypeOK /\ RepairsMove /\ NothingUnsaid /\ NothingForgotten

\* SpeaksOf, once the judgements of m are misplaced.
Hears(m, t) == {WordOf[t]} \cup {w \in Words : <<w, WordOf[t]>> \in m}

\* Rows of the table's type; rows that, once m is misplaced, say nothing new of
\* a word; and rows that still say of every word what was said of it.
RowsTyped(rows) == DOMAIN rows \subseteq Terms /\ \A t \in DOMAIN rows : rows[t] \in RowType

SaysNoMore(rows, m) == \A t \in DOMAIN rows : rows[t].status # "new" =>
    \E u \in Rows : SpeaksOf(u) \subseteq Hears(m, t) /\ vocab[u].status = rows[t].status

SaysNoLess(rows, m) == \A u \in Rows : vocab[u].status # "new" =>
    \E t \in DOMAIN rows : SpeaksOf(u) \subseteq Hears(m, t) /\ rows[t].status # "new"

KeepsWhatIsSaid(rows, m) == RowsTyped(rows) /\ SaysNoMore(rows, m) /\ SaysNoLess(rows, m)

\* A judgement moves from one key to another: m holds what was misplaced before,
\* and the words this move misplaces.
Misplaces(m, from, into) ==
    /\ misplaced \subseteq m
    /\ WordOf[from] # WordOf[into] => SpeaksOf(from) \X {WordOf[into]} \subseteq m

---------------------------------------------------------------------------
(* The statements: the rows they leave, and what those say.                *)

\* A row that is not there yet counts as a fresh one.
LEMMA RowTyped ==
    ASSUME TypeOK, NEW t
    PROVE  /\ Row(t) \in RowType
           /\ t \notin Rows => Row(t).status = "new"
BY DEF Row, Fresh, RowType, TypeOK, Status

\* Upserting a status gives each of the terms a row with it and changes no other.
LEMMA UpsertStatus ==
    ASSUME TypeOK, NEW ts, NEW s \in Status
    PROVE  /\ DOMAIN Upsert(ts, "status", s) = Rows \cup ts
           /\ \A t \in ts : /\ Upsert(ts, "status", s)[t] \in RowType
                            /\ Upsert(ts, "status", s)[t].status = s
           /\ \A t \in Rows \ ts : Upsert(ts, "status", s)[t] = vocab[t]
<1>1. \A t \in ts : Upsert(ts, "status", s)[t] = [Row(t) EXCEPT !["status"] = s]
    BY DEF Upsert
<1>2. \A t \in Rows \ ts : Upsert(ts, "status", s)[t] = vocab[t]
    BY DEF Upsert
<1>3. DOMAIN Upsert(ts, "status", s) = Rows \cup ts
    BY DEF Upsert
<1>4. ASSUME NEW t \in ts
      PROVE  /\ Upsert(ts, "status", s)[t] \in RowType
             /\ Upsert(ts, "status", s)[t].status = s
    <2>1. Row(t) \in RowType
        BY RowTyped
    <2> QED
        BY <1>1, <2>1 DEF RowType
<1> QED
    BY <1>2, <1>3, <1>4

\* Upserting that a word was met keeps what was said of it.
LEMMA UpsertMet ==
    ASSUME TypeOK, NEW ts, NEW b \in BOOLEAN
    PROVE  /\ DOMAIN Upsert(ts, "met", b) = Rows \cup ts
           /\ \A t \in Rows \cup ts : /\ Upsert(ts, "met", b)[t] \in RowType
                                      /\ Upsert(ts, "met", b)[t].status = Row(t).status
<1>1. \A t \in ts : Upsert(ts, "met", b)[t] = [Row(t) EXCEPT !["met"] = b]
    BY DEF Upsert
<1>2. \A t \in Rows \ ts : Upsert(ts, "met", b)[t] = Row(t)
    BY DEF Upsert, Row
<1>3. DOMAIN Upsert(ts, "met", b) = Rows \cup ts
    BY DEF Upsert
<1>4. ASSUME NEW t \in Rows \cup ts
      PROVE  /\ Upsert(ts, "met", b)[t] \in RowType
             /\ Upsert(ts, "met", b)[t].status = Row(t).status
    <2>1. Row(t) \in RowType
        BY RowTyped
    <2> QED
        BY <1>1, <1>2, <2>1 DEF RowType
<1> QED
    BY <1>3, <1>4

\* Mirroring the notes keeps the rows and what they say.
LEMMA MirroredRows ==
    ASSUME TypeOK
    PROVE  /\ DOMAIN Mirrored = Rows
           /\ \A t \in Rows : /\ Mirrored[t] \in RowType
                              /\ Mirrored[t].status = vocab[t].status
<1>1. ASSUME NEW t \in Rows
      PROVE  Mirrored[t] = [vocab[t] EXCEPT !["mined"] = HeadwordOf[t] \in notes]
    BY DEF Mirrored
<1>2. \A t \in Rows : vocab[t] \in RowType
    BY DEF TypeOK, RowType
<1>3. \A t \in Rows : (HeadwordOf[t] \in notes) \in BOOLEAN
    OBVIOUS
<1>4. DOMAIN Mirrored = Rows
    BY DEF Mirrored
<1> QED
    BY <1>1, <1>2, <1>3, <1>4 DEF RowType

\* Meeting words, resetting what was met, mirroring the deck: no status moves.
LEMMA StatusesStay ==
    ASSUME TypeOK, NEW rows, RowsTyped(rows), Rows \subseteq DOMAIN rows,
           \A t \in Rows : rows[t].status = vocab[t].status,
           \A t \in DOMAIN rows \ Rows : rows[t].status = "new"
    PROVE  KeepsWhatIsSaid(rows, misplaced)
BY DEF KeepsWhatIsSaid, SaysNoMore, SaysNoLess, SpeaksOf, Hears

\* So nothing is unsaid by meeting words again,
LEMMA UpsertMetSays ==
    ASSUME TypeOK, NEW ts \in SUBSET Terms, NEW b \in BOOLEAN
    PROVE  KeepsWhatIsSaid(Upsert(ts, "met", b), misplaced)
<1> DEFINE rows == Upsert(ts, "met", b)
<1>1. /\ DOMAIN rows = Rows \cup ts
      /\ \A t \in Rows \cup ts : rows[t] \in RowType /\ rows[t].status = Row(t).status
    BY UpsertMet
<1> HIDE DEF rows
<1>2. Rows \subseteq Terms
    BY DEF TypeOK
<1>3. RowsTyped(rows)
    BY <1>1, <1>2 DEF RowsTyped
<1>4. \A t \in Rows : rows[t].status = vocab[t].status
    BY <1>1 DEF Row
<1>5. ASSUME NEW t \in ts \ Rows PROVE rows[t].status = "new"
    BY <1>1, RowTyped
<1>6. KeepsWhatIsSaid(rows, misplaced)
    BY <1>1, <1>3, <1>4, <1>5, StatusesStay
<1> QED
    BY <1>6 DEF rows

\* nor by mirroring the notes.
LEMMA MirroredSays ==
    ASSUME TypeOK
    PROVE  KeepsWhatIsSaid(Mirrored, misplaced)
BY MirroredRows, StatusesStay DEF RowsTyped, TypeOK

\* prune_untouched takes only rows that say nothing.
LEMMA PruneSays ==
    ASSUME TypeOK
    PROVE  KeepsWhatIsSaid(Without({t \in Rows : Untouched(t)}), misplaced)
<1> DEFINE rest == Without({t \in Rows : Untouched(t)})
<1>1. DOMAIN rest = {t \in Rows : ~Untouched(t)}
    BY DEF Without
<1>2. \A t \in DOMAIN rest : rest[t] = vocab[t]
    BY DEF Without
<1>3. \A t \in Rows : vocab[t].status # "new" => t \in DOMAIN rest
    BY <1>1 DEF Untouched
<1>4. RowsTyped(rest)
    BY <1>1, <1>2 DEF RowsTyped, TypeOK, RowType
<1> HIDE DEF rest
<1>5. KeepsWhatIsSaid(rest, misplaced)
    BY <1>1, <1>2, <1>3, <1>4 DEF KeepsWhatIsSaid, SaysNoMore, SaysNoLess, SpeaksOf, Hears
<1> QED
    BY <1>5 DEF rest

\* Where a judgement moves, its words are heard.
LEMMA MovedIsHeard ==
    ASSUME TypeOK, NEW m, NEW from \in Terms, NEW into \in Terms, Misplaces(m, from, into)
    PROVE  SpeaksOf(from) \subseteq Hears(m, into)
<1>1. CASE WordOf[from] = WordOf[into]
    BY <1>1 DEF SpeaksOf, Hears, Misplaces
<1>2. CASE WordOf[from] # WordOf[into]
    <2>1. SpeaksOf(from) \subseteq Words
        BY DEF SpeaksOf, Words
    <2>2. \A w \in SpeaksOf(from) : <<w, WordOf[into]>> \in m
        BY <1>2 DEF Misplaces
    <2> QED
        BY <2>1, <2>2 DEF Hears
<1> QED
    BY <1>1, <1>2

\* What a row spoke of, it is still heard of.
LEMMA StillHeard ==
    ASSUME NEW m, misplaced \subseteq m, NEW t
    PROVE  SpeaksOf(t) \subseteq Hears(m, t)
BY DEF SpeaksOf, Hears

\* carry_judgement deletes the old row only once the new one has its status.
LEMMA CarrySays ==
    ASSUME TypeOK, NEW from \in Terms, NEW into \in Terms, NEW m, misplaced \subseteq m,
           Carried(from, into) # vocab /\ Judged(from) => Misplaces(m, from, into)
    PROVE  KeepsWhatIsSaid(Carried(from, into), m)
<1>0. \A t \in Terms : SpeaksOf(t) \subseteq Hears(m, t)
    BY StillHeard
<1>1. CASE ~(Judged(from) /\ into \in Rows /\ ~Judged(into))
    <2>1. Carried(from, into) = vocab
        BY <1>1 DEF Carried
    <2>2. RowsTyped(vocab)
        BY DEF RowsTyped, TypeOK, RowType, Rows
    <2>3. SaysNoMore(vocab, m) /\ SaysNoLess(vocab, m)
        BY <1>0 DEF SaysNoMore, SaysNoLess, Rows, TypeOK
    <2> QED
        BY <2>1, <2>2, <2>3 DEF KeepsWhatIsSaid
<1>2. CASE Judged(from) /\ into \in Rows /\ ~Judged(into)
    <2> DEFINE rows == Carried(from, into)
    <2>1. /\ from \in Rows /\ into \in Rows /\ from # into
          /\ vocab[from].status # "new" /\ vocab[into].status = "new"
        BY <1>2 DEF Judged
    <2>2. DOMAIN rows = Rows \/ DOMAIN rows = Rows \ {from}
        BY <1>2 DEF Carried
    <2>3. \A t \in DOMAIN rows \ {into} : rows[t] = vocab[t]
        BY <1>2, <2>2 DEF Carried
    <2>4. rows[into] = [vocab[into] EXCEPT !.status = vocab[from].status]
        BY <1>2, <2>1, <2>2 DEF Carried
    <2>5. rows[into] \in RowType /\ rows[into].status = vocab[from].status
        BY <2>1, <2>4 DEF TypeOK, RowType
    <2>6. rows # vocab
        BY <2>1, <2>5
    <2>7. SpeaksOf(from) \subseteq Hears(m, into)
        BY <1>2, <2>6, MovedIsHeard
    <2> HIDE DEF rows
    <2>8. RowsTyped(rows)
        BY <2>2, <2>3, <2>5 DEF RowsTyped, TypeOK, RowType
    <2>9. SaysNoMore(rows, m)
        BY <1>0, <2>1, <2>2, <2>3, <2>5, <2>7 DEF SaysNoMore, TypeOK
    <2>10. SaysNoLess(rows, m)
        BY <1>0, <2>1, <2>2, <2>3, <2>5, <2>7 DEF SaysNoLess, TypeOK
    <2> QED
        BY <2>8, <2>9, <2>10 DEF KeepsWhatIsSaid, rows
<1> QED
    BY <1>1, <1>2

\* Folding a row into its twin: the twin is there, so nothing is lost.
LEMMA MergeSays ==
    ASSUME TypeOK, NEW bare \in Terms, NEW real \in Terms, bare # real,
           NEW m, misplaced \subseteq m,
           Merged(bare, real) # vocab /\ Judged(bare) => Misplaces(m, bare, real)
    PROVE  /\ RowsTyped(Merged(bare, real))
           /\ SaysNoMore(Merged(bare, real), m)
           /\ real \in Rows => SaysNoLess(Merged(bare, real), m)
<1> DEFINE rows == Merged(bare, real)
<1>0. \A t \in Terms : SpeaksOf(t) \subseteq Hears(m, t)
    BY StillHeard
<1>1. DOMAIN rows = Rows \ {bare}
    BY DEF Merged
<1>2. \A t \in DOMAIN rows : t # real \/ bare \notin Rows => rows[t] = vocab[t]
    BY DEF Merged
<1>3. ASSUME real \in Rows, bare \in Rows
      PROVE  /\ rows[real] \in RowType
             /\ rows[real].status = IF vocab[real].status # "new" THEN vocab[real].status
                                                              ELSE vocab[bare].status
    BY <1>3 DEF Merged, TypeOK, RowType, Judged
<1>4. ASSUME bare \in Rows, vocab[bare].status # "new"
      PROVE  SpeaksOf(bare) \subseteq Hears(m, real)
    <2>1. rows # vocab
        BY <1>1, <1>4 DEF Rows
    <2> QED
        BY <1>4, <2>1, MovedIsHeard DEF Judged
<1> HIDE DEF rows
<1>5. RowsTyped(rows)
    BY <1>1, <1>2, <1>3 DEF RowsTyped, TypeOK, RowType
<1>6. SaysNoMore(rows, m)
    BY <1>0, <1>1, <1>2, <1>3, <1>4 DEF SaysNoMore, TypeOK
<1>7. real \in Rows => SaysNoLess(rows, m)
    BY <1>0, <1>1, <1>2, <1>3, <1>4 DEF SaysNoLess, TypeOK
<1> QED
    BY <1>5, <1>6, <1>7 DEF rows

\* Re-keying it where there is none.
LEMMA RekeySays ==
    ASSUME TypeOK, NEW bare \in Terms, NEW real \in Terms, bare # real, real \notin Rows,
           NEW m, misplaced \subseteq m,
           Rekeyed(bare, real) # vocab /\ Judged(bare) => Misplaces(m, bare, real)
    PROVE  KeepsWhatIsSaid(Rekeyed(bare, real), m)
<1> DEFINE rows == Rekeyed(bare, real)
<1>0. \A t \in Terms : SpeaksOf(t) \subseteq Hears(m, t)
    BY StillHeard
<1>1. DOMAIN rows = (Rows \ {bare}) \cup (IF bare \in Rows THEN {real} ELSE {})
    BY DEF Rekeyed
<1>2. \A t \in Rows \ {bare} : rows[t] = vocab[t]
    BY DEF Rekeyed
<1>3. bare \in Rows => rows[real] = vocab[bare]
    BY DEF Rekeyed
<1>4. ASSUME bare \in Rows, vocab[bare].status # "new"
      PROVE  SpeaksOf(bare) \subseteq Hears(m, real)
    <2>1. rows # vocab
        BY <1>1, <1>4 DEF Rows
    <2> QED
        BY <1>4, <2>1, MovedIsHeard DEF Judged
<1> HIDE DEF rows
<1>5. RowsTyped(rows)
    BY <1>1, <1>2, <1>3 DEF RowsTyped, TypeOK, RowType
<1>6. SaysNoMore(rows, m)
    BY <1>0, <1>1, <1>2, <1>3, <1>4 DEF SaysNoMore, TypeOK
<1>7. SaysNoLess(rows, m)
    BY <1>0, <1>1, <1>2, <1>3, <1>4 DEF SaysNoLess, TypeOK
<1> QED
    BY <1>5, <1>6, <1>7 DEF rows, KeepsWhatIsSaid

---------------------------------------------------------------------------
(* The steps.                                                              *)

\* A step that keeps what is said keeps both promises.
LEMMA StillSaid ==
    ASSUME VocabInv, KeepsWhatIsSaid(vocab', misplaced'), UNCHANGED <<said, claims>>,
           slipped => slipped'
    PROVE  NothingUnsaid' /\ NothingForgotten'
<1>1. \A t : Hears(misplaced', t) = SpeaksOf(t)'
    BY DEF Hears, SpeaksOf
<1>2. NothingUnsaid'
    BY <1>1 DEF VocabInv, NothingUnsaid, KeepsWhatIsSaid, SaysNoMore, Judged, Rows
<1>3. NothingForgotten'
    BY <1>1 DEF VocabInv, NothingForgotten, KeepsWhatIsSaid, SaysNoLess, Judged, Rows
<1> QED
    BY <1>2, <1>3

\* As it is does.
LEMMA NothingMoves ==
    ASSUME TypeOK, UNCHANGED <<vocab, misplaced>>
    PROVE  KeepsWhatIsSaid(vocab', misplaced')
BY DEF KeepsWhatIsSaid, RowsTyped, SaysNoMore, SaysNoLess, TypeOK, RowType, Rows, SpeaksOf, Hears

\* What a move misplaces.
LEMMA MovesMisplace ==
    ASSUME TypeOK, NEW from \in Terms, NEW into \in Terms, Moves(from, into)
    PROVE  /\ misplaced \subseteq misplaced' /\ misplaced' \subseteq Words \X Words
           /\ vocab' # vocab /\ Judged(from) => Misplaces(misplaced', from, into)
<1>1. SpeaksOf(from) \X {WordOf[into]} \subseteq Words \X Words
    BY DEF SpeaksOf, Words
<1>2. misplaced \subseteq misplaced' /\ misplaced' \subseteq Words \X Words
    BY <1>1 DEF Moves, TypeOK
<1>3. vocab' # vocab /\ Judged(from) => Misplaces(misplaced', from, into)
    BY DEF Moves, Misplaces
<1> QED
    BY <1>2, <1>3

\* A step that moves one pass on, without touching repairs or the reader.
LEMMA PassMoves ==
    ASSUME VocabInv, KeepsWhatIsSaid(vocab', misplaced'), NEW p \in Passes,
           NEW label \in {"idle", "reset", "rewind", "notes", "fetch", "write", "save",
                          "mined", "plan", "carry", "prune"},
           pc' = [pc EXCEPT ![p] = label],
           UNCHANGED <<stored, kept, rule, fixing, asserts, said, claims, slipped>>,
           crossed' \subseteq stored, notes' \subseteq Headwords,
           starts' \in 0..MaxStarts, alone' \in [Passes -> BOOLEAN],
           misplaced' \subseteq Words \X Words,
           upto' \in [Passes -> SUBSET stored], batch' \in [Passes -> SUBSET Terms],
           plan' \in [Passes -> SUBSET (Terms \X Terms)]
    PROVE  VocabInv'
<1>1. NothingUnsaid' /\ NothingForgotten'
    BY StillSaid
<1>2. Rows' \subseteq Terms /\ \A t \in Rows' : vocab'[t] \in RowType
    BY DEF KeepsWhatIsSaid, RowsTyped, Rows
<1>3. TypeOK'
    BY <1>2 DEF VocabInv, TypeOK, RowType
<1>4. RepairsMove'
    BY DEF VocabInv, RepairsMove
<1> QED
    BY <1>1, <1>3, <1>4 DEF VocabInv

\* Returning drops the pass's locals.
LEMMA ReturnMoves ==
    ASSUME VocabInv, KeepsWhatIsSaid(vocab', misplaced'), NEW p \in Passes, Return(p),
           UNCHANGED <<stored, kept, crossed, notes, rule, fixing, asserts, said,
                       claims, starts, alone, slipped, misplaced>>
    PROVE  VocabInv'
<1>1. /\ upto' \in [Passes -> SUBSET stored] /\ batch' \in [Passes -> SUBSET Terms]
      /\ plan' \in [Passes -> SUBSET (Terms \X Terms)]
    BY DEF Return, VocabInv, TypeOK
<1>2. /\ crossed' \subseteq stored /\ notes' \subseteq Headwords
      /\ starts' \in 0..MaxStarts /\ alone' \in [Passes -> BOOLEAN]
      /\ misplaced' \subseteq Words \X Words
    BY DEF VocabInv, TypeOK
<1>3. pc' = [pc EXCEPT ![p] = "idle"]
    BY DEF Return, Goto
<1> QED
    BY <1>1, <1>2, <1>3, PassMoves


\* Every statement of a rebuild or a refresh.
LEMMA PassStep ==
    ASSUME VocabInv, NEW p \in Passes, Pass(p)
    PROVE  VocabInv'
<1> USE VocabAssumptions
<1>0. TypeOK
    BY DEF VocabInv
<1>1. CASE Start(p)
    <2>1. starts' \in 0..MaxStarts
        BY <1>0, <1>1 DEF Start, TypeOK
    <2>2. alone' \in [Passes -> BOOLEAN]
        BY <1>1 DEF Start
    <2>3. PICK label \in {"reset", "notes"} : pc' = [pc EXCEPT ![p] = label]
        BY <1>1 DEF Start, Goto
    <2> QED
        BY <1>0, <1>1, <2>1, <2>2, <2>3, NothingMoves, PassMoves
        DEF Start, TypeOK, reading, reader
<1>2. CASE ResetCounts(p)
    <2>1. KeepsWhatIsSaid(vocab', misplaced')
        BY <1>0, <1>2, UpsertMetSays DEF ResetCounts, TypeOK, history
    <2> QED
        BY <1>0, <1>2, <2>1, PassMoves
        DEF ResetCounts, Goto, TypeOK, reading, reader, history
<1>3. CASE Rewind(p)
    BY <1>0, <1>3, NothingMoves, PassMoves
    DEF Rewind, Rewound, Goto, TypeOK, reading, reader, history
<1>4. CASE ReplaceNotes(p)
    BY <1>0, <1>4, NothingMoves, PassMoves
    DEF ReplaceNotes, Goto, TypeOK, reading, reader, history
<1>5. CASE Fetch(p)
    <2> DEFINE new == kept \ crossed
    <2>1. {KeyOf[rule][u] : u \in new} \in SUBSET Terms
        BY <1>0 DEF TypeOK
    <2>2. batch' \in [Passes -> SUBSET Terms]
        BY <1>0, <1>5, <2>1 DEF Fetch, TypeOK
    <2>3. upto' \in [Passes -> SUBSET stored]
        BY <1>0, <1>5 DEF Fetch, TypeOK
    <2>4. PICK label \in {"mined", "write"} : pc' = [pc EXCEPT ![p] = label]
        BY <1>5 DEF Fetch, Goto
    <2> QED
        BY <1>0, <1>5, <2>2, <2>3, <2>4, NothingMoves, PassMoves
        DEF Fetch, TypeOK, reading, reader, history
<1>6. CASE Write(p)
    <2>1. KeepsWhatIsSaid(vocab', misplaced')
        BY <1>0, <1>6, UpsertMetSays DEF Write, TypeOK, history
    <2> QED
        BY <1>0, <1>6, <2>1, PassMoves
        DEF Write, Goto, TypeOK, reading, reader, history
<1>7. CASE Save(p)
    BY <1>0, <1>7, NothingMoves, PassMoves
    DEF Save, Goto, TypeOK, reading, reader, history
<1>8. CASE SyncMined(p)
    <2>1. KeepsWhatIsSaid(vocab', misplaced')
        BY <1>0, <1>8, MirroredSays DEF SyncMined, history
    <2>2. CASE Return(p)
        BY <1>8, <2>1, <2>2, ReturnMoves DEF SyncMined, reading, reader, history
    <2>3. CASE Goto(p, "plan") /\ UNCHANGED <<upto, batch, plan>>
        BY <1>0, <1>8, <2>1, <2>3, PassMoves
        DEF SyncMined, Goto, TypeOK, reading, reader, history
    <2> QED
        BY <1>8, <2>2, <2>3 DEF SyncMined
<1>9. CASE Plan(p)
    <2> DEFINE moves == {<<t, CalledNow[rule][t]>> :
                           t \in {s \in Rows : Stranded(s) /\ CalledNow[rule][s] # s}}
    <2>1. moves \in SUBSET (Terms \X Terms)
        BY <1>0 DEF TypeOK
    <2>3. plan' = [plan EXCEPT ![p] = moves]
        BY <1>9 DEF Plan
    <2> HIDE DEF moves
    <2>4. plan' \in [Passes -> SUBSET (Terms \X Terms)]
        BY <1>0, <2>1, <2>3 DEF TypeOK
    <2> QED
        BY <1>0, <1>9, <2>4, NothingMoves, PassMoves
        DEF Plan, Goto, TypeOK, reading, reader, history
<1>10. CASE Carry(p)
    <2>1. CASE plan[p] = {} /\ Goto(p, "prune") /\ UNCHANGED <<vocab, plan, misplaced>>
        BY <1>0, <1>10, <2>1, NothingMoves, PassMoves
        DEF Carry, Goto, TypeOK, reading, reader
    <2>2. ASSUME NEW move \in plan[p],
                 vocab' = Carried(move[1], move[2]), Moves(move[1], move[2]),
                 plan' = [plan EXCEPT ![p] = plan[p] \ {move}],
                 UNCHANGED pc
          PROVE  VocabInv'
        <3>1. move[1] \in Terms /\ move[2] \in Terms
            BY <1>0 DEF TypeOK
        <3>2. /\ misplaced \subseteq misplaced' /\ misplaced' \subseteq Words \X Words
              /\ vocab' # vocab /\ Judged(move[1]) =>
                   Misplaces(misplaced', move[1], move[2])
            BY <1>0, <2>2, <3>1, MovesMisplace
        <3>3. KeepsWhatIsSaid(vocab', misplaced')
            BY <1>0, <2>2, <3>1, <3>2, CarrySays
        <3>4. plan' \in [Passes -> SUBSET (Terms \X Terms)]
            BY <1>0, <2>2 DEF TypeOK
        <3>5. pc' = [pc EXCEPT ![p] = "carry"]
            BY <1>0, <1>10, <2>2 DEF TypeOK, Carry
        <3> QED
            BY <1>0, <1>10, <3>2, <3>3, <3>4, <3>5, PassMoves
            DEF Carry, TypeOK, reading, reader
    <2> QED
        BY <1>10, <2>1, <2>2 DEF Carry
<1>11. CASE Prune(p)
    <2>1. KeepsWhatIsSaid(vocab', misplaced')
        BY <1>0, <1>11, PruneSays DEF Prune, history
    <2> QED
        BY <1>11, <2>1, ReturnMoves DEF Prune, reading, reader, history
<1>12. CASE Abort(p)
    BY <1>0, <1>12, NothingMoves, ReturnMoves DEF Abort, reading, reader, history
<1> QED
    BY <1>1, <1>2, <1>3, <1>4, <1>5, <1>6, <1>7, <1>8, <1>9, <1>10, <1>11, <1>12 DEF Pass

\* A judgement: the row says what was said, and what is taken back is no claim.
LEMMA JudgeStep ==
    ASSUME VocabInv, NEW t \in Terms, NEW status \in Answers, Judge(t, status)
    PROVE  VocabInv'
<1> USE VocabAssumptions
<1>0. TypeOK /\ status \in Status
    BY DEF VocabInv
<1>1. /\ DOMAIN vocab' = Rows \cup {t}
      /\ vocab'[t] \in RowType /\ vocab'[t].status = status
      /\ \A u \in Rows \ {t} : vocab'[u] = vocab[u]
    <2> DEFINE rows == Upsert({t}, "status", status)
    <2>1. /\ DOMAIN rows = Rows \cup {t}
          /\ \A u \in {t} : rows[u] \in RowType /\ rows[u].status = status
          /\ \A u \in Rows \ {t} : rows[u] = vocab[u]
        BY <1>0, UpsertStatus
    <2>2. vocab' = rows
        BY DEF Judge
    <2> HIDE DEF rows
    <2> QED
        BY <2>1, <2>2
<1>2. Rows \subseteq Terms /\ \A u \in Rows : vocab[u] \in RowType
    BY <1>0 DEF TypeOK, RowType
<1>3. WordOf[t] \in Words
    BY DEF Words
<1>4. said' \subseteq Words \X Status /\ claims' \subseteq Words
    BY <1>0, <1>3 DEF Judge, TypeOK
<1>5. asserts' \in 0..MaxAsserts
    BY <1>0 DEF Judge, TypeOK
<1>6. TypeOK'
    BY <1>0, <1>1, <1>2, <1>4, <1>5 DEF Judge, TypeOK, RowType, Rows, reading, locals, history
<1>7. NothingUnsaid'
    <2>1. SpeaksOf(t)' = SpeaksOf(t) /\ WordOf[t] \in SpeaksOf(t)
        BY DEF Judge, history, SpeaksOf
    <2>2. \A u \in Rows : SpeaksOf(u)' = SpeaksOf(u)
        BY DEF Judge, history, SpeaksOf
    <2>3. said \subseteq said' /\ (status # "new" => <<WordOf[t], status>> \in said')
        BY DEF Judge
    <2> SUFFICES ASSUME NEW u \in Rows \cup {t}, vocab'[u].status # "new"
                 PROVE  \E w \in SpeaksOf(u) : <<w, vocab'[u].status>> \in said'
        BY <1>1, <2>1, <2>2 DEF NothingUnsaid, Judged, Rows
    <2>4. CASE u = t
        BY <1>1, <2>1, <2>3, <2>4
    <2>5. CASE u # t
        BY <1>1, <2>3, <2>5 DEF VocabInv, NothingUnsaid, Judged
    <2> QED
        BY <2>4, <2>5
<1>8. NothingForgotten'
    <2>1. slipped' = slipped /\ \A u \in Rows \cup {t} : SpeaksOf(u)' = SpeaksOf(u)
        BY DEF Judge, history, SpeaksOf
    <2> SUFFICES ASSUME ~slipped, NEW w \in claims'
                 PROVE  \E u \in Rows \cup {t} : w \in SpeaksOf(u) /\ vocab'[u].status # "new"
        BY <1>1, <2>1 DEF NothingForgotten, Judged, Rows
    <2>2. CASE status # "new" /\ w = WordOf[t]
        BY <1>1, <2>2 DEF SpeaksOf
    <2>3. CASE w \in claims
        <3>1. PICK u \in Rows : w \in SpeaksOf(u) /\ vocab[u].status # "new"
            BY <2>3 DEF VocabInv, NothingForgotten, Judged
        <3>2. CASE u # t
            BY <1>1, <3>1, <3>2
        <3>3. CASE u = t /\ status # "new"
            BY <1>1, <3>1, <3>3
        <3>4. CASE u = t /\ status = "new"
            <4>1. PICK v \in Rows \ {t} : w \in SpeaksOf(v) /\ Judged(v)
                BY <3>1, <3>4 DEF Judge
            <4> QED
                BY <1>1, <4>1 DEF Judged
        <3> QED
            BY <3>2, <3>3, <3>4
    <2> QED
        BY <2>2, <2>3 DEF Judge
<1>9. RepairsMove'
    BY DEF Judge, VocabInv, RepairsMove, locals
<1> QED
    BY <1>6, <1>7, <1>8, <1>9 DEF VocabInv

\* Filing the non-words: only rows nobody judged are touched.
LEMMA BlacklistStep ==
    ASSUME VocabInv, BlacklistNonWords
    PROVE  VocabInv'
<1> USE VocabAssumptions
<1> DEFINE hit == {t \in Rows \cap NonWords : ~Judged(t)}
<1>0. TypeOK
    BY DEF VocabInv
<1>1. /\ vocab' = Upsert(hit, "status", "blacklisted")
      /\ asserts < MaxAsserts /\ asserts' = asserts + 1
      /\ said' = said \cup {<<WordOf[t], "blacklisted">> : t \in hit}
      /\ claims' = claims \cup {WordOf[t] : t \in hit}
      /\ UNCHANGED <<reading, crossed, notes, rule, locals, fixing, history>>
    BY DEF BlacklistNonWords
<1>2. hit \subseteq Rows /\ hit \subseteq Terms
    BY <1>0 DEF TypeOK
<1> HIDE DEF hit
<1>3. "blacklisted" \in Status
    BY DEF Status
<1>4. /\ DOMAIN vocab' = Rows
      /\ \A t \in hit : vocab'[t] \in RowType /\ vocab'[t].status = "blacklisted"
      /\ \A t \in Rows \ hit : vocab'[t] = vocab[t]
    <2> DEFINE rows == Upsert(hit, "status", "blacklisted")
    <2>1. /\ DOMAIN rows = Rows \cup hit
          /\ \A t \in hit : rows[t] \in RowType /\ rows[t].status = "blacklisted"
          /\ \A t \in Rows \ hit : rows[t] = vocab[t]
        BY <1>0, <1>3, UpsertStatus
    <2>2. vocab' = rows
        BY <1>1
    <2> HIDE DEF rows
    <2> QED
        BY <1>2, <2>1, <2>2
<1>5. Rows \subseteq Terms /\ \A t \in Rows : vocab[t] \in RowType
    BY <1>0 DEF TypeOK, RowType
<1>6. \A t \in hit : WordOf[t] \in Words
    BY <1>2 DEF Words
<1>7. said' \subseteq Words \X Status /\ claims' \subseteq Words /\ asserts' \in 0..MaxAsserts
    BY <1>0, <1>1, <1>3, <1>6 DEF TypeOK
<1>8. TypeOK'
    BY <1>0, <1>1, <1>4, <1>5, <1>7 DEF TypeOK, RowType, Rows, reading, locals, history
<1>9. \A t : SpeaksOf(t)' = SpeaksOf(t)
    BY <1>1 DEF history, SpeaksOf
<1>10. NothingUnsaid' /\ NothingForgotten'
    <2>1. NothingUnsaid'
        <3> SUFFICES ASSUME NEW t \in Rows, vocab'[t].status # "new"
                     PROVE  \E w \in SpeaksOf(t) : <<w, vocab'[t].status>> \in said'
            BY <1>4, <1>9 DEF NothingUnsaid, Judged, Rows
        <3>1. CASE t \in hit
            BY <1>1, <1>4, <3>1 DEF SpeaksOf
        <3>2. CASE t \notin hit
            BY <1>1, <1>4, <3>2 DEF VocabInv, NothingUnsaid, Judged
        <3> QED
            BY <3>1, <3>2
    <2>2. NothingForgotten'
        <3> SUFFICES ASSUME ~slipped, NEW w \in claims'
                     PROVE  \E t \in Rows : w \in SpeaksOf(t) /\ vocab'[t].status # "new"
            BY <1>1, <1>4, <1>9 DEF NothingForgotten, Judged, Rows, history
        <3>1. CASE \E t \in hit : WordOf[t] = w
            BY <1>2, <1>4, <3>1 DEF SpeaksOf
        <3>2. CASE w \in claims
            <4>1. PICK t \in Rows : w \in SpeaksOf(t) /\ vocab[t].status # "new"
                BY <3>2 DEF VocabInv, NothingForgotten, Judged
            <4>2. vocab'[t].status # "new"
                BY <1>4, <4>1
            <4> QED
                BY <4>1, <4>2
        <3> QED
            BY <1>1, <3>1, <3>2
    <2> QED
        BY <2>1, <2>2
<1>11. RepairsMove'
    BY <1>1 DEF VocabInv, RepairsMove, locals
<1> QED
    BY <1>8, <1>9, <1>10, <1>11 DEF VocabInv

\* repair_empty_readings: the query, and the write it decided on.
LEMMA RepairStep ==
    ASSUME VocabInv, FixRow \/ \E t \in Terms : LookForTwin(t)
    PROVE  VocabInv'
<1> USE VocabAssumptions
<1>0. TypeOK
    BY DEF VocabInv
<1>1. ASSUME NEW t \in Terms, LookForTwin(t)
      PROVE  VocabInv'
    <2>1. fixing'.from = {t} /\ RealKey[t] # t
        BY <1>1 DEF LookForTwin
    <2>2. Cardinality(fixing'.from) <= 1
        <3>1. Cardinality({t}) = 1
            BY FS_Singleton
        <3> QED
            BY <2>1, <3>1
    <2>3. UNCHANGED <<vocab, stored, kept, crossed, notes, rule, pc, upto, batch, plan,
                      asserts, said, claims, starts, alone, slipped, misplaced>>
        BY <1>1 DEF LookForTwin, reading, locals, reader, history
    <2>4. TypeOK'
        BY <1>0, <2>1, <2>2, <2>3 DEF TypeOK, Rows
    <2>5. NothingUnsaid' /\ NothingForgotten'
        BY <1>0, <2>3, NothingMoves, StillSaid
    <2> QED
        BY <2>1, <2>3, <2>4, <2>5 DEF VocabInv, RepairsMove
<1>2. CASE FixRow
    <2>1. PICK t \in fixing.from :
            /\ vocab' = IF fixing.twin THEN Merged(t, RealKey[t])
                        ELSE IF RealKey[t] \in Rows THEN vocab
                        ELSE Rekeyed(t, RealKey[t])
            /\ Moves(t, RealKey[t])
            /\ slipped' = (slipped \/ fixing.twin # (RealKey[t] \in Rows))
            /\ fixing' = NoFix
            /\ UNCHANGED <<reading, crossed, notes, rule, locals, reader, starts, alone>>
        BY <1>2 DEF FixRow
    <2>2. t \in Terms /\ RealKey[t] \in Terms /\ t # RealKey[t]
        BY <1>0 DEF TypeOK, VocabInv, RepairsMove
    <2>3. /\ misplaced \subseteq misplaced' /\ misplaced' \subseteq Words \X Words
          /\ vocab' # vocab /\ Judged(t) => Misplaces(misplaced', t, RealKey[t])
        BY <1>0, <2>1, <2>2, MovesMisplace
    <2>4. /\ RowsTyped(vocab') /\ SaysNoMore(vocab', misplaced')
          /\ ~slipped' => SaysNoLess(vocab', misplaced')
        <3>1. CASE fixing.twin
            <4>1. vocab' = Merged(t, RealKey[t])
                BY <2>1, <3>1
            <4>2. ~slipped' => RealKey[t] \in Rows
                BY <2>1, <3>1
            <4> QED
                BY <1>0, <2>2, <2>3, <4>1, <4>2, MergeSays
        <3>2. CASE ~fixing.twin /\ RealKey[t] \in Rows
            <4>1. UNCHANGED vocab
                BY <2>1, <3>2
            <4>2. UNCHANGED misplaced
                BY <2>1, <4>1 DEF Moves
            <4> QED
                BY <1>0, <4>1, <4>2, NothingMoves DEF KeepsWhatIsSaid
        <3>3. CASE ~fixing.twin /\ RealKey[t] \notin Rows
            <4>1. vocab' = Rekeyed(t, RealKey[t])
                BY <2>1, <3>3
            <4> QED
                BY <1>0, <2>2, <2>3, <3>3, <4>1, RekeySays DEF KeepsWhatIsSaid
        <3> QED
            BY <3>1, <3>2, <3>3
    <2>5. fixing'.from = {} /\ Cardinality(fixing'.from) <= 1
        BY <2>1, FS_EmptySet DEF NoFix
    <2>6. slipped' \in BOOLEAN /\ (slipped => slipped')
        BY <2>1
    <2>7. Rows' \subseteq Terms /\ \A u \in Rows' : vocab'[u] \in RowType
        BY <2>4 DEF RowsTyped, Rows
    <2>8. TypeOK'
        BY <1>0, <2>1, <2>3, <2>5, <2>6, <2>7 DEF TypeOK, RowType, reading, locals, reader
    <2>9. /\ \A u : Hears(misplaced', u) = SpeaksOf(u)'
          /\ UNCHANGED <<said, claims>>
        BY <2>1 DEF Hears, SpeaksOf, reader
    <2>10. NothingUnsaid' /\ NothingForgotten'
        <3>1. NothingUnsaid'
            BY <2>4, <2>9 DEF VocabInv, NothingUnsaid, SaysNoMore, Judged, Rows
        <3>2. NothingForgotten'
            BY <2>4, <2>6, <2>9 DEF VocabInv, NothingForgotten, SaysNoLess, Judged, Rows
        <3> QED
            BY <3>1, <3>2
    <2>11. RepairsMove'
        BY <2>1, <2>5 DEF VocabInv, RepairsMove, locals
    <2> QED
        BY <2>8, <2>9, <2>10, <2>11 DEF VocabInv
<1> QED
    BY <1>1, <1>2

\* What is read, discarded or upgraded says nothing.
LEMMA ReadingStep ==
    ASSUME VocabInv, Upgrade \/ \E u \in Uses : Read(u) \/ Discard(u)
    PROVE  VocabInv'
<1>0. TypeOK
    BY DEF VocabInv
<1>1. UNCHANGED <<vocab, crossed, notes, pc, upto, batch, plan, fixing, asserts,
                  said, claims, starts, alone, slipped, misplaced>>
    BY DEF Upgrade, Read, Discard, reading, locals, reader, history
<1>2. /\ stored \subseteq stored' /\ kept' \subseteq stored' /\ stored' \subseteq Uses
      /\ rule' \in Rules
    BY <1>0 DEF Upgrade, Read, Discard, reading, TypeOK
<1>3. TypeOK'
    <2>1. upto' \in [Passes -> SUBSET stored'] /\ crossed' \subseteq stored'
        BY <1>0, <1>1, <1>2 DEF TypeOK
    <2> QED
        BY <1>0, <1>1, <1>2, <2>1 DEF TypeOK, Rows
<1>4. NothingUnsaid' /\ NothingForgotten'
    BY <1>0, <1>1, NothingMoves, StillSaid
<1> QED
    BY <1>1, <1>3, <1>4 DEF VocabInv, RepairsMove

---------------------------------------------------------------------------

\* It holds before anything was judged.
LEMMA InitSays == Init => VocabInv
<1> SUFFICES ASSUME Init PROVE VocabInv
    OBVIOUS
<1> USE VocabAssumptions DEF Init
<1>1. Rows = {} /\ fixing.from = {} /\ Cardinality(fixing.from) = 0
    BY FS_EmptySet DEF Rows, NoFix
<1>2. TypeOK
    <2>1. /\ pc \in [Passes -> {"idle"}] /\ alone \in [Passes -> BOOLEAN]
          /\ upto \in [Passes -> SUBSET stored] /\ batch \in [Passes -> SUBSET Terms]
          /\ plan \in [Passes -> SUBSET (Terms \X Terms)]
        OBVIOUS
    <2>2. slipped \in BOOLEAN
        OBVIOUS
    <2>3. rule \in Rules /\ asserts \in 0..MaxAsserts /\ starts \in 0..MaxStarts
        OBVIOUS
    <2> QED
        BY <1>1, <2>1, <2>2, <2>3 DEF TypeOK
<1>3. RepairsMove /\ NothingUnsaid /\ NothingForgotten
    BY <1>1 DEF RepairsMove, NothingUnsaid, NothingForgotten
<1> QED
    BY <1>2, <1>3 DEF VocabInv

\* The invariant holds in every reachable state, for all terms, versions of
\* the tokenizer, overlapping requests and decks.
THEOREM VocabInvariant == Spec => []VocabInv
<1>1. VocabInv /\ [Next]_vars => VocabInv'
    <2> SUFFICES ASSUME VocabInv, [Next]_vars
                 PROVE  VocabInv'
        OBVIOUS
    <2>1. CASE Upgrade \/ \E u \in Uses : Read(u) \/ Discard(u)
        BY <2>1, ReadingStep
    <2>2. CASE \E t \in Terms, status \in Answers : Judge(t, status)
        BY <2>2, JudgeStep
    <2>3. CASE BlacklistNonWords
        BY <2>3, BlacklistStep
    <2>4. CASE FixRow \/ \E t \in Terms : LookForTwin(t)
        BY <2>4, RepairStep
    <2>5. CASE \E p \in Passes : Pass(p)
        BY <2>5, PassStep
    <2>6. CASE UNCHANGED vars
        BY <2>6 DEF vars, VocabInv, TypeOK, RepairsMove, NothingUnsaid,
                    NothingForgotten, Judged, Rows, SpeaksOf
    <2> QED
        BY <2>1, <2>2, <2>3, <2>4, <2>5, <2>6 DEF Next
<1> QED
    BY <1>1, InitSays, PTL DEF Spec

\* No row says of a word what the reader never said of it, or of one whose
\* judgement was put on a row of that word, whatever rebuilds, refreshes and
\* repairs overlap and wherever they end.
THEOREM NothingIsUnsaid == Spec => []NothingUnsaid
<1>1. VocabInv => NothingUnsaid
    BY DEF VocabInv
<1> QED
    BY <1>1, VocabInvariant, PTL

\* What the reader said of a word and has not taken back is not lost, unless a
\* repair's twin came or went between its query and its write.
THEOREM NothingIsForgotten == Spec => []NothingForgotten
<1>1. VocabInv => NothingForgotten
    BY DEF VocabInv
<1> QED
    BY <1>1, VocabInvariant, PTL

---------------------------------------------------------------------------
(* What a rebuild has counted.  All it asks of the names is that a repair     *)
(* never takes a key away that the tokenizer counts under ("its judgement     *)
(* sits on a key nothing else will ever write to").                           *)

KeysReal == \A r \in Rules, u \in Uses : RealKey[KeyOf[r][u]] = KeyOf[r][u]

\* Types, without what the rows say.
TypeInv == TypeOK /\ RepairsMove

\* Rows of the table's type that were met exactly if they were in vocab.
MetIn(rows, t) == t \in DOMAIN rows /\ rows[t].met
SameMet(rows) == RowsTyped(rows) /\ \A t \in Terms : MetIn(rows, t) <=> MetIn(vocab, t)

LEMMA RowsOfType == TypeOK => RowsTyped(vocab)
BY DEF TypeOK, RowsTyped, RowType, Rows

\* A judgement gives a term a row, but has not met it.
LEMMA UpsertStatusMet ==
    ASSUME TypeOK, NEW ts \in SUBSET Terms, NEW s \in Status
    PROVE  SameMet(Upsert(ts, "status", s))
<1> DEFINE rows == Upsert(ts, "status", s)
<1>1. \A t \in ts : rows[t] = [Row(t) EXCEPT !["status"] = s]
    BY DEF Upsert
<1>2. /\ DOMAIN rows = Rows \cup ts /\ \A t \in ts : rows[t] \in RowType
      /\ \A t \in Rows \ ts : rows[t] = vocab[t]
    BY UpsertStatus
<1>3. \A t \in ts : Row(t) \in RowType /\ Row(t).met = (t \in Rows /\ vocab[t].met)
    BY RowTyped, RowsOfType DEF Row, Fresh, RowsTyped, RowType, Rows
<1>4. \A t \in ts : rows[t].met = Row(t).met
    BY <1>1, <1>3 DEF RowType
<1> HIDE DEF rows
<1>5. RowsTyped(rows)
    BY <1>2, RowsOfType DEF RowsTyped, Rows
<1>6. SameMet(rows)
    BY <1>2, <1>3, <1>4, <1>5 DEF SameMet, MetIn, Rows
<1> QED
    BY <1>6 DEF rows

\* Counting, and resetting the counts.
LEMMA UpsertMetMet ==
    ASSUME TypeOK, NEW ts \in SUBSET Terms, NEW b \in BOOLEAN
    PROVE  /\ RowsTyped(Upsert(ts, "met", b))
           /\ \A t \in Terms : MetIn(Upsert(ts, "met", b), t) <=>
                IF t \in ts THEN b ELSE MetIn(vocab, t)
<1> DEFINE rows == Upsert(ts, "met", b)
<1>1. \A t \in ts : rows[t] = [Row(t) EXCEPT !["met"] = b]
    BY DEF Upsert
<1>2. \A t \in Rows \ ts : rows[t] = vocab[t]
    BY DEF Upsert
<1>3. DOMAIN rows = Rows \cup ts /\ \A t \in Rows \cup ts : rows[t] \in RowType
    BY UpsertMet
<1>4. \A t \in ts : rows[t].met = b
    BY <1>1, RowTyped, ZenonT(60) DEF RowType
<1> HIDE DEF rows
<1>5. RowsTyped(rows)
    BY <1>3, RowsOfType DEF RowsTyped, Rows
<1>6. \A t \in Terms : MetIn(rows, t) <=> IF t \in ts THEN b ELSE MetIn(vocab, t)
    BY <1>2, <1>3, <1>4 DEF MetIn, Rows
<1> QED
    BY <1>5, <1>6 DEF rows

\* Mirroring the deck meets nothing,
LEMMA MirroredMet ==
    ASSUME TypeOK
    PROVE  SameMet(Mirrored)
<1>1. \A t \in Rows : Mirrored[t] = [vocab[t] EXCEPT !["mined"] = HeadwordOf[t] \in notes]
    BY DEF Mirrored
<1>2. DOMAIN Mirrored = Rows /\ \A t \in Rows : Mirrored[t] \in RowType
    BY MirroredRows
<1>3. \A t \in Rows : Mirrored[t].met = vocab[t].met
    BY <1>1, RowsOfType DEF RowsTyped, RowType, Rows
<1> QED
    BY <1>2, <1>3, RowsOfType DEF SameMet, MetIn, RowsTyped, Rows

\* nor does carrying a judgement, which spares a row that was met meanwhile,
LEMMA CarriedMet ==
    ASSUME TypeOK, NEW from \in Terms, NEW into \in Terms
    PROVE  SameMet(Carried(from, into))
<1>1. CASE ~(Judged(from) /\ into \in Rows /\ ~Judged(into))
    BY <1>1, RowsOfType DEF Carried, SameMet
<1>2. CASE Judged(from) /\ into \in Rows /\ ~Judged(into)
    <2> DEFINE gone == IF vocab[from].met THEN {} ELSE {from}
               rows == [t \in Rows \ gone |->
                          IF t = into THEN [vocab[t] EXCEPT !.status = vocab[from].status]
                                      ELSE vocab[t]]
    <2>1. Carried(from, into) = rows
        BY <1>2 DEF Carried
    <2>2. \A t \in Rows : vocab[t] \in RowType
        BY RowsOfType DEF RowsTyped, Rows
    <2>3. from \in Rows
        BY <1>2 DEF Judged
    <2>4. \A t \in Rows \ gone : rows[t] \in RowType /\ rows[t].met = vocab[t].met
        BY <2>2, <2>3 DEF RowType
    <2>5. \A t \in gone : ~vocab[t].met
        OBVIOUS
    <2>6. DOMAIN rows = Rows \ gone
        OBVIOUS
    <2> HIDE DEF rows, gone
    <2>7. SameMet(rows)
        BY <2>4, <2>5, <2>6, RowsOfType DEF SameMet, MetIn, RowsTyped, Rows
    <2> QED
        BY <2>1, <2>7
<1> QED
    BY <1>1, <1>2

\* nor pruning, which takes only what was not met.
LEMMA PrunedMet ==
    ASSUME TypeOK
    PROVE  SameMet(Without({t \in Rows : Untouched(t)}))
<1> DEFINE rest == Without({t \in Rows : Untouched(t)})
<1>1. DOMAIN rest = {t \in Rows : ~Untouched(t)} /\ \A t \in DOMAIN rest : rest[t] = vocab[t]
    BY DEF Without
<1> HIDE DEF rest
<1>2. SameMet(rest)
    BY <1>1, RowsOfType DEF SameMet, MetIn, RowsTyped, Untouched, Rows
<1> QED
    BY <1>2 DEF rest

\* A repair of a row that was not met meets nothing either.
LEMMA MergedMet ==
    ASSUME TypeOK, NEW bare \in Terms, NEW real \in Terms, bare # real
    PROVE  /\ RowsTyped(Merged(bare, real))
           /\ ~MetIn(vocab, bare) => SameMet(Merged(bare, real))
<1> DEFINE rows == Merged(bare, real)
<1>1. DOMAIN rows = Rows \ {bare}
    BY DEF Merged
<1>2. \A t \in Rows : vocab[t] \in RowType
    BY RowsOfType DEF RowsTyped, Rows
<1>3. \A t \in Rows \ {bare} : t # real \/ bare \notin Rows => rows[t] = vocab[t]
    BY DEF Merged
<1>4. ASSUME real \in Rows, bare \in Rows
      PROVE  /\ rows[real] \in RowType
             /\ ~vocab[bare].met => rows[real].met = vocab[real].met
    <2>1. rows[real] =
             [status |-> IF Judged(real) THEN vocab[real].status ELSE vocab[bare].status,
              mined  |-> vocab[real].mined \/ vocab[bare].mined,
              met    |-> vocab[real].met \/ vocab[bare].met]
        BY <1>4 DEF Merged
    <2>2. vocab[real] \in RowType /\ vocab[bare] \in RowType
        BY <1>2, <1>4
    <2> QED
        BY <2>1, <2>2 DEF RowType
<1> HIDE DEF rows
<1>5. \A t \in DOMAIN rows : rows[t] \in RowType
    BY <1>1, <1>2, <1>3, <1>4
<1>6. RowsTyped(rows)
    BY <1>1, <1>5, RowsOfType DEF RowsTyped, Rows
<1>7. ASSUME ~MetIn(vocab, bare)
      PROVE  SameMet(rows)
    <2>1. \A t \in Rows \ {bare} : rows[t].met = vocab[t].met
        BY <1>3, <1>4, <1>7 DEF MetIn, Rows
    <2> QED
        BY <1>1, <1>6, <1>7, <2>1 DEF SameMet, MetIn, Rows
<1> QED
    BY <1>6, <1>7 DEF rows

LEMMA RekeyedMet ==
    ASSUME TypeOK, NEW bare \in Terms, NEW real \in Terms, bare # real, real \notin Rows
    PROVE  /\ RowsTyped(Rekeyed(bare, real))
           /\ ~MetIn(vocab, bare) => SameMet(Rekeyed(bare, real))
<1> DEFINE rows == Rekeyed(bare, real)
<1>1. DOMAIN rows = (Rows \ {bare}) \cup (IF bare \in Rows THEN {real} ELSE {})
    BY DEF Rekeyed
<1>2. /\ bare \in Rows => rows[real] = vocab[bare]
      /\ \A t \in Rows \ {bare} : rows[t] = vocab[t]
    BY DEF Rekeyed
<1> HIDE DEF rows
<1>3. RowsTyped(rows)
    BY <1>1, <1>2, RowsOfType DEF RowsTyped, Rows
<1>4. ~MetIn(vocab, bare) => SameMet(rows)
    BY <1>1, <1>2, <1>3 DEF SameMet, MetIn, Rows
<1> QED
    BY <1>3, <1>4 DEF rows


---------------------------------------------------------------------------
(* The types, without what the rows say.                                   *)

\* A step that keeps the rows' type, and moves one pass on.
LEMMA PassTypes ==
    ASSUME TypeInv, RowsTyped(vocab'), NEW p \in Passes,
           NEW label \in {"idle", "reset", "rewind", "notes", "fetch", "write", "save",
                          "mined", "plan", "carry", "prune"},
           pc' = [pc EXCEPT ![p] = label],
           UNCHANGED <<stored, kept, rule, fixing, asserts, said, claims, slipped>>,
           crossed' \subseteq stored, notes' \subseteq Headwords,
           starts' \in 0..MaxStarts, alone' \in [Passes -> BOOLEAN],
           misplaced' \subseteq Words \X Words,
           upto' \in [Passes -> SUBSET stored], batch' \in [Passes -> SUBSET Terms],
           plan' \in [Passes -> SUBSET (Terms \X Terms)]
    PROVE  TypeInv'
<1>1. Rows' \subseteq Terms /\ \A t \in Rows' : vocab'[t] \in RowType
    BY DEF RowsTyped, Rows
<1>2. TypeOK'
    BY <1>1 DEF TypeInv, TypeOK, RowType
<1> QED
    BY <1>2 DEF TypeInv, RepairsMove

LEMMA ReturnTypes ==
    ASSUME TypeInv, RowsTyped(vocab'), NEW p \in Passes, Return(p),
           UNCHANGED <<stored, kept, crossed, notes, rule, fixing, asserts, said,
                       claims, starts, alone, slipped, misplaced>>
    PROVE  TypeInv'
<1>1. /\ upto' \in [Passes -> SUBSET stored] /\ batch' \in [Passes -> SUBSET Terms]
      /\ plan' \in [Passes -> SUBSET (Terms \X Terms)]
    BY DEF Return, TypeInv, TypeOK
<1>2. crossed' \subseteq stored /\ notes' \subseteq Headwords
      /\ starts' \in 0..MaxStarts /\ alone' \in [Passes -> BOOLEAN]
      /\ misplaced' \subseteq Words \X Words
    BY DEF TypeInv, TypeOK
<1>3. pc' = [pc EXCEPT ![p] = "idle"]
    BY DEF Return, Goto
<1> QED
    BY <1>1, <1>2, <1>3, PassTypes

LEMMA PassKeepsTypes ==
    ASSUME TypeInv, NEW p \in Passes, Pass(p)
    PROVE  TypeInv'
<1> USE VocabAssumptions
<1>0. TypeOK /\ RowsTyped(vocab)
    BY RowsOfType DEF TypeInv
<1>1. CASE Start(p)
    <2>1. starts' \in 0..MaxStarts
        BY <1>0, <1>1 DEF Start, TypeOK
    <2>2. alone' \in [Passes -> BOOLEAN]
        BY <1>1 DEF Start
    <2>3. PICK label \in {"reset", "notes"} : pc' = [pc EXCEPT ![p] = label]
        BY <1>1 DEF Start, Goto
    <2> QED
        BY <1>0, <1>1, <2>1, <2>2, <2>3, PassTypes DEF Start, TypeOK, reading, reader
<1>2. CASE ResetCounts(p)
    <2>1. RowsTyped(vocab')
        BY <1>0, <1>2, UpsertMetMet DEF ResetCounts, TypeOK
    <2> QED
        BY <1>0, <1>2, <2>1, PassTypes DEF ResetCounts, Goto, TypeOK, reading, reader, history
<1>3. CASE Rewind(p)
    BY <1>0, <1>3, PassTypes DEF Rewind, Rewound, Goto, TypeOK, reading, reader, history
<1>4. CASE ReplaceNotes(p)
    BY <1>0, <1>4, PassTypes DEF ReplaceNotes, Goto, TypeOK, reading, reader, history
<1>5. CASE Fetch(p)
    <2> DEFINE new == kept \ crossed
    <2>1. {KeyOf[rule][u] : u \in new} \in SUBSET Terms
        BY <1>0 DEF TypeOK
    <2>2. batch' \in [Passes -> SUBSET Terms]
        BY <1>0, <1>5, <2>1 DEF Fetch, TypeOK
    <2>3. upto' \in [Passes -> SUBSET stored]
        BY <1>0, <1>5 DEF Fetch, TypeOK
    <2>4. PICK label \in {"mined", "write"} : pc' = [pc EXCEPT ![p] = label]
        BY <1>5 DEF Fetch, Goto
    <2> QED
        BY <1>0, <1>5, <2>2, <2>3, <2>4, PassTypes DEF Fetch, TypeOK, reading, reader, history
<1>6. CASE Write(p)
    <2>1. RowsTyped(vocab')
        BY <1>0, <1>6, UpsertMetMet DEF Write, TypeOK
    <2> QED
        BY <1>0, <1>6, <2>1, PassTypes DEF Write, Goto, TypeOK, reading, reader, history
<1>7. CASE Save(p)
    BY <1>0, <1>7, PassTypes DEF Save, Goto, TypeOK, reading, reader, history
<1>8. CASE SyncMined(p)
    <2>1. RowsTyped(vocab')
        BY <1>0, <1>8, MirroredMet DEF SyncMined, SameMet
    <2>2. CASE Return(p)
        BY <1>8, <2>1, <2>2, ReturnTypes DEF SyncMined, reading, reader, history
    <2>3. CASE Goto(p, "plan") /\ UNCHANGED <<upto, batch, plan>>
        BY <1>0, <1>8, <2>1, <2>3, PassTypes
        DEF SyncMined, Goto, TypeOK, reading, reader, history
    <2> QED
        BY <1>8, <2>2, <2>3 DEF SyncMined
<1>9. CASE Plan(p)
    <2> DEFINE moves == {<<t, CalledNow[rule][t]>> :
                           t \in {s \in Rows : Stranded(s) /\ CalledNow[rule][s] # s}}
    <2>1. moves \in SUBSET (Terms \X Terms)
        BY <1>0 DEF TypeOK
    <2>2. plan' = [plan EXCEPT ![p] = moves]
        BY <1>9 DEF Plan
    <2> HIDE DEF moves
    <2>3. plan' \in [Passes -> SUBSET (Terms \X Terms)]
        BY <1>0, <2>1, <2>2 DEF TypeOK
    <2> QED
        BY <1>0, <1>9, <2>3, PassTypes DEF Plan, Goto, TypeOK, reading, reader, history
<1>10. CASE Carry(p)
    <2>1. CASE plan[p] = {} /\ Goto(p, "prune") /\ UNCHANGED <<vocab, plan, misplaced>>
        BY <1>0, <1>10, <2>1, PassTypes DEF Carry, Goto, TypeOK, reading, reader
    <2>2. ASSUME NEW move \in plan[p],
                 vocab' = Carried(move[1], move[2]), Moves(move[1], move[2]),
                 plan' = [plan EXCEPT ![p] = plan[p] \ {move}],
                 UNCHANGED pc
          PROVE  TypeInv'
        <3>1. move[1] \in Terms /\ move[2] \in Terms
            BY <1>0 DEF TypeOK
        <3>2. RowsTyped(vocab')
            BY <1>0, <2>2, <3>1, CarriedMet DEF SameMet
        <3>3. plan' \in [Passes -> SUBSET (Terms \X Terms)]
            BY <1>0, <2>2 DEF TypeOK
        <3>4. pc' = [pc EXCEPT ![p] = "carry"]
            BY <1>0, <1>10, <2>2 DEF TypeOK, Carry
        <3>5. misplaced' \subseteq Words \X Words
            BY <1>0, <2>2, <3>1, MovesMisplace
        <3> QED
            BY <1>0, <1>10, <3>2, <3>3, <3>4, <3>5, PassTypes
            DEF Carry, TypeOK, reading, reader
    <2> QED
        BY <1>10, <2>1, <2>2 DEF Carry
<1>11. CASE Prune(p)
    <2>1. RowsTyped(vocab')
        BY <1>0, <1>11, PrunedMet DEF Prune, SameMet
    <2> QED
        BY <1>11, <2>1, ReturnTypes DEF Prune, reading, reader, history
<1>12. CASE Abort(p)
    BY <1>0, <1>12, ReturnTypes DEF Abort, reading, reader, history
<1> QED
    BY <1>1, <1>2, <1>3, <1>4, <1>5, <1>6, <1>7, <1>8, <1>9, <1>10, <1>11, <1>12 DEF Pass

\* What a repair writes.
LEMMA Repairs ==
    ASSUME TypeInv, FixRow
    PROVE  /\ RowsTyped(vocab')
           /\ \E t \in Terms : RealKey[t] # t /\ (~MetIn(vocab, t) => SameMet(vocab'))
<1> USE VocabAssumptions
<1>0. TypeOK
    BY DEF TypeInv
<1>1. PICK t \in fixing.from :
        vocab' = IF fixing.twin THEN Merged(t, RealKey[t])
                 ELSE IF RealKey[t] \in Rows THEN vocab
                 ELSE Rekeyed(t, RealKey[t])
    BY DEF FixRow
<1>2. t \in Terms /\ RealKey[t] \in Terms /\ t # RealKey[t]
    BY <1>0 DEF TypeOK, TypeInv, RepairsMove
<1>3. RowsTyped(vocab') /\ (~MetIn(vocab, t) => SameMet(vocab'))
    <2>1. CASE fixing.twin
        BY <1>0, <1>1, <1>2, <2>1, MergedMet
    <2>2. CASE ~fixing.twin /\ RealKey[t] \in Rows
        BY <1>0, <1>1, <2>2, RowsOfType DEF SameMet
    <2>3. CASE ~fixing.twin /\ RealKey[t] \notin Rows
        BY <1>0, <1>1, <1>2, <2>3, RekeyedMet
    <2> QED
        BY <2>1, <2>2, <2>3
<1> QED
    BY <1>2, <1>3

\* The reader, the reading, repairs and upgrades.
LEMMA OutsideKeepsTypes ==
    ASSUME TypeInv,
           \/ \E u \in Uses : Read(u) \/ Discard(u)
           \/ \E t \in Terms : LookForTwin(t) \/ \E status \in Answers : Judge(t, status)
           \/ BlacklistNonWords \/ Upgrade \/ FixRow
    PROVE  TypeInv'
<1> USE VocabAssumptions
<1>0. TypeOK /\ RowsTyped(vocab)
    BY RowsOfType DEF TypeInv
<1>1. CASE Upgrade \/ \E u \in Uses : Read(u) \/ Discard(u)
    <2>1. UNCHANGED <<vocab, crossed, notes, pc, upto, batch, plan, fixing, asserts,
                      said, claims, starts, alone, slipped, misplaced>>
        BY <1>1 DEF Upgrade, Read, Discard, reading, locals, reader, history
    <2>2. /\ stored \subseteq stored' /\ kept' \subseteq stored' /\ stored' \subseteq Uses
          /\ rule' \in Rules
        BY <1>0, <1>1 DEF Upgrade, Read, Discard, reading, TypeOK
    <2>3. upto' \in [Passes -> SUBSET stored'] /\ crossed' \subseteq stored'
        BY <1>0, <2>1, <2>2 DEF TypeOK
    <2> QED
        BY <1>0, <2>1, <2>2, <2>3 DEF TypeInv, TypeOK, RepairsMove, Rows
<1>2. ASSUME NEW t \in Terms, LookForTwin(t)
      PROVE  TypeInv'
    <2>1. fixing'.from = {t} /\ RealKey[t] # t
        BY <1>2 DEF LookForTwin
    <2>2. Cardinality({t}) = 1
        BY FS_Singleton
    <2>3. UNCHANGED <<vocab, stored, kept, crossed, notes, rule, pc, upto, batch, plan,
                      asserts, said, claims, starts, alone, slipped, misplaced>>
        BY <1>2 DEF LookForTwin, reading, locals, reader, history
    <2> QED
        BY <1>0, <2>1, <2>2, <2>3 DEF TypeInv, TypeOK, RepairsMove, Rows
<1>3. CASE \/ \E t \in Terms : \E status \in Answers : Judge(t, status)
           \/ BlacklistNonWords
    <2>1. RowsTyped(vocab')
        <3>1. ASSUME NEW t \in Terms, NEW status \in Answers, Judge(t, status)
              PROVE  RowsTyped(vocab')
            BY <1>0, <3>1, UpsertStatusMet DEF Judge, SameMet
        <3>2. CASE BlacklistNonWords
            <4>1. {t \in Rows \cap NonWords : ~Judged(t)} \in SUBSET Terms
                BY <1>0 DEF TypeOK
            <4> QED
                BY <1>0, <3>2, <4>1, UpsertStatusMet DEF BlacklistNonWords, SameMet, Status
        <3> QED
            BY <1>3, <3>1, <3>2
    <2>2. /\ asserts' \in 0..MaxAsserts /\ said' \subseteq Words \X Status
          /\ claims' \subseteq Words
        <3>1. ASSUME NEW t \in Terms, NEW status \in Answers, Judge(t, status)
              PROVE  /\ asserts' \in 0..MaxAsserts /\ said' \subseteq Words \X Status
                     /\ claims' \subseteq Words
            <4>1. WordOf[t] \in Words /\ status \in Status
                BY DEF Words
            <4> QED
                BY <1>0, <3>1, <4>1 DEF Judge, TypeOK
        <3>2. CASE BlacklistNonWords
            <4>1. \A t \in Rows : WordOf[t] \in Words
                BY <1>0 DEF TypeOK, Words
            <4> QED
                BY <1>0, <3>2, <4>1 DEF BlacklistNonWords, TypeOK, Status
        <3> QED
            BY <1>3, <3>1, <3>2
    <2>3. UNCHANGED <<stored, kept, crossed, notes, rule, pc, upto, batch, plan, fixing,
                      starts, alone, slipped, misplaced>>
        BY <1>3 DEF Judge, BlacklistNonWords, reading, locals, history
    <2>4. Rows' \subseteq Terms /\ \A t \in Rows' : vocab'[t] \in RowType
        BY <2>1 DEF RowsTyped, Rows
    <2>5. TypeOK'
        BY <1>0, <2>2, <2>3, <2>4 DEF TypeOK, RowType
    <2> QED
        BY <2>3, <2>5 DEF TypeInv, RepairsMove
<1>4. CASE FixRow
    <2>1. /\ fixing' = NoFix /\ slipped' \in BOOLEAN
          /\ UNCHANGED <<stored, kept, crossed, notes, rule, pc, upto, batch, plan, asserts,
                         said, claims, starts, alone>>
        BY <1>0, <1>4 DEF FixRow, reading, locals, reader, TypeOK
    <2>2. fixing'.from = {} /\ Cardinality(fixing'.from) <= 1
        BY <2>1, FS_EmptySet DEF NoFix
    <2>3. misplaced' \subseteq Words \X Words
        <3>1. PICK t \in fixing.from : Moves(t, RealKey[t])
            BY <1>4 DEF FixRow
        <3>2. t \in Terms /\ RealKey[t] \in Terms
            BY <1>0 DEF TypeOK
        <3> QED
            BY <1>0, <3>1, <3>2, MovesMisplace
    <2>4. Rows' \subseteq Terms /\ \A t \in Rows' : vocab'[t] \in RowType
        BY <1>4, Repairs DEF RowsTyped, Rows
    <2> QED
        BY <1>0, <2>1, <2>2, <2>3, <2>4 DEF TypeInv, TypeOK, RowType, RepairsMove
<1> QED
    BY <1>1, <1>2, <1>3, <1>4


---------------------------------------------------------------------------
(* How far a rebuild that runs alone has got.                              *)

ReadKeys(p) == {KeyOf[rule][u] : u \in upto[p]}
RebuildOk(p) ==
    /\ \A q \in Passes \ {p} : pc[q] = "idle"
    /\ pc[p] # "notes"
    \* Its counts are zero until it writes, and its watermark until it has fetched.
    /\ pc[p] \in {"rewind", "fetch", "write"} => \A t \in Terms : ~MetIn(vocab, t)
    /\ pc[p] = "fetch" => crossed = {}
    /\ pc[p] = "write" => /\ batch[p] \subseteq ReadKeys(p)
                          /\ \A u \in kept \cap upto[p] : KeyOf[rule][u] \in batch[p]
    \* From then on what was met is what it read, but for what was discarded.
    /\ pc[p] \in {"save", "mined", "plan", "carry", "prune"} =>
         /\ \A u \in kept \cap upto[p] : MetIn(vocab, KeyOf[rule][u])
         /\ \A t \in Terms : MetIn(vocab, t) => t \in ReadKeys(p)
RebuildInv == \A p \in Rebuilders : alone[p] /\ pc[p] # "idle" => RebuildOk(p)

\* A statement of somebody else, or one that meets nothing.
LEMMA MeetsNothing ==
    ASSUME TypeInv, NEW p \in Rebuilders, RebuildOk(p),
           pc[p] # "reset" => SameMet(vocab'),
           kept' \cap upto[p] \subseteq kept,
           UNCHANGED <<crossed, rule, pc, upto, batch>>
    PROVE  RebuildOk(p)'
<1>1. \A t, rows : MetIn(rows, t)' <=> MetIn(rows', t)
    BY DEF MetIn
<1>2. ReadKeys(p)' = ReadKeys(p)
    BY DEF ReadKeys
<1>3. \A u \in upto[p] : KeyOf[rule][u] \in Terms
    BY VocabAssumptions DEF TypeInv, TypeOK
<1>4. pc[p] # "reset" => \A t \in Terms : MetIn(vocab, t)' <=> MetIn(vocab, t)
    BY <1>1 DEF SameMet
<1>5. CASE pc[p] = "reset"
    BY <1>5 DEF RebuildOk
<1>6. CASE pc[p] # "reset"
    <2>1. pc[p] \in {"rewind", "fetch", "write"} => \A t \in Terms : ~MetIn(vocab, t)'
        BY <1>4, <1>6 DEF RebuildOk
    <2>2. pc[p] \in {"save", "mined", "plan", "carry", "prune"} =>
            /\ \A u \in kept' \cap upto[p] : MetIn(vocab, KeyOf[rule][u])'
            /\ \A t \in Terms : MetIn(vocab, t)' => t \in ReadKeys(p)
        <3>1. \A u \in upto[p] : MetIn(vocab, KeyOf[rule][u])' <=> MetIn(vocab, KeyOf[rule][u])
            BY <1>3, <1>6 DEF SameMet, MetIn
        <3> QED
            BY <1>4, <1>6, <3>1 DEF RebuildOk
    <2> QED
        BY <1>2, <2>1, <2>2 DEF RebuildOk
<1> QED
    BY <1>5, <1>6

\* The keys the tokenizer counts under are not repaired away.
LEMMA RepairMeetsNothing ==
    ASSUME TypeInv, KeysReal, NEW p \in Rebuilders, RebuildOk(p), pc[p] \notin {"idle", "reset"},
           FixRow
    PROVE  SameMet(vocab')
<1>1. PICK t \in Terms : RealKey[t] # t /\ (~MetIn(vocab, t) => SameMet(vocab'))
    BY Repairs
<1>2. t \notin ReadKeys(p)
    BY <1>1, VocabAssumptions DEF KeysReal, ReadKeys, TypeInv, TypeOK
<1>3. pc[p] \in {"rewind", "fetch", "write", "save", "mined", "plan", "carry", "prune"}
    BY VocabAssumptions DEF TypeInv, TypeOK, RebuildOk
<1>4. ~MetIn(vocab, t)
    BY <1>2, <1>3 DEF RebuildOk
<1> QED
    BY <1>1, <1>4

LEMMA OutsideKeepsRebuild ==
    ASSUME TypeInv, KeysReal, RebuildInv,
           \/ \E u \in Uses : Read(u) \/ Discard(u)
           \/ \E t \in Terms : LookForTwin(t) \/ \E status \in Answers : Judge(t, status)
           \/ BlacklistNonWords \/ Upgrade \/ FixRow
    PROVE  RebuildInv'
<1>0. TypeOK /\ SameMet(vocab)
    BY RowsOfType DEF TypeInv, SameMet
<1> SUFFICES ASSUME NEW p \in Rebuilders, alone'[p], pc'[p] # "idle"
             PROVE  RebuildOk(p)'
    BY DEF RebuildInv
<1>1. UNCHANGED <<crossed, pc, upto, batch, alone>>
    BY DEF Read, Discard, LookForTwin, Judge, BlacklistNonWords, Upgrade, FixRow,
           locals, history
<1>2. RebuildOk(p)
    BY <1>1 DEF RebuildInv
<1>3. UNCHANGED rule
    BY <1>1, VocabAssumptions
    DEF Read, Discard, LookForTwin, Judge, BlacklistNonWords, Upgrade, FixRow
<1>4. kept' \cap upto[p] \subseteq kept
    <2>1. upto[p] \subseteq stored
        BY <1>0, VocabAssumptions DEF TypeOK
    <2> QED
        BY <2>1 DEF Read, Discard, LookForTwin, Judge, BlacklistNonWords, Upgrade, FixRow, reading
<1>5. pc[p] # "reset" => SameMet(vocab')
    <2>1. CASE FixRow
        BY <1>1, <1>2, <2>1, RepairMeetsNothing
    <2>2. ASSUME NEW t \in Terms, NEW status \in Answers, Judge(t, status)
          PROVE  SameMet(vocab')
        BY <1>0, <2>2, VocabAssumptions, UpsertStatusMet DEF Judge
    <2>3. CASE BlacklistNonWords
        <3>1. {t \in Rows \cap NonWords : ~Judged(t)} \in SUBSET Terms
            BY <1>0 DEF TypeOK
        <3> QED
            BY <1>0, <2>3, <3>1, UpsertStatusMet DEF BlacklistNonWords, Status
    <2>4. CASE UNCHANGED vocab
        BY <1>0, <2>4
    <2> QED
        BY <2>1, <2>2, <2>3, <2>4 DEF Read, Discard, LookForTwin, Upgrade
<1> QED
    BY <1>1, <1>2, <1>3, <1>4, <1>5, MeetsNothing

\* A statement moves no other pass.
LEMMA OnlyItsOwn ==
    ASSUME TypeInv, NEW p \in Passes, Pass(p), NEW q \in Passes \ {p}
    PROVE  pc'[q] = pc[q]
<1>1. \E label : pc' = [pc EXCEPT ![p] = label]
    <2>1. CASE Carry(p)
        <3>1. pc' = [pc EXCEPT ![p] = pc[p]] \/ pc' = [pc EXCEPT ![p] = "prune"]
            BY <2>1 DEF Carry, Goto, TypeInv, TypeOK
        <3> QED
            BY <3>1
    <2>2. CASE SyncMined(p) \/ Prune(p) \/ Abort(p)
        BY <2>2 DEF SyncMined, Prune, Abort, Return, Goto
    <2>3. CASE \/ Start(p) \/ ResetCounts(p) \/ Rewind(p) \/ ReplaceNotes(p)
               \/ Fetch(p) \/ Write(p) \/ Save(p) \/ Plan(p)
        BY <2>3 DEF Start, ResetCounts, Rewind, ReplaceNotes, Fetch, Write, Save, Plan, Goto
    <2> QED
        BY <2>1, <2>2, <2>3 DEF Pass
<1> QED
    BY <1>1 DEF TypeInv, TypeOK

\* A pass that runs alone, statement by statement.
LEMMA OwnStep ==
    ASSUME TypeInv, NEW p \in Rebuilders, RebuildOk(p), Pass(p), ~Start(p), pc'[p] # "idle"
    PROVE  RebuildOk(p)'
<1> USE VocabAssumptions
<1>0. TypeOK /\ SameMet(vocab) /\ p \in Passes
    BY RowsOfType DEF TypeInv, SameMet
<1>1. UNCHANGED <<rule, kept, stored>> /\ \A q \in Passes \ {p} : pc'[q] = "idle"
    <2>1. UNCHANGED <<rule, kept, stored>>
        BY DEF Pass, ResetCounts, Rewind, ReplaceNotes, Fetch, Write, Save, SyncMined, Plan,
           Carry, Prune, Abort, reading
    <2>2. \A q \in Passes \ {p} : pc'[q] = pc[q]
        BY OnlyItsOwn
    <2> QED
        BY <2>1, <2>2 DEF RebuildOk
<1>2. CASE ResetCounts(p)
    <2>1. pc'[p] = "rewind"
        BY <1>0, <1>2 DEF ResetCounts, Goto, TypeOK
    <2>2. \A t \in Terms : ~MetIn(vocab', t)
        <3>1. Rows \in SUBSET Terms /\ vocab' = Upsert(Rows, "met", FALSE)
            BY <1>0, <1>2 DEF ResetCounts, TypeOK
        <3>2. \A t \in Terms : MetIn(vocab', t) => t \notin Rows /\ MetIn(vocab, t)
            BY <1>0, <3>1, UpsertMetMet
        <3> QED
            BY <3>2 DEF MetIn, Rows
    <2> QED
        BY <1>1, <2>1, <2>2 DEF RebuildOk, MetIn
<1>3. CASE Rewind(p)
    <2>1. pc'[p] = "fetch" /\ crossed' = {} /\ UNCHANGED vocab
        BY <1>0, <1>3 DEF Rewind, Rewound, Goto, TypeOK
    <2>2. \A t \in Terms : ~MetIn(vocab, t)
        BY <1>3 DEF Rewind, RebuildOk
    <2> QED
        BY <1>1, <2>1, <2>2 DEF RebuildOk, MetIn
<1>4. CASE Fetch(p)
    <2>1. /\ crossed = {} /\ UNCHANGED <<vocab, crossed>> /\ \A t \in Terms : ~MetIn(vocab, t)
        BY <1>4 DEF Fetch, RebuildOk
    <2>2. /\ upto'[p] = stored /\ batch'[p] = {KeyOf[rule][u] : u \in kept}
          /\ pc'[p] = IF kept = {} THEN "mined" ELSE "write"
        BY <1>0, <1>4, <2>1 DEF Fetch, Goto, TypeOK
    <2>3. CASE kept = {}
        BY <1>1, <2>1, <2>2, <2>3 DEF RebuildOk, MetIn
    <2>4. CASE kept # {}
        <3>1. batch'[p] \subseteq ReadKeys(p)'
            BY <1>0, <1>1, <2>2 DEF ReadKeys, TypeOK
        <3>2. \A u \in kept' \cap upto'[p] : KeyOf[rule'][u] \in batch'[p]
            BY <1>1, <2>2
        <3> QED
            BY <1>1, <2>1, <2>2, <2>4, <3>1, <3>2 DEF RebuildOk, MetIn
    <2> QED
        BY <2>3, <2>4
<1>5. CASE Write(p)
    <2>1. pc'[p] = "save" /\ UNCHANGED <<upto, batch>> /\ vocab' = Upsert(batch[p], "met", TRUE)
        BY <1>0, <1>5 DEF Write, Goto, TypeOK
    <2>2. /\ batch[p] \subseteq ReadKeys(p) /\ \A t \in Terms : ~MetIn(vocab, t)
          /\ \A u \in kept \cap upto[p] : KeyOf[rule][u] \in batch[p]
        BY <1>5 DEF Write, RebuildOk
    <2>3. batch[p] \in SUBSET Terms
        BY <1>0 DEF TypeOK
    <2>4. \A t \in Terms : MetIn(vocab', t) <=> t \in batch[p]
        BY <1>0, <2>1, <2>2, <2>3, UpsertMetMet
    <2>5. \A u \in kept' \cap upto'[p] : MetIn(vocab', KeyOf[rule'][u])
        BY <1>1, <2>1, <2>2, <2>3, <2>4
    <2>6. \A t \in Terms : MetIn(vocab', t) => t \in ReadKeys(p)'
        BY <1>1, <2>1, <2>2, <2>4 DEF ReadKeys
    <2> QED
        BY <1>1, <2>1, <2>5, <2>6 DEF RebuildOk, MetIn
<1>6. CASE Save(p) \/ SyncMined(p) \/ Plan(p) \/ Carry(p)
    <2>1. SameMet(vocab')
        <3>1. ASSUME NEW move \in plan[p], vocab' = Carried(move[1], move[2])
              PROVE  SameMet(vocab')
            <4>1. move[1] \in Terms /\ move[2] \in Terms
                BY <1>0 DEF TypeOK
            <4> QED
                BY <1>0, <3>1, <4>1, CarriedMet
        <3> QED
            BY <1>0, <1>6, <3>1, MirroredMet DEF Save, SyncMined, Plan, Carry
    <2>2. /\ pc[p] \in {"save", "mined", "plan", "carry"}
          /\ pc'[p] \in {"mined", "plan", "carry", "prune"} /\ UNCHANGED upto
        BY <1>0, <1>6 DEF Save, SyncMined, Plan, Carry, Goto, TypeOK
    <2>3. /\ \A u \in kept \cap upto[p] : MetIn(vocab, KeyOf[rule][u])
          /\ \A t \in Terms : MetIn(vocab, t) => t \in ReadKeys(p)
        BY <2>2 DEF RebuildOk
    <2>4. \A u \in upto[p] : KeyOf[rule][u] \in Terms
        BY <1>0 DEF TypeOK
    <2>5. \A u \in kept' \cap upto'[p] : MetIn(vocab', KeyOf[rule'][u])
        BY <1>1, <2>1, <2>2, <2>3, <2>4 DEF SameMet
    <2>6. \A t \in Terms : MetIn(vocab', t) => t \in ReadKeys(p)'
        BY <1>1, <2>1, <2>2, <2>3 DEF SameMet, ReadKeys
    <2> QED
        BY <1>1, <2>2, <2>5, <2>6 DEF RebuildOk, MetIn
<1>7. CASE ReplaceNotes(p)
    BY <1>7 DEF ReplaceNotes, RebuildOk
<1>8. CASE Prune(p) \/ Abort(p)
    BY <1>0, <1>8 DEF Prune, Abort, Return, Goto, TypeOK
<1> QED
    BY <1>2, <1>3, <1>4, <1>5, <1>6, <1>7, <1>8 DEF Pass

LEMMA PassKeepsRebuild ==
    ASSUME TypeInv, RebuildInv, NEW q \in Passes, Pass(q)
    PROVE  RebuildInv'
<1> USE VocabAssumptions
<1> SUFFICES ASSUME NEW p \in Rebuilders, alone'[p], pc'[p] # "idle"
             PROVE  RebuildOk(p)'
    BY DEF RebuildInv
<1>0. TypeOK /\ p \in Passes
    BY DEF TypeInv
<1>1. CASE Start(q)
    <2>1. p = q /\ \A r \in Passes : pc[r] = "idle"
        BY <1>0, <1>1 DEF Start
    <2>2. pc'[p] = "reset" /\ \A r \in Passes \ {p} : pc'[r] = "idle"
        BY <1>0, <1>1, <2>1 DEF Start, Goto, TypeOK
    <2> QED
        BY <2>2 DEF RebuildOk
<1>2. CASE ~Start(q)
    <2>1. /\ alone' = alone /\ pc[q] # "idle"
          /\ q # p => pc'[p] = pc[p]
        BY <1>0, <1>2, OnlyItsOwn DEF Pass, ResetCounts, Rewind, ReplaceNotes, Fetch, Write,
           Save, SyncMined, Plan, Carry, Prune, Abort, history
    <2>2. CASE q # p
        BY <2>1, <2>2 DEF RebuildInv, RebuildOk
    <2>3. CASE q = p
        BY <1>2, <2>1, <2>3, OwnStep DEF RebuildInv
    <2> QED
        BY <2>2, <2>3
<1> QED
    BY <1>1, <1>2

LEMMA RebuildInvStep ==
    ASSUME KeysReal, TypeInv, RebuildInv, [Next]_vars
    PROVE  TypeInv' /\ RebuildInv'
<1>1. CASE UNCHANGED vars
    <2>1. TypeInv'
        BY <1>1 DEF vars, TypeInv, TypeOK, RepairsMove, Rows
    <2>2. RebuildInv'
        BY <1>1 DEF vars, RebuildInv, RebuildOk, MetIn, ReadKeys
    <2> QED
        BY <2>1, <2>2
<1>2. ASSUME NEW q \in Passes, Pass(q)
      PROVE  TypeInv' /\ RebuildInv'
    BY <1>2, PassKeepsTypes, PassKeepsRebuild
<1>3. CASE \/ \E u \in Uses : Read(u) \/ Discard(u)
           \/ \E t \in Terms : LookForTwin(t) \/ \E status \in Answers : Judge(t, status)
           \/ BlacklistNonWords \/ Upgrade \/ FixRow
    BY <1>3, OutsideKeepsTypes, OutsideKeepsRebuild
<1> QED
    BY <1>1, <1>2, <1>3 DEF Next

\* The last statement leaves what the property asks.
LEMMA PruneFollows ==
    ASSUME TypeInv, RebuildInv, [Next]_vars, NEW p \in Rebuilders,
           pc[p] = "prune", pc'[p] = "idle", alone[p]
    PROVE  /\ \A u \in kept \cap upto[p] :
                KeyOf[rule][u] \in DOMAIN vocab' /\ vocab'[KeyOf[rule][u]].met
           /\ vocab' # vocab => \A t \in DOMAIN vocab' :
                \/ \E u \in upto[p] : KeyOf[rule][u] = t
                \/ vocab'[t].mined \/ vocab'[t].status # "new"
<1> USE VocabAssumptions
<1>0. TypeOK /\ p \in Passes
    BY DEF TypeInv
<1>1. /\ \A u \in kept \cap upto[p] : MetIn(vocab, KeyOf[rule][u])
      /\ \A t \in Terms : MetIn(vocab, t) => t \in ReadKeys(p)
    BY DEF RebuildInv, RebuildOk
<1>2. Prune(p) \/ Abort(p)
    <2>1. PICK q \in Passes : Pass(q)
        <3>1. pc' # pc
            OBVIOUS
        <3> QED
            BY <3>1 DEF Next, vars, Read, Discard, LookForTwin, Judge, BlacklistNonWords,
               Upgrade, FixRow, locals
    <2>2. Pass(p)
        BY <1>0, <2>1, OnlyItsOwn
    <2> QED
        BY <1>0, <2>2 DEF Pass, Start, ResetCounts, Rewind, ReplaceNotes, Fetch, Write, Save,
           SyncMined, Plan, Carry, Goto, TypeOK
<1>3. CASE Abort(p)
    BY <1>1, <1>3 DEF Abort, MetIn
<1>4. CASE Prune(p)
    <2>1. vocab' = Without({t \in Rows : Untouched(t)}) /\ SameMet(vocab')
        BY <1>0, <1>4, PrunedMet DEF Prune
    <2>2. \A u \in kept \cap upto[p] : KeyOf[rule][u] \in Terms
        BY <1>0 DEF TypeOK
    <2>3. \A u \in kept \cap upto[p] : MetIn(vocab', KeyOf[rule][u])
        BY <1>1, <2>1, <2>2 DEF SameMet
    <2>4. \A t \in DOMAIN vocab' : t \in Rows /\ ~Untouched(t) /\ vocab'[t] = vocab[t]
        BY <2>1 DEF Without
    <2>5. \A t \in DOMAIN vocab' : \/ t \in ReadKeys(p)
                                  \/ vocab'[t].mined \/ vocab'[t].status # "new"
        BY <1>0, <1>1, <2>4 DEF Untouched, MetIn, TypeOK, Rows
    <2> QED
        BY <2>3, <2>5 DEF MetIn, ReadKeys
<1> QED
    BY <1>2, <1>3, <1>4

(* A rebuild no other pass overlapped leaves every use it could read counted *)
(* under the key it has now, and no row that is neither read, judged nor in   *)
(* Anki, whatever is judged, repaired, hooked and discarded meanwhile.        *)
THEOREM RebuildFollows ==
    ASSUME KeysReal
    PROVE  Spec => RebuildFollowsReading
<1>1. Init => TypeInv /\ RebuildInv
    <2> SUFFICES ASSUME Init PROVE TypeInv /\ RebuildInv
        OBVIOUS
    <2>1. TypeInv
        BY InitSays DEF VocabInv, TypeInv
    <2>2. \A p \in Passes : pc[p] = "idle"
        BY DEF Init
    <2> QED
        BY <2>1, <2>2, VocabAssumptions DEF RebuildInv
<1>2. TypeInv /\ RebuildInv /\ [Next]_vars => TypeInv' /\ RebuildInv'
    BY RebuildInvStep
<1>3. TypeInv /\ RebuildInv /\ [Next]_vars =>
        [\A p \in Rebuilders : pc[p] = "prune" /\ pc'[p] = "idle" /\ alone[p] =>
           /\ \A u \in kept \cap upto[p] :
                KeyOf[rule][u] \in DOMAIN vocab' /\ vocab'[KeyOf[rule][u]].met
           /\ vocab' # vocab => \A t \in DOMAIN vocab' :
                \/ \E u \in upto[p] : KeyOf[rule][u] = t
                \/ vocab'[t].mined \/ vocab'[t].status # "new"]_vars
    BY PruneFollows
<1> QED
    BY <1>1, <1>2, <1>3, PTL DEF Spec, RebuildFollowsReading
=============================================================================
