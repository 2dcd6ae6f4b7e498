------------------------------- MODULE VocabLedger -------------------------------
(***************************************************************************)
(* The vocabulary ledger (jp-core/src/knowledge/vocabulary.rs): one row per *)
(* term, holding what the reader said of it, whether Anki has it, and how   *)
(* often the reading met it.  The first is the reader's alone; the other    *)
(* two are recomputed behind their back by `POST /api/vocab/rebuild` and    *)
(* `POST /api/anki/refresh` (routes/vocab.rs, routes/anki.rs), after an     *)
(* upgrade of the tokenizer under other keys.                               *)
(*                                                                         *)
(* Nothing serialises these requests.  Each of their statements, or the     *)
(* transaction it is in, is a step here, and a request may end between two. *)
(*                                                                         *)
(* Counts are abstracted to whether they are zero (LedgerIngest is about    *)
(* how much is counted, and takes the ingest apart further), the reading to *)
(* the words used in it, and the tokenizer to the key it gives each.        *)
(***************************************************************************)
EXTENDS FiniteSets, Naturals

CONSTANTS
    Terms,       \* keys of the ledger: a headword and a reading
    HeadwordOf,  \* the headword of each
    WordOf,      \* the word each names; two keys of one word differ in spelling
    Uses,        \* the words used in the reading
    Rules,       \* versions of the tokenizer, from FirstRule on
    FirstRule,
    KeyOf,       \* KeyOf[rule][use]: the key a use is counted under
    CalledNow,   \* CalledNow[rule][term]: the key of the headword on its own,
                 \* the term itself where that is not one token
    RealKey,     \* RealKey[term]: term, or the key of the one reading the
                 \* dictionaries give a headword stored without any
    NonWords,    \* terms no dictionary lists
    Passes, Rebuilders,  \* requests that may run at once; those that rebuild
    Decks,       \* what the Anki deck may hold, as headwords
    Answers,     \* the statuses the reader gives, of those a row can have
    MaxAsserts,  \* bound on the reader's judgements
    MaxStarts,   \* bound on the requests
    Failures     \* whether a request may end early

Status == {"new", "known", "unknown", "blacklisted"}
Headwords == {HeadwordOf[t] : t \in Terms}
Words == {WordOf[t] : t \in Terms}

ASSUME VocabAssumptions ==
    /\ HeadwordOf \in [Terms -> Headwords] /\ WordOf \in [Terms -> Words]
    /\ FirstRule \in Rules
    /\ KeyOf \in [Rules -> [Uses -> Terms]]
    /\ CalledNow \in [Rules -> [Terms -> Terms]]
    /\ RealKey \in [Terms -> Terms]
    /\ NonWords \subseteq Terms /\ Rebuilders \subseteq Passes
    /\ Decks \subseteq SUBSET Headwords /\ Answers \subseteq Status
    /\ MaxAsserts \in Nat /\ MaxStarts \in Nat /\ Failures \in BOOLEAN

VARIABLES
    vocab,    \* vocabulary: term |-> [status, mined, met]
    stored,   \* uses in `lines` and `manual_sessions`
    kept,     \* those not discarded
    crossed,  \* those at or below the ledger's watermark
    notes,    \* anki_notes, by headword
    rule,     \* the tokenizer installed
    pc,       \* the statement each pass is at
    upto,     \* the uses each pass will have crossed
    batch,    \* the terms of its harvest
    plan,     \* <<from, into>> it will carry
    fixing,   \* repair_empty_readings: the row at hand and whether its twin exists
    asserts,  \* judgements made so far
    starts,   \* requests begun so far
    said,     \* history: <<word, status>> the reader ever asserted
    claims,   \* history: words the reader has judged and not taken back
    alone,    \* history: no other pass has run since this one began
    slipped,  \* history: a repair's twin appeared or vanished before its write
    misplaced \* history: <<word, other>> whose judgement was put on a row of the other

reading == <<stored, kept>>
locals  == <<pc, upto, batch, plan>>
reader  == <<asserts, said, claims>>
history == <<starts, alone, slipped, misplaced>>
vars == <<vocab, stored, kept, crossed, notes, rule, pc, upto, batch, plan,
          fixing, asserts, starts, said, claims, alone, slipped, misplaced>>

Rows == DOMAIN vocab
Judged(t) == t \in Rows /\ vocab[t].status # "new"

\* The words whose judgement a row may hold: its own, and those it was put there of.
SpeaksOf(t) == {WordOf[t]} \cup {w \in Words : <<w, WordOf[t]>> \in misplaced}

NoFix == [from |-> {}, twin |-> FALSE]

TypeOK ==
    /\ Rows \subseteq Terms
    /\ \A t \in Rows : vocab[t] \in [status : Status, mined : BOOLEAN, met : BOOLEAN]
    /\ kept \subseteq stored /\ crossed \subseteq stored /\ stored \subseteq Uses
    /\ notes \subseteq Headwords /\ rule \in Rules
    /\ pc \in [Passes -> {"idle", "reset", "rewind", "notes", "fetch", "write", "save",
                          "mined", "plan", "carry", "prune"}]
    /\ upto \in [Passes -> SUBSET stored] /\ batch \in [Passes -> SUBSET Terms]
    /\ plan \in [Passes -> SUBSET (Terms \X Terms)]
    /\ fixing.from \subseteq Terms /\ Cardinality(fixing.from) <= 1
    /\ asserts \in 0..MaxAsserts /\ starts \in 0..MaxStarts
    /\ said \subseteq Words \X Status /\ claims \subseteq Words
    /\ alone \in [Passes -> BOOLEAN] /\ slipped \in BOOLEAN
    /\ misplaced \subseteq Words \X Words

Init ==
    /\ vocab = [t \in {} |-> {}]
    /\ stored = {} /\ kept = {} /\ crossed = {} /\ notes = {}
    /\ rule = FirstRule
    /\ pc = [p \in Passes |-> "idle"]
    /\ upto = [p \in Passes |-> {}] /\ batch = [p \in Passes |-> {}]
    /\ plan = [p \in Passes |-> {}]
    /\ fixing = NoFix
    /\ asserts = 0 /\ starts = 0 /\ said = {} /\ claims = {}
    /\ alone = [p \in Passes |-> TRUE] /\ slipped = FALSE /\ misplaced = {}

---------------------------------------------------------------------------
(* What the statements do to the rows.                                     *)

Fresh == [status |-> "new", mined |-> FALSE, met |-> FALSE]
Row(t) == IF t \in Rows THEN vocab[t] ELSE Fresh

\* INSERT ... ON CONFLICT DO UPDATE: the column is set, the rest is kept.
Upsert(ts, column, value) ==
    [t \in Rows \cup ts |->
        IF t \in ts THEN [Row(t) EXCEPT ![column] = value] ELSE vocab[t]]

Without(ts) == [t \in Rows \ ts |-> vocab[t]]

\* Mutant: a mined word is filed as known.
Mirrored_Knows ==
    [t \in Rows |-> IF HeadwordOf[t] \in notes /\ ~vocab[t].mined
                    THEN [vocab[t] EXCEPT !.mined = TRUE, !.status = "known"]
                    ELSE [vocab[t] EXCEPT !.mined = HeadwordOf[t] \in notes]]

\* sync_mined: Anki has the headword, so every reading of it is mined.
Mirrored == [t \in Rows |-> [vocab[t] EXCEPT !.mined = HeadwordOf[t] \in notes]]

\* What prune_untouched deletes.
Untouched(t) == ~vocab[t].met /\ ~vocab[t].mined /\ vocab[t].status = "new"

\* What stranded_judgements returns.
Stranded(t) == ~vocab[t].met /\ ~vocab[t].mined /\ vocab[t].status # "new"

\* Mutant: the old row is deleted though nothing landed on the new one.
Carried_Always(from, into) ==
    [t \in Rows \ {from} |->
        IF t = into /\ Judged(from) /\ ~Judged(t)
        THEN [vocab[t] EXCEPT !.status = vocab[from].status] ELSE vocab[t]]

\* carry_judgement: onto a row that has no judgement, and only then is the old
\* row deleted, if nothing has met it since.
Carried(from, into) ==
    IF Judged(from) /\ into \in Rows /\ ~Judged(into)
    THEN [t \in Rows \ (IF vocab[from].met THEN {} ELSE {from}) |->
            IF t = into THEN [vocab[t] EXCEPT !.status = vocab[from].status]
                        ELSE vocab[t]]
    ELSE vocab

\* repair_empty_readings with a twin: folded into it, the twin's judgement wins.
Merged(bare, real) ==
    [t \in Rows \ {bare} |->
        IF t = real /\ bare \in Rows
        THEN [status |-> IF Judged(t) THEN vocab[t].status ELSE vocab[bare].status,
              mined  |-> vocab[t].mined \/ vocab[bare].mined,
              met    |-> vocab[t].met \/ vocab[bare].met]
        ELSE vocab[t]]

\* ... and without one: re-keyed.
Rekeyed(bare, real) ==
    [t \in (Rows \ {bare}) \cup (IF bare \in Rows THEN {real} ELSE {}) |->
        IF t = real /\ bare \in Rows THEN vocab[bare] ELSE vocab[t]]

\* The judgement of one key moves to another, which may be of another word: two
\* readings of a spelling, and the tokenizer names one of them.
Moves(from, into) ==
    misplaced' = IF vocab' # vocab /\ Judged(from) /\ WordOf[from] # WordOf[into]
                 THEN misplaced \cup (SpeaksOf(from) \X {WordOf[into]})
                 ELSE misplaced

---------------------------------------------------------------------------
(* The reader, and the reading.                                            *)

Read(u) ==           \* a line is hooked, a session logged
    /\ u \notin stored
    /\ stored' = stored \cup {u} /\ kept' = kept \cup {u}
    /\ UNCHANGED <<vocab, crossed, notes, rule, locals, fixing, reader, history>>

Discard(u) ==        \* and discarded, or deleted
    /\ u \in kept
    /\ kept' = kept \ {u}
    /\ UNCHANGED <<vocab, stored, crossed, notes, rule, locals, fixing, reader,
                   history>>

\* vocab_judge, and vocab_anki_import, whose judgement is always "known".
Judge(t, status) ==
    /\ asserts < MaxAsserts
    /\ asserts' = asserts + 1
    /\ vocab' = Upsert({t}, "status", status)
    /\ said' = IF status = "new" THEN said ELSE said \cup {<<WordOf[t], status>>}
    /\ claims' = IF status # "new" THEN claims \cup {WordOf[t]}
                 ELSE {w \in claims : w \in SpeaksOf(t) =>
                         \E u \in Rows \ {t} : w \in SpeaksOf(u) /\ Judged(u)}
    /\ UNCHANGED <<reading, crossed, notes, rule, locals, fixing, history>>

BlacklistNonWords == \* vocab_blacklist_non_words
    LET hit == {t \in Rows \cap NonWords : ~Judged(t)}
    IN  /\ hit # {} /\ asserts < MaxAsserts
        /\ asserts' = asserts + 1
        /\ vocab' = Upsert(hit, "status", "blacklisted")
        /\ said' = said \cup {<<WordOf[t], "blacklisted">> : t \in hit}
        /\ claims' = claims \cup {WordOf[t] : t \in hit}
        /\ UNCHANGED <<reading, crossed, notes, rule, locals, fixing, history>>

\* The server is restarted with another tokenizer; what ran is gone.
Upgrade ==
    /\ \E r \in Rules \ {rule, FirstRule} : rule' = r
    /\ \A p \in Passes : pc[p] = "idle"
    /\ fixing = NoFix
    /\ UNCHANGED <<vocab, reading, crossed, notes, locals, fixing, reader, history>>

---------------------------------------------------------------------------
(* repair_empty_readings, row by row.                                      *)

\* The query for the twin, before the transaction begins.
LookForTwin(t) ==
    /\ fixing = NoFix
    /\ t \in Rows /\ RealKey[t] # t
    /\ fixing' = [from |-> {t}, twin |-> RealKey[t] \in Rows]
    /\ UNCHANGED <<vocab, reading, crossed, notes, rule, locals, reader, history>>

\* A re-key onto a key that has come to exist fails and ends the request.
FixRow ==
    \E t \in fixing.from :
        /\ vocab' = IF fixing.twin THEN Merged(t, RealKey[t])
                    ELSE IF RealKey[t] \in Rows THEN vocab
                    ELSE Rekeyed(t, RealKey[t])
        /\ Moves(t, RealKey[t])
        /\ slipped' = (slipped \/ fixing.twin # (RealKey[t] \in Rows))
        /\ fixing' = NoFix
        /\ UNCHANGED <<reading, crossed, notes, rule, locals, reader, starts, alone>>

---------------------------------------------------------------------------
(* A rebuild, or a refresh.                                                *)

Goto(p, label) == pc' = [pc EXCEPT ![p] = label]

Return(p) ==
    /\ Goto(p, "idle")
    /\ upto' = [upto EXCEPT ![p] = {}]
    /\ batch' = [batch EXCEPT ![p] = {}]
    /\ plan' = [plan EXCEPT ![p] = {}]

Start(p) ==
    /\ pc[p] = "idle" /\ starts < MaxStarts
    /\ starts' = starts + 1
    /\ Goto(p, IF p \in Rebuilders THEN "reset" ELSE "notes")
    /\ alone' = [q \in Passes |-> q = p /\ \A r \in Passes : pc[r] = "idle"]
    /\ UNCHANGED <<vocab, reading, crossed, notes, rule, upto, batch, plan, fixing,
                   reader, slipped, misplaced>>

ResetCounts(p) ==    \* reset_vocabulary: the counts ...
    /\ pc[p] = "reset"
    /\ vocab' = Upsert(Rows, "met", FALSE)
    /\ Goto(p, "rewind")
    /\ UNCHANGED <<reading, crossed, notes, rule, upto, batch, plan, fixing, reader,
                   history>>

\* Mutant: the ledger's watermark is left where it is.
Rewound_Not == crossed

Rewound == {}

Rewind(p) ==         \* ... and the watermarks
    /\ pc[p] = "rewind"
    /\ crossed' = Rewound
    /\ Goto(p, "fetch")
    /\ UNCHANGED <<vocab, reading, notes, rule, upto, batch, plan, fixing, reader,
                   history>>

ReplaceNotes(p) ==   \* a refresh mirrors the deck first, whatever it holds now
    /\ pc[p] = "notes"
    /\ notes' \in Decks
    /\ Goto(p, "fetch")
    /\ UNCHANGED <<vocab, reading, crossed, rule, upto, batch, plan, fixing, reader,
                   history>>

\* ingest_new_lines, then ingest_new_sessions: the two are one pass here.
Fetch(p) ==
    LET new == kept \ crossed
    IN  /\ pc[p] = "fetch"
        /\ Goto(p, IF new = {} THEN "mined" ELSE "write")
        /\ upto' = [upto EXCEPT ![p] = stored]
        /\ batch' = [batch EXCEPT ![p] = {KeyOf[rule][u] : u \in new}]
        /\ UNCHANGED <<vocab, reading, crossed, notes, rule, plan, fixing, reader,
                       history>>

Write(p) ==          \* record_encounters
    /\ pc[p] = "write"
    /\ vocab' = Upsert(batch[p], "met", TRUE)
    /\ Goto(p, "save")
    /\ UNCHANGED <<reading, crossed, notes, rule, upto, batch, plan, fixing, reader,
                   history>>

Save(p) ==           \* the ledger's watermark becomes the last id fetched
    /\ pc[p] = "save"
    /\ crossed' = upto[p]
    /\ Goto(p, "mined")
    /\ UNCHANGED <<vocab, reading, notes, rule, upto, batch, plan, fixing, reader,
                   history>>

\* A refresh ends with the sync.
SyncMined(p) ==
    /\ pc[p] = "mined"
    /\ vocab' = Mirrored
    /\ IF p \in Rebuilders THEN Goto(p, "plan") /\ UNCHANGED <<upto, batch, plan>>
                           ELSE Return(p)
    /\ UNCHANGED <<reading, crossed, notes, rule, fixing, reader, history>>

\* carry_stranded_judgements: what every stranded key is called now ...
Plan(p) ==
    /\ pc[p] = "plan"
    /\ plan' = [plan EXCEPT ![p] =
         {<<t, CalledNow[rule][t]>> : t \in {s \in Rows : Stranded(s) /\ CalledNow[rule][s] # s}}]
    /\ Goto(p, "carry")
    /\ UNCHANGED <<vocab, reading, crossed, notes, rule, upto, batch, fixing, reader,
                   history>>

\* ... and each moved in a transaction of its own.
Carry(p) ==
    /\ pc[p] = "carry"
    /\ \/ /\ plan[p] = {}
          /\ Goto(p, "prune") /\ UNCHANGED <<vocab, plan, misplaced>>
       \/ \E move \in plan[p] :
            /\ vocab' = Carried(move[1], move[2]) /\ Moves(move[1], move[2])
            /\ plan' = [plan EXCEPT ![p] = plan[p] \ {move}]
            /\ UNCHANGED pc
    /\ UNCHANGED <<reading, crossed, notes, rule, upto, batch, fixing, reader,
                   starts, alone, slipped>>

Prune(p) ==          \* prune_untouched
    /\ pc[p] = "prune"
    /\ vocab' = Without({t \in Rows : Untouched(t)})
    /\ Return(p)
    /\ UNCHANGED <<reading, crossed, notes, rule, fixing, reader, history>>

\* An error or a dropped request ends it before its next statement.
Abort(p) ==
    /\ Failures /\ pc[p] # "idle"
    /\ Return(p)
    /\ UNCHANGED <<vocab, reading, crossed, notes, rule, fixing, reader, history>>

Pass(p) == \/ Start(p) \/ ResetCounts(p) \/ Rewind(p) \/ ReplaceNotes(p)
           \/ Fetch(p) \/ Write(p) \/ Save(p) \/ SyncMined(p)
           \/ Plan(p) \/ Carry(p) \/ Prune(p) \/ Abort(p)

Next ==
    \/ \E u \in Uses : Read(u) \/ Discard(u)
    \/ \E t \in Terms : LookForTwin(t) \/ \E status \in Answers : Judge(t, status)
    \/ BlacklistNonWords \/ Upgrade \/ FixRow
    \/ \E p \in Passes : Pass(p)

Spec == Init /\ [][Next]_vars

---------------------------------------------------------------------------
(* Properties.                                                             *)

\* No row says of a word what the reader never said of it: "marking one known
\* must not mark the other" (005_vocabulary.sql), whatever is carried, merged,
\* synced and imported.  But a judgement that was carried, or repaired, onto the
\* key of another word says there what was said of the first.
NothingUnsaid == \A t \in Rows : Judged(t) =>
    \E w \in SpeaksOf(t) : <<w, vocab[t].status>> \in said

\* What the reader said of a word is not lost: while they have not taken it
\* back, some row of that word is judged, or one its judgement was carried to,
\* through re-keying, overlapping rebuilds and failures ("Judged and mined rows
\* are spared", vocab_rebuild).  A repair whose twin vanished between its query
\* and its write can lose one.
NothingForgotten == slipped \/ \A w \in claims :
    \E t \in Rows : w \in SpeaksOf(t) /\ Judged(t)

\* A rebuild no other pass overlapped ends with everything it could read
\* counted under the key it has now, whatever failed before it, and leaves no
\* row without a reason: read, judged or in Anki.
RebuildFollowsReading == [][\A p \in Rebuilders :
    pc[p] = "prune" /\ pc'[p] = "idle" /\ alone[p] =>
        /\ \A u \in kept \cap upto[p] :
             KeyOf[rule][u] \in DOMAIN vocab' /\ vocab'[KeyOf[rule][u]].met
        /\ vocab' # vocab => \A t \in DOMAIN vocab' :
             \/ \E u \in upto[p] : KeyOf[rule][u] = t
             \/ vocab'[t].mined \/ vocab'[t].status # "new"]_vars
=============================================================================
