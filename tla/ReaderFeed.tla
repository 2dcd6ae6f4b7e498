------------------------------- MODULE ReaderFeed -------------------------------
(***************************************************************************)
(* The live line feed: the server-sent events of lines_stream              *)
(* (kotodex-server/src/routes/reader/stream.rs) over the `lines` table, and *)
(* the reading view that shows them (kotodex-server/static/reader.js).      *)
(*                                                                         *)
(* One browser tab.  Its connection may drop at any time with events still *)
(* in flight; it reconnects with Last-Event-ID.  Beside the stream it asks *)
(* for pages of history, clears lines and undoes that; each of the three    *)
(* requests is sent, applied by the server and answered in separate steps, *)
(* so that the stream, the logger and the other requests come in between.   *)
(* Only a page and a clear wait for the one before them: nothing disables   *)
(* the undo button while an undo is out, so there may be several.           *)
(*                                                                         *)
(* A line is its id, the position of its row; a row is TRUE while it is     *)
(* kept and FALSE while `discarded`.  Which rows belong to the sitting in   *)
(* progress depends on timestamps that nothing else here reads, so how far  *)
(* back the opening batch goes is any length the code allows.               *)
(***************************************************************************)
EXTENDS Integers, Sequences, SequencesExt, FiniteSets

CONSTANTS
    MaxRows,      \* bound on the rows of the table
    InitialRows,  \* rows there before the tab opens
    MinOpening,   \* stream.rs MIN_OPENING_LINES
    MaxBatch,     \* stream.rs MAX_BATCH
    PageSize,     \* reader.js HISTORY_PAGE
    MaxDrops,     \* bound on dropped connections
    Undos,        \* the undos that may be out at once
    Retracting,   \* whether the logger takes lines back
    MaxClears,    \* bound on the lines the reader clears
    Paging,       \* whether the reader scrolls back
    Failing       \* whether queries and requests fail

ASSUME FeedAssumptions ==
    /\ MaxRows \in Nat /\ InitialRows \in 0..MaxRows
    /\ {MaxDrops, MaxClears} \subseteq Nat
    /\ {MinOpening, MaxBatch, PageSize} \subseteq Nat \ {0}
    /\ MinOpening <= MaxBatch
    /\ {Retracting, Paging, Failing} \subseteq BOOLEAN

VARIABLES
    rows,       \* the table: whether each row is kept
    conn,       \* the stream: "down", "opening", "empty" or "polling"
    last_id,    \* the stream's position
    wire,       \* events sent and not received
    drops,      \* connections dropped so far
    opened,     \* history: how many rows there were at the opening batch
    lines,      \* the feed on screen
    lastEvent,  \* Last-Event-ID, 0 before any event
    exhausted,  \* reader.js historyExhausted
    page,       \* the request for history
    clear,      \* the request to discard
    undoing,    \* the requests to undiscard
    undo,       \* the toast's undo batch; <<>> when there is none
    clears,     \* clears sent so far
    retracted,  \* history: lines the logger took back
    unsure,     \* history: lines of a clear or an undo that got no answer
    crossed,    \* history: lines a clear and an undo were about at once
    twice,      \* history: lines put back while a page was out
    stale       \* history: lines discarded under a page not yet shown

history == <<clears, retracted, unsure, crossed, twice, stale>>

stream == <<conn, last_id, wire, drops, opened>>
screen == <<lines, lastEvent, exhausted, undo>>
requests == <<page, clear, undoing>>
vars == <<rows, conn, last_id, wire, drops, opened, lines, lastEvent,
          exhausted, page, clear, undoing, undo, clears, retracted,
          unsure, crossed, twice, stale>>

Ids == 1..Len(rows)

\* A request nobody has made, one on its way, and one the server has answered.
None == [phase |-> "none", ids |-> <<>>]
Sent(ids) == [phase |-> "sent", ids |-> ids]
Done(ids) == [phase |-> "done", ids |-> ids]

\* The lines of the undos not yet answered and shown.
BeingUndone == UNION {Range(undoing[u].ids) : u \in Undos}

Requests == [phase : {"none", "sent", "done"}, ids : Seq(Ids)]

TypeOK ==
    /\ rows \in Seq(BOOLEAN) /\ Len(rows) <= MaxRows
    /\ conn \in {"down", "opening", "empty", "polling"}
    /\ last_id \in 0..Len(rows) /\ lastEvent \in 0..Len(rows)
    /\ wire \in Seq(Ids) /\ lines \in Seq(Ids) /\ undo \in Seq(Ids)
    /\ drops \in 0..MaxDrops /\ clears \in 0..MaxClears /\ opened \in 0..Len(rows)
    /\ exhausted \in BOOLEAN
    /\ {page, clear} \subseteq Requests /\ undoing \in [Undos -> Requests]
    /\ retracted \cup unsure \cup crossed \cup twice \cup stale \subseteq Ids

Init ==
    /\ rows = [i \in 1..InitialRows |-> TRUE]
    /\ conn = "down" /\ last_id = 0 /\ wire = <<>> /\ drops = 0 /\ opened = 0
    /\ lines = <<>> /\ lastEvent = 0 /\ exhausted = FALSE
    /\ page = None /\ clear = None /\ undo = <<>> /\ clears = 0
    /\ undoing = [u \in Undos |-> None]
    /\ retracted = {} /\ unsure = {} /\ crossed = {} /\ twice = {} /\ stale = {}

---------------------------------------------------------------------------
(* db/lines.rs.                                                            *)

\* Numbers in ascending order, and a sequence without some of its elements: as
\* SetToSortSeq and SelectSeq give them, but each element named by its rank.
Ascending(S) == [k \in 1..Cardinality(S) |->
    CHOOSE i \in S : Cardinality({j \in S : j <= i}) = k]
Without(s, S) == LET at == Ascending({i \in DOMAIN s : s[i] \notin S})
                 IN  [k \in DOMAIN at |-> s[at[k]]]

KeptWithin(after, before) ==
    Ascending({i \in Ids : rows[i] /\ after < i /\ i < before})

Newest(ids, n) == IF Len(ids) > n THEN SubSeq(ids, Len(ids) - n + 1, Len(ids)) ELSE ids
Oldest(ids, n) == IF Len(ids) > n THEN SubSeq(ids, 1, n) ELSE ids

RecentLines(n) == Newest(KeptWithin(0, Len(rows) + 1), n) \* fetch_recent_lines
LinesAfter(id, n) == Oldest(KeptWithin(id, Len(rows) + 1), n) \* fetch_lines_after_id

LinesBefore(id, n) == Newest(KeptWithin(0, id), n) \* fetch_lines_before_id

\* Mutant: only the last id of the request is set.
Flagged_Last(ids, kept) ==
    [i \in Ids |-> IF ids # <<>> /\ i = Last(ids) THEN kept ELSE rows[i]]

\* set_lines_discarded, which returns the ids it changed.
Flagged(ids, kept) == [i \in Ids |-> IF i \in Range(ids) THEN kept ELSE rows[i]]
Changed(ids, kept) == Without(ids, {i \in Ids : rows[i] = kept})

Hook ==              \* a line is captured
    /\ Len(rows) < MaxRows
    /\ rows' = Append(rows, TRUE)
    /\ UNCHANGED <<stream, screen, requests, history>>

Retract ==           \* the logger joins the newest line to the next
    /\ Retracting /\ rows # <<>>
    /\ rows' = Flagged(<<Len(rows)>>, FALSE)
    /\ retracted' = retracted \cup {Len(rows)}
    /\ UNCHANGED <<stream, screen, requests, clears, unsure, crossed, twice, stale>>

---------------------------------------------------------------------------
(* stream.rs.                                                              *)

\* Mutant: a client that comes back starts from the current end.
Connect_AtEnd ==
    /\ conn = "down"
    /\ IF lastEvent # 0
       THEN conn' = "polling" /\ last_id' = Len(rows)
       ELSE conn' = "opening" /\ last_id' = 0
    /\ UNCHANGED <<rows, wire, drops, opened, screen, requests, history>>

Connect ==
    /\ conn = "down"
    /\ IF lastEvent # 0
       THEN conn' = "polling" /\ last_id' = lastEvent
       ELSE conn' = "opening" /\ last_id' = 0
    /\ UNCHANGED <<rows, wire, drops, opened, screen, requests, history>>

\* opening_batch: the sitting in progress, no shorter than MIN_OPENING_LINES.
Open ==
    /\ conn = "opening"
    /\ \E n \in MinOpening..MaxBatch :
          LET batch == RecentLines(n)
          IN  /\ wire' = batch
              /\ IF batch = <<>>
                 THEN conn' = "empty" /\ UNCHANGED last_id
                 ELSE conn' = "polling" /\ last_id' = Last(batch)
    /\ opened' = Len(rows)
    /\ UNCHANGED <<rows, drops, screen, requests, history>>

OpenFails ==         \* reader backlog failed
    /\ Failing /\ conn = "opening"
    /\ conn' = "polling" /\ last_id' = 0 /\ opened' = Len(rows)
    /\ UNCHANGED <<rows, wire, drops, screen, requests, history>>

AtEnd == Len(rows)   \* max_line_id

StartAtEnd ==        \* nothing to open with: start from the current end
    /\ conn = "empty"
    /\ conn' = "polling"
    /\ last_id' = AtEnd \/ (Failing /\ last_id' = 0)
    /\ UNCHANGED <<rows, wire, drops, opened, screen, requests, history>>

\* Mutant: a poll moves past what it had no room for.
Reached_Max(batch) == Len(rows)

Reached(batch) == Last(batch)

Poll ==
    /\ conn = "polling"
    /\ LinesAfter(last_id, MaxBatch) # <<>>
    /\ wire' = wire \o LinesAfter(last_id, MaxBatch)
    /\ last_id' = Reached(LinesAfter(last_id, MaxBatch))
    /\ UNCHANGED <<rows, conn, drops, opened, screen, requests, history>>

Drop ==              \* screen off, tab backgrounded: events in flight are gone
    /\ conn # "down" /\ drops < MaxDrops
    /\ conn' = "down" /\ wire' = <<>> /\ drops' = drops + 1
    /\ UNCHANGED <<rows, last_id, opened, screen, requests, history>>

---------------------------------------------------------------------------
(* reader.js.                                                              *)

Receive ==           \* es.onmessage
    /\ wire # <<>>
    /\ wire' = Tail(wire) /\ lastEvent' = Head(wire)
    /\ lines' = IF lines # <<>> /\ Head(wire) <= Last(lines)
                THEN lines ELSE Append(lines, Head(wire))
    /\ UNCHANGED <<rows, conn, last_id, drops, opened, exhausted, undo,
                   requests, history>>

AskHistory ==        \* loadMoreHistory: before the oldest line held
    /\ Paging /\ page = None /\ lines # <<>> /\ ~exhausted
    /\ page' = Sent(<<Head(lines)>>)
    /\ UNCHANGED <<rows, stream, screen, clear, undoing, history>>

AnswerHistory ==     \* lines_before
    /\ page.phase = "sent"
    /\ page' = Done(LinesBefore(Head(page.ids), PageSize))
    /\ UNCHANGED <<rows, stream, screen, clear, undoing, history>>

ShowHistory ==
    /\ page.phase = "done"
    /\ lines' = page.ids \o lines
    /\ exhausted' = (exhausted \/ page.ids = <<>>)
    /\ page' = None
    /\ UNCHANGED <<rows, stream, lastEvent, undo, clear, undoing, history>>

HistoryFails ==
    /\ Failing /\ page # None
    /\ page' = None
    /\ UNCHANGED <<rows, stream, screen, clear, undoing, history>>

ClearLast ==         \* the id comes from what is on screen
    /\ clears < MaxClears /\ clear = None /\ lines # <<>>
    /\ clear' = Sent(<<Last(lines)>>) /\ clears' = clears + 1
    /\ crossed' = crossed \cup ({Last(lines)} \cap BeingUndone)
    /\ UNCHANGED <<rows, stream, screen, page, undoing, retracted, unsure,
                   twice, stale>>

Discard ==           \* discard_lines
    /\ clear.phase = "sent"
    /\ rows' = Flagged(clear.ids, FALSE)
    /\ clear' = Done(Changed(clear.ids, FALSE))
    /\ stale' = IF page.phase = "done"
                THEN stale \cup (Range(clear.ids) \cap Range(page.ids)) ELSE stale
    /\ UNCHANGED <<stream, screen, page, undoing, clears, retracted, unsure,
                   crossed, twice>>

\* A line that was discarded already stays on screen; any other leaves it and
\* joins the toast's batch.
ShowCleared ==
    /\ clear.phase = "done"
    /\ lines' = Without(lines, Range(clear.ids))
    /\ undo' = undo \o clear.ids
    /\ clear' = None
    /\ UNCHANGED <<rows, stream, lastEvent, exhausted, page, undoing,
                   history>>

ClearFails ==        \* the error's toast replaces the one with the batch
    /\ Failing /\ clear # None
    /\ clear' = None /\ undo' = <<>>
    /\ unsure' = unsure \cup Range(clear.ids)
    /\ UNCHANGED <<rows, stream, lines, lastEvent, exhausted, page, undoing,
                   clears, retracted, crossed, twice, stale>>

UndoClear(u) ==      \* the toast stays up, and its button works, until an answer
    /\ undoing[u] = None /\ undo # <<>>
    /\ undoing' = [undoing EXCEPT ![u] = Sent(undo)]
    /\ crossed' = crossed \cup (Range(undo) \cap Range(clear.ids))
    /\ UNCHANGED <<rows, stream, screen, page, clear, clears, retracted, unsure,
                   twice, stale>>

Undiscard(u) ==      \* undiscard_lines
    /\ undoing[u].phase = "sent"
    /\ rows' = Flagged(undoing[u].ids, TRUE)
    /\ undoing' = [undoing EXCEPT ![u] = Done(undoing[u].ids)]
    /\ UNCHANGED <<stream, screen, page, clear, history>>

\* Mutant: the batch goes back at the end of the feed.
Restored_Appended(feed, batch) == feed \o batch

\* The feed and the batch in one, in id order, no id twice.
Restored(feed, batch) == Ascending(Range(feed) \cup Range(batch))

ShowRestored(u) ==
    /\ undoing[u].phase = "done"
    /\ lines' = Restored(lines, undoing[u].ids)
    /\ undoing' = [undoing EXCEPT ![u] = None] /\ undo' = <<>>
    /\ twice' = IF page = None THEN {} ELSE twice \cup Range(undoing[u].ids)
    /\ UNCHANGED <<rows, stream, lastEvent, exhausted, page, clear, clears,
                   retracted, unsure, crossed, stale>>

UndoFails(u) ==
    /\ Failing /\ undoing[u] # None
    /\ undoing' = [undoing EXCEPT ![u] = None] /\ undo' = <<>>
    /\ unsure' = unsure \cup Range(undoing[u].ids)
    /\ UNCHANGED <<rows, stream, lines, lastEvent, exhausted, page, clear,
                   clears, retracted, crossed, twice, stale>>

ToastExpires ==      \* UNDO_TOAST_MS
    /\ undo # <<>>
    /\ undo' = <<>>
    /\ UNCHANGED <<rows, stream, lines, lastEvent, exhausted, requests,
                   history>>

Next ==
    \/ Hook \/ Retract
    \/ Connect \/ Open \/ OpenFails \/ StartAtEnd \/ Poll \/ Drop
    \/ Receive
    \/ AskHistory \/ AnswerHistory \/ ShowHistory \/ HistoryFails
    \/ ClearLast \/ Discard \/ ShowCleared \/ ClearFails
    \/ \E u \in Undos :
          UndoClear(u) \/ Undiscard(u) \/ ShowRestored(u) \/ UndoFails(u)
    \/ ToastExpires

Spec == Init /\ [][Next]_vars

(* EventSource reconnects on its own and the stream polls every 30 ms; no   *)
(* tap of the reader and no captured line is promised.                      *)
FairSpec == /\ Spec
            /\ WF_vars(Connect) /\ WF_vars(Open) /\ WF_vars(StartAtEnd)
            /\ WF_vars(Poll) /\ WF_vars(Receive)

---------------------------------------------------------------------------
(* Properties.                                                             *)

\* Whatever drops, reconnects, is scrolled back to or restored, the feed shows
\* every line once and in the order it was captured; but a page in flight when
\* an undo puts a line back may bring that line too, above its own.
FeedInOrder == \A i, j \in DOMAIN lines :
    i < j => lines[i] < lines[j] \/ lines[j] \in twice

\* Resuming from Last-Event-ID leaves no gap: between the oldest line on screen
\* and the last event received, a kept line is missing only while its undo is
\* on its way, after a request whose answer was lost, or when the undo that put
\* it back and a clear of it were out at once.
NoGap == lines # <<>> =>
    \A i \in Head(lines)..lastEvent :
        rows[i] /\ i \notin BeingUndone \cup unsure \cup crossed
            => i \in Range(lines)

\* The feed of a tab is whole at every moment, whichever of its conversations
\* was answered last.
FeedWhole == TypeOK /\ FeedInOrder /\ NoGap

\* The screen and the ledger agree about what is cleared: a discarded line still
\* on screen is being cleared now, was taken back by the logger, was in a
\* request whose answer was lost, or was cleared again under a page or a second
\* undo that had it and was still to be shown.
ScreenAgrees == \A i \in Range(lines) :
    rows[i] \/ i \in Range(clear.ids) \cup retracted \cup unsure \cup crossed \cup stale

Kept(i) == i \in Ids /\ rows[i]
Settled(i) == i \in Range(lines) \/ ~Kept(i) \/ i <= opened

\* Whatever lies past the stream's position is shown in the end, through
\* dropped connections and full batches, unless it is discarded first or the
\* tab, having received nothing, opens afresh with that line behind it.
Arrives == \A i \in 1..MaxRows :
    (conn = "polling" /\ i > last_id /\ Kept(i)) ~> Settled(i)
=============================================================================
