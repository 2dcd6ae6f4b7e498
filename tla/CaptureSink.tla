------------------------------- MODULE CaptureSink -------------------------------
(***************************************************************************)
(* A captured line on its way from the texthooker to the `lines` table:    *)
(* emit() and StatsSink in sources/textractor/vn-ws-logger.py, and the     *)
(* server's POST /api/lines and /api/lines/retract                         *)
(* (kotodex-server/src/routes/ingest.rs).                                  *)
(*                                                                         *)
(* The logger is one thread; a request blocks it.  What interleaves is the *)
(* other side: the reader pauses capture, a request the logger gave up on  *)
(* after HTTP_TIMEOUT is applied later, and either process may die.        *)
(*                                                                         *)
(* Text is abstracted to the text boxes ("fragments") it came from,        *)
(* numbered in the order they were captured.  A line is the interval of    *)
(* fragments joined in it; a capture that continues the previous line      *)
(* retracts that line and adds the joined one.  Captures that emit() drops *)
(* (junk, a re-hook of the line on screen) change nothing and are left out.*)
(***************************************************************************)
EXTENDS Integers, Sequences, SequencesExt, FiniteSets

CONSTANTS
    MaxFragments,  \* bound on the text boxes captured
    MaxPending,    \* StatsSink.MAX_PENDING
    MaxBatch,      \* routes/ingest.rs MAX_BATCH
    MaxLines,      \* no reply is lost or late once there are this many rows
    Faults,        \* what can become of a request: see Fault
    Pausing,       \* whether the reader pauses capture
    Crashing       \* whether the logger can die

(* "refused": the server never saw it.  "lost": applied, but the reply did  *)
(* not come back in time.  "late": not applied yet when the logger gives    *)
(* up on it, applied at some later time.                                    *)
Fault == {"refused", "lost", "late"}

ASSUME CaptureAssumptions ==
    /\ {MaxFragments, MaxPending, MaxBatch} \subseteq Nat \ {0}
    /\ MaxLines \in Nat
    /\ Faults \subseteq Fault
    /\ Pausing \in BOOLEAN /\ Crashing \in BOOLEAN

VARIABLES
    captured,  \* how many fragments have been captured
    last,      \* the previous line, emit()'s `last`; NoLine before the first
    text,      \* the line emit() has in hand
    pc,        \* where emit() is
    pending,   \* StatsSink.pending
    quiet,     \* the back-off has not expired (ready() is false)
    lines,     \* the server's rows for this source: the line and its flag
    paused,    \* the capture_paused setting
    wire,      \* a request given up on and not applied yet
    calm,      \* from here on no request fails
    shed,      \* history: fragments cut by MAX_PENDING or gone with a crash
    dropped,   \* history: fragments last accepted while paused, and dropped
    gaveUp,    \* history: lines a retract did not take back
    resent,    \* history: fragments inserted by a post whose reply was lost
    astray     \* history: fragments a retract took that it was not meant for

logger == <<captured, last, text, pc, pending, quiet>>
server == <<lines, paused>>
history == <<shed, dropped, gaveUp, resent, astray>>
vars == <<captured, last, text, pc, pending, quiet, lines, paused,
          wire, calm, shed, dropped, gaveUp, resent, astray>>

NoLine  == <<0, 0>>
Frags(line) == (line[1]..line[2]) \ {0}
Interval == {l \in (0..MaxFragments) \X (0..MaxFragments) :
               l = NoLine \/ (0 < l[1] /\ l[1] <= l[2])}
FragsOf(ls) == UNION {Frags(ls[i]) : i \in DOMAIN ls}

TypeOK ==
    /\ captured \in 0..MaxFragments
    /\ last \in Interval /\ text \in Interval
    /\ pc \in {"idle", "retract", "add"}
    /\ pending \in Seq(Interval \ {NoLine}) /\ Len(pending) <= MaxPending
    /\ quiet \in BOOLEAN /\ paused \in BOOLEAN /\ calm \in BOOLEAN
    /\ lines \in Seq([line : Interval \ {NoLine}, discarded : BOOLEAN])
    /\ Cardinality(wire) <= 1
    /\ {shed, dropped, gaveUp, resent, astray} \subseteq SUBSET (1..captured)

Init ==
    /\ captured = 0
    /\ last = NoLine /\ text = NoLine /\ pc = "idle"
    /\ pending = <<>> /\ quiet = FALSE
    /\ lines = <<>> /\ paused = FALSE
    /\ wire = {} /\ calm = FALSE
    /\ shed = {} /\ dropped = {} /\ gaveUp = {} /\ resent = {}
    /\ astray = {}

---------------------------------------------------------------------------
(* The server.                                                             *)

\* retract_last_line: the newest row of the source, whatever its flag.
Retracted(rows) ==
    IF rows = <<>> THEN rows ELSE [rows EXCEPT ![Len(rows)].discarded = TRUE]

Fresh(ls) == [i \in DOMAIN ls |-> [line |-> ls[i], discarded |-> FALSE]]

\* Whether a retract cannot help taking a line it was not meant for: nobody
\* waits for it any more, the line it was meant for was paused away, or the
\* newest row is of a post that was sent again.
Misled(late) == \/ late \/ Frags(last) \cap dropped # {}
                \/ lines # <<>> /\ Frags(Last(lines).line) \cap resent # {}

\* What a retract takes out of the ledger that the logger does not hold.
Taken == IF lines = <<>> \/ Last(lines).discarded THEN {}
         ELSE Frags(Last(lines).line) \ (Frags(text) \cup FragsOf(pending))

\* retract_line, and ingest_lines: too long a batch is refused whole, a paused
\* one accepted and dropped, any other inserted in one transaction.
Apply(request, late) ==
    IF request.kind = "retract"
    THEN /\ lines' = Retracted(lines) /\ UNCHANGED dropped
         /\ astray' = astray \cup (IF Misled(late) THEN Taken ELSE {})
    ELSE /\ UNCHANGED astray
         /\ IF paused
            THEN dropped' = dropped \cup FragsOf(request.lines) /\ UNCHANGED lines
            ELSE /\ lines' = lines \o Fresh(request.lines)
                 /\ dropped' = dropped \ FragsOf(request.lines)

Post(ls) == [kind |-> "post", lines |-> ls]
Retraction == [kind |-> "retract", lines |-> <<>>]

May(fault) == fault \in Faults /\ ~calm

Answered(request) == Apply(request, FALSE) /\ UNCHANGED <<wire, resent>>

Unanswered(request) ==
    \/ May("refused") /\ UNCHANGED <<lines, dropped, astray, wire, resent>>
    \/ /\ May("lost") /\ Len(lines) < MaxLines
       /\ Apply(request, FALSE) /\ UNCHANGED wire
       /\ resent' = resent \cup FragsOf(request.lines)
    \/ /\ May("late") /\ wire = {} /\ Len(lines) < MaxLines
       /\ wire' = {request} /\ UNCHANGED <<lines, dropped, astray, resent>>

Arrive ==            \* the server gets to a request nobody waits for
    \E request \in wire :
        /\ Apply(request, TRUE)
        /\ wire' = {}
        /\ resent' = resent \cup FragsOf(request.lines)
        /\ UNCHANGED <<logger, paused, calm, shed, gaveUp>>

TogglePause ==       \* PUT /api/settings from the reader
    /\ Pausing
    /\ paused' = ~paused
    /\ UNCHANGED <<logger, lines, wire, calm, history>>

Settle ==            \* the server is up for good
    /\ calm' = TRUE
    /\ UNCHANGED <<logger, server, wire, history>>

---------------------------------------------------------------------------
(* StatsSink.                                                              *)

\* Mutant: a failed request drops what was held.
Failed_Drops(ls) == pending' = <<>> /\ quiet' = TRUE

\* _send's except: a lone line arms the back-off, a held backlog does not.
Failed(ls) ==
    /\ pending' = ls
    /\ quiet' = IF Len(ls) > 1 THEN quiet ELSE TRUE

Send(ls) ==
    IF quiet
    THEN pending' = ls /\ UNCHANGED <<quiet, lines, dropped, astray, wire, resent>>
    ELSE \/ /\ Len(ls) <= MaxBatch
            /\ Answered(Post(ls))
            /\ pending' = <<>> /\ quiet' = FALSE
         \/ /\ Len(ls) <= MaxBatch
            /\ Unanswered(Post(ls))
            /\ Failed(ls)
         \/ /\ Len(ls) > MaxBatch      \* 400: at most MAX_BATCH lines
            /\ Failed(ls)
            /\ UNCHANGED <<lines, dropped, astray, wire, resent>>

\* A request that carries no lines: it only tells whether the server answers.
Probe ==
    /\ pc = "idle" /\ ~quiet
    /\ \/ UNCHANGED quiet
       \/ (\E fault \in Faults : May(fault)) /\ quiet' = TRUE
    /\ UNCHANGED <<captured, last, text, pc, pending, server, wire, calm, history>>

ReadSettings == Probe                    \* settings(), once its cache is stale
Heartbeat    == pending = <<>> /\ Probe  \* heartbeat()

Expire ==            \* the time ready() waits for has come
    /\ quiet
    /\ quiet' = FALSE
    /\ UNCHANGED <<captured, last, text, pc, pending, server, wire, calm, history>>

\* Mutant: a single held line waits for the next one.
Beat_OnlyStuck ==
    /\ pc = "idle" /\ Len(pending) > 1
    /\ Send(pending)
    /\ UNCHANGED <<captured, last, text, pc, paused, calm, shed, gaveUp>>

Beat ==              \* beat()'s flush, which waits for no next line
    /\ pc = "idle" /\ pending # <<>>
    /\ Send(pending)
    /\ UNCHANGED <<captured, last, text, pc, paused, calm, shed, gaveUp>>

---------------------------------------------------------------------------
(* emit().                                                                 *)

\* A text box arrives; it continues the line before it, or it does not.
Capture(continuation) ==
    /\ pc = "idle" /\ captured < MaxFragments
    /\ captured' = captured + 1
    /\ IF continuation /\ last # NoLine
       THEN text' = <<last[1], captured + 1>> /\ pc' = "retract"
       ELSE text' = <<captured + 1, captured + 1>> /\ pc' = "add"
    /\ UNCHANGED <<last, pending, quiet, server, wire, calm, history>>

\* Mutant: the held copy is kept and the row is retracted.
RetractHeld_Keeps ==
    pending # <<>> /\ Answered(Retraction) /\ UNCHANGED <<pending, gaveUp>>

\* retract_last: a line still held is simply not sent ...
RetractHeld ==
    /\ pending # <<>>
    /\ pending' = Front(pending)
    /\ UNCHANGED <<lines, dropped, astray, wire, resent, gaveUp>>

\* Mutant: a line handed over is left where it is.
RetractSent_Leaves ==
    /\ pending = <<>> /\ ~quiet
    /\ UNCHANGED <<pending, lines, dropped, astray, wire, resent, gaveUp>>

\* The line meant to be taken back, where a line sent again is taken in its place.
Missed == IF /\ lines # <<>> /\ Last(lines).line # last
             /\ Frags(Last(lines).line) \cap resent # {}
          THEN {last[2]} ELSE {}

\* ... and one already handed over is taken back by the server, if it answers.
RetractSent ==
    /\ pending = <<>> /\ ~quiet
    /\ \/ Answered(Retraction) /\ gaveUp' = gaveUp \cup Missed
       \/ Unanswered(Retraction) /\ gaveUp' = gaveUp \cup {last[2]}
    /\ UNCHANGED pending

RetractSkipped ==
    /\ pending = <<>> /\ quiet
    /\ gaveUp' = gaveUp \cup {last[2]}
    /\ UNCHANGED <<pending, lines, dropped, astray, wire, resent>>

Retract ==
    /\ pc = "retract"
    /\ RetractHeld \/ RetractSent \/ RetractSkipped
    /\ pc' = "add"
    /\ UNCHANGED <<captured, last, text, quiet, paused, calm, shed>>

Newest(ls) ==
    IF Len(ls) > MaxPending
    THEN SubSeq(ls, Len(ls) - MaxPending + 1, Len(ls)) ELSE ls

\* Mutant: the line is put before those already held.
Held_First == <<text>> \o pending

Held == Append(pending, text)

\* add: the newest MAX_PENDING lines are held, and flushed at once.
Add ==
    /\ pc = "add"
    /\ shed' = shed \cup (FragsOf(Held) \ FragsOf(Newest(Held)))
    /\ Send(Newest(Held))
    /\ last' = text /\ text' = NoLine /\ pc' = "idle"
    /\ UNCHANGED <<captured, paused, calm, gaveUp>>

\* The logger dies with whatever it had in hand and is started again.
Crash ==
    /\ Crashing
    /\ shed' = shed \cup FragsOf(pending) \cup Frags(text)
    /\ pending' = <<>> /\ text' = NoLine /\ last' = NoLine /\ pc' = "idle"
    /\ quiet' = FALSE
    /\ UNCHANGED <<captured, server, wire, calm, dropped, gaveUp, resent, astray>>

Next ==
    \/ \E continuation \in BOOLEAN : Capture(continuation)
    \/ Retract \/ Add
    \/ Beat \/ Heartbeat \/ ReadSettings \/ Expire
    \/ Arrive \/ TogglePause \/ Settle \/ Crash

Spec == Init /\ [][Next]_vars

(* emit() runs on once it has begun, beat() flushes every HEARTBEAT_SECS,   *)
(* and time passes.  Nothing makes the network settle or a capture come.    *)
FairSpec == /\ Spec
            /\ WF_vars(Retract) /\ WF_vars(Add)
            /\ WF_vars(Beat) /\ WF_vars(Expire)

---------------------------------------------------------------------------
(* Properties.                                                             *)

\* The table with what is held behind it, and what of that stands.
Rows == lines \o Fresh(pending)
Standing == {i \in DOMAIN Rows : ~Rows[i].discarded}
Sure == {i \in Standing : Frags(Rows[i].line) \cap resent = {}}

\* No captured text box vanishes: it stands in the ledger, is held, is being
\* joined, or is one of those the logger sheds (MAX_PENDING, its own death), the
\* reader paused away or a misled retract took for another.  A failed request, a
\* lost reply or a post that comes late never eats one, and of a line that could
\* not be retracted both halves stand.
NothingVanishes ==
    /\ TypeOK
    /\ 1..captured \subseteq (UNION {Frags(Rows[i].line) : i \in Standing})
                              \cup Frags(text) \cup shed \cup dropped \cup astray

\* The ledger reads in the order the game spoke, through outages, retries,
\* crashes and joins: of two lines the later row ends no earlier.  (Lines
\* inserted by a post nobody heard the answer of are sent again.)
InOrder == \A i, j \in Sure : i < j => Rows[i].line[2] <= Rows[j].line[2]

\* A text box stands twice only where the first half was not taken back (no
\* answer, or a line sent again stood in its place: "both halves stand"), or
\* where its post was sent twice.
HalvesReplaced == \A i, j \in Standing :
    i < j /\ Frags(Rows[i].line) \cap Frags(Rows[j].line) # {} =>
        Rows[i].line[2] \in gaveUp \/ Frags(Rows[i].line) \cap resent # {}

\* A retract takes back the line the next capture continues, and no other,
\* unless nobody waited for it any more, the line it was meant for was paused
\* away, or what it takes is a line of a post that was sent again.
RetractsItsOwn == [][\A i \in DOMAIN lines :
    lines'[i].discarded /\ ~lines[i].discarded =>
        \/ lines[i].line = last
        \/ wire' # wire
        \/ Frags(last) \cap dropped # {}
        \/ Frags(lines[i].line) \cap resent # {}]_vars

\* Once the server answers, what is held reaches it, unless more comes to be held
\* than one request may carry, which no retry delivers.
Drains == (calm /\ Len(pending) <= MaxBatch) ~> (pending = <<>> \/ Len(pending) > MaxBatch)
=============================================================================
