------------------------------- MODULE ReadingLog -------------------------------
(***************************************************************************)
(* The history the figures are derived from, as it comes about: lines are  *)
(* hooked, some late, cleared and put back; words are looked up, and a     *)
(* look-up that turns out to be none is taken back, its row deleted from   *)
(* one database and a mark of presence left in the other.  Whatever order  *)
(* this happens in, the pages computed from it must tell the same story.   *)
(***************************************************************************)
EXTENDS Figures

CONSTANTS
    Works,        \* the titles a line may be stamped with
    CharsOf,      \* title -> the length of its lines
    Steps,        \* how long may pass between two events
    Late,         \* how old a line may be when it arrives
    Horizon,      \* bound: the last instant
    MaxLines,     \* bound: lines hooked
    MaxSigns,     \* bound: look-ups and marks of presence
    MaxCleared,   \* bound: lines discarded at once
    DedupeSecs    \* look-ups of a term this near are one

ASSUME LogAssumption ==
    /\ CharsOf \in [Works -> Nat] /\ Steps \subseteq Nat /\ Late \subseteq Nat
    /\ {Horizon, MaxLines, MaxSigns, MaxCleared, DedupeSecs} \subseteq Nat

VARIABLES
    now,
    lines,         \* rows in the order of their ids: [ts, chars, work, discarded]
    lookups,       \* the instants of the rows of one term
    reader_marks,  \* the instants of the reader's own marks
    popup,         \* the look-up the open popup is accounted to: none or one
    owed,          \* look-ups deleted whose mark is not written yet
    noticed,       \* history: every instant at which the reader showed up
    torn           \* history: look-ups deleted whose mark was lost
vars == <<now, lines, lookups, reader_marks, popup, owed, noticed, torn>>

Line(id, ts, work) ==
    [id |-> id, ts |-> ts, chars |-> CharsOf[work], work |-> work, discarded |-> FALSE]

\* Time is counted from the first line.
Init ==
    /\ \E work \in Works : lines = <<Line(1, 0, work)>>
    /\ now = 0 /\ lookups = {} /\ reader_marks = {}
    /\ popup = {} /\ owed = {} /\ noticed = {} /\ torn = {}

\* What the reader and the game do comes some time after what they did before.
Passes(secs) == now + secs <= Horizon /\ now' = now + secs

\* A line arrives; a source that kept it through an outage says how old it is.
Hook(secs, work, age) ==
    /\ Len(lines) < MaxLines /\ Passes(secs) /\ age <= now'
    /\ lines' = Append(lines, Line(Len(lines) + 1, now' - age, work))
    /\ UNCHANGED <<lookups, reader_marks, popup, owed, noticed, torn>>

SetDiscarded(k, flag) ==
    /\ lines[k].discarded # flag
    /\ flag => Cardinality({j \in DOMAIN lines : lines[j].discarded}) < MaxCleared
    /\ lines' = [lines EXCEPT ![k].discarded = flag]
    /\ UNCHANGED <<now, lookups, reader_marks, popup, owed, noticed, torn>>

LineWithin(at) == \E k \in DOMAIN lines :
    ~lines[k].discarded /\ at - SessionGap <= lines[k].ts /\ lines[k].ts <= at

\* The row a popup is accounted to, if there is one already.
Deduped(at) == {ts \in lookups : ts > at - DedupeSecs}

\* A popup opens within a sitting: a row of its own, or the row of a popup just before.
\* Opened outside one it leaves nothing.
Record(secs) ==
    /\ Passes(secs) /\ LineWithin(now')
    /\ popup' = IF Deduped(now') # {} THEN {Max(Deduped(now'))} ELSE {now'}
    /\ lookups' = lookups \cup popup'
    /\ noticed' = noticed \cup popup' /\ Cardinality(noticed') <= MaxSigns
    /\ UNCHANGED <<lines, reader_marks, owed, torn>>

\* The word is judged known in its popup: the look-up was none.  Asked again, nothing is left
\* to delete.
RetractLookup ==
    /\ popup # {}
    /\ lookups' = lookups \ popup
    /\ owed' = owed \cup (popup \cap lookups)
    /\ popup' = {}
    /\ UNCHANGED <<now, lines, reader_marks, noticed, torn>>

\* Mutant: the mark is stamped with the time it is written.
X_LeaveMark ==
    /\ owed # {} /\ owed' = {} /\ reader_marks' = reader_marks \cup {now}
    /\ UNCHANGED <<now, lines, lookups, popup, noticed, torn>>

LeaveMark == \E ts \in owed :
    /\ reader_marks' = reader_marks \cup {ts}
    /\ owed' = owed \ {ts}
    /\ UNCHANGED <<now, lines, lookups, popup, noticed, torn>>

\* The insert fails, which is logged, or the server dies before it.
LoseMark == \E ts \in owed :
    /\ owed' = owed \ {ts} /\ torn' = torn \cup {ts}
    /\ UNCHANGED <<now, lines, lookups, reader_marks, popup, noticed>>

\* The reader does something deliberate: explains, mines or clears.
MarkPresence(secs) ==
    /\ Cardinality(noticed) < MaxSigns /\ Passes(secs)
    /\ reader_marks' = reader_marks \cup {now'} /\ noticed' = noticed \cup {now'}
    /\ UNCHANGED <<lines, lookups, popup, owed, torn>>

Next ==
    \/ \E secs \in Steps :
        \/ \E work \in Works, age \in Late : Hook(secs, work, age)
        \/ Record(secs)
        \/ MarkPresence(secs)
    \/ \E k \in DOMAIN lines, flag \in BOOLEAN : SetDiscarded(k, flag)
    \/ RetractLookup \/ LeaveMark \/ LoseMark
Spec == Init /\ [][Next]_vars

(***************************************************************************)
(* What a page loads: the lines in order of time, and the pace they show.  *)
(***************************************************************************)
Kept == SelectSeq(lines, LAMBDA l : ~l.discarded)
Ordered == SortSeq(Kept, LAMBDA a, b : a.ts < b.ts \/ (a.ts = b.ts /\ a.id < b.id))
Load(marks) ==
    [lines |-> Ordered, lookups |-> lookups, marks |-> marks,
     pace |-> MeasurePace(Ordered, marks)]
History == Load(lookups \cup reader_marks)

(***************************************************************************)
(* Properties.                                                             *)
(***************************************************************************)
Dates == DateKey(0) .. DateKey(Horizon)
Chars(x) == x.chars
Active(x) == x.active
Total(f, Of(_)) == Sum(DOMAIN f, LAMBDA i : Of(f[i]))

\* The variables keep their types, and every row, mark or debt is of an instant at which the
\* reader was there.
TypeOK ==
    /\ now \in 0 .. Horizon
    /\ lines \in Seq([id : Nat, ts : 0 .. Horizon, chars : Nat, work : Works, discarded : BOOLEAN])
    /\ lookups \cup reader_marks \cup popup \cup owed \cup torn \subseteq noticed
    /\ noticed \subseteq 0 .. Horizon /\ Cardinality(popup) <= 1

\* "There can only be one rule": the sittings, the days, the works and the timeline of one
\* history add up to the same characters and the same seconds, and the focus figures of a day
\* to that day's seconds, whatever was cleared, came late or was looked up (stats/mod.rs,
\* presence.rs).
OneRule ==
    LET h == History
        sittings == DeriveSessions(h, h.lines)
        days == AggregateLineDays(h, h.lines)
        focus == AggregateFocusDays(h, h.lines)
        works == AggregateWorks(h, h.lines)
        slices == BucketLines(h, h.lines, h.lookups)
        views == {<<Total(days, Chars), Total(days, Active)>>,
                  <<Total(works, Chars), Total(works, Active)>>,
                  <<Total(slices, Chars), Total(slices, Active)>>} IN
    /\ TypeOK
    /\ views = {<<Total(sittings, Chars), Total(sittings, Active)>>}
    /\ \A d \in DOMAIN days :
        days[d].active = IF d \in DOMAIN focus THEN focus[d].active ELSE 0

\* "The rule never invents time": no sitting is credited more than it lasted, and no slice of
\* the timeline holds more seconds than it is wide, or more look-up seconds than seconds.
NoTimeInvented ==
    LET h == History
        sittings == DeriveSessions(h, h.lines)
        slices == BucketLines(h, h.lines, h.lookups) IN
    /\ \A s \in DOMAIN sittings : sittings[s].active <= sittings[s].end - sittings[s].start
    /\ \A b \in DOMAIN slices :
        slices[b].lookup_secs <= slices[b].active /\ slices[b].active <= BucketSecs

\* A day's timeline, derived from a window around the day, is the part of the whole history's
\* timeline that falls on that day, down to the look-ups in each slice: nothing at the edge of
\* the window changes the day (routes/timeline.rs).
TimelineIsTheDay ==
    LET h == History
        whole == BucketLines(h, h.lines, h.lookups) IN
    \A date \in Dates : DayTimeline(h, date) = OfDay(whole, h.lookups, date)

\* Every sitting of the history is on the page of exactly the day it began, with the same
\* figures, though the page derives it from a window; only a sitting that runs on past the
\* window of its day is cut short there (routes/sessions.rs).
SittingsListedOnce ==
    LET h == History
        whole == DeriveSessions(h, h.lines) IN
    \A date \in Dates :
        LET began == SelectSeq(whole, LAMBDA s : DateKey(s.start) = date) IN
        (\A k \in DOMAIN began : InWindow(began[k].end, date)) => ListSessions(h, date) = began

\* The page of a day tells of the day what the whole history tells.
DayPageAgrees == TimelineIsTheDay /\ SittingsListedOnce

\* "Two answers to how many hours is this work": the shelf, which splits time at a switch of
\* works, and the work's own page, which derives sittings from its lines alone, agree unless
\* two works were read within one sitting (stats/work.rs, history.rs lines_of_work).
PageMatchesShelf ==
    LET h == History
        shelf == AggregateWorks(h, h.lines)
        mixed == \E k \in 1 .. Len(h.lines) - 1 :
            h.lines[k].work # h.lines[k + 1].work /\ Gap(h.lines, k) <= SessionGap IN
    ~mixed => \A w \in DOMAIN shelf :
        LET page == WorkSessions(h, w) IN
        shelf[w] = [chars |-> Total(page, Chars), active |-> Total(page, Active)]

\* Characters and seconds drop together when the look-ups are taken out: the clean figures
\* are those of the gaps without a look-up, and of no others (timeline.rs clean_chars).
CleanApart ==
    LET h == History
        clean == CleanDays(h)
        Plain(k) == /\ Gap(h.lines, k) \in 1 .. SessionGap
                    /\ \A t \in h.lookups : t < h.lines[k].ts \/ t >= h.lines[k + 1].ts
        plain == {k \in 1 .. Len(h.lines) - 1 : Plain(k)} IN
    /\ Total(clean, Chars) = Sum(plain, LAMBDA k : h.lines[k].chars)
    /\ Total(clean, Active) = Sum(plain, LAMBDA k : Credit(h, h.lines[k], Gap(h.lines, k)))

\* The longest stretch any day reports is the longest time between two lines that no long
\* unexplained gap and no end of a sitting lies between, when no two lines share an instant.
StretchIsLongest ==
    LET h == History
        ls == h.lines
        focus == AggregateFocusDays(h, ls)
        Unbroken(k) == /\ Gap(ls, k) <= SessionGap
                       /\ \/ Gap(ls, k) <= InterruptionSecs
                          \/ \E m \in h.marks : m \in ls[k].ts .. ls[k + 1].ts - 1
        runs == {ls[j].ts - ls[i].ts : <<i, j>> \in {p \in (DOMAIN ls) \X (DOMAIN ls) :
                    p[1] < p[2] /\ \A k \in p[1] .. p[2] - 1 : Unbroken(k)}} IN
    (\A k \in 1 .. Len(ls) - 1 : Gap(ls, k) > 0) =>
        Max({0} \cup {focus[d].longest : d \in DOMAIN focus}) = Max({0} \cup runs)

\* The best streak is the longest run of days that all met the floor (day.rs streaks).
BestStreak ==
    LET days == AggregateLineDays(History, History.lines)
        met == {d \in DOMAIN days : days[d].active >= StreakFloor} IN
    Streaks(days, DateKey(now)).best =
        Max({0} \cup {b - a + 1 : <<a, b>> \in {p \in met \X met : p[1] .. p[2] \subseteq met}})

\* Both folds that keep a record, of a stretch and of a streak, end with the longest there is.
LongestRuns == StretchIsLongest /\ BestStreak

\* Taking a look-up back costs no reading time: once its mark is written, and unless that
\* was lost, every sitting is what it would be had the row stayed (db/lookups.rs).
RetractKeepsTime ==
    owed = {} /\ torn = {} =>
        DeriveSessions(History, History.lines) = DeriveSessions(Load(noticed), History.lines)

\* When lines came in order the reader opens on the last sitting the figures know, whole or
\* its newest lines up to the bound; earlier reading is added only to a sitting shorter than
\* the least there is to open with, and then just enough (db/lines.rs: "the boundary is the
\* one derive_sessions splits on"; stream.rs opening_batch).
OpensOnTheSitting ==
    LET rows == Kept
        sittings == DeriveSessions(History, History.lines)
        opened == OpeningBatch(rows) IN
    rows = Ordered /\ rows # <<>> =>
        LET sitting == Last(sittings).lines IN
        /\ opened = Newest(rows, Len(opened))
        /\ Len(opened) = IF sitting < MinOpening THEN Smaller(MinOpening, Len(rows))
                         ELSE Smaller(MaxBatch, sitting)
=============================================================================
