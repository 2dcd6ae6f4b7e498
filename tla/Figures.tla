-------------------------------- MODULE Figures --------------------------------
(***************************************************************************)
(* How the server derives its reading figures from the line stream: what   *)
(* part of each gap between lines was reading, and the five views that add *)
(* it up, by sitting, by day, by work, by stretch and by bucket.  Nothing  *)
(* here is stored; every page computes it from the whole history.          *)
(*                                                                         *)
(* Instants and durations are whole seconds and a line's worth is rounded  *)
(* down, where the code has floating point.  The time zone is part of      *)
(* Rollover.                                                               *)
(***************************************************************************)
EXTENDS Integers, Sequences, FiniteSets, FiniteSetsExt, SequencesExt

CONSTANTS
    AfkSecs,           \* a gap up to this long is reading, whole
    SessionGap,        \* a longer gap ends the sitting
    InterruptionSecs,  \* a longer gap with no sign of the reader ends a stretch
    DaySecs,           \* 86400
    Rollover,          \* the instant at which day 0 begins
    BucketSecs,        \* the width of a timeline's slice
    PadSecs,           \* how far around a day its pages look
    StreakFloor,       \* active seconds that make a day count for the streak
    MinOpening,        \* stream.rs MIN_OPENING_LINES
    MaxBatch           \* stream.rs MAX_BATCH

\* PadSecs is 21600 and the others may be set; BucketSecs is clamped to SessionGap.
FiguresAssumption ==
    /\ {AfkSecs, SessionGap, InterruptionSecs, Rollover, StreakFloor} \subseteq Nat
    /\ {DaySecs, BucketSecs} \subseteq Nat \ {0}
    /\ BucketSecs <= SessionGap
    /\ {MinOpening, MaxBatch} \subseteq Nat \ {0} /\ MinOpening <= MaxBatch
    /\ PadSecs \in Nat /\ PadSecs >= SessionGap + BucketSecs
ASSUME FiguresAssumption

(***************************************************************************)
(* Presence: the rule every view credits time through.  A history h has    *)
(* its lines [ts, chars, work] in order of time, the instants of the       *)
(* lookups, the marks (every proof of presence) and the pace.              *)
(***************************************************************************)
Smaller(a, b) == IF a < b THEN a ELSE b
Larger(a, b) == IF a > b THEN a ELSE b
\* The sum of f over the set S.
Sum(S, f(_)) == MapThenSumSet(f, S)
Newest(ls, n) == SubSeq(ls, Larger(1, Len(ls) - n + 1), Len(ls))
Gap(ls, k) == ls[k + 1].ts - ls[k].ts
HasMark(marks, from, to) == \E m \in marks : from <= m /\ m < to

\* Characters and seconds over the gaps nobody need dispute.
MeasurePace(ls, marks) ==
    LET plain == {k \in 1 .. Len(ls) - 1 :
            /\ Gap(ls, k) > 0 /\ Gap(ls, k) <= AfkSecs
            /\ ~HasMark(marks, ls[k].ts, ls[k + 1].ts)} IN
    [chars |-> Sum(plain, LAMBDA k : ls[k].chars), secs |-> Sum(plain, LAMBDA k : Gap(ls, k))]

\* What a line takes to read uninterrupted; the cap where no pace is known.
Worth(pace, line) ==
    IF pace.secs > 0 /\ pace.chars > 0
    THEN Smaller((line.chars * pace.secs) \div pace.chars, AfkSecs) ELSE AfkSecs

\* How much of the gap after a line was reading.
Credit(h, line, gap) ==
    LET seen == {m \in h.marks : line.ts <= m /\ m < line.ts + gap} IN
    IF gap <= AfkSecs THEN gap
    ELSE IF seen # {} THEN Smaller(gap, Max(seen) - line.ts + AfkSecs)
    ELSE Worth(h.pace, line)

(***************************************************************************)
(* The views.                                                              *)
(***************************************************************************)
\* Sittings: a fold over the stream, the last sitting growing or a new one begun.
DeriveSessions(h, ls) ==
    LET Take(out, k) ==
            IF out # <<>> /\ ls[k].ts - Last(out).end <= SessionGap
            THEN Append(Front(out), [start |-> Last(out).start, end |-> ls[k].ts,
                    chars  |-> Last(out).chars + ls[k].chars,
                    active |-> Last(out).active + Credit(h, ls[k - 1], ls[k].ts - ls[k - 1].ts),
                    lines  |-> Last(out).lines + 1])
            ELSE Append(out, [start |-> ls[k].ts, end |-> ls[k].ts,
                    chars |-> ls[k].chars, active |-> 0, lines |-> 1]) IN
    FoldLeft(Take, <<>>, [k \in 1 .. Len(ls) |-> k])

DateKey(ts) == (ts - Rollover) \div DaySecs
DayStart(date) == date * DaySecs + Rollover

\* Mutant: the gap that ends a sitting is taken for reading too.
X_Later(ls) == {k \in 2 .. Len(ls) : Gap(ls, k - 1) > 0}

\* The lines whose gap behind them lies inside a sitting.
Later(ls) == {k \in 2 .. Len(ls) : Gap(ls, k - 1) > 0 /\ Gap(ls, k - 1) <= SessionGap}

\* Days: a gap counts for the day of its later line.
AggregateLineDays(h, ls) ==
    [date \in {DateKey(ls[k].ts) : k \in DOMAIN ls} |->
        LET on == {k \in DOMAIN ls : DateKey(ls[k].ts) = date} IN
        [chars  |-> Sum(on, LAMBDA k : ls[k].chars),
         active |-> Sum(on \cap Later(ls), LAMBDA k : Credit(h, ls[k - 1], Gap(ls, k - 1)))]]

\* Mutant: a flat cap, where the other views ask what can be shown.
X_AggregateWorks(h, ls) ==
    [work \in {ls[k].work : k \in DOMAIN ls} |->
        LET of == {k \in DOMAIN ls : ls[k].work = work} IN
        [chars  |-> Sum(of, LAMBDA k : ls[k].chars),
         active |-> Sum(of \cap Later(ls), LAMBDA k : Smaller(Gap(ls, k - 1), AfkSecs))]]

\* Works: a gap counts for the work of its later line.
AggregateWorks(h, ls) ==
    [work \in {ls[k].work : k \in DOMAIN ls} |->
        LET of == {k \in DOMAIN ls : ls[k].work = work} IN
        [chars  |-> Sum(of, LAMBDA k : ls[k].chars),
         active |-> Sum(of \cap Later(ls), LAMBDA k : Credit(h, ls[k - 1], Gap(ls, k - 1)))]]

\* Mutant: half an hour of look-ups breaks a stretch.
X_Interrupts(h, ls, k) == Gap(ls, k) > InterruptionSecs

\* A gap that breaks a stretch: long, and nothing in it says the reader was there.
Interrupts(h, ls, k) ==
    Gap(ls, k) > InterruptionSecs /\ ~HasMark(h.marks, ls[k].ts, ls[k + 1].ts)

\* Focus: the run of gaps since the last break, and each day's longest.
AggregateFocusDays(h, ls) ==
    LET \* the stretch that has built up at line k
        stretch[k \in DOMAIN ls] ==
            IF k = 1 \/ k \notin Later(ls) \/ Interrupts(h, ls, k - 1) THEN 0
            ELSE stretch[k - 1] + Gap(ls, k - 1) IN
    [date \in {DateKey(ls[k].ts) : k \in DOMAIN ls \ {1}} |->
        LET gaps == {k \in Later(ls) : DateKey(ls[k].ts) = date} IN
        [active  |-> Sum(gaps, LAMBDA k : Credit(h, ls[k - 1], Gap(ls, k - 1))),
         span    |-> Sum(gaps, LAMBDA k : Gap(ls, k - 1)),
         longest |-> Max({0} \cup {stretch[k] : k \in gaps}),
         interruptions |-> Cardinality({k \in gaps : Interrupts(h, ls, k - 1)})]]

(***************************************************************************)
(* The timeline: a gap counts for the line before it, spread over the      *)
(* slices it covers.  A slice is named by its sitting and its place.       *)
(***************************************************************************)
SessionOf(ls, k) == Cardinality({j \in 2 .. k : Gap(ls, j - 1) > SessionGap})
Slice(ts) == ts \div BucketSecs

\* Mutant: the whole credit goes where it starts.
X_SpreadCredit(start, dur, i) == IF Slice(start) = i THEN dur ELSE 0

\* The part of the credit of dur seconds from start that falls in slice i.
SpreadCredit(start, dur, i) ==
    Larger(0, Smaller(start + dur, (i + 1) * BucketSecs) - Larger(start, i * BucketSecs))

\* Mutant: only a look-up at the very line labels its gap.
X_Looked(ls, lookups, read) == {k \in read : ls[k].ts \in lookups}

\* The lines whose gap after them is labelled by a look-up in it.
Looked(ls, lookups, read) == {k \in read : HasMark(lookups, ls[k].ts, ls[k + 1].ts)}

BucketLines(h, ls, lookups) ==
    LET read == {k \in 1 .. Len(ls) - 1 : Gap(ls, k) > 0 /\ Gap(ls, k) <= SessionGap}
        spent == [k \in read |-> Credit(h, ls[k], Gap(ls, k))]
        looked == Looked(ls, lookups, read)
        session == [k \in DOMAIN ls |-> SessionOf(ls, k)]
        touched(s) == UNION {IF k \in read /\ spent[k] > 0
                THEN Slice(ls[k].ts) .. Slice(ls[k].ts + spent[k] - 1) ELSE {Slice(ls[k].ts)} :
            k \in {k \in DOMAIN ls : session[k] = s}}
        \* a sitting has every slice from its first to its last
        slices == UNION {{s} \X (Min(touched(s)) .. Max(touched(s))) :
            s \in {session[k] : k \in DOMAIN ls}} IN
    [b \in slices |->
        LET in == {k \in DOMAIN ls : session[k] = b[1]}
            home == {k \in in : Slice(ls[k].ts) = b[2]}
            Chars(S) == Sum(S, LAMBDA k : ls[k].chars)
            Secs(S) == Sum(S, LAMBDA k : SpreadCredit(ls[k].ts, spent[k], b[2])) IN
        [chars  |-> Chars(home),
         clean_chars  |-> Chars(home \cap (read \ looked)),
         lookup_chars |-> Chars(home \cap looked),
         active |-> Secs(in \cap read),
         lookup_secs  |-> Secs(in \cap looked)]]

\* How many events each slice shows: an event goes to the first slice at its place.
AddEvents(buckets, events) ==
    [b \in DOMAIN buckets |->
        IF \E c \in DOMAIN buckets : c[2] = b[2] /\ c[1] < b[1] THEN 0
        ELSE Cardinality({e \in events : Slice(e) = b[2]})]

(***************************************************************************)
(* The pages: what each asks of the views.                                 *)
(***************************************************************************)
InDay(ts, date) == DayStart(date) <= ts /\ ts < DayStart(date) + DaySecs
\* Mutant: a day's page looks at the day alone.
X_InWindow(ts, date) == InDay(ts, date)

\* Near enough to the day to be looked at.
InWindow(ts, date) == DayStart(date) - PadSecs <= ts /\ ts < DayStart(date) + DaySecs + PadSecs

DayLines(h, date) == SelectSeq(h.lines, LAMBDA l : InWindow(l.ts, date))
DayLookups(h, date) == {ts \in h.lookups : InWindow(ts, date)}

\* /api/sessions and the timeline's bands: the sittings that began that day.
ListSessions(h, date) ==
    SelectSeq(DeriveSessions(h, DayLines(h, date)), LAMBDA s : DateKey(s.start) = date)

\* /api/day/timeline: the day's slices, by place, each with its look-ups.
OfDay(buckets, events, date) ==
    [i \in {b[2] : b \in {b \in DOMAIN buckets : InDay(b[2] * BucketSecs, date)}} |->
        LET at == CHOOSE b \in DOMAIN buckets :
                b[2] = i /\ \A c \in DOMAIN buckets : c[2] = i => b[1] <= c[1] IN
        [bucket |-> buckets[at], lookups |-> AddEvents(buckets, events)[at]]]
DayTimeline(h, date) ==
    OfDay(BucketLines(h, DayLines(h, date), DayLookups(h, date)), DayLookups(h, date), date)

\* /api/works' page of one title: sittings of its lines alone.
WorkSessions(h, work) == DeriveSessions(h, SelectSeq(h.lines, LAMBDA l : l.work = work))

\* Characters and seconds of a day with the look-ups taken out.
CleanDays(h) ==
    LET all == BucketLines(h, h.lines, h.lookups)
        Date(b) == DateKey(b[2] * BucketSecs) IN
    [date \in {Date(b) : b \in DOMAIN all} |->
        LET of == {b \in DOMAIN all : Date(b) = date} IN
        [chars  |-> Sum(of, LAMBDA b : all[b].clean_chars),
         active |-> Sum(of, LAMBDA b : all[b].active - all[b].lookup_secs)]]

\* Mutant: a day without lines does not end the run of days.
X_Streaks(days, today) ==
    LET Met(d) == d \in DOMAIN days /\ days[d].active >= StreakFloor
        from == IF Met(today) THEN today ELSE today - 1
        current == Max({n \in 0 .. Cardinality(DOMAIN days) : \A i \in 0 .. n - 1 : Met(from - i)})
        dates == SetToSortSeq(DOMAIN days, <)
        Count(acc, d) ==
            IF ~Met(d) THEN [acc EXCEPT !.run = 0, !.prev = {}]
            ELSE LET run == IF acc.prev # {} THEN acc.run + 1 ELSE 1 IN
                 [run |-> run, best |-> Larger(acc.best, run), prev |-> {d}] IN
    [current |-> current,
     best |-> Larger(FoldLeft(Count, [run |-> 0, best |-> 0, prev |-> {}], dates).best, current)]

\* The current run of days that met the floor, back from today or yesterday, and the best.
Streaks(days, today) ==
    LET Met(d) == d \in DOMAIN days /\ days[d].active >= StreakFloor
        from == IF Met(today) THEN today ELSE today - 1
        current == Max({n \in 0 .. Cardinality(DOMAIN days) : \A i \in 0 .. n - 1 : Met(from - i)})
        dates == SetToSortSeq(DOMAIN days, <)
        Count(acc, d) ==
            IF ~Met(d) THEN [acc EXCEPT !.run = 0, !.prev = {}]
            ELSE LET run == IF d - 1 \in acc.prev THEN acc.run + 1 ELSE 1 IN
                 [run |-> run, best |-> Larger(acc.best, run), prev |-> {d}] IN
    [current |-> current,
     best |-> Larger(FoldLeft(Count, [run |-> 0, best |-> 0, prev |-> {}], dates).best, current)]

\* Mutant: a gap of exactly the limit ends the sitting.
X_CurrentSession(rows) ==
    LET newest == Newest(rows, MaxBatch) IN
    SubSeq(newest, Max({1} \cup {k \in 2 .. Len(newest) : Gap(newest, k - 1) >= SessionGap}),
           Len(newest))

\* The sitting still in progress: rows in the order of their ids, the newest of them
\* back to the first gap.
CurrentSession(rows) ==
    LET newest == Newest(rows, MaxBatch) IN
    SubSeq(newest, Max({1} \cup {k \in 2 .. Len(newest) : Gap(newest, k - 1) > SessionGap}),
           Len(newest))

\* What the reader opens with: that sitting, or the newest lines where it is short.
OpeningBatch(rows) ==
    IF Len(CurrentSession(rows)) < MinOpening THEN Newest(rows, MinOpening)
    ELSE CurrentSession(rows)
=============================================================================
