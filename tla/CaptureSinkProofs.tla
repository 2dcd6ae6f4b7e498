---------------------------- MODULE CaptureSinkProofs ----------------------------
(* What CaptureSink promises whatever the sizes, whatever becomes of a        *)
(* request, and whether or not the reader pauses capture or the logger dies.  *)
EXTENDS CaptureSink, FiniteSetTheorems, TLAPS

Lines == Interval \ {NoLine}
Row == [line : Lines, discarded : BOOLEAN]
Request == [kind : {"post", "retract"}, lines : Seq(Lines)]

---------------------------------------------------------------------------
(* Lines, rows and what is held.                                           *)

\* A line covers at least one text box, and ends in the last it covers.
LEMMA LineCovers ==
    ASSUME NEW l \in Lines
    PROVE  /\ l[1] \in Nat /\ l[2] \in Nat /\ l[1] > 0 /\ l[1] <= l[2]
           /\ l[2] <= MaxFragments
           /\ Frags(l) = l[1]..l[2]
           /\ l[2] \in Frags(l)
<1>1. MaxFragments \in Nat
  BY CaptureAssumptions
<1>2. /\ l[1] \in 0..MaxFragments /\ l[2] \in 0..MaxFragments
      /\ l = <<l[1], l[2]>>
  BY DEF Lines, Interval
<1>3. l # <<0, 0>> /\ (l = <<0, 0>> \/ (0 < l[1] /\ l[1] <= l[2]))
  BY DEF Lines, Interval, NoLine
<1>4. 0 < l[1] /\ l[1] <= l[2]
  BY <1>3
<1>5. 0 \notin l[1]..l[2]
  BY <1>2, <1>4, <1>1
<1> QED
  BY <1>1, <1>2, <1>4, <1>5 DEF Frags

\* A pair of numbers in order is a line.
LEMMA IsLine ==
    ASSUME NEW a \in Nat, NEW b \in Nat, 0 < a, a <= b, b <= MaxFragments
    PROVE  <<a, b>> \in Lines
<1>1. MaxFragments \in Nat
  BY CaptureAssumptions
<1>2. <<a, b>> \in (0..MaxFragments) \X (0..MaxFragments)
  BY <1>1
<1>3. <<a, b>>[1] = a /\ <<a, b>>[2] = b
  OBVIOUS
<1>4. <<a, b>> # <<0, 0>>
  BY <1>3
<1> QED
  BY <1>2, <1>3, <1>4 DEF Lines, Interval, NoLine

\* What is inserted are the lines posted, none discarded.
LEMMA FreshRows ==
    ASSUME NEW h \in Seq(Lines)
    PROVE  /\ Fresh(h) \in Seq(Row) /\ Len(Fresh(h)) = Len(h)
           /\ \A i \in DOMAIN h : Fresh(h)[i].line = h[i] /\ ~Fresh(h)[i].discarded
<1>1. DOMAIN h = 1..Len(h) /\ Len(h) \in Nat /\ (\A i \in 1..Len(h) : h[i] \in Lines)
  OBVIOUS
<1>2. \A i \in 1..Len(h) : [line |-> h[i], discarded |-> FALSE] \in Row
  BY <1>1 DEF Row
<1>3. Fresh(h) = [i \in 1..Len(h) |-> [line |-> h[i], discarded |-> FALSE]]
  BY <1>1 DEF Fresh
<1>4. Fresh(h) \in [1..Len(h) -> Row]
  BY <1>2, <1>3, Zenon
<1>5. Fresh(h) \in Seq(Row) /\ Len(Fresh(h)) = Len(h)
  BY <1>1, <1>4
<1>6. ASSUME NEW i \in DOMAIN h
      PROVE  Fresh(h)[i].line = h[i] /\ ~Fresh(h)[i].discarded
  <2>1. Fresh(h)[i] = [line |-> h[i], discarded |-> FALSE]
    BY <1>1, <1>3
  <2> QED
    BY <2>1
<1> QED
  BY <1>5, <1>6

\* Behind the rows there are come those inserted.
LEMMA Appended ==
    ASSUME NEW ls \in Seq(Row), NEW h \in Seq(Lines)
    PROVE  /\ ls \o Fresh(h) \in Seq(Row)
           /\ Len(ls \o Fresh(h)) = Len(ls) + Len(h)
           /\ \A i \in DOMAIN ls : (ls \o Fresh(h))[i] = ls[i]
           /\ \A i \in DOMAIN h : /\ (ls \o Fresh(h))[Len(ls) + i].line = h[i]
                                  /\ ~(ls \o Fresh(h))[Len(ls) + i].discarded
           /\ \A i \in DOMAIN (ls \o Fresh(h)) :
                 i \in DOMAIN ls \/ (\E j \in DOMAIN h : i = Len(ls) + j)
<1>1. /\ Fresh(h) \in Seq(Row) /\ Len(Fresh(h)) = Len(h)
      /\ \A i \in DOMAIN h : Fresh(h)[i].line = h[i] /\ ~Fresh(h)[i].discarded
  BY FreshRows
<1>2. /\ ls \o Fresh(h) \in Seq(Row)
      /\ Len(ls \o Fresh(h)) = Len(ls) + Len(h)
  BY <1>1
<1>3. \A i \in DOMAIN ls : (ls \o Fresh(h))[i] = ls[i]
  BY <1>1
<1>4. ASSUME NEW i \in DOMAIN h
      PROVE  (ls \o Fresh(h))[Len(ls) + i] = Fresh(h)[i]
  BY <1>1
<1>5. ASSUME NEW i \in DOMAIN (ls \o Fresh(h))
      PROVE  i \in DOMAIN ls \/ (\E j \in DOMAIN h : i = Len(ls) + j)
  <2>1. i \in 1..(Len(ls) + Len(h)) /\ Len(ls) \in Nat /\ Len(h) \in Nat
    BY <1>2
  <2>2. CASE i <= Len(ls)
    BY <2>1, <2>2
  <2>3. CASE i > Len(ls)
    <3>1. i - Len(ls) \in DOMAIN h /\ i = Len(ls) + (i - Len(ls))
      BY <2>1, <2>3
    <3> QED
      BY <3>1
  <2> QED
    BY <2>1, <2>2, <2>3
<1> QED
  BY <1>1, <1>2, <1>3, <1>4, <1>5

\* A retraction flags the newest row and touches nothing else.
LEMMA RetractedRows ==
    ASSUME NEW ls \in Seq(Row)
    PROVE  /\ Retracted(ls) \in Seq(Row) /\ Len(Retracted(ls)) = Len(ls)
           /\ \A i \in DOMAIN ls : /\ Retracted(ls)[i].line = ls[i].line
                                   /\ i # Len(ls) => Retracted(ls)[i] = ls[i]
           /\ ls # <<>> => Retracted(ls)[Len(ls)].discarded
<1>1. CASE ls = <<>>
  BY <1>1 DEF Retracted
<1>2. CASE ls # <<>>
  <2>1. Len(ls) \in DOMAIN ls /\ ls[Len(ls)] \in Row
    BY <1>2
  <2> DEFINE new == [ls[Len(ls)] EXCEPT !.discarded = TRUE]
  <2>2. new \in Row /\ new.line = ls[Len(ls)].line /\ new.discarded
    BY <2>1 DEF Row
  <2>3. Retracted(ls) = [ls EXCEPT ![Len(ls)] = new]
    BY <1>2 DEF Retracted
  <2> HIDE DEF new
  <2> QED
    BY <1>2, <2>1, <2>2, <2>3
<1> QED
  BY <1>1, <1>2

\* So no line comes to stand by it.
LEMMA RetractedOnly ==
    ASSUME NEW ls \in Seq(Row)
    PROVE  /\ DOMAIN Retracted(ls) = DOMAIN ls
           /\ \A i \in DOMAIN ls : /\ Retracted(ls)[i].line = ls[i].line
                                   /\ ~Retracted(ls)[i].discarded => ~ls[i].discarded
<1>1. /\ Retracted(ls) \in Seq(Row) /\ Len(Retracted(ls)) = Len(ls)
      /\ \A i \in DOMAIN ls : /\ Retracted(ls)[i].line = ls[i].line
                              /\ i # Len(ls) => Retracted(ls)[i] = ls[i]
      /\ ls # <<>> => Retracted(ls)[Len(ls)].discarded
  BY RetractedRows
<1>2. DOMAIN Retracted(ls) = DOMAIN ls
  BY <1>1
<1>3. ASSUME NEW i \in DOMAIN ls, ~Retracted(ls)[i].discarded
      PROVE  ~ls[i].discarded
  BY <1>1, <1>3
<1> QED
  BY <1>1, <1>2, <1>3

\* All but the last of what is held.
LEMMA FrontOf ==
    ASSUME NEW h \in Seq(Lines), h # <<>>
    PROVE  /\ Front(h) \in Seq(Lines) /\ Len(Front(h)) = Len(h) - 1
           /\ \A i \in DOMAIN Front(h) :
                 i \in DOMAIN h /\ i # Len(h) /\ Front(h)[i] = h[i]
           /\ \A i \in DOMAIN h : i # Len(h) => i \in DOMAIN Front(h)
<1>1. DOMAIN h = 1..Len(h) /\ Len(h) \in Nat \ {0}
  OBVIOUS
<1>2. Front(h) = SubSeq(h, 1, Len(h) - 1)
  BY DEF Front
<1>3. /\ Front(h) \in Seq(Lines) /\ Len(Front(h)) = Len(h) - 1
      /\ DOMAIN Front(h) = 1..(Len(h) - 1)
  BY <1>1, <1>2
<1>4. \A i \in 1..(Len(h) - 1) : Front(h)[i] = h[i]
  BY <1>1, <1>2
<1> QED
  BY <1>1, <1>3, <1>4

\* The newest MAX_PENDING are the end of what was held, in its order.
LEMMA NewestOf ==
    ASSUME NEW h \in Seq(Lines)
    PROVE  /\ Newest(h) \in Seq(Lines) /\ Len(Newest(h)) <= MaxPending
           /\ Len(Newest(h)) <= Len(h)
           /\ \A i \in DOMAIN Newest(h) :
                 /\ Len(h) - Len(Newest(h)) + i \in DOMAIN h
                 /\ Newest(h)[i] = h[Len(h) - Len(Newest(h)) + i]
           /\ h # <<>> => Newest(h) # <<>>
<1>1. MaxPending \in Nat \ {0}
  BY CaptureAssumptions
<1>2. CASE Len(h) > MaxPending
  <2>1. Newest(h) = SubSeq(h, Len(h) - MaxPending + 1, Len(h))
    BY <1>2 DEF Newest
  <2>2. /\ Newest(h) \in Seq(Lines) /\ Len(Newest(h)) = MaxPending
        /\ \A i \in 1..MaxPending : Newest(h)[i] = h[Len(h) - MaxPending + i]
    BY <1>1, <1>2, <2>1
  <2> QED
    BY <1>1, <1>2, <2>2
<1>3. CASE Len(h) <= MaxPending
  BY <1>1, <1>3 DEF Newest
<1> QED
  BY <1>1, <1>2, <1>3
---------------------------------------------------------------------------
(* What the actions of the logger come to.                                 *)

\* What sending h does: it is kept for later, or inserted, or inserted and
\* kept since no answer came, or accepted and dropped; and a post the logger
\* gave up on may still be on its way.
Sending(h) ==
    /\ \/ lines' = lines /\ pending' = h /\ dropped' = dropped
       \/ lines' = lines \o Fresh(h) /\ pending' = <<>> /\ dropped' = dropped \ FragsOf(h)
       \/ /\ lines' = lines \o Fresh(h) /\ pending' = h /\ dropped' = dropped \ FragsOf(h)
          /\ resent' = resent \cup FragsOf(h)
       \/ /\ lines' = lines /\ pending' \in {<<>>, h}
          /\ dropped' = dropped \cup FragsOf(h)
    /\ astray' = astray
    /\ resent' \in {resent, resent \cup FragsOf(h)}
    /\ wire' = wire \/ wire' = {Post(h)}
    /\ quiet' \in BOOLEAN

\* What taking back a line does: the held copy goes, or the newest row is
\* flagged, or nothing happens and the logger knows.
TakingBack ==
    /\ \/ pending # <<>> /\ pending' = Front(pending) /\ lines' = lines
          /\ gaveUp' = gaveUp /\ astray' = astray
       \/ pending = <<>> /\ pending' = <<>> /\ lines' = Retracted(lines)
          /\ gaveUp' \in {gaveUp \cup Missed, gaveUp \cup {last[2]}}
          /\ astray' = astray \cup (IF Misled(FALSE) THEN Taken ELSE {})
       \/ pending = <<>> /\ pending' = <<>> /\ lines' = lines
          /\ gaveUp' = gaveUp \cup {last[2]} /\ astray' = astray
    /\ resent' = resent /\ dropped' = dropped
    /\ wire' = wire \/ wire' = {Retraction}

\* Each way a post can go is one of those.
LEMMA SendComesTo ==
    ASSUME quiet \in BOOLEAN, NEW h, Send(h)
    PROVE  Sending(h)
<1>1. ASSUME Apply(Post(h), FALSE)
      PROVE  /\ \/ lines' = lines \o Fresh(h) /\ dropped' = dropped \ FragsOf(h)
                \/ lines' = lines /\ dropped' = dropped \cup FragsOf(h)
             /\ astray' = astray
  <2>1. Post(h).kind = "post" /\ Post(h).lines = h
    BY DEF Post
  <2> QED
    BY <1>1, <2>1 DEF Apply
<1>2. CASE quiet
  BY <1>2 DEF Send, Sending
<1>3. CASE ~quiet
  <2>1. CASE Answered(Post(h)) /\ pending' = <<>> /\ quiet' = FALSE
    BY <2>1, <1>1 DEF Answered, Sending
  <2>2. CASE Unanswered(Post(h)) /\ Failed(h)
    <3>1. pending' = h /\ quiet' \in BOOLEAN
      BY <2>2, <1>3 DEF Failed
    <3>2. CASE UNCHANGED <<lines, dropped, astray, wire, resent>>
      BY <3>1, <3>2 DEF Sending
    <3>3. CASE /\ Apply(Post(h), FALSE) /\ UNCHANGED wire
               /\ resent' = resent \cup FragsOf(Post(h).lines)
      <4>1. resent' = resent \cup FragsOf(h)
        BY <3>3 DEF Post
      <4> QED
        BY <3>1, <3>3, <4>1, <1>1 DEF Sending
    <3>4. CASE /\ wire' = {Post(h)}
               /\ UNCHANGED <<lines, dropped, astray, resent>>
      BY <3>1, <3>4 DEF Sending
    <3> QED
      BY <2>2, <3>2, <3>3, <3>4 DEF Unanswered
  <2>3. CASE Failed(h) /\ UNCHANGED <<lines, dropped, astray, wire, resent>>
    BY <2>3, <1>3 DEF Failed, Sending
  <2> QED
    BY <1>3, <2>1, <2>2, <2>3 DEF Send
<1> QED
  BY <1>2, <1>3

\* And so is each way of taking a line back.
LEMMA RetractComesTo ==
    ASSUME Retract
    PROVE  TakingBack
<1>1. Retraction.kind = "retract" /\ Retraction.lines = <<>>
  BY DEF Retraction
<1>2. FragsOf(<<>>) = {}
  BY DEF FragsOf
<1>3. ASSUME Apply(Retraction, FALSE)
      PROVE  /\ lines' = Retracted(lines) /\ dropped' = dropped
             /\ astray' = astray \cup (IF Misled(FALSE) THEN Taken ELSE {})
  BY <1>1, <1>3 DEF Apply
<1>4. CASE RetractHeld
  BY <1>4 DEF RetractHeld, TakingBack
<1>5. CASE RetractSkipped
  BY <1>5 DEF RetractSkipped, TakingBack
<1>6. CASE RetractSent
  <2>1. pending = <<>> /\ pending' = <<>>
    BY <1>6 DEF RetractSent
  <2>2. CASE Answered(Retraction) /\ gaveUp' = gaveUp \cup Missed
    BY <2>1, <2>2, <1>3 DEF Answered, TakingBack
  <2>3. CASE Unanswered(Retraction) /\ gaveUp' = gaveUp \cup {last[2]}
    <3>1. CASE UNCHANGED <<lines, dropped, astray, wire, resent>>
      BY <2>1, <2>3, <3>1 DEF TakingBack
    <3>2. CASE /\ Apply(Retraction, FALSE) /\ UNCHANGED wire
               /\ resent' = resent \cup FragsOf(Retraction.lines)
      <4>1. resent' = resent
        BY <3>2, <1>1, <1>2
      <4> QED
        BY <2>1, <2>3, <3>2, <4>1, <1>3 DEF TakingBack
    <3>3. CASE /\ wire' = {Retraction}
               /\ UNCHANGED <<lines, dropped, astray, resent>>
      BY <2>1, <2>3, <3>3 DEF TakingBack
    <3> QED
      BY <2>3, <3>1, <3>2, <3>3 DEF Unanswered
  <2> QED
    BY <1>6, <2>2, <2>3 DEF RetractSent
<1> QED
  BY <1>4, <1>5, <1>6 DEF Retract
---------------------------------------------------------------------------
(* The inductive invariant of every instance: the line in hand ends in the *)
(* newest text box, and all else ends before it.                           *)

Before(n, ls) == \A i \in DOMAIN ls : ls[i][2] <= n

\* The newest text box all but the line in hand may cover.
Seen == IF pc = "idle" THEN captured ELSE captured - 1

Near ==
    /\ pc = "idle" <=> text = NoLine
    /\ text # NoLine => text[2] = captured
    /\ last # NoLine => last[2] = Seen
    /\ pc = "retract" => last # NoLine /\ text[1] = last[1]

Past ==
    /\ \A i \in DOMAIN lines : lines[i].line[2] <= Seen
    /\ Before(Seen, pending)
    /\ \A request \in wire : Before(Seen, request.lines)

CaptureInv == TypeOK /\ wire \subseteq Request /\ Near /\ Past

\* What lines end no later than n covers nothing past n.
LEMMA CoversUpTo ==
    ASSUME NEW h \in Seq(Lines), NEW n \in Nat, Before(n, h)
    PROVE  FragsOf(h) \subseteq 1..n
<1>1. SUFFICES ASSUME NEW f \in FragsOf(h)
               PROVE  f \in 1..n
  OBVIOUS
<1>2. PICK i \in DOMAIN h : f \in Frags(h[i])
  BY DEF FragsOf
<1>3. h[i] \in Lines /\ h[i][2] <= n
  BY DEF Before
<1> QED
  BY <1>2, <1>3, LineCovers

\* The types, one by one.
LEMMA Types ==
    ASSUME CaptureInv
    PROVE  /\ captured \in Nat /\ captured <= MaxFragments /\ MaxFragments \in Nat
           /\ last \in Interval /\ text \in Interval
           /\ last # NoLine => last \in Lines
           /\ text # NoLine => text \in Lines
           /\ pc \in {"idle", "retract", "add"}
           /\ pending \in Seq(Lines) /\ Len(pending) <= MaxPending
           /\ quiet \in BOOLEAN /\ paused \in BOOLEAN /\ calm \in BOOLEAN
           /\ lines \in Seq(Row)
           /\ wire \subseteq Request
           /\ shed \subseteq 1..captured /\ dropped \subseteq 1..captured
           /\ gaveUp \subseteq 1..captured /\ resent \subseteq 1..captured
      /\ astray \subseteq 1..captured
           /\ astray \subseteq 1..captured
           /\ Seen \in Int /\ Seen <= captured
  BY CaptureAssumptions DEF CaptureInv, TypeOK, Lines, Row, Seen

\* What a retract takes it was not meant for is the newest row's.
LEMMA TakenIs ==
    ASSUME CaptureInv
    PROVE  /\ Taken \subseteq 1..captured
           /\ \A f : /\ lines # <<>> /\ ~lines[Len(lines)].discarded
                     /\ f \in Frags(lines[Len(lines)].line)
                     => f \in Taken \cup Frags(text) \cup FragsOf(pending)
<1>0. /\ lines \in Seq(Row) /\ captured \in Nat /\ Seen \in Int /\ Seen <= captured
  BY Types
<1>1. ASSUME NEW f \in Taken
      PROVE  f \in 1..captured
  <2> DEFINE i == Len(lines)
  <2>1. i \in DOMAIN lines /\ f \in Frags(lines[i].line)
    BY <1>0 DEF Taken, Last
  <2>2. lines[i] \in Row
    BY <1>0, <2>1
  <2> HIDE DEF i
  <2>3. lines[i].line \in Lines /\ lines[i].line[2] <= Seen
    BY <2>1, <2>2 DEF Row, CaptureInv, Past
  <2>4. /\ Frags(lines[i].line) = (lines[i].line[1])..(lines[i].line[2])
        /\ lines[i].line[1] \in Nat /\ lines[i].line[1] > 0 /\ lines[i].line[2] \in Nat
    BY <2>3, LineCovers
  <2> QED
    BY <1>0, <2>1, <2>3, <2>4
<1>2. ASSUME NEW f, lines # <<>>, ~lines[Len(lines)].discarded,
             f \in Frags(lines[Len(lines)].line)
      PROVE  f \in Taken \cup Frags(text) \cup FragsOf(pending)
  BY <1>2 DEF Taken, Last
<1> QED
  BY <1>1, <1>2

\* After a post nothing ends later than what was there or was posted.
LEMMA SendKeepsTypes ==
    ASSUME CaptureInv, NEW h \in Seq(Lines), Len(h) <= MaxPending,
           Before(captured, h), Sending(h)
    PROVE  /\ pending' \in Seq(Lines) /\ Len(pending') <= MaxPending
           /\ lines' \in Seq(Row)
           /\ wire' \subseteq Request /\ Cardinality(wire') <= 1
           /\ quiet' \in BOOLEAN
           /\ dropped' \subseteq 1..captured /\ resent' \subseteq 1..captured
           /\ astray' \subseteq 1..captured
           /\ \A i \in DOMAIN lines' : lines'[i].line[2] <= captured
           /\ Before(captured, pending')
           /\ \A request \in wire' : Before(captured, request.lines)
<1>0. /\ captured \in Nat /\ lines \in Seq(Row) /\ Seen \in Int /\ Seen <= captured
      /\ wire \subseteq Request /\ MaxPending \in Nat
      /\ dropped \subseteq 1..captured /\ resent \subseteq 1..captured
      /\ astray \subseteq 1..captured
  BY Types, CaptureAssumptions
<1>1. FragsOf(h) \subseteq 1..captured
  BY <1>0, CoversUpTo
<1>2. <<>> \in Seq(Lines) /\ Len(<<>>) = 0 /\ Before(captured, <<>>)
  BY DEF Before
<1>3. \A i \in DOMAIN lines : lines[i] \in Row /\ lines[i].line[2] <= captured
  <2>1. SUFFICES ASSUME NEW i \in DOMAIN lines
                 PROVE  lines[i] \in Row /\ lines[i].line[2] <= captured
    OBVIOUS
  <2>2. /\ lines[i] \in Row /\ lines[i].line \in Lines
        /\ lines[i].line[2] <= Seen
    <3>1. lines[i] \in Row
      BY <1>0
    <3> QED
      BY <3>1 DEF CaptureInv, Past, Row
  <2>3. lines[i].line[2] \in Nat
    BY <2>2, LineCovers
  <2> QED
    BY <1>0, <2>2, <2>3
<1>4. pending' \in {<<>>, h}
  BY DEF Sending
<1>5. lines' = lines \/ lines' = lines \o Fresh(h)
  BY DEF Sending
<1>6. /\ lines' \in Seq(Row)
      /\ \A i \in DOMAIN lines' : lines'[i].line[2] <= captured
  <2>1. CASE lines' = lines
    BY <1>0, <1>3, <2>1
  <2>2. CASE lines' = lines \o Fresh(h)
    <3>1. ASSUME NEW i \in DOMAIN (lines \o Fresh(h))
          PROVE  (lines \o Fresh(h))[i].line[2] <= captured
      <4>1. CASE i \in DOMAIN lines
        BY <1>0, <1>3, <4>1, Appended
      <4>2. CASE \E j \in DOMAIN h : i = Len(lines) + j
        <5>1. PICK j \in DOMAIN h : i = Len(lines) + j
          BY <4>2
        <5>2. (lines \o Fresh(h))[i].line = h[j]
          BY <1>0, <5>1, Appended
        <5> QED
          BY <5>2 DEF Before
      <4> QED
        BY <1>0, <4>1, <4>2, Appended
    <3> QED
      BY <1>0, <2>2, <3>1, Appended
  <2> QED
    BY <1>5, <2>1, <2>2
<1>7. /\ wire' \subseteq Request /\ Cardinality(wire') <= 1
      /\ \A request \in wire' : Before(captured, request.lines)
  <2>1. CASE wire' = wire
    <3>1. Cardinality(wire) <= 1
      BY DEF CaptureInv, TypeOK
    <3>2. ASSUME NEW request \in wire
          PROVE  Before(captured, request.lines)
      <4>1. request.lines \in Seq(Lines) /\ Before(Seen, request.lines)
        BY <1>0 DEF Request, CaptureInv, Past
      <4>2. ASSUME NEW i \in DOMAIN request.lines
            PROVE  request.lines[i][2] <= captured
        <5>1. request.lines[i] \in Lines /\ request.lines[i][2] <= Seen
          BY <4>1 DEF Before
        <5>2. request.lines[i][2] \in Nat
          BY <5>1, LineCovers
        <5> QED
          BY <1>0, <5>1, <5>2
      <4> QED
        BY <4>2 DEF Before
    <3> QED
      BY <1>0, <2>1, <3>1, <3>2
  <2>2. CASE wire' = {Post(h)}
    <3>1. Cardinality({Post(h)}) = 1
      BY FS_Singleton
    <3>2. Post(h) \in Request /\ Post(h).lines = h
      BY DEF Post, Request
    <3> QED
      BY <2>2, <3>1, <3>2
  <2> QED
    BY <2>1, <2>2 DEF Sending
<1>8. /\ quiet' \in BOOLEAN
      /\ dropped' \subseteq 1..captured /\ resent' \subseteq 1..captured
      /\ astray' \subseteq 1..captured
  BY <1>0, <1>1 DEF Sending
<1>9. /\ pending' \in Seq(Lines) /\ Len(pending') <= MaxPending
      /\ Before(captured, pending')
  <2>1. CASE pending' = <<>>
    BY <1>0, <1>2, <2>1
  <2>2. CASE pending' = h
    BY <2>2
  <2> QED
    BY <1>4, <2>1, <2>2
<1> QED
  BY <1>6, <1>7, <1>8, <1>9

\* A logger that has heard nothing satisfies the invariant.
LEMMA InitCapture == Init => CaptureInv
<1> SUFFICES ASSUME Init
             PROVE  CaptureInv
  OBVIOUS
<1>2. /\ captured = 0 /\ last = NoLine /\ text = NoLine /\ pc = "idle"
      /\ quiet = FALSE /\ paused = FALSE /\ calm = FALSE
      /\ shed = {} /\ dropped = {} /\ gaveUp = {} /\ resent = {} /\ astray = {}
  BY DEF Init
<1>3. pending = <<>> /\ lines = <<>> /\ wire = {}
  BY DEF Init
<1>4. NoLine \in Interval
  BY CaptureAssumptions DEF Interval, NoLine
<1>5. Cardinality(wire) <= 1
  BY <1>3, FS_EmptySet
<1>6. \A S : <<>> \in Seq(S)
  OBVIOUS
<1>7. /\ pending \in Seq(Interval \ {NoLine})
      /\ lines \in Seq([line : Interval \ {NoLine}, discarded : BOOLEAN])
  BY <1>3, <1>6
<1>8. Len(pending) <= MaxPending /\ captured \in 0..MaxFragments
  BY <1>2, <1>3, CaptureAssumptions
<1>9. {shed, dropped, gaveUp, resent, astray} \subseteq SUBSET (1..captured)
  BY <1>2
<1>10. TypeOK
  BY <1>2, <1>4, <1>5, <1>7, <1>8, <1>9 DEF TypeOK
<1>11. Near
  BY <1>2 DEF Near
<1>12. Past
  BY <1>3 DEF Past, Before
<1> QED
  BY <1>3, <1>10, <1>11, <1>12 DEF CaptureInv
\* The invariant after a step, put together.
LEMMA PutTogether ==
    ASSUME captured' \in Nat, captured' <= MaxFragments,
           last' \in Interval, text' \in Interval,
           pc' \in {"idle", "retract", "add"},
           pending' \in Seq(Lines), Len(pending') <= MaxPending,
           quiet' \in BOOLEAN, paused' \in BOOLEAN, calm' \in BOOLEAN,
           lines' \in Seq(Row),
           wire' \subseteq Request, Cardinality(wire') <= 1,
           shed' \subseteq 1..captured', dropped' \subseteq 1..captured',
           gaveUp' \subseteq 1..captured', resent' \subseteq 1..captured',
           astray' \subseteq 1..captured', Near', Past'
    PROVE  CaptureInv'
<1>1. /\ pending' \in Seq(Interval \ {NoLine})
      /\ lines' \in Seq([line : Interval \ {NoLine}, discarded : BOOLEAN])
  BY DEF Lines, Row
<1>2. captured' \in 0..MaxFragments
  BY CaptureAssumptions
<1>3. TypeOK'
  BY <1>1, <1>2 DEF TypeOK
<1> QED
  BY <1>3 DEF CaptureInv

\* A text box arrives: the line in hand ends in it, and nothing else does.
LEMMA CaptureKeeps ==
    ASSUME CaptureInv, NEW continuation \in BOOLEAN, Capture(continuation)
    PROVE  CaptureInv'
<1>0. /\ captured \in Nat /\ MaxFragments \in Nat /\ captured + 1 <= MaxFragments
      /\ last \in Interval
      /\ last # NoLine => last \in Lines
      /\ pending \in Seq(Lines) /\ Len(pending) <= MaxPending
      /\ lines \in Seq(Row) /\ wire \subseteq Request
      /\ quiet \in BOOLEAN /\ paused \in BOOLEAN /\ calm \in BOOLEAN
      /\ shed \subseteq 1..captured /\ dropped \subseteq 1..captured
      /\ gaveUp \subseteq 1..captured /\ resent \subseteq 1..captured
      /\ astray \subseteq 1..captured
  BY Types DEF Capture, CaptureInv, TypeOK
<1>1. /\ pc = "idle" /\ captured' = captured + 1
      /\ last' = last /\ pending' = pending /\ quiet' = quiet
      /\ lines' = lines /\ paused' = paused /\ wire' = wire /\ calm' = calm
      /\ shed' = shed /\ dropped' = dropped /\ gaveUp' = gaveUp /\ resent' = resent
      /\ astray' = astray
  BY DEF Capture, server, history
<1>2. pc' \in {"retract", "add"}
  BY DEF Capture
<1>3. Seen' = captured /\ Seen = captured
  BY <1>0, <1>1, <1>2 DEF Seen
<1>4. /\ text' \in Lines /\ text'[2] = captured + 1
      /\ pc' = "retract" => last # NoLine /\ text'[1] = last[1]
  <2>1. CASE continuation /\ last # NoLine
    <3>1. text' = <<last[1], captured + 1>>
      BY <2>1 DEF Capture
    <3>2. last[1] \in Nat /\ last[1] > 0 /\ last[1] <= last[2] /\ last[2] = captured
      BY <1>0, <1>3, <2>1, LineCovers DEF CaptureInv, Near
    <3> QED
      BY <1>0, <2>1, <3>1, <3>2, IsLine
  <2>2. CASE ~(continuation /\ last # NoLine)
    <3>1. text' = <<captured + 1, captured + 1>> /\ pc' = "add"
      BY <2>2 DEF Capture
    <3> QED
      BY <1>0, <3>1, IsLine
  <2> QED
    BY <2>1, <2>2
<1>5. Near'
  BY <1>1, <1>2, <1>3, <1>4 DEF Near, Lines, CaptureInv
<1>6. Past'
  BY <1>1, <1>3 DEF Past, CaptureInv, Before
<1>7. 1..captured \subseteq 1..captured'
  BY <1>0, <1>1
<1>8. Cardinality(wire') <= 1
  BY <1>1 DEF CaptureInv, TypeOK
<1>9. text' \in Interval
  BY <1>4 DEF Lines
<1>10. captured' \in Nat /\ captured' <= MaxFragments
  BY <1>0, <1>1
<1>11. /\ shed' \subseteq 1..captured' /\ dropped' \subseteq 1..captured'
       /\ gaveUp' \subseteq 1..captured' /\ resent' \subseteq 1..captured'
       /\ astray' \subseteq 1..captured'
  BY <1>0, <1>1, <1>7
<1> QED
  BY <1>0, <1>1, <1>2, <1>5, <1>6, <1>8, <1>9, <1>10, <1>11, PutTogether

\* Taking back adds no line.
LEMMA RetractKeeps ==
    ASSUME CaptureInv, Retract
    PROVE  CaptureInv'
<1>0. /\ captured \in Nat /\ captured <= MaxFragments
      /\ last \in Interval /\ text \in Interval
      /\ last # NoLine => last \in Lines
      /\ pending \in Seq(Lines) /\ Len(pending) <= MaxPending
      /\ lines \in Seq(Row) /\ wire \subseteq Request
      /\ quiet \in BOOLEAN /\ paused \in BOOLEAN /\ calm \in BOOLEAN
      /\ shed \subseteq 1..captured /\ dropped \subseteq 1..captured
      /\ gaveUp \subseteq 1..captured /\ resent \subseteq 1..captured
      /\ astray \subseteq 1..captured
      /\ Seen \in Int /\ Seen <= captured
  BY Types
<1>1. /\ pc = "retract" /\ pc' = "add" /\ captured' = captured
      /\ last' = last /\ text' = text /\ quiet' = quiet
      /\ paused' = paused /\ calm' = calm /\ shed' = shed
  BY DEF Retract
<1>2. Seen' = Seen
  BY <1>1 DEF Seen
<1>3. TakingBack
  BY RetractComesTo
<1>4. Near'
  BY <1>1, <1>2 DEF Near, CaptureInv
<1>5. last[2] \in 1..captured
  <2>1. last \in Lines /\ last[2] = Seen
    BY <1>0, <1>1 DEF CaptureInv, Near
  <2>2. last[2] \in Nat /\ last[2] > 0
    BY <2>1, LineCovers
  <2> QED
    BY <1>0, <2>1, <2>2
<1>6. gaveUp' \subseteq 1..captured
  <2>1. gaveUp' \in {gaveUp, gaveUp \cup {last[2]}}
    BY <1>3 DEF TakingBack, Missed
  <2> QED
    BY <1>0, <1>5, <2>1
<1>7. /\ lines' \in Seq(Row)
      /\ \A i \in DOMAIN lines' : lines'[i].line[2] <= Seen
  <2>0. \A i \in DOMAIN lines : lines[i].line[2] <= Seen
    BY DEF CaptureInv, Past
  <2>1. CASE lines' = lines
    BY <1>0, <2>0, <2>1
  <2>2. CASE lines' = Retracted(lines)
    <3>1. /\ lines' \in Seq(Row) /\ Len(lines') = Len(lines)
          /\ \A i \in DOMAIN lines : lines'[i].line = lines[i].line
      BY <1>0, <2>2, RetractedRows
    <3>2. DOMAIN lines' = DOMAIN lines
      BY <1>0, <3>1
    <3> QED
      BY <2>0, <3>1, <3>2
  <2> QED
    BY <1>3, <2>1, <2>2 DEF TakingBack
<1>8. pending' \in Seq(Lines) /\ Len(pending') <= MaxPending /\ Before(Seen, pending')
  <2>0. Before(Seen, pending)
    BY DEF CaptureInv, Past
  <2>1. CASE pending # <<>> /\ pending' = Front(pending)
    <3>1. /\ pending' \in Seq(Lines) /\ Len(pending') = Len(pending) - 1
          /\ \A i \in DOMAIN pending' :
                i \in DOMAIN pending /\ pending'[i] = pending[i]
      BY <1>0, <2>1, FrontOf
    <3> QED
      BY <1>0, <2>0, <3>1, CaptureAssumptions DEF Before
  <2>2. CASE pending = <<>> /\ pending' = <<>>
    BY <1>0, <2>0, <2>2
  <2> QED
    BY <1>3, <2>1, <2>2 DEF TakingBack
<1>9. /\ wire' \subseteq Request /\ Cardinality(wire') <= 1
      /\ \A request \in wire' : Before(Seen, request.lines)
  <2>1. CASE wire' = wire
    BY <1>0, <2>1 DEF CaptureInv, TypeOK, Past
  <2>2. CASE wire' = {Retraction}
    <3>1. Cardinality({Retraction}) = 1
      BY FS_Singleton
    <3>2. Retraction \in Request /\ Retraction.lines = <<>>
      BY DEF Retraction, Request
    <3>3. Before(Seen, <<>>)
      BY DEF Before
    <3> QED
      BY <2>2, <3>1, <3>2, <3>3
  <2> QED
    BY <1>3, <2>1, <2>2 DEF TakingBack
<1>10. Past'
  BY <1>2, <1>7, <1>8, <1>9 DEF Past, Before
<1>11. dropped' = dropped /\ resent' = resent /\ astray' \subseteq 1..captured
  BY <1>0, <1>3, TakenIs DEF TakingBack
<1> QED
  BY <1>0, <1>1, <1>4, <1>6, <1>7, <1>8, <1>9, <1>10, <1>11, PutTogether
\* Held is what was held and the line in hand behind it.
LEMMA HeldIs ==
    ASSUME CaptureInv, pc = "add"
    PROVE  /\ text \in Lines /\ text[2] = captured
           /\ Held \in Seq(Lines) /\ Len(Held) = Len(pending) + 1
           /\ \A i \in DOMAIN pending : i \in DOMAIN Held /\ Held[i] = pending[i]
           /\ Held[Len(Held)] = text
           /\ Before(captured, Held)
<1>0. /\ pending \in Seq(Lines) /\ captured \in Nat /\ Seen = captured - 1
      /\ Before(Seen, pending)
  BY Types DEF Seen, CaptureInv, Past
<1>1. text \in Lines /\ text[2] = captured
  BY Types DEF CaptureInv, Near
<1>2. /\ Held \in Seq(Lines) /\ Len(Held) = Len(pending) + 1
      /\ \A i \in DOMAIN pending : i \in DOMAIN Held /\ Held[i] = pending[i]
      /\ Held[Len(Held)] = text
  BY <1>0, <1>1 DEF Held
<1>3. ASSUME NEW i \in DOMAIN Held
      PROVE  Held[i][2] <= captured
  <2>1. CASE i \in DOMAIN pending
    <3>1. pending[i] \in Lines /\ pending[i][2] <= Seen
      BY <1>0, <2>1 DEF Before
    <3>2. pending[i][2] \in Nat
      BY <3>1, LineCovers
    <3> QED
      BY <1>0, <1>2, <2>1, <3>1, <3>2
  <2>2. CASE i = Len(Held)
    BY <1>0, <1>1, <1>2, <2>2
  <2> QED
    BY <1>0, <1>2, <2>1, <2>2
<1> QED
  BY <1>1, <1>2, <1>3 DEF Before

\* Nothing the newest held lines end in is past the newest text box either.
LEMMA NewestBefore ==
    ASSUME NEW h \in Seq(Lines), NEW n \in Nat, Before(n, h)
    PROVE  Before(n, Newest(h))
  BY NewestOf DEF Before

\* Posting the line in hand, with whatever was held before it.
LEMMA AddKeeps ==
    ASSUME CaptureInv, Add
    PROVE  CaptureInv'
<1>0. /\ captured \in Nat /\ captured <= MaxFragments
      /\ quiet \in BOOLEAN /\ paused \in BOOLEAN /\ calm \in BOOLEAN
      /\ shed \subseteq 1..captured /\ gaveUp \subseteq 1..captured
  BY Types
<1>1. /\ pc = "add" /\ pc' = "idle" /\ captured' = captured
      /\ last' = text /\ text' = NoLine
      /\ paused' = paused /\ calm' = calm /\ gaveUp' = gaveUp
      /\ shed' = shed \cup (FragsOf(Held) \ FragsOf(Newest(Held)))
      /\ Send(Newest(Held))
  BY DEF Add
<1>2. /\ text \in Lines /\ text[2] = captured
      /\ Held \in Seq(Lines) /\ Before(captured, Held)
  BY <1>1, HeldIs
<1>3. /\ Newest(Held) \in Seq(Lines) /\ Len(Newest(Held)) <= MaxPending
      /\ Before(captured, Newest(Held))
  BY <1>0, <1>2, NewestOf, NewestBefore
<1>4. Sending(Newest(Held))
  BY <1>0, <1>1, SendComesTo
<1>5. /\ pending' \in Seq(Lines) /\ Len(pending') <= MaxPending
      /\ lines' \in Seq(Row)
      /\ wire' \subseteq Request /\ Cardinality(wire') <= 1
      /\ quiet' \in BOOLEAN
      /\ dropped' \subseteq 1..captured /\ resent' \subseteq 1..captured
      /\ astray' \subseteq 1..captured
      /\ \A i \in DOMAIN lines' : lines'[i].line[2] <= captured
      /\ Before(captured, pending')
      /\ \A request \in wire' : Before(captured, request.lines)
  BY <1>3, <1>4, SendKeepsTypes
<1>6. Seen' = captured
  BY <1>1 DEF Seen
<1>7. Near'
  BY <1>1, <1>2, <1>6 DEF Near, Lines
<1>8. Past'
  BY <1>5, <1>6 DEF Past, Before
<1>9. shed' \subseteq 1..captured
  BY <1>0, <1>1, <1>2, CoversUpTo
<1>10. last' \in Interval /\ text' \in Interval
  <2>1. NoLine \in Interval
    BY CaptureAssumptions DEF Interval, NoLine
  <2> QED
    BY <1>1, <1>2, <2>1 DEF Lines
<1> QED
  BY <1>0, <1>1, <1>5, <1>7, <1>8, <1>9, <1>10, PutTogether

\* Flushing what is held on a heartbeat.
LEMMA BeatKeeps ==
    ASSUME CaptureInv, Beat
    PROVE  CaptureInv'
<1>0. /\ captured \in Nat /\ captured <= MaxFragments
      /\ last \in Interval /\ text \in Interval
      /\ pending \in Seq(Lines) /\ Len(pending) <= MaxPending
      /\ quiet \in BOOLEAN /\ paused \in BOOLEAN /\ calm \in BOOLEAN
      /\ shed \subseteq 1..captured /\ gaveUp \subseteq 1..captured
  BY Types
<1>1. /\ pc = "idle" /\ pc' = pc /\ captured' = captured
      /\ last' = last /\ text' = text
      /\ paused' = paused /\ calm' = calm /\ gaveUp' = gaveUp /\ shed' = shed
      /\ Send(pending)
  BY DEF Beat
<1>2. Seen = captured /\ Seen' = captured
  BY <1>1 DEF Seen
<1>3. Before(captured, pending)
  BY <1>2 DEF CaptureInv, Past
<1>4. Sending(pending)
  BY <1>0, <1>1, SendComesTo
<1>5. /\ pending' \in Seq(Lines) /\ Len(pending') <= MaxPending
      /\ lines' \in Seq(Row)
      /\ wire' \subseteq Request /\ Cardinality(wire') <= 1
      /\ quiet' \in BOOLEAN
      /\ dropped' \subseteq 1..captured /\ resent' \subseteq 1..captured
      /\ astray' \subseteq 1..captured
      /\ \A i \in DOMAIN lines' : lines'[i].line[2] <= captured
      /\ Before(captured, pending')
      /\ \A request \in wire' : Before(captured, request.lines)
  BY <1>0, <1>3, <1>4, SendKeepsTypes
<1>6. Near'
  BY <1>1, <1>2 DEF Near, CaptureInv
<1>7. Past'
  BY <1>2, <1>5 DEF Past, Before
<1> QED
  BY <1>0, <1>1, <1>5, <1>6, <1>7, PutTogether

\* A step that changes only flags of the network and the settings.
LEMMA FlagKeeps ==
    ASSUME CaptureInv,
           UNCHANGED <<captured, last, text, pc, pending, lines, wire, shed,
                       dropped, gaveUp, resent, astray>>,
           quiet' \in BOOLEAN, paused' \in BOOLEAN, calm' \in BOOLEAN
    PROVE  CaptureInv'
<1>1. TypeOK'
  BY DEF CaptureInv, TypeOK
<1>2. Near' /\ Past'
  BY DEF CaptureInv, Near, Past, Seen, Before
<1> QED
  BY <1>1, <1>2 DEF CaptureInv

\* A request that comes late adds lines captured long since, or a flag.
LEMMA ArriveKeeps ==
    ASSUME CaptureInv, Arrive
    PROVE  CaptureInv'
<1>0. /\ captured \in Nat /\ captured <= MaxFragments
      /\ last \in Interval /\ text \in Interval
      /\ pc \in {"idle", "retract", "add"}
      /\ pending \in Seq(Lines) /\ Len(pending) <= MaxPending
      /\ lines \in Seq(Row) /\ wire \subseteq Request
      /\ quiet \in BOOLEAN /\ paused \in BOOLEAN /\ calm \in BOOLEAN
      /\ shed \subseteq 1..captured /\ dropped \subseteq 1..captured
      /\ gaveUp \subseteq 1..captured /\ resent \subseteq 1..captured
      /\ astray \subseteq 1..captured
      /\ Seen \in Int /\ Seen <= captured
  BY Types
<1>1. PICK request \in wire :
         /\ Apply(request, TRUE) /\ wire' = {}
         /\ resent' = resent \cup FragsOf(request.lines)
         /\ UNCHANGED <<logger, paused, calm, shed, gaveUp>>
  BY DEF Arrive
<1>2. /\ captured' = captured /\ last' = last /\ text' = text /\ pc' = pc
      /\ pending' = pending /\ quiet' = quiet
      /\ paused' = paused /\ calm' = calm /\ shed' = shed /\ gaveUp' = gaveUp
  BY <1>1 DEF logger
<1>3. Seen' = Seen
  BY <1>2 DEF Seen
<1>4. request.lines \in Seq(Lines) /\ Before(Seen, request.lines)
  BY <1>0 DEF Request, CaptureInv, Past
<1>5. Before(captured, request.lines)
  <2>1. ASSUME NEW i \in DOMAIN request.lines
        PROVE  request.lines[i][2] <= captured
    <3>1. request.lines[i] \in Lines /\ request.lines[i][2] <= Seen
      BY <1>4 DEF Before
    <3>2. request.lines[i][2] \in Nat
      BY <3>1, LineCovers
    <3> QED
      BY <1>0, <3>1, <3>2
  <2> QED
    BY <2>1 DEF Before
<1>6. FragsOf(request.lines) \subseteq 1..captured
  BY <1>0, <1>4, <1>5, CoversUpTo
<1>7. /\ dropped' \subseteq 1..captured /\ resent' \subseteq 1..captured
      /\ astray' \subseteq 1..captured
  <2>1. /\ dropped' \subseteq dropped \cup FragsOf(request.lines)
        /\ astray' \subseteq astray \cup Taken
    BY <1>1 DEF Apply
  <2> QED
    BY <1>0, <1>1, <1>6, <2>1, TakenIs
<1>8. /\ lines' \in Seq(Row)
      /\ \A i \in DOMAIN lines' : lines'[i].line[2] <= Seen
  <2>0. \A i \in DOMAIN lines : lines[i].line[2] <= Seen
    BY DEF CaptureInv, Past
  <2>1. CASE lines' = lines
    BY <1>0, <2>0, <2>1
  <2>2. CASE lines' = Retracted(lines)
    <3>1. /\ lines' \in Seq(Row) /\ Len(lines') = Len(lines)
          /\ \A i \in DOMAIN lines : lines'[i].line = lines[i].line
      BY <1>0, <2>2, RetractedRows
    <3>2. DOMAIN lines' = DOMAIN lines
      BY <1>0, <3>1
    <3> QED
      BY <2>0, <3>1, <3>2
  <2>3. CASE lines' = lines \o Fresh(request.lines)
    <3> DEFINE h == request.lines
    <3>1. h \in Seq(Lines) /\ Before(Seen, h)
      BY <1>4
    <3>2. lines' = lines \o Fresh(h)
      BY <2>3
    <3> HIDE DEF h
    <3>3. ASSUME NEW i \in DOMAIN (lines \o Fresh(h))
          PROVE  (lines \o Fresh(h))[i].line[2] <= Seen
      <4>1. CASE i \in DOMAIN lines
        BY <1>0, <2>0, <3>1, <4>1, Appended
      <4>2. CASE \E j \in DOMAIN h : i = Len(lines) + j
        <5>1. PICK j \in DOMAIN h : i = Len(lines) + j
          BY <4>2
        <5>2. (lines \o Fresh(h))[i].line = h[j]
          BY <1>0, <3>1, <5>1, Appended
        <5> QED
          BY <3>1, <5>2 DEF Before
      <4> QED
        BY <1>0, <3>1, <4>1, <4>2, Appended
    <3> QED
      BY <1>0, <3>1, <3>2, <3>3, Appended
  <2> QED
    BY <1>1, <2>1, <2>2, <2>3 DEF Apply
<1>9. Near'
  BY <1>2, <1>3 DEF Near, CaptureInv
<1>10. Past'
  BY <1>1, <1>2, <1>3, <1>8 DEF Past, Before, CaptureInv
<1>11. Cardinality(wire') <= 1 /\ wire' \subseteq Request
  BY <1>1, FS_EmptySet
<1> QED
  BY <1>0, <1>2, <1>7, <1>8, <1>9, <1>10, <1>11, PutTogether

\* What a dying logger had in hand is counted, and the next one starts afresh.
LEMMA CrashKeeps ==
    ASSUME CaptureInv, Crash
    PROVE  CaptureInv'
<1>0. /\ captured \in Nat /\ captured <= MaxFragments
      /\ text # NoLine => text \in Lines
      /\ pending \in Seq(Lines) /\ MaxPending \in Nat
      /\ lines \in Seq(Row) /\ wire \subseteq Request
      /\ paused \in BOOLEAN /\ calm \in BOOLEAN
      /\ shed \subseteq 1..captured /\ dropped \subseteq 1..captured
      /\ gaveUp \subseteq 1..captured /\ resent \subseteq 1..captured
      /\ astray \subseteq 1..captured
      /\ Seen \in Int /\ Seen <= captured
  BY Types, CaptureAssumptions
<1>1. /\ captured' = captured /\ last' = NoLine /\ text' = NoLine
      /\ pc' = "idle" /\ pending' = <<>> /\ quiet' = FALSE
      /\ lines' = lines /\ paused' = paused /\ wire' = wire /\ calm' = calm
      /\ dropped' = dropped /\ gaveUp' = gaveUp /\ resent' = resent
      /\ astray' = astray
      /\ shed' = shed \cup FragsOf(pending) \cup Frags(text)
  BY DEF Crash, server
<1>2. Seen' = captured
  BY <1>1 DEF Seen
<1>3. ASSUME NEW l \in Lines, l[2] <= Seen
      PROVE  l[2] <= captured
  BY <1>0, <1>3, LineCovers
<1>4. FragsOf(pending) \subseteq 1..captured
  <2>1. Before(captured, pending)
    BY <1>0, <1>3 DEF CaptureInv, Past, Before
  <2> QED
    BY <1>0, <2>1, CoversUpTo
<1>5. Frags(text) \subseteq 1..captured
  <2>1. CASE text = NoLine
    BY <2>1 DEF NoLine, Frags
  <2>2. CASE text # NoLine
    <3>1. text \in Lines /\ text[2] = captured
      BY <1>0, <2>2 DEF CaptureInv, Near
    <3> QED
      BY <1>0, <3>1, LineCovers
  <2> QED
    BY <2>1, <2>2
<1>6. shed' \subseteq 1..captured
  BY <1>0, <1>1, <1>4, <1>5
<1>7. \A i \in DOMAIN lines : lines[i].line[2] <= captured
  <2>1. SUFFICES ASSUME NEW i \in DOMAIN lines
                 PROVE  lines[i].line[2] <= captured
    OBVIOUS
  <2>2. lines[i] \in Row
    BY <1>0
  <2>3. lines[i].line \in Lines /\ lines[i].line[2] <= Seen
    BY <2>2 DEF Row, CaptureInv, Past
  <2> QED
    BY <1>3, <2>3
<1>8. \A request \in wire : Before(captured, request.lines)
  <2>1. SUFFICES ASSUME NEW request \in wire, NEW i \in DOMAIN request.lines
                 PROVE  request.lines[i][2] <= captured
    BY DEF Before
  <2>2. request.lines \in Seq(Lines)
    BY <1>0 DEF Request
  <2>3. request.lines[i] \in Lines /\ request.lines[i][2] <= Seen
    BY <2>2 DEF CaptureInv, Past, Before
  <2> QED
    BY <1>3, <2>3
<1>9. Past'
  BY <1>1, <1>2, <1>7, <1>8 DEF Past, Before
<1>10. Near'
  BY <1>1 DEF Near
<1>11. Cardinality(wire') <= 1
  BY <1>1 DEF CaptureInv, TypeOK
<1>12. last' \in Interval /\ text' \in Interval
  BY <1>1, CaptureAssumptions DEF Interval, NoLine
<1>13. pending' \in Seq(Lines) /\ Len(pending') <= MaxPending
  BY <1>0, <1>1
<1> QED
  BY <1>0, <1>1, <1>6, <1>9, <1>10, <1>11, <1>12, <1>13, PutTogether

\* The invariant holds of every instance.
THEOREM CaptureInvariant == Spec => []CaptureInv
<1>1. CaptureInv /\ [Next]_vars => CaptureInv'
  <2> SUFFICES ASSUME CaptureInv, [Next]_vars
               PROVE  CaptureInv'
    OBVIOUS
  <2>1. CASE \E continuation \in BOOLEAN : Capture(continuation)
    BY <2>1, CaptureKeeps
  <2>2. CASE Retract
    BY <2>2, RetractKeeps
  <2>3. CASE Add
    BY <2>3, AddKeeps
  <2>4. CASE Beat
    BY <2>4, BeatKeeps
  <2>5. CASE Probe
    <3>1. /\ UNCHANGED <<captured, last, text, pc, pending, lines, wire, shed,
                         dropped, gaveUp, resent, astray>>
          /\ quiet' \in BOOLEAN /\ paused' = paused /\ calm' = calm
      BY <2>5, Types DEF Probe, server, history
    <3> QED
      BY <3>1, Types, FlagKeeps
  <2>6. CASE Expire
    BY <2>6, Types, FlagKeeps DEF Expire, server, history
  <2>7. CASE Arrive
    BY <2>7, ArriveKeeps
  <2>8. CASE TogglePause
    BY <2>8, Types, FlagKeeps DEF TogglePause, logger, history
  <2>9. CASE Settle
    BY <2>9, Types, FlagKeeps DEF Settle, logger, server, history
  <2>10. CASE Crash
    BY <2>10, CrashKeeps
  <2>11. CASE UNCHANGED vars
    BY <2>11, Types, FlagKeeps DEF vars
  <2> QED
    BY <2>1, <2>2, <2>3, <2>4, <2>5, <2>6, <2>7, <2>8, <2>9, <2>10, <2>11
       DEF Next, Heartbeat, ReadSettings
<1> QED
  BY InitCapture, <1>1, PTL DEF Spec
---------------------------------------------------------------------------
(* Of two lines that stand, one in front of the other: the steps of the     *)
(* logger keep whatever relation R holds between all of them.               *)

\* Every two lines that stand in the rows ls with h behind them are in R.
PairsOf(ls, h, R) ==
    /\ \A i, j \in DOMAIN ls :
          i < j /\ ~ls[i].discarded /\ ~ls[j].discarded
              => <<ls[i].line, ls[j].line>> \in R
    /\ \A i \in DOMAIN ls, j \in DOMAIN h :
          ~ls[i].discarded => <<ls[i].line, h[j]>> \in R
    /\ \A i, j \in DOMAIN h : i < j => <<h[i], h[j]>> \in R

\* Every line that stands there is in R with m, which is to come behind them.
AllBefore(ls, h, m, R) ==
    /\ \A i \in DOMAIN ls : ~ls[i].discarded => <<ls[i].line, m>> \in R
    /\ \A i \in DOMAIN h : <<h[i], m>> \in R

\* Rows and held lines looked at apart are the same as in one sequence.
LEMMA PairsOfRows ==
    ASSUME NEW ls \in Seq(Row), NEW h \in Seq(Lines), NEW R
    PROVE  PairsOf(ls, h, R) <=>
             \A i, j \in DOMAIN (ls \o Fresh(h)) :
                /\ i < j
                /\ ~(ls \o Fresh(h))[i].discarded /\ ~(ls \o Fresh(h))[j].discarded
                => <<(ls \o Fresh(h))[i].line, (ls \o Fresh(h))[j].line>> \in R
<1> DEFINE all == ls \o Fresh(h)
<1>1. /\ all \in Seq(Row) /\ Len(all) = Len(ls) + Len(h)
      /\ \A i \in DOMAIN ls : all[i] = ls[i]
      /\ \A i \in DOMAIN h : all[Len(ls) + i].line = h[i] /\ ~all[Len(ls) + i].discarded
      /\ \A i \in DOMAIN all : i \in DOMAIN ls \/ (\E j \in DOMAIN h : i = Len(ls) + j)
  BY Appended
<1> HIDE DEF all
<1>2. /\ \A i \in DOMAIN ls : i \in DOMAIN all /\ i \in Nat /\ i <= Len(ls)
      /\ \A j \in DOMAIN h : Len(ls) + j \in DOMAIN all /\ j \in Nat /\ j > 0
      /\ Len(ls) \in Nat
  BY <1>1
<1> DEFINE Together == \A i, j \in DOMAIN all :
                         i < j /\ ~all[i].discarded /\ ~all[j].discarded
                            => <<all[i].line, all[j].line>> \in R
<1>3. ASSUME PairsOf(ls, h, R)
      PROVE  Together
  <2>1. SUFFICES ASSUME NEW i \in DOMAIN all, NEW j \in DOMAIN all, i < j,
                        ~all[i].discarded, ~all[j].discarded
                 PROVE  <<all[i].line, all[j].line>> \in R
    OBVIOUS
  <2>2. CASE i \in DOMAIN ls /\ j \in DOMAIN ls
    BY <1>1, <1>3, <2>1, <2>2 DEF PairsOf
  <2>3. CASE i \in DOMAIN ls /\ \E k \in DOMAIN h : j = Len(ls) + k
    <3>1. PICK k \in DOMAIN h : j = Len(ls) + k
      BY <2>3
    <3>2. all[j].line = h[k] /\ all[i] = ls[i]
      BY <1>1, <2>3, <3>1
    <3> QED
      BY <1>3, <2>1, <2>3, <3>2 DEF PairsOf
  <2>4. CASE (\E k \in DOMAIN h : i = Len(ls) + k) /\ (\E k \in DOMAIN h : j = Len(ls) + k)
    <3>1. PICK a \in DOMAIN h : i = Len(ls) + a
      BY <2>4
    <3>2. PICK b \in DOMAIN h : j = Len(ls) + b
      BY <2>4
    <3>3. a < b
      BY <1>2, <2>1, <3>1, <3>2
    <3>4. all[i].line = h[a] /\ all[j].line = h[b]
      BY <1>1, <3>1, <3>2
    <3> QED
      BY <1>3, <3>3, <3>4 DEF PairsOf
  <2>5. CASE (\E k \in DOMAIN h : i = Len(ls) + k) /\ j \in DOMAIN ls
    BY <1>2, <2>1, <2>5
  <2> QED
    BY <1>1, <2>2, <2>3, <2>4, <2>5
<1>4. ASSUME Together
      PROVE  PairsOf(ls, h, R)
  <2>1. ASSUME NEW i \in DOMAIN ls, NEW j \in DOMAIN ls, i < j,
               ~ls[i].discarded, ~ls[j].discarded
        PROVE  <<ls[i].line, ls[j].line>> \in R
    BY <1>1, <1>2, <1>4, <2>1
  <2>2. ASSUME NEW i \in DOMAIN ls, NEW j \in DOMAIN h, ~ls[i].discarded
        PROVE  <<ls[i].line, h[j]>> \in R
    <3>1. /\ i \in DOMAIN all /\ Len(ls) + j \in DOMAIN all /\ i < Len(ls) + j
          /\ all[i] = ls[i] /\ all[Len(ls) + j].line = h[j]
          /\ ~all[Len(ls) + j].discarded
      BY <1>1, <1>2
    <3> QED
      BY <1>4, <2>2, <3>1
  <2>3. ASSUME NEW i \in DOMAIN h, NEW j \in DOMAIN h, i < j
        PROVE  <<h[i], h[j]>> \in R
    <3>1. /\ Len(ls) + i \in DOMAIN all /\ Len(ls) + j \in DOMAIN all
          /\ Len(ls) + i < Len(ls) + j
      BY <1>2, <2>3
    <3>2. /\ all[Len(ls) + i].line = h[i] /\ ~all[Len(ls) + i].discarded
          /\ all[Len(ls) + j].line = h[j] /\ ~all[Len(ls) + j].discarded
      BY <1>1
    <3> QED
      BY <1>4, <3>1, <3>2
  <2> QED
    BY <2>1, <2>2, <2>3 DEF PairsOf
<1>5. PairsOf(ls, h, R) <=> Together
  BY <1>3, <1>4
<1> QED
  BY <1>5 DEF all

\* A relation that grows, and fewer lines held.
LEMMA PairsGrow ==
    ASSUME NEW ls, NEW h, NEW R, NEW Q, R \subseteq Q, PairsOf(ls, h, R)
    PROVE  PairsOf(ls, h, Q) /\ PairsOf(ls, <<>>, Q)
<1>1. PairsOf(ls, h, Q)
  BY DEF PairsOf
<1>2. DOMAIN <<>> = {}
  OBVIOUS
<1> QED
  BY <1>1, <1>2 DEF PairsOf

\* A relation of all pairs survives the shedding of the oldest lines held,
LEMMA PairsOfNewest ==
    ASSUME NEW ls \in Seq(Row), NEW h \in Seq(Lines), NEW R, PairsOf(ls, h, R)
    PROVE  PairsOf(ls, Newest(h), R)
<1> DEFINE g == Newest(h)
           d == Len(h) - Len(g)
<1>1. /\ g \in Seq(Lines) /\ d \in Nat /\ DOMAIN g \subseteq Nat
      /\ \A i \in DOMAIN g : d + i \in DOMAIN h /\ g[i] = h[d + i]
  BY NewestOf
<1> HIDE DEF g, d
<1>2. ASSUME NEW i \in DOMAIN g, NEW j \in DOMAIN g, i < j
      PROVE  <<g[i], g[j]>> \in R
  <2>1. d + i < d + j /\ d + i \in DOMAIN h /\ d + j \in DOMAIN h
    BY <1>1, <1>2
  <2> QED
    BY <1>1, <2>1 DEF PairsOf
<1>3. PairsOf(ls, g, R)
  BY <1>1, <1>2 DEF PairsOf
<1> QED
  BY <1>3 DEF g

\* the joining that takes the last one back,
LEMMA PairsOfFront ==
    ASSUME NEW ls \in Seq(Row), NEW h \in Seq(Lines), h # <<>>, NEW R, PairsOf(ls, h, R)
    PROVE  PairsOf(ls, Front(h), R)
  BY FrontOf DEF PairsOf

\* and a retract, which only takes lines out of what stands.
LEMMA PairsOfRetracted ==
    ASSUME NEW ls \in Seq(Row), NEW h, NEW R, PairsOf(ls, h, R)
    PROVE  PairsOf(Retracted(ls), h, R)
<1>1. /\ DOMAIN Retracted(ls) = DOMAIN ls
      /\ \A i \in DOMAIN ls :
            /\ Retracted(ls)[i].line = ls[i].line
            /\ ls[i].discarded => Retracted(ls)[i].discarded
  <2>1. /\ Retracted(ls) \in Seq(Row) /\ Len(Retracted(ls)) = Len(ls)
        /\ \A i \in DOMAIN ls : /\ Retracted(ls)[i].line = ls[i].line
                                /\ i # Len(ls) => Retracted(ls)[i] = ls[i]
        /\ ls # <<>> => Retracted(ls)[Len(ls)].discarded
    BY RetractedRows
  <2>2. DOMAIN Retracted(ls) = DOMAIN ls
    BY <2>1
  <2>3. ASSUME NEW i \in DOMAIN ls, ls[i].discarded
        PROVE  Retracted(ls)[i].discarded
    BY <2>1, <2>3
  <2> QED
    BY <2>1, <2>2, <2>3
<1> QED
  BY <1>1 DEF PairsOf

\* One more line held, in R with all that stands.
LEMMA PairsOfAppend ==
    ASSUME NEW ls \in Seq(Row), NEW h \in Seq(Lines), NEW m \in Lines, NEW R,
           PairsOf(ls, h, R), AllBefore(ls, h, m, R)
    PROVE  PairsOf(ls, Append(h, m), R)
<1> DEFINE g == Append(h, m)
<1>1. /\ DOMAIN g = 1..(Len(h) + 1) /\ Len(h) \in Nat /\ DOMAIN h = 1..Len(h)
      /\ \A i \in DOMAIN h : g[i] = h[i]
      /\ g[Len(h) + 1] = m
  OBVIOUS
<1> HIDE DEF g
<1>2. \A i \in DOMAIN g : i \in DOMAIN h \/ i = Len(h) + 1
  BY <1>1
<1>3. ASSUME NEW i \in DOMAIN ls, NEW j \in DOMAIN g, ~ls[i].discarded
      PROVE  <<ls[i].line, g[j]>> \in R
  BY <1>1, <1>2, <1>3 DEF PairsOf, AllBefore
<1>4. ASSUME NEW i \in DOMAIN g, NEW j \in DOMAIN g, i < j
      PROVE  <<g[i], g[j]>> \in R
  <2>1. i \in DOMAIN h
    BY <1>1, <1>4
  <2> QED
    BY <1>1, <1>2, <1>4, <2>1 DEF PairsOf, AllBefore
<1>5. PairsOf(ls, g, R)
  BY <1>3, <1>4 DEF PairsOf
<1> QED
  BY <1>5 DEF g
\* What was held is inserted behind what was there.
LEMMA PairsOfSent ==
    ASSUME NEW ls \in Seq(Row), NEW h \in Seq(Lines), NEW R, PairsOf(ls, h, R)
    PROVE  PairsOf(ls \o Fresh(h), <<>>, R)
<1> DEFINE all == ls \o Fresh(h)
<1>1. DOMAIN <<>> = {}
  OBVIOUS
<1>2. \A i, j \in DOMAIN all :
         i < j /\ ~all[i].discarded /\ ~all[j].discarded
             => <<all[i].line, all[j].line>> \in R
  BY PairsOfRows
<1> HIDE DEF all
<1>3. PairsOf(all, <<>>, R)
  BY <1>1, <1>2 DEF PairsOf
<1> QED
  BY <1>3 DEF all

\* Rows inserted whose lines are in Q with whatever comes behind them.
LEMMA PairsOfSentTwice ==
    ASSUME NEW ls \in Seq(Row), NEW h \in Seq(Lines), NEW g \in Seq(Lines), NEW Q,
           PairsOf(ls, h, Q), PairsOf(ls, g, Q),
           \A i \in DOMAIN h, j \in DOMAIN g : <<h[i], g[j]>> \in Q
    PROVE  PairsOf(ls \o Fresh(h), g, Q)
<1> DEFINE all == ls \o Fresh(h)
<1>1. \A i, j \in DOMAIN all :
         i < j /\ ~all[i].discarded /\ ~all[j].discarded
             => <<all[i].line, all[j].line>> \in Q
  BY PairsOfRows
<1>2. /\ \A i \in DOMAIN ls : all[i] = ls[i]
      /\ \A i \in DOMAIN h : all[Len(ls) + i].line = h[i]
      /\ \A i \in DOMAIN all : i \in DOMAIN ls \/ (\E j \in DOMAIN h : i = Len(ls) + j)
  BY Appended
<1> HIDE DEF all
<1>3. ASSUME NEW i \in DOMAIN all, NEW j \in DOMAIN g, ~all[i].discarded
      PROVE  <<all[i].line, g[j]>> \in Q
  <2>1. CASE i \in DOMAIN ls
    BY <1>2, <1>3, <2>1 DEF PairsOf
  <2>2. CASE \E k \in DOMAIN h : i = Len(ls) + k
    BY <1>2, <2>2
  <2> QED
    BY <1>2, <2>1, <2>2
<1>4. \A i, j \in DOMAIN g : i < j => <<g[i], g[j]>> \in Q
  BY DEF PairsOf
<1>5. PairsOf(all, g, Q)
  BY <1>1, <1>3, <1>4 DEF PairsOf
<1> QED
  BY <1>5 DEF all

\* However a post goes, if a line whose post was not answered is in Q with all.
LEMMA SendKeepsPairs ==
    ASSUME CaptureInv, NEW h \in Seq(Lines), Sending(h),
           NEW R, NEW Q, R \subseteq Q, PairsOf(lines, h, R),
           resent' = resent \cup FragsOf(h)
               => \A i \in DOMAIN h, l \in Lines : <<h[i], l>> \in Q
    PROVE  PairsOf(lines', pending', Q)
<1>0. lines \in Seq(Row)
  BY Types
<1>1. PairsOf(lines, h, Q) /\ PairsOf(lines, <<>>, Q)
  BY PairsGrow
<1>2. PairsOf(lines \o Fresh(h), <<>>, Q)
  BY <1>0, <1>1, PairsOfSent
<1>3. CASE lines' = lines /\ pending' \in {<<>>, h}
  BY <1>1, <1>3
<1>4. CASE lines' = lines \o Fresh(h) /\ pending' = <<>>
  BY <1>2, <1>4
<1>5. CASE /\ lines' = lines \o Fresh(h) /\ pending' = h
           /\ resent' = resent \cup FragsOf(h)
  <2>1. \A i \in DOMAIN h, j \in DOMAIN h : <<h[i], h[j]>> \in Q
    BY <1>5
  <2> QED
    BY <1>0, <1>1, <1>5, <2>1, PairsOfSentTwice
<1> QED
  BY <1>3, <1>4, <1>5 DEF Sending

---------------------------------------------------------------------------
(* InOrder, of every instance.                                             *)

OrderPairs(res) == {p \in Lines \X Lines :
    \/ Frags(p[1]) \cap res # {} \/ Frags(p[2]) \cap res # {}
    \/ p[1][2] <= p[2][2]}

\* What it is for two lines to be an ordered pair.
LEMMA IsOrdered ==
    ASSUME NEW l \in Lines, NEW m \in Lines, NEW res
    PROVE  <<l, m>> \in OrderPairs(res)
             <=> (\/ Frags(l) \cap res # {} \/ Frags(m) \cap res # {}
                  \/ l[2] <= m[2])
<1>1. <<l, m>>[1] = l /\ <<l, m>>[2] = m /\ <<l, m>> \in Lines \X Lines
  OBVIOUS
<1> QED
  BY <1>1 DEF OrderPairs

\* More posts without an answer, fewer lines to compare.
LEMMA OrderGrows ==
    ASSUME NEW res, NEW more, res \subseteq more
    PROVE  OrderPairs(res) \subseteq OrderPairs(more)
  BY DEF OrderPairs

\* A line of a post that was not answered covers a text box of resent.
LEMMA SentIsHit ==
    ASSUME NEW h \in Seq(Lines), NEW i \in DOMAIN h, NEW res, FragsOf(h) \subseteq res
    PROVE  Frags(h[i]) \cap res # {}
<1>1. h[i] \in Lines
  OBVIOUS
<1>2. h[i][2] \in Frags(h[i])
  BY <1>1, LineCovers
<1>3. h[i][2] \in FragsOf(h)
  BY <1>2 DEF FragsOf
<1> QED
  BY <1>2, <1>3

Ordered == PairsOf(lines, pending, OrderPairs(resent))

\* Pairs in order are a ledger in order.
LEMMA OrderedMeans ==
    ASSUME CaptureInv
    PROVE  Ordered => InOrder
<1>0. lines \in Seq(Row) /\ pending \in Seq(Lines)
  BY Types
<1>1. Rows \in Seq(Row)
  BY <1>0, Appended DEF Rows
<1>2. SUFFICES ASSUME Ordered, NEW i \in Sure, NEW j \in Sure, i < j
               PROVE  Rows[i].line[2] <= Rows[j].line[2]
  BY DEF InOrder
<1>3. /\ i \in DOMAIN Rows /\ j \in DOMAIN Rows
      /\ ~Rows[i].discarded /\ ~Rows[j].discarded
      /\ Frags(Rows[i].line) \cap resent = {} /\ Frags(Rows[j].line) \cap resent = {}
  BY DEF Sure, Standing
<1>4. <<Rows[i].line, Rows[j].line>> \in OrderPairs(resent)
  BY <1>0, <1>2, <1>3, PairsOfRows DEF Ordered, Rows
<1>5. Rows[i] \in Row /\ Rows[j] \in Row
  BY <1>1, <1>3
<1>6. Rows[i].line \in Lines /\ Rows[j].line \in Lines
  BY <1>5 DEF Row
<1> QED
  BY <1>3, <1>4, <1>6, IsOrdered

\* A line that has ended stands in front of one that ends in a newer text box.
LEMMA AllEndedBefore ==
    ASSUME CaptureInv, NEW m \in Lines, Seen <= m[2]
    PROVE  AllBefore(lines, pending, m, OrderPairs(resent))
<1>0. lines \in Seq(Row) /\ pending \in Seq(Lines) /\ Seen \in Int
  BY Types
<1>1. ASSUME NEW l \in Lines, l[2] <= Seen
      PROVE  <<l, m>> \in OrderPairs(resent)
  <2>1. l[2] \in Nat /\ m[2] \in Nat
    BY LineCovers
  <2>2. l[2] <= m[2]
    BY <1>0, <1>1, <2>1
  <2> QED
    BY <2>2, IsOrdered
<1>2. ASSUME NEW i \in DOMAIN lines
      PROVE  <<lines[i].line, m>> \in OrderPairs(resent)
  <2>1. lines[i] \in Row
    BY <1>0
  <2>2. lines[i].line \in Lines /\ lines[i].line[2] <= Seen
    BY <2>1 DEF Row, CaptureInv, Past
  <2> QED
    BY <1>1, <2>2
<1>3. ASSUME NEW i \in DOMAIN pending
      PROVE  <<pending[i], m>> \in OrderPairs(resent)
  <2>1. pending[i] \in Lines /\ pending[i][2] <= Seen
    BY <1>0 DEF CaptureInv, Past, Before
  <2> QED
    BY <1>1, <2>1
<1> QED
  BY <1>2, <1>3 DEF AllBefore

\* A post of lines in order keeps the order.
LEMMA SendKeepsOrder ==
    ASSUME CaptureInv, NEW h \in Seq(Lines), Sending(h),
           PairsOf(lines, h, OrderPairs(resent))
    PROVE  Ordered'
<1> DEFINE Q == OrderPairs(resent')
<1>1. resent \subseteq resent'
  BY DEF Sending
<1>2. OrderPairs(resent) \subseteq Q
  BY <1>1, OrderGrows
<1>3. ASSUME resent' = resent \cup FragsOf(h), NEW i \in DOMAIN h, NEW l \in Lines
      PROVE  <<h[i], l>> \in Q
  <2>1. Frags(h[i]) \cap resent' # {}
    BY <1>3, SentIsHit
  <2>2. h[i] \in Lines
    OBVIOUS
  <2> QED
    BY <2>1, <2>2, IsOrdered
<1> HIDE DEF Q
<1>4. PairsOf(lines', pending', Q)
  BY <1>2, <1>3, SendKeepsPairs
<1> QED
  BY <1>4 DEF Q, Ordered

\* A request that arrives late brings only lines it marks as resent.
LEMMA ArriveKeepsOrder ==
    ASSUME CaptureInv, Ordered, Arrive
    PROVE  Ordered'
<1>0. lines \in Seq(Row) /\ pending \in Seq(Lines) /\ wire \subseteq Request
  BY Types
<1>1. PICK request \in wire :
         /\ Apply(request, TRUE)
         /\ resent' = resent \cup FragsOf(request.lines)
         /\ UNCHANGED logger
  BY DEF Arrive
<1> DEFINE h == request.lines
           Q == OrderPairs(resent')
<1>2. h \in Seq(Lines)
  BY <1>0 DEF Request
<1>3. pending' = pending /\ resent' = resent \cup FragsOf(h)
  BY <1>1 DEF logger
<1>4. lines' = lines \/ lines' = Retracted(lines) \/ lines' = lines \o Fresh(h)
  BY <1>1 DEF Apply
<1> HIDE DEF h
<1>5. PairsOf(lines, pending, Q) /\ PairsOf(lines, <<>>, Q)
  BY <1>3, OrderGrows, PairsGrow DEF Ordered
<1>6. CASE lines' = lines
  BY <1>3, <1>5, <1>6 DEF Ordered
<1>7. CASE lines' = Retracted(lines)
  BY <1>0, <1>3, <1>5, <1>7, PairsOfRetracted DEF Ordered
<1>8. CASE lines' = lines \o Fresh(h)
  <2>1. ASSUME NEW i \in DOMAIN h, NEW l \in Lines
        PROVE  <<h[i], l>> \in Q /\ <<l, h[i]>> \in Q
    <3>1. Frags(h[i]) \cap resent' # {}
      BY <1>2, <1>3, SentIsHit
    <3>2. h[i] \in Lines
      BY <1>2
    <3> QED
      BY <3>1, <3>2, IsOrdered
  <2>2. \A i \in DOMAIN pending : pending[i] \in Lines
    BY <1>0
  <2>3. PairsOf(lines, h, Q)
    <3>1. ASSUME NEW i \in DOMAIN lines
          PROVE  lines[i].line \in Lines
      <4>1. lines[i] \in Row
        BY <1>0
      <4> QED
        BY <4>1 DEF Row
    <3>2. \A i \in DOMAIN h : h[i] \in Lines
      BY <1>2
    <3> QED
      BY <1>5, <2>1, <3>1, <3>2 DEF PairsOf
  <2>4. \A i \in DOMAIN h, j \in DOMAIN pending : <<h[i], pending[j]>> \in Q
    BY <2>1, <2>2
  <2> HIDE DEF Q
  <2>5. PairsOf(lines \o Fresh(h), pending, Q)
    BY <1>0, <1>2, <1>5, <2>3, <2>4, PairsOfSentTwice
  <2> QED
    BY <1>3, <1>8, <2>5 DEF Ordered, Q
<1> QED
  BY <1>4, <1>6, <1>7, <1>8

\* Every step keeps the pairs in order.
LEMMA StepKeepsOrder ==
    ASSUME CaptureInv, Ordered, [Next]_vars
    PROVE  Ordered'
<1>0. /\ lines \in Seq(Row) /\ pending \in Seq(Lines) /\ captured \in Nat
      /\ quiet \in BOOLEAN
  BY Types
<1>1. CASE UNCHANGED <<lines, pending, resent>>
  BY <1>1 DEF Ordered
<1>2. CASE Retract
  <2>1. TakingBack
    BY <1>2, RetractComesTo
  <2>2. /\ resent' = resent
        /\ \/ pending # <<>> /\ pending' = Front(pending) /\ lines' = lines
           \/ pending' = pending /\ lines' \in {lines, Retracted(lines)}
    BY <2>1 DEF TakingBack
  <2> QED
    BY <1>0, <2>2, PairsOfFront, PairsOfRetracted DEF Ordered
<1>3. CASE Add
  <2>1. pc = "add" /\ Send(Newest(Held))
    BY <1>3 DEF Add
  <2>2. text \in Lines /\ text[2] = captured /\ Held \in Seq(Lines)
    BY <2>1, HeldIs
  <2>3. Seen <= text[2]
    BY <1>0, <2>1, <2>2 DEF Seen
  <2>4. AllBefore(lines, pending, text, OrderPairs(resent))
    BY <2>2, <2>3, AllEndedBefore
  <2>5. PairsOf(lines, Held, OrderPairs(resent))
    BY <1>0, <2>2, <2>4, PairsOfAppend DEF Held, Ordered
  <2>6. PairsOf(lines, Newest(Held), OrderPairs(resent))
    BY <1>0, <2>2, <2>5, PairsOfNewest
  <2>7. Newest(Held) \in Seq(Lines)
    BY <2>2, NewestOf
  <2>8. Sending(Newest(Held))
    BY <1>0, <2>1, SendComesTo
  <2> QED
    BY <2>6, <2>7, <2>8, SendKeepsOrder
<1>4. CASE Beat
  <2>1. Sending(pending)
    BY <1>0, <1>4, SendComesTo DEF Beat
  <2> QED
    BY <1>0, <2>1, SendKeepsOrder DEF Ordered
<1>5. CASE Arrive
  BY <1>5, ArriveKeepsOrder
<1>6. CASE Crash
  <2>1. lines' = lines /\ pending' = <<>> /\ resent' = resent
    BY <1>6 DEF Crash, server
  <2> QED
    BY <2>1, PairsGrow DEF Ordered
<1> QED
  BY <1>1, <1>2, <1>3, <1>4, <1>5, <1>6
     DEF Next, Capture, Heartbeat, ReadSettings, Probe, Expire, TogglePause,
         Settle, logger, server, history, vars

\* Whatever fails, is late, paused or dies, the ledger reads in the order the
\* game spoke: InOrder of CaptureSink, with nothing asked of the constants.
THEOREM ReadsInOrder == Spec => []InOrder
<1>1. Init => Ordered
  <2> SUFFICES ASSUME Init
               PROVE  Ordered
    OBVIOUS
  <2>1. lines = <<>> /\ pending = <<>> /\ DOMAIN <<>> = {}
    BY DEF Init
  <2> QED
    BY <2>1 DEF Ordered, PairsOf
<1>2. CaptureInv /\ Ordered /\ [Next]_vars => Ordered'
  BY StepKeepsOrder
<1>3. CaptureInv /\ Ordered => InOrder
  BY OrderedMeans
<1> QED
  BY CaptureInvariant, <1>1, <1>2, <1>3, PTL DEF Spec
---------------------------------------------------------------------------
(* HalvesReplaced, of every instance.                                       *)

ApartPairs(up, res) == {p \in Lines \X Lines :
    \/ Frags(p[1]) \cap Frags(p[2]) = {}
    \/ p[1][2] \in up \/ Frags(p[1]) \cap res # {}}

\* Only lines of posts nobody heard the answer of stand behind row i.
OnlyAgainBehind(ls, i, res) ==
    \A j \in DOMAIN ls : i < j => Frags(ls[j].line) \cap res # {}

\* Every line that stands is in R with m, but for m itself where it is the last
\* that is sure.
NearOf(ls, h, m, R, res) ==
    /\ \A i \in DOMAIN ls : ~ls[i].discarded =>
          \/ <<ls[i].line, m>> \in R
          \/ h = <<>> /\ ls[i].line = m /\ OnlyAgainBehind(ls, i, res)
    /\ \A i \in DOMAIN h :
          <<h[i], m>> \in R \/ (i = Len(h) /\ h[i] = m)

Apart == PairsOf(lines, pending, ApartPairs(gaveUp, resent))

\* What stands is apart from the line in hand once its half is taken back, and
\* until then from the previous line, which may be the newest.
HandApart ==
    /\ pc # "add" /\ last # NoLine =>
          NearOf(lines, pending, last, ApartPairs(gaveUp, resent), resent)
    /\ pc = "add" => AllBefore(lines, pending, text, ApartPairs(gaveUp, resent))

HalvesInv == Apart /\ HandApart

\* What it is for two lines to be apart.
LEMMA IsApart ==
    ASSUME NEW l \in Lines, NEW m \in Lines, NEW up, NEW res
    PROVE  <<l, m>> \in ApartPairs(up, res)
             <=> (\/ Frags(l) \cap Frags(m) = {}
                  \/ l[2] \in up \/ Frags(l) \cap res # {})
<1>1. <<l, m>>[1] = l /\ <<l, m>>[2] = m /\ <<l, m>> \in Lines \X Lines
  OBVIOUS
<1> QED
  BY <1>1 DEF ApartPairs

\* The more is given up or resent, the less must be apart.
LEMMA ApartGrows ==
    ASSUME NEW up, NEW res, NEW ups, NEW more, up \subseteq ups, res \subseteq more
    PROVE  ApartPairs(up, res) \subseteq ApartPairs(ups, more)
  BY DEF ApartPairs

\* Pairs that are apart are no text box twice.
LEMMA ApartMeans ==
    ASSUME CaptureInv
    PROVE  Apart => HalvesReplaced
<1>0. lines \in Seq(Row) /\ pending \in Seq(Lines)
  BY Types
<1>1. Rows \in Seq(Row)
  BY <1>0, Appended DEF Rows
<1>2. SUFFICES ASSUME Apart, NEW i \in Standing, NEW j \in Standing, i < j,
                      Frags(Rows[i].line) \cap Frags(Rows[j].line) # {}
               PROVE  Rows[i].line[2] \in gaveUp \/ Frags(Rows[i].line) \cap resent # {}
  BY DEF HalvesReplaced
<1>3. /\ i \in DOMAIN Rows /\ j \in DOMAIN Rows
      /\ ~Rows[i].discarded /\ ~Rows[j].discarded
  BY DEF Standing
<1>4. <<Rows[i].line, Rows[j].line>> \in ApartPairs(gaveUp, resent)
  BY <1>0, <1>2, <1>3, PairsOfRows DEF Apart, Rows
<1>5. Rows[i] \in Row /\ Rows[j] \in Row
  BY <1>1, <1>3
<1>6. Rows[i].line \in Lines /\ Rows[j].line \in Lines
  BY <1>5 DEF Row
<1> QED
  BY <1>2, <1>4, <1>6, IsApart

\* A line in R with all that is held is near it once it is held last.
LEMMA NearOfNewest ==
    ASSUME NEW ls \in Seq(Row), NEW h \in Seq(Lines), NEW m \in Lines, NEW R, NEW res,
           AllBefore(ls, h, m, R)
    PROVE  NearOf(ls, Newest(Append(h, m)), m, R, res)
<1> DEFINE g == Append(h, m)
           n == Newest(g)
<1>1. /\ g \in Seq(Lines) /\ Len(g) = Len(h) + 1 /\ Len(h) \in Nat
      /\ \A i \in DOMAIN g : (i \in DOMAIN h /\ g[i] = h[i]) \/ (i = Len(g) /\ g[i] = m)
  OBVIOUS
<1> HIDE DEF g
<1>2. /\ n \in Seq(Lines) /\ Len(n) \in Nat
      /\ \A i \in DOMAIN n : /\ Len(g) - Len(n) + i \in DOMAIN g
                             /\ n[i] = g[Len(g) - Len(n) + i]
  BY <1>1, NewestOf
<1> HIDE DEF n
<1>3. ASSUME NEW i \in DOMAIN n
      PROVE  <<n[i], m>> \in R \/ (i = Len(n) /\ n[i] = m)
  <2> DEFINE k == Len(g) - Len(n) + i
  <2>1. k \in DOMAIN g /\ n[i] = g[k]
    BY <1>2
  <2>2. i \in Nat
    BY <1>2
  <2>3. CASE k = Len(g) /\ g[k] = m
    <3>1. i = Len(n)
      BY <1>1, <1>2, <2>2, <2>3
    <3> QED
      BY <2>1, <2>3, <3>1
  <2> HIDE DEF k
  <2>4. CASE k \in DOMAIN h /\ g[k] = h[k]
    BY <2>1, <2>4 DEF AllBefore
  <2> QED
    BY <1>1, <2>1, <2>3, <2>4
<1>4. NearOf(ls, n, m, R, res)
  BY <1>3 DEF NearOf, AllBefore
<1> QED
  BY <1>4 DEF n, g

\* However a post goes, the previous line stays where it can be taken back.
LEMMA SendKeepsNear ==
    ASSUME CaptureInv, NEW h \in Seq(Lines), h # <<>>, Sending(h), NEW m \in Lines,
           NEW R, NEW Q, R \subseteq Q, NearOf(lines, h, m, R, resent),
           resent' = resent \cup FragsOf(h)
               => \A i \in DOMAIN h, l \in Lines : <<h[i], l>> \in Q
    PROVE  NearOf(lines', pending', m, Q, resent')
<1>0. lines \in Seq(Row)
  BY Types
<1>1. \A i \in DOMAIN lines : ~lines[i].discarded => <<lines[i].line, m>> \in Q
  BY DEF NearOf
<1>2. \A i \in DOMAIN h : <<h[i], m>> \in Q \/ (i = Len(h) /\ h[i] = m)
  BY DEF NearOf
<1>3. DOMAIN <<>> = {}
  OBVIOUS
<1>4. CASE lines' = lines /\ pending' \in {<<>>, h}
  BY <1>1, <1>2, <1>3, <1>4 DEF NearOf
<1> DEFINE all == lines \o Fresh(h)
<1>5. /\ all \in Seq(Row) /\ Len(all) = Len(lines) + Len(h)
      /\ \A i \in DOMAIN lines : all[i] = lines[i]
      /\ \A i \in DOMAIN h : all[Len(lines) + i].line = h[i]
      /\ \A i \in DOMAIN all : i \in DOMAIN lines \/ (\E j \in DOMAIN h : i = Len(lines) + j)
  BY <1>0, Appended
<1> HIDE DEF all
<1>6. CASE lines' = all /\ pending' = <<>>
  <2>1. ASSUME NEW i \in DOMAIN all, ~all[i].discarded
        PROVE  <<all[i].line, m>> \in Q \/ (i = Len(all) /\ all[i].line = m)
    <3>1. CASE i \in DOMAIN lines
      BY <1>1, <1>5, <2>1, <3>1
    <3>2. CASE \E j \in DOMAIN h : i = Len(lines) + j
      BY <1>2, <1>5, <3>2
    <3> QED
      BY <1>5, <3>1, <3>2
  <2>2. OnlyAgainBehind(all, Len(all), resent')
    BY <1>5 DEF OnlyAgainBehind
  <2> QED
    BY <1>3, <1>6, <2>1, <2>2 DEF NearOf
<1>7. CASE lines' = all /\ pending' = h /\ resent' = resent \cup FragsOf(h)
  <2>1. \A i \in DOMAIN h : <<h[i], m>> \in Q
    BY <1>7
  <2>2. ASSUME NEW i \in DOMAIN all, ~all[i].discarded
        PROVE  <<all[i].line, m>> \in Q
    <3>1. CASE i \in DOMAIN lines
      BY <1>1, <1>5, <2>2, <3>1
    <3>2. CASE \E j \in DOMAIN h : i = Len(lines) + j
      BY <2>1, <1>5, <3>2
    <3> QED
      BY <1>5, <3>1, <3>2
  <2> QED
    BY <1>7, <2>1, <2>2 DEF NearOf
<1> QED
  BY <1>4, <1>6, <1>7 DEF Sending, all
\* A line that is apart from the previous one, or is that one, against the line
\* that joins it to the next text box.
LEMMA JoinedApart ==
    ASSUME NEW l \in Lines, NEW m \in Lines, NEW t \in Lines, NEW up, NEW res,
           t[1] = m[1], l[2] <= m[2], <<l, m>> \in ApartPairs(up, res)
    PROVE  <<l, t>> \in ApartPairs(up, res)
<1>1. CASE Frags(l) \cap Frags(m) = {}
  <2>1. SUFFICES ASSUME NEW f \in Frags(l), f \in Frags(t)
                 PROVE  FALSE
    BY IsApart
  <2>2. /\ Frags(l) = l[1]..l[2] /\ Frags(m) = m[1]..m[2] /\ Frags(t) = t[1]..t[2]
        /\ l[1] \in Nat /\ l[2] \in Nat /\ m[1] \in Nat /\ m[2] \in Nat
        /\ t[1] \in Nat /\ t[2] \in Nat
    BY LineCovers
  <2>3. f \in m[1]..m[2]
    BY <2>1, <2>2
  <2> QED
    BY <1>1, <2>1, <2>2, <2>3
<1>2. CASE l[2] \in up \/ Frags(l) \cap res # {}
  BY <1>2, IsApart
<1> QED
  BY <1>1, <1>2, IsApart

\* A new text box is in no line yet; one it continues goes into the hand with it.
LEMMA CaptureKeepsHalves ==
    ASSUME CaptureInv, HalvesInv, NEW continuation \in BOOLEAN, Capture(continuation)
    PROVE  HalvesInv'
<1>0. lines \in Seq(Row) /\ pending \in Seq(Lines) /\ captured \in Nat
  BY Types
<1>1. /\ pc = "idle" /\ captured < MaxFragments /\ last' = last
      /\ lines' = lines /\ pending' = pending /\ gaveUp' = gaveUp /\ resent' = resent
  BY DEF Capture, server, history
<1> DEFINE R == ApartPairs(gaveUp, resent)
<1>2. Apart'
  BY <1>1 DEF Apart, HalvesInv
<1>3. CASE continuation /\ last # NoLine
  <2>1. pc' = "retract"
    BY <1>3 DEF Capture
  <2>2. NearOf(lines, pending, last, R, resent)
    BY <1>1, <1>3 DEF HalvesInv, HandApart
  <2>3. HandApart'
    BY <1>1, <2>1, <2>2 DEF HandApart
  <2> QED
    BY <1>2, <2>3 DEF HalvesInv
<1>4. CASE ~(continuation /\ last # NoLine)
  <2>1. pc' = "add" /\ text' = <<captured + 1, captured + 1>>
    BY <1>4 DEF Capture
  <2>2. text' \in Lines /\ text'[1] = captured + 1 /\ text'[2] = captured + 1
    BY <1>0, <1>1, <2>1, IsLine, CaptureAssumptions
  <2>3. Seen = captured
    BY <1>1 DEF Seen
  <2>4. ASSUME NEW l \in Lines, l[2] <= Seen
        PROVE  <<l, text'>> \in R
    <3>1. /\ Frags(l) = l[1]..l[2] /\ l[1] \in Nat /\ l[2] \in Nat
          /\ Frags(text') = (captured + 1)..(captured + 1)
      BY <2>2, LineCovers
    <3>2. Frags(l) \cap Frags(text') = {}
      BY <1>0, <2>3, <2>4, <3>1
    <3> QED
      BY <2>2, <3>2, IsApart
  <2>5. ASSUME NEW i \in DOMAIN lines
        PROVE  <<lines[i].line, text'>> \in R
    <3>1. lines[i] \in Row
      BY <1>0
    <3>2. lines[i].line \in Lines /\ lines[i].line[2] <= Seen
      BY <3>1 DEF Row, CaptureInv, Past
    <3> QED
      BY <2>4, <3>2
  <2>6. ASSUME NEW i \in DOMAIN pending
        PROVE  <<pending[i], text'>> \in R
    <3>1. pending[i] \in Lines /\ pending[i][2] <= Seen
      BY <1>0 DEF CaptureInv, Past, Before
    <3> QED
      BY <2>4, <3>1
  <2>7. AllBefore(lines, pending, text', R)
    BY <2>5, <2>6 DEF AllBefore
  <2>8. HandApart'
    BY <1>1, <2>1, <2>7 DEF HandApart
  <2> QED
    BY <1>2, <2>8 DEF HalvesInv
<1> QED
  BY <1>3, <1>4

\* Where a line posted again is flagged in the place of the previous one, the
\* half is given up.
LEMMA NewestAgain ==
    ASSUME CaptureInv, NEW i \in DOMAIN lines, i # Len(lines),
           lines[i].line = last, OnlyAgainBehind(lines, i, resent),
           gaveUp' \in {gaveUp \cup Missed, gaveUp \cup {last[2]}}
    PROVE  last[2] \in gaveUp' \/ Frags(last) \cap resent # {}
<1>1. /\ lines # <<>> /\ i < Len(lines) /\ Len(lines) \in DOMAIN lines
      /\ Last(lines) = lines[Len(lines)]
  BY Types DEF Last
<1>2. Frags(Last(lines).line) \cap resent # {}
  BY <1>1 DEF OnlyAgainBehind
<1>3. CASE Last(lines).line = last
  BY <1>2, <1>3
<1>4. CASE Last(lines).line # last
  BY <1>1, <1>2, <1>4 DEF Missed
<1> QED
  BY <1>3, <1>4

\* Once the half is taken back, or the logger knows it was not, the joined line
\* is apart from all that stands.
LEMMA RetractKeepsHalves ==
    ASSUME CaptureInv, HalvesInv, Retract
    PROVE  HalvesInv'
<1>0. lines \in Seq(Row) /\ pending \in Seq(Lines)
  BY Types
<1>1. pc = "retract" /\ pc' = "add" /\ text' = text
  BY DEF Retract
<1>2. TakingBack
  BY RetractComesTo
<1>3. resent' = resent /\ gaveUp \subseteq gaveUp'
  BY <1>2 DEF TakingBack
<1> DEFINE R == ApartPairs(gaveUp, resent)
           Q == ApartPairs(gaveUp', resent')
<1>4. R \subseteq Q
  BY <1>3, ApartGrows
<1>5. last \in Lines /\ last[2] = Seen /\ text \in Lines /\ text[1] = last[1]
  BY <1>1, Types DEF CaptureInv, Near
<1>6. NearOf(lines, pending, last, R, resent)
  BY <1>1, <1>5 DEF HalvesInv, HandApart, Lines
<1>7. ASSUME NEW l \in Lines, l[2] <= Seen, <<l, last>> \in R
      PROVE  <<l, text>> \in Q
  BY <1>4, <1>5, <1>7, JoinedApart
<1>8. ASSUME NEW i \in DOMAIN lines
      PROVE  lines[i].line \in Lines /\ lines[i].line[2] <= Seen
  <2>1. lines[i] \in Row
    BY <1>0
  <2> QED
    BY <2>1 DEF Row, CaptureInv, Past
<1>9. \A i \in DOMAIN pending : pending[i] \in Lines /\ pending[i][2] <= Seen
  BY <1>0 DEF CaptureInv, Past, Before
<1>10. PairsOf(lines, pending, Q)
  BY <1>4, PairsGrow DEF HalvesInv, Apart
<1> HIDE DEF R, Q
<1>11. CASE pending # <<>> /\ pending' = Front(pending) /\ lines' = lines
  <2>1. PairsOf(lines', pending', Q)
    BY <1>0, <1>10, <1>11, PairsOfFront
  <2>2. ASSUME NEW i \in DOMAIN lines, ~lines[i].discarded
        PROVE  <<lines[i].line, text>> \in Q
    BY <1>6, <1>7, <1>8, <1>11, <2>2 DEF NearOf
  <2>3. ASSUME NEW i \in DOMAIN Front(pending)
        PROVE  <<Front(pending)[i], text>> \in Q
    <3>1. i \in DOMAIN pending /\ i # Len(pending) /\ Front(pending)[i] = pending[i]
      BY <1>0, <1>11, FrontOf
    <3> QED
      BY <1>6, <1>7, <1>9, <3>1 DEF NearOf
  <2>4. AllBefore(lines', pending', text', Q)
    BY <1>1, <1>11, <2>2, <2>3 DEF AllBefore
  <2> QED
    BY <1>1, <1>3, <2>1, <2>4 DEF HalvesInv, Apart, HandApart, Q
<1>12. CASE /\ pending = <<>> /\ pending' = <<>> /\ lines' = Retracted(lines)
            /\ gaveUp' \in {gaveUp \cup Missed, gaveUp \cup {last[2]}}
  <2>1. PairsOf(lines', pending', Q)
    BY <1>0, <1>10, <1>12, PairsOfRetracted
  <2>2. /\ DOMAIN lines' = DOMAIN lines
        /\ \A i \in DOMAIN lines : /\ lines'[i].line = lines[i].line
                                   /\ i # Len(lines) => lines'[i] = lines[i]
        /\ lines # <<>> => lines'[Len(lines)].discarded
    <3>1. /\ lines' \in Seq(Row) /\ Len(lines') = Len(lines)
          /\ \A i \in DOMAIN lines : /\ lines'[i].line = lines[i].line
                                     /\ i # Len(lines) => lines'[i] = lines[i]
          /\ lines # <<>> => lines'[Len(lines)].discarded
      BY <1>0, <1>12, RetractedRows
    <3>2. DOMAIN lines' = DOMAIN lines
      BY <1>0, <3>1
    <3> QED
      BY <3>1, <3>2
  <2>3. ASSUME NEW i \in DOMAIN lines, ~lines'[i].discarded
        PROVE  <<lines'[i].line, text>> \in Q
    <3>1. lines # <<>>
      BY <2>3
    <3>2. i # Len(lines)
      BY <2>2, <2>3, <3>1
    <3>3. ~lines[i].discarded /\ lines'[i].line = lines[i].line
      BY <2>2, <2>3, <3>2
    <3>4. CASE <<lines[i].line, last>> \in R
      BY <1>7, <1>8, <3>3, <3>4
    <3>5. CASE lines[i].line = last /\ OnlyAgainBehind(lines, i, resent)
      <4>1. last[2] \in gaveUp' \/ Frags(last) \cap resent # {}
        BY <1>12, <2>2, <3>1, <3>2, <3>5, NewestAgain
      <4> QED
        BY <1>3, <1>5, <3>3, <3>5, <4>1, IsApart DEF Q
    <3> QED
      BY <1>6, <3>3, <3>4, <3>5 DEF NearOf
  <2>4. DOMAIN pending' = {}
    BY <1>12
  <2>5. AllBefore(lines', pending', text', Q)
    BY <1>1, <2>2, <2>3, <2>4 DEF AllBefore
  <2> QED
    BY <1>1, <1>3, <2>1, <2>5 DEF HalvesInv, Apart, HandApart, Q
<1>13. CASE pending = <<>> /\ pending' = <<>> /\ lines' = lines
            /\ gaveUp' = gaveUp \cup {last[2]}
  <2>1. PairsOf(lines', pending', Q)
    BY <1>10, <1>13
  <2>2. ASSUME NEW i \in DOMAIN lines, ~lines[i].discarded
        PROVE  <<lines[i].line, text>> \in Q
    <3>1. CASE <<lines[i].line, last>> \in R
      BY <1>7, <1>8, <3>1
    <3>2. CASE lines[i].line = last
      <4>1. last[2] \in gaveUp'
        BY <1>13
      <4> QED
        BY <1>5, <3>2, <4>1, IsApart DEF Q
    <3> QED
      BY <1>6, <2>2, <3>1, <3>2 DEF NearOf
  <2>3. DOMAIN pending' = {}
    BY <1>13
  <2>4. AllBefore(lines', pending', text', Q)
    BY <1>1, <1>13, <2>2, <2>3 DEF AllBefore
  <2> QED
    BY <1>1, <1>3, <2>1, <2>4 DEF HalvesInv, Apart, HandApart, Q
<1> QED
  BY <1>2, <1>11, <1>12, <1>13 DEF TakingBack

\* A line whose post was not answered is apart from all, as far as is promised.
LEMMA SentIsApart ==
    ASSUME NEW h \in Seq(Lines), NEW up, NEW res, FragsOf(h) \subseteq res,
           NEW i \in DOMAIN h, NEW l \in Lines
    PROVE  <<h[i], l>> \in ApartPairs(up, res)
<1>1. h[i] \in Lines
  OBVIOUS
<1>2. Frags(h[i]) \cap res # {}
  BY SentIsHit
<1> QED
  BY <1>1, <1>2, IsApart

\* Posting the line in hand, whose half was taken back or given up before.
LEMMA AddKeepsHalves ==
    ASSUME CaptureInv, HalvesInv, Add
    PROVE  HalvesInv'
<1>0. lines \in Seq(Row) /\ pending \in Seq(Lines) /\ quiet \in BOOLEAN
  BY Types
<1>1. /\ pc = "add" /\ pc' = "idle" /\ last' = text /\ gaveUp' = gaveUp
      /\ Send(Newest(Held))
  BY DEF Add
<1> DEFINE h == Newest(Held)
           R == ApartPairs(gaveUp, resent)
           Q == ApartPairs(gaveUp', resent')
<1>2. text \in Lines /\ Held \in Seq(Lines) /\ Held # <<>>
  BY <1>0, <1>1, HeldIs
<1>3. h \in Seq(Lines) /\ h # <<>>
  BY <1>2, NewestOf
<1>4. Sending(h)
  BY <1>0, <1>1, SendComesTo
<1>5. AllBefore(lines, pending, text, R)
  BY <1>1 DEF HalvesInv, HandApart
<1>6. PairsOf(lines, Held, R)
  BY <1>0, <1>2, <1>5, PairsOfAppend DEF Held, HalvesInv, Apart
<1>7. PairsOf(lines, h, R)
  BY <1>0, <1>2, <1>6, PairsOfNewest
<1>8. NearOf(lines, h, text, R, resent)
  BY <1>0, <1>2, <1>5, NearOfNewest DEF Held
<1>9. resent \subseteq resent'
  BY <1>4 DEF Sending
<1>10. R \subseteq Q
  BY <1>1, <1>9, ApartGrows
<1>11. ASSUME resent' = resent \cup FragsOf(h), NEW i \in DOMAIN h, NEW l \in Lines
       PROVE  <<h[i], l>> \in Q
  BY <1>3, <1>11, SentIsApart
<1> HIDE DEF h, R, Q
<1>12. PairsOf(lines', pending', Q)
  BY <1>3, <1>4, <1>7, <1>10, <1>11, SendKeepsPairs
<1>13. NearOf(lines', pending', text, Q, resent')
  BY <1>2, <1>3, <1>4, <1>8, <1>10, <1>11, SendKeepsNear
<1> QED
  BY <1>1, <1>9, <1>12, <1>13 DEF HalvesInv, Apart, HandApart, Q

\* Flushing what is held, all of it before the line on screen.
LEMMA BeatKeepsHalves ==
    ASSUME CaptureInv, HalvesInv, Beat
    PROVE  HalvesInv'
<1>0. /\ lines \in Seq(Row) /\ pending \in Seq(Lines) /\ quiet \in BOOLEAN
      /\ last # NoLine => last \in Lines
  BY Types
<1>1. /\ pc = "idle" /\ pc' = pc /\ last' = last /\ gaveUp' = gaveUp
      /\ pending # <<>> /\ Send(pending)
  BY DEF Beat
<1> DEFINE R == ApartPairs(gaveUp, resent)
           Q == ApartPairs(gaveUp', resent')
<1>2. Sending(pending)
  BY <1>0, <1>1, SendComesTo
<1>3. resent \subseteq resent'
  BY <1>2 DEF Sending
<1>4. R \subseteq Q
  BY <1>1, <1>3, ApartGrows
<1>5. ASSUME resent' = resent \cup FragsOf(pending), NEW i \in DOMAIN pending, NEW l \in Lines
      PROVE  <<pending[i], l>> \in Q
  BY <1>0, <1>5, SentIsApart
<1>6. PairsOf(lines, pending, R) /\ (last # NoLine => NearOf(lines, pending, last, R, resent))
  BY <1>1 DEF HalvesInv, Apart, HandApart
<1> HIDE DEF R, Q
<1>7. PairsOf(lines', pending', Q)
  BY <1>0, <1>2, <1>4, <1>5, <1>6, SendKeepsPairs
<1>8. last # NoLine => NearOf(lines', pending', last, Q, resent')
  BY <1>0, <1>1, <1>2, <1>4, <1>5, <1>6, SendKeepsNear
<1> QED
  BY <1>1, <1>3, <1>7, <1>8 DEF HalvesInv, Apart, HandApart, Q

\* A post that comes late brings only lines posted again, a retract that does
\* only takes one out.
LEMMA ArriveKeepsHalves ==
    ASSUME CaptureInv, HalvesInv, Arrive
    PROVE  HalvesInv'
<1>0. /\ lines \in Seq(Row) /\ pending \in Seq(Lines) /\ wire \subseteq Request
      /\ last # NoLine => last \in Lines
      /\ pc = "add" => text \in Lines
  BY Types DEF CaptureInv, Near
<1>1. PICK request \in wire :
         /\ Apply(request, TRUE)
         /\ resent' = resent \cup FragsOf(request.lines)
         /\ UNCHANGED <<logger, gaveUp>>
  BY DEF Arrive
<1> DEFINE h == request.lines
           R == ApartPairs(gaveUp, resent)
           Q == ApartPairs(gaveUp', resent')
<1>2. h \in Seq(Lines)
  BY <1>0 DEF Request
<1>3. /\ pending' = pending /\ last' = last /\ text' = text /\ pc' = pc
      /\ gaveUp' = gaveUp /\ resent' = resent \cup FragsOf(h)
  BY <1>1 DEF logger
<1>4. lines' = lines \/ lines' = Retracted(lines) \/ lines' = lines \o Fresh(h)
  BY <1>1 DEF Apply
<1>5. R \subseteq Q /\ resent \subseteq resent' /\ FragsOf(h) \subseteq resent'
  BY <1>3, ApartGrows
<1>6. \A i \in DOMAIN h, l \in Lines : <<h[i], l>> \in Q
  BY <1>2, <1>5, SentIsApart
<1>7. \A i \in DOMAIN h, l \in Lines : <<l, h[i]>> \in Q
  <2>1. SUFFICES ASSUME NEW i \in DOMAIN h, NEW l \in Lines
                 PROVE  <<l, h[i]>> \in Q
    OBVIOUS
  <2>2. h[i] \in Lines /\ Frags(h[i]) \subseteq resent'
    BY <1>2, <1>5 DEF FragsOf
  <2> QED
    BY <2>2, IsApart
<1>8. \A i \in DOMAIN h : Frags(h[i]) \cap resent' # {}
  BY <1>2, <1>5, SentIsHit
<1>9. /\ PairsOf(lines, pending, Q) /\ PairsOf(lines, <<>>, Q)
      /\ pc # "add" /\ last # NoLine => NearOf(lines, pending, last, R, resent)
      /\ pc = "add" => AllBefore(lines, pending, text, R)
  BY <1>5, PairsGrow DEF HalvesInv, Apart, HandApart
<1> HIDE DEF h, R, Q
<1>10. /\ pc # "add" /\ last # NoLine => NearOf(lines, pending, last, Q, resent')
       /\ pc = "add" => AllBefore(lines, pending, text, Q)
  BY <1>5, <1>9 DEF NearOf, AllBefore, OnlyAgainBehind
<1>11. CASE lines' = lines
  BY <1>3, <1>9, <1>10, <1>11 DEF HalvesInv, Apart, HandApart, Q
<1>12. CASE lines' = Retracted(lines)
  <2>1. PairsOf(lines', pending', Q)
    BY <1>0, <1>3, <1>9, <1>12, PairsOfRetracted
  <2>2. /\ DOMAIN lines' = DOMAIN lines
        /\ \A i \in DOMAIN lines : /\ lines'[i].line = lines[i].line
                                   /\ ~lines'[i].discarded => ~lines[i].discarded
    BY <1>0, <1>12, RetractedOnly
  <2>3. ASSUME pc # "add", last # NoLine
        PROVE  NearOf(lines', pending', last, Q, resent')
    <3>1. NearOf(lines, pending, last, Q, resent')
      BY <1>10, <2>3
    <3> QED
      BY <1>3, <2>2, <3>1 DEF NearOf, OnlyAgainBehind
  <2>4. ASSUME pc = "add"
        PROVE  AllBefore(lines', pending', text, Q)
    BY <1>3, <1>10, <2>2, <2>4 DEF AllBefore
  <2> QED
    BY <1>3, <2>1, <2>3, <2>4 DEF HalvesInv, Apart, HandApart, Q
<1>13. CASE lines' = lines \o Fresh(h)
  <2> DEFINE all == lines \o Fresh(h)
  <2>1. /\ all \in Seq(Row)
        /\ \A i \in DOMAIN lines : all[i] = lines[i]
        /\ \A i \in DOMAIN h : all[Len(lines) + i].line = h[i]
        /\ \A i \in DOMAIN all : i \in DOMAIN lines \/ (\E j \in DOMAIN h : i = Len(lines) + j)
    BY <1>0, <1>2, Appended
  <2>2. \A i \in DOMAIN lines : lines[i].line \in Lines
    <3>1. \A i \in DOMAIN lines : lines[i] \in Row
      BY <1>0
    <3> QED
      BY <3>1 DEF Row
  <2>3. \A i \in DOMAIN h : h[i] \in Lines
    BY <1>2
  <2>4. \A i \in DOMAIN pending : pending[i] \in Lines
    BY <1>0
  <2>5. PairsOf(lines, h, Q)
    BY <1>6, <1>7, <1>9, <2>2, <2>3 DEF PairsOf
  <2>6. \A i \in DOMAIN h, j \in DOMAIN pending : <<h[i], pending[j]>> \in Q
    BY <1>6, <2>4
  <2>7. PairsOf(all, pending, Q)
    BY <1>0, <1>2, <1>9, <2>5, <2>6, PairsOfSentTwice
  <2> HIDE DEF all
  <2>8. ASSUME NEW i \in DOMAIN all, i \notin DOMAIN lines
        PROVE  \E k \in DOMAIN h : all[i].line = h[k]
    BY <2>1, <2>8
  <2>9. ASSUME NEW m, NearOf(lines, pending, m, Q, resent'), m \in Lines
        PROVE  NearOf(all, pending, m, Q, resent')
    <3>1. ASSUME NEW i \in DOMAIN lines, OnlyAgainBehind(lines, i, resent')
          PROVE  OnlyAgainBehind(all, i, resent')
      BY <1>8, <2>1, <2>8, <3>1 DEF OnlyAgainBehind
    <3>2. ASSUME NEW i \in DOMAIN all, ~all[i].discarded
          PROVE  \/ <<all[i].line, m>> \in Q
                 \/ pending = <<>> /\ all[i].line = m /\ OnlyAgainBehind(all, i, resent')
      <4>1. CASE i \in DOMAIN lines
        <5>1. all[i] = lines[i]
          BY <2>1, <4>1
        <5> QED
          BY <2>9, <3>1, <3>2, <4>1, <5>1 DEF NearOf
      <4>2. CASE i \notin DOMAIN lines
        BY <1>6, <2>8, <2>9, <4>2
      <4> QED
        BY <4>1, <4>2
    <3> QED
      BY <2>9, <3>2 DEF NearOf
  <2>10. ASSUME NEW m, AllBefore(lines, pending, m, Q), m \in Lines
         PROVE  AllBefore(all, pending, m, Q)
    <3>1. ASSUME NEW i \in DOMAIN all, ~all[i].discarded
          PROVE  <<all[i].line, m>> \in Q
      <4>1. CASE i \in DOMAIN lines
        BY <2>1, <2>10, <3>1, <4>1 DEF AllBefore
      <4>2. CASE i \notin DOMAIN lines
        BY <1>6, <2>8, <2>10, <4>2
      <4> QED
        BY <4>1, <4>2
    <3> QED
      BY <2>10, <3>1 DEF AllBefore
  <2>11. lines' = all
    BY <1>13 DEF all
  <2> QED
    BY <1>0, <1>3, <1>10, <2>7, <2>9, <2>10, <2>11 DEF HalvesInv, Apart, HandApart, Q
<1> QED
  BY <1>4, <1>11, <1>12, <1>13

\* A text box stands twice only where its half was given up or its post was sent
\* again, whatever the sizes, the faults and the pauses: HalvesReplaced of
\* CaptureSink, with nothing asked of the constants.
THEOREM BothHalvesOnlyKnowingly == Spec => []HalvesReplaced
<1>1. Init => HalvesInv
  <2> SUFFICES ASSUME Init
               PROVE  HalvesInv
    OBVIOUS
  <2>1. lines = <<>> /\ pending = <<>> /\ last = NoLine /\ pc = "idle"
        /\ DOMAIN <<>> = {}
    BY DEF Init
  <2> QED
    BY <2>1 DEF HalvesInv, Apart, HandApart, PairsOf
<1>2. CaptureInv /\ HalvesInv /\ [Next]_vars => HalvesInv'
  <2> SUFFICES ASSUME CaptureInv, HalvesInv, [Next]_vars
               PROVE  HalvesInv'
    OBVIOUS
  <2>1. CASE UNCHANGED <<lines, pending, last, text, pc, gaveUp, resent>>
    BY <2>1 DEF HalvesInv, Apart, HandApart
  <2>2. CASE \E continuation \in BOOLEAN : Capture(continuation)
    BY <2>2, CaptureKeepsHalves
  <2>3. CASE Retract
    BY <2>3, RetractKeepsHalves
  <2>4. CASE Add
    BY <2>4, AddKeepsHalves
  <2>5. CASE Beat
    BY <2>5, BeatKeepsHalves
  <2>6. CASE Arrive
    BY <2>6, ArriveKeepsHalves
  <2>7. CASE Crash
    <3>1. /\ lines' = lines /\ pending' = <<>> /\ last' = NoLine
          /\ pc' = "idle" /\ gaveUp' = gaveUp /\ resent' = resent
      BY <2>7 DEF Crash, server
    <3>2. Apart'
      BY <3>1, PairsGrow DEF HalvesInv, Apart
    <3> QED
      BY <3>1, <3>2 DEF HalvesInv, HandApart
  <2> QED
    BY <2>1, <2>2, <2>3, <2>4, <2>5, <2>6, <2>7
       DEF Next, Heartbeat, ReadSettings, Probe, Expire, TogglePause,
           Settle, logger, server, history, vars
<1>3. CaptureInv /\ HalvesInv => HalvesReplaced
  BY ApartMeans DEF HalvesInv
<1> QED
  BY CaptureInvariant, <1>1, <1>2, <1>3, PTL DEF Spec
---------------------------------------------------------------------------
(* NothingVanishes and RetractsItsOwn, of every instance: the newest line is *)
(* the previous one, unless that was paused away or one came behind it that  *)
(* was posted before.                                                        *)

\* Text box f stands in the rows ls or is held in h.
StandsIn(f, ls, h) ==
    \/ \E i \in DOMAIN ls : ~ls[i].discarded /\ f \in Frags(ls[i].line)
    \/ \E i \in DOMAIN h : f \in Frags(h[i])

\* m is the newest line of the rows ls with h behind them, or it was dropped,
\* or the newest row is of a post that was sent again.
NewestLine(ls, h, m, drop, res) ==
    /\ h # <<>> => h[Len(h)] = m
    /\ h = <<>> => \/ Frags(m) \cap drop # {}
                  \/ /\ ls # <<>>
                     /\ ls[Len(ls)].line = m \/ Frags(ls[Len(ls)].line) \cap res # {}

Lost == shed \cup dropped \cup astray

Accounted == \A f \in 1..captured :
    StandsIn(f, lines, pending) \/ f \in Frags(text) \/ f \in Lost

KeptInv ==
    /\ pc # "add" /\ last # NoLine => NewestLine(lines, pending, last, dropped, resent)
    /\ Accounted

\* Lines inserted stand behind those that did.
LEMMA StandsInserted ==
    ASSUME NEW ls \in Seq(Row), NEW h \in Seq(Lines), NEW f
    PROVE  StandsIn(f, ls, h) <=> StandsIn(f, ls \o Fresh(h), <<>>)
<1> DEFINE all == ls \o Fresh(h)
<1>1. /\ all \in Seq(Row) /\ Len(all) = Len(ls) + Len(h)
      /\ \A i \in DOMAIN ls : all[i] = ls[i]
      /\ \A i \in DOMAIN h : /\ all[Len(ls) + i].line = h[i]
                             /\ ~all[Len(ls) + i].discarded
      /\ \A i \in DOMAIN all : i \in DOMAIN ls \/ (\E j \in DOMAIN h : i = Len(ls) + j)
  BY Appended
<1> HIDE DEF all
<1>2. /\ \A i \in DOMAIN ls : i \in DOMAIN all
      /\ \A i \in DOMAIN h : Len(ls) + i \in DOMAIN all
  <2>1. DOMAIN all = 1..(Len(ls) + Len(h)) /\ Len(h) \in Nat /\ Len(ls) \in Nat
    BY <1>1
  <2> QED
    BY <2>1
<1>3. ASSUME StandsIn(f, ls, h)
      PROVE  StandsIn(f, all, <<>>)
  <2>1. CASE \E i \in DOMAIN ls : ~ls[i].discarded /\ f \in Frags(ls[i].line)
    BY <1>1, <1>2, <2>1 DEF StandsIn
  <2>2. CASE \E i \in DOMAIN h : f \in Frags(h[i])
    <3>1. PICK i \in DOMAIN h : f \in Frags(h[i])
      BY <2>2
    <3>2. /\ Len(ls) + i \in DOMAIN all /\ ~all[Len(ls) + i].discarded
          /\ f \in Frags(all[Len(ls) + i].line)
      BY <1>1, <1>2, <3>1
    <3> QED
      BY <3>2 DEF StandsIn
  <2> QED
    BY <1>3, <2>1, <2>2 DEF StandsIn
<1>4. ASSUME StandsIn(f, all, <<>>)
      PROVE  StandsIn(f, ls, h)
  <2>1. PICK i \in DOMAIN all : ~all[i].discarded /\ f \in Frags(all[i].line)
    BY <1>4 DEF StandsIn
  <2>2. CASE i \in DOMAIN ls
    BY <1>1, <2>1, <2>2 DEF StandsIn
  <2>3. CASE \E j \in DOMAIN h : i = Len(ls) + j
    BY <1>1, <2>1, <2>3 DEF StandsIn
  <2> QED
    BY <1>1, <2>2, <2>3
<1> QED
  BY <1>3, <1>4 DEF all

\* However a post goes, what stood still stands, is held or was dropped, what
\* was dropped and is inserted stands, and the newest line is still the newest.
LEMMA SendKeepsLines ==
    ASSUME CaptureInv, NEW h \in Seq(Lines), h # <<>>, Sending(h)
    PROVE  /\ \A f : StandsIn(f, lines, h) => StandsIn(f, lines', pending') \/ f \in dropped'
           /\ \A f \in dropped : StandsIn(f, lines', pending') \/ f \in dropped'
           /\ NewestLine(lines', pending', h[Len(h)], dropped', resent')
<1>0. /\ lines \in Seq(Row) /\ Len(h) \in DOMAIN h /\ Len(h) \in Nat \ {0}
      /\ h[Len(h)] \in Lines
  BY Types
<1>1. /\ h[Len(h)][2] \in Frags(h[Len(h)])
      /\ \A i \in DOMAIN h : Frags(h[i]) \subseteq FragsOf(h)
  BY <1>0, LineCovers DEF FragsOf
<1> DEFINE all == lines \o Fresh(h)
<1>2. /\ all \in Seq(Row) /\ Len(all) = Len(lines) + Len(h)
      /\ all[Len(lines) + Len(h)].line = h[Len(h)]
  BY <1>0, Appended
<1>3. \A f : StandsIn(f, lines, h) => StandsIn(f, all, <<>>)
  BY <1>0, StandsInserted
<1> HIDE DEF all
<1>4. all # <<>> /\ all[Len(all)].line = h[Len(h)]
  BY <1>0, <1>2
<1>5. /\ \A f, ls : StandsIn(f, ls, <<>>) => StandsIn(f, ls, h)
      /\ \A f \in FragsOf(h) : \A ls : StandsIn(f, ls, h)
  BY DEF StandsIn, FragsOf
<1>6. \A f : StandsIn(f, all, <<>>) => StandsIn(f, all, h)
  BY <1>5
<1>7. CASE lines' = lines /\ pending' = h /\ dropped' = dropped
  BY <1>7 DEF NewestLine
<1>8. CASE lines' = all /\ pending' \in {<<>>, h} /\ dropped' = dropped \ FragsOf(h)
  <2>1. \A f : StandsIn(f, lines, h) => StandsIn(f, lines', pending')
    BY <1>3, <1>6, <1>8
  <2>2. NewestLine(lines', pending', h[Len(h)], dropped', resent')
    BY <1>4, <1>8 DEF NewestLine
  <2> QED
    BY <1>5, <1>8, <2>1, <2>2
<1>9. CASE lines' = lines /\ pending' \in {<<>>, h} /\ dropped' = dropped \cup FragsOf(h)
  <2>1. ASSUME NEW f, StandsIn(f, lines, h)
        PROVE  StandsIn(f, lines', pending') \/ f \in dropped'
    <3>1. StandsIn(f, lines, <<>>) \/ f \in FragsOf(h)
      BY <2>1 DEF StandsIn, FragsOf
    <3> QED
      BY <1>5, <1>9, <3>1
  <2>2. NewestLine(lines', pending', h[Len(h)], dropped', resent')
    BY <1>0, <1>1, <1>9 DEF NewestLine
  <2> QED
    BY <1>9, <2>1, <2>2
<1> QED
  BY <1>7, <1>8, <1>9 DEF Sending, all

\* A box captured is in hand, and a line dropped for it is shed.
LEMMA CaptureKeepsLines ==
    ASSUME CaptureInv, KeptInv, NEW continuation \in BOOLEAN, Capture(continuation)
    PROVE  KeptInv'
<1>0. captured \in Nat /\ captured < MaxFragments /\ MaxFragments \in Nat
  BY Types DEF Capture
<1>1. /\ pc = "idle" /\ captured' = captured + 1
      /\ last' = last /\ pending' = pending /\ lines' = lines
      /\ shed' = shed /\ dropped' = dropped /\ astray' = astray /\ resent' = resent
  BY DEF Capture, server, history
<1>2. text = NoLine
  BY <1>1 DEF CaptureInv, Near
<1>3. Frags(text) = {}
  BY <1>2 DEF NoLine, Frags
<1>4. captured + 1 \in Frags(text')
  <2>1. text' \in Lines /\ text'[2] = captured + 1
    <3>1. CaptureInv'
      BY CaptureKeeps
    <3>2. pc' # "idle"
      BY DEF Capture
    <3> QED
      BY <1>1, <3>1, <3>2 DEF CaptureInv, TypeOK, Near, Lines
  <2>2. ASSUME NEW t \in Lines, t[2] = captured + 1
        PROVE  captured + 1 \in Frags(t)
    BY <2>2, LineCovers
  <2> QED
    BY <2>1, <2>2
<1>5. ASSUME NEW f \in 1..captured'
      PROVE  StandsIn(f, lines, pending) \/ f \in Frags(text') \/ f \in Lost
  <2>1. f \in 1..captured \/ f = captured + 1
    BY <1>0, <1>1
  <2> QED
    BY <1>3, <1>4, <2>1 DEF KeptInv, Accounted
<1>6. Accounted'
  BY <1>1, <1>5 DEF Accounted, Lost
<1> QED
  BY <1>1, <1>6 DEF KeptInv

\* The row flagged or the copy dropped is the previous line, whose text boxes
\* are in the line in hand; where it is another, the retract was misled.
LEMMA RetractKeepsLines ==
    ASSUME CaptureInv, KeptInv, Retract
    PROVE  KeptInv'
<1>0. /\ lines \in Seq(Row) /\ pending \in Seq(Lines) /\ captured \in Nat
      /\ Seen \in Int /\ Seen <= captured
  BY Types
<1>1. /\ pc = "retract" /\ pc' = "add" /\ text' = text /\ captured' = captured
      /\ shed' = shed
  BY DEF Retract
<1>2. TakingBack
  BY RetractComesTo
<1>3. dropped' = dropped /\ astray \subseteq astray'
  BY <1>2 DEF TakingBack
<1>4. /\ last # NoLine /\ last \in Lines /\ last[2] = Seen
      /\ text \in Lines /\ text[1] = last[1] /\ text[2] = captured
  BY <1>1, Types DEF CaptureInv, Near
<1>5. Frags(last) \subseteq Frags(text)
  <2>1. /\ Frags(last) = last[1]..last[2] /\ Frags(text) = text[1]..text[2]
        /\ last[1] \in Nat /\ last[2] \in Nat
    BY <1>4, LineCovers
  <2> QED
    BY <1>0, <1>4, <2>1
<1>6. NewestLine(lines, pending, last, dropped, resent)
  BY <1>1, <1>4 DEF KeptInv
<1>7. ASSUME NEW f \in 1..captured
      PROVE  StandsIn(f, lines', pending') \/ f \in Frags(text) \/ f \in Lost'
  <2>1. CASE f \in Frags(text) \/ f \in Lost
    BY <1>1, <1>3, <2>1 DEF Lost
  <2>2. CASE lines' = lines /\ pending' = pending
    BY <1>1, <1>3, <2>2 DEF KeptInv, Accounted, Lost
  <2>3. CASE /\ pending # <<>> /\ pending' = Front(pending) /\ lines' = lines
             /\ f \notin Frags(text) /\ f \notin Lost
    <3>1. CASE \E i \in DOMAIN lines : ~lines[i].discarded /\ f \in Frags(lines[i].line)
      BY <2>3, <3>1 DEF StandsIn
    <3>2. CASE \E i \in DOMAIN pending : f \in Frags(pending[i])
      <4>1. PICK i \in DOMAIN pending : f \in Frags(pending[i])
        BY <3>2
      <4>2. i # Len(pending)
        BY <1>5, <1>6, <2>3, <4>1 DEF NewestLine
      <4>3. i \in DOMAIN Front(pending) /\ Front(pending)[i] = pending[i]
        BY <1>0, <2>3, <4>2, FrontOf
      <4> QED
        BY <2>3, <4>1, <4>3 DEF StandsIn
    <3> QED
      BY <2>3, <3>1, <3>2 DEF KeptInv, Accounted, StandsIn
  <2>4. CASE /\ pending = <<>> /\ pending' = <<>> /\ lines' = Retracted(lines)
             /\ astray' = astray \cup (IF Misled(FALSE) THEN Taken ELSE {})
             /\ f \notin Frags(text) /\ f \notin Lost
    <3>1. PICK i \in DOMAIN lines : ~lines[i].discarded /\ f \in Frags(lines[i].line)
      <4>1. DOMAIN pending = {}
        BY <2>4
      <4> QED
        BY <2>4, <4>1 DEF KeptInv, Accounted, StandsIn
    <3>2. CASE i # Len(lines)
      <4>1. /\ Retracted(lines) \in Seq(Row) /\ Len(Retracted(lines)) = Len(lines)
            /\ Retracted(lines)[i] = lines[i]
        BY <1>0, <3>2, RetractedRows
      <4>2. i \in DOMAIN Retracted(lines)
        BY <1>0, <4>1
      <4> QED
        BY <2>4, <3>1, <4>1, <4>2 DEF StandsIn
    <3>3. CASE i = Len(lines)
      <4>1. lines # <<>> /\ Last(lines) = lines[Len(lines)]
        BY <3>1 DEF Last
      <4>2. lines[Len(lines)].line # last
        BY <1>5, <2>4, <3>1, <3>3
      <4>3. Misled(FALSE)
        BY <1>6, <2>4, <4>1, <4>2 DEF NewestLine, Misled
      <4>4. FragsOf(pending) = {}
        BY <2>4 DEF FragsOf
      <4>5. f \in Taken
        BY <2>4, <3>1, <3>3, <4>1, <4>4, TakenIs
      <4> QED
        BY <2>4, <4>3, <4>5 DEF Lost
    <3> QED
      BY <3>2, <3>3
  <2> QED
    BY <1>2, <2>1, <2>2, <2>3, <2>4 DEF TakingBack
<1>8. Accounted'
  BY <1>1, <1>7 DEF Accounted
<1> QED
  BY <1>1, <1>8 DEF KeptInv

\* What MAX_PENDING cuts is shed; the rest is sent, and the line in hand last.
LEMMA AddKeepsLines ==
    ASSUME CaptureInv, KeptInv, Add
    PROVE  KeptInv'
<1>0. /\ lines \in Seq(Row) /\ pending \in Seq(Lines) /\ quiet \in BOOLEAN
  BY Types
<1>1. /\ pc = "add" /\ pc' = "idle" /\ captured' = captured
      /\ last' = text /\ text' = NoLine
      /\ shed' = shed \cup (FragsOf(Held) \ FragsOf(Newest(Held)))
      /\ Send(Newest(Held))
  BY DEF Add
<1> DEFINE h == Newest(Held)
<1>2. /\ text \in Lines /\ Held \in Seq(Lines) /\ Held # <<>>
      /\ Len(Held) = Len(pending) + 1 /\ Held[Len(Held)] = text
      /\ \A i \in DOMAIN pending : i \in DOMAIN Held /\ Held[i] = pending[i]
  BY <1>0, <1>1, HeldIs
<1>3. h \in Seq(Lines) /\ h # <<>> /\ h[Len(h)] = text
  <2>1. /\ h \in Seq(Lines) /\ h # <<>>
        /\ \A i \in DOMAIN h : h[i] = Held[Len(Held) - Len(h) + i]
    BY <1>2, NewestOf
  <2>2. Len(h) \in DOMAIN h /\ Len(Held) \in Nat /\ Len(h) \in Nat
    BY <1>2, <2>1
  <2>3. Len(Held) - Len(h) + Len(h) = Len(Held)
    BY <2>2
  <2> HIDE DEF h
  <2>4. h[Len(h)] = Held[Len(Held) - Len(h) + Len(h)]
    BY <2>1, <2>2
  <2> QED
    BY <1>2, <2>1, <2>3, <2>4
<1>4. Sending(h)
  BY <1>0, <1>1, SendComesTo
<1>5. astray' = astray
  BY <1>4 DEF Sending
<1>6. FragsOf(pending) \cup Frags(text) \subseteq FragsOf(Held)
  <2>1. Len(Held) \in DOMAIN Held
    BY <1>2
  <2> QED
    BY <1>2, <2>1 DEF FragsOf
<1>7. shed' = shed \cup (FragsOf(Held) \ FragsOf(h))
  BY <1>1
<1> HIDE DEF h
<1>8. /\ \A f : StandsIn(f, lines, h) => StandsIn(f, lines', pending') \/ f \in dropped'
      /\ \A f \in dropped : StandsIn(f, lines', pending') \/ f \in dropped'
      /\ NewestLine(lines', pending', text, dropped', resent')
  BY <1>3, <1>4, SendKeepsLines
<1>9. ASSUME NEW f \in 1..captured
      PROVE  StandsIn(f, lines', pending') \/ f \in Lost'
  <2>1. CASE f \in FragsOf(Held)
    <3>1. f \in FragsOf(h) => StandsIn(f, lines, h)
      BY DEF FragsOf, StandsIn
    <3> QED
      BY <1>7, <1>8, <2>1, <3>1 DEF Lost
  <2>2. CASE f \notin FragsOf(Held)
    <3>1. f \notin Frags(text) /\ f \notin FragsOf(pending)
      BY <1>6, <2>2
    <3>2. StandsIn(f, lines, pending) \/ f \in shed \/ f \in dropped \/ f \in astray
      BY <3>1 DEF KeptInv, Accounted, Lost
    <3>3. StandsIn(f, lines, pending) => StandsIn(f, lines, h)
      BY <3>1 DEF StandsIn, FragsOf
    <3> QED
      BY <1>5, <1>7, <1>8, <3>2, <3>3 DEF Lost
  <2> QED
    BY <2>1, <2>2
<1>10. Accounted'
  BY <1>1, <1>9 DEF Accounted
<1> QED
  BY <1>1, <1>8, <1>10 DEF KeptInv

\* A flush moves what is held to the ledger or keeps it.
LEMMA BeatKeepsLines ==
    ASSUME CaptureInv, KeptInv, Beat
    PROVE  KeptInv'
<1>0. lines \in Seq(Row) /\ pending \in Seq(Lines) /\ quiet \in BOOLEAN
  BY Types
<1>1. /\ pc = "idle" /\ pc' = pc /\ captured' = captured /\ last' = last
      /\ text' = text /\ shed' = shed
      /\ pending # <<>> /\ Send(pending)
  BY DEF Beat
<1>2. Sending(pending)
  BY <1>0, <1>1, SendComesTo
<1>3. astray' = astray
  BY <1>2 DEF Sending
<1>4. /\ \A f : StandsIn(f, lines, pending) => StandsIn(f, lines', pending') \/ f \in dropped'
      /\ \A f \in dropped : StandsIn(f, lines', pending') \/ f \in dropped'
      /\ NewestLine(lines', pending', pending[Len(pending)], dropped', resent')
  BY <1>0, <1>1, <1>2, SendKeepsLines
<1>5. last # NoLine => pending[Len(pending)] = last
  BY <1>1 DEF KeptInv, NewestLine
<1>6. Accounted'
  BY <1>1, <1>3, <1>4 DEF KeptInv, Accounted, Lost
<1> QED
  BY <1>1, <1>4, <1>5, <1>6 DEF KeptInv

\* A request that comes late inserts behind all that stands, or is dropped, or
\* takes a line it was not meant for.
LEMMA ArriveKeepsLines ==
    ASSUME CaptureInv, KeptInv, Arrive
    PROVE  KeptInv'
<1>0. /\ lines \in Seq(Row) /\ pending \in Seq(Lines) /\ wire \subseteq Request
  BY Types
<1>1. PICK request \in wire :
         /\ Apply(request, TRUE)
         /\ resent' = resent \cup FragsOf(request.lines)
         /\ UNCHANGED <<logger, shed>>
  BY DEF Arrive
<1> DEFINE h == request.lines
<1>2. h \in Seq(Lines)
  BY <1>0 DEF Request
<1>3. /\ captured' = captured /\ pending' = pending /\ last' = last /\ text' = text
      /\ pc' = pc /\ shed' = shed /\ resent' = resent \cup FragsOf(h)
  BY <1>1 DEF logger
<1>4. \/ /\ lines' = Retracted(lines) /\ dropped' = dropped
         /\ astray' = astray \cup Taken
      \/ lines' = lines /\ dropped' = dropped \cup FragsOf(h) /\ astray' = astray
      \/ lines' = lines \o Fresh(h) /\ dropped' = dropped \ FragsOf(h) /\ astray' = astray
  BY <1>1 DEF Apply, Misled
<1> HIDE DEF h
<1>5. CASE lines' = lines /\ dropped' = dropped \cup FragsOf(h) /\ astray' = astray
  <2>1. Accounted'
    BY <1>3, <1>5 DEF KeptInv, Accounted, Lost
  <2>2. pc' # "add" /\ last' # NoLine => NewestLine(lines', pending', last', dropped', resent')
    BY <1>3, <1>5 DEF KeptInv, NewestLine
  <2> QED
    BY <2>1, <2>2 DEF KeptInv
<1>6. CASE /\ lines' = Retracted(lines) /\ dropped' = dropped
           /\ astray' = astray \cup Taken
  <2>1. /\ lines' \in Seq(Row) /\ Len(lines') = Len(lines)
        /\ \A i \in DOMAIN lines : /\ lines'[i].line = lines[i].line
                                   /\ i # Len(lines) => lines'[i] = lines[i]
    BY <1>0, <1>6, RetractedRows
  <2>2. DOMAIN lines' = DOMAIN lines /\ (lines # <<>> => lines' # <<>> /\ Len(lines) \in DOMAIN lines)
    BY <1>0, <2>1
  <2>3. pc' # "add" /\ last' # NoLine => NewestLine(lines', pending', last', dropped', resent')
    <3>1. lines # <<>> => lines'[Len(lines')].line = lines[Len(lines)].line
      BY <2>1, <2>2
    <3> QED
      BY <1>3, <1>6, <2>2, <3>1 DEF KeptInv, NewestLine
  <2>4. ASSUME NEW f \in 1..captured
        PROVE  StandsIn(f, lines', pending) \/ f \in Frags(text) \/ f \in Lost'
    <3>1. CASE f \in Frags(text) \/ f \in Lost
      BY <1>3, <1>6, <3>1 DEF Lost
    <3>2. CASE \E i \in DOMAIN pending : f \in Frags(pending[i])
      BY <3>2 DEF StandsIn
    <3>3. CASE \E i \in DOMAIN lines : ~lines[i].discarded /\ f \in Frags(lines[i].line)
      <4>1. PICK i \in DOMAIN lines : ~lines[i].discarded /\ f \in Frags(lines[i].line)
        BY <3>3
      <4>2. CASE i # Len(lines)
        BY <2>1, <2>2, <4>1, <4>2 DEF StandsIn
      <4>3. CASE i = Len(lines)
        <5>1. f \in Taken \cup Frags(text) \cup FragsOf(pending)
          BY <4>1, <4>3, TakenIs
        <5>2. f \in FragsOf(pending) => StandsIn(f, lines', pending)
          BY DEF FragsOf, StandsIn
        <5> QED
          BY <1>6, <5>1, <5>2 DEF Lost
      <4> QED
        BY <4>2, <4>3
    <3> QED
      BY <3>1, <3>2, <3>3 DEF KeptInv, Accounted, StandsIn
  <2>5. Accounted'
    BY <1>3, <2>4 DEF Accounted
  <2> QED
    BY <2>3, <2>5 DEF KeptInv
<1>7. CASE lines' = lines \o Fresh(h) /\ dropped' = dropped \ FragsOf(h) /\ astray' = astray
  <2> DEFINE all == lines \o Fresh(h)
  <2>0. Len(h) \in Nat
    BY <1>2
  <2>1. /\ all \in Seq(Row) /\ Len(all) = Len(lines) + Len(h)
        /\ \A i \in DOMAIN lines : all[i] = lines[i]
        /\ \A i \in DOMAIN h : all[Len(lines) + i].line = h[i]
    BY <1>0, <1>2, Appended
  <2>2. /\ \A f : StandsIn(f, lines, h) => StandsIn(f, all, <<>>)
    BY <1>0, <1>2, StandsInserted
  <2> HIDE DEF all
  <2>3. /\ \A f : StandsIn(f, lines, pending)
                   => StandsIn(f, lines, h) \/ \E i \in DOMAIN pending : f \in Frags(pending[i])
        /\ \A f \in FragsOf(h) : StandsIn(f, lines, h)
        /\ \A f : StandsIn(f, all, <<>>) => StandsIn(f, all, pending)
    BY DEF StandsIn, FragsOf
  <2>4. \A f : StandsIn(f, lines, pending) \/ f \in FragsOf(h) => StandsIn(f, all, pending)
    BY <2>2, <2>3 DEF StandsIn
  <2>5. lines' = all
    BY <1>7 DEF all
  <2>6. Accounted'
    BY <1>3, <1>7, <2>4, <2>5 DEF KeptInv, Accounted, Lost
  <2>7. CASE h = <<>>
    <3>1. FragsOf(h) = {} /\ Len(all) = Len(lines)
      BY <1>0, <2>1, <2>7 DEF FragsOf
    <3>2. lines # <<>> => all # <<>> /\ all[Len(all)] = lines[Len(lines)]
      BY <1>0, <2>1, <3>1
    <3>3. pc' # "add" /\ last' # NoLine => NewestLine(lines', pending', last', dropped', resent')
      BY <1>3, <1>7, <2>5, <3>1, <3>2 DEF KeptInv, NewestLine
    <3> QED
      BY <2>6, <3>3 DEF KeptInv
  <2>8. CASE h # <<>>
    <3>1. Len(h) \in DOMAIN h /\ all # <<>>
      BY <1>0, <1>2, <2>0, <2>1, <2>8
    <3>2. all[Len(all)].line = h[Len(h)]
      BY <2>1, <3>1
    <3>3. Frags(all[Len(all)].line) \cap resent' # {}
      BY <1>2, <1>3, <3>1, <3>2, SentIsHit
    <3>4. pc' # "add" /\ last' # NoLine => NewestLine(lines', pending', last', dropped', resent')
      BY <1>3, <2>5, <3>1, <3>3 DEF KeptInv, NewestLine
    <3> QED
      BY <2>6, <3>4 DEF KeptInv
  <2> QED
    BY <2>7, <2>8
<1> QED
  BY <1>4, <1>5, <1>6, <1>7

\* A logger that dies sheds what it holds and has in hand.
LEMMA CrashKeepsLines ==
    ASSUME CaptureInv, KeptInv, Crash
    PROVE  KeptInv'
<1>1. /\ captured' = captured /\ last' = NoLine /\ text' = NoLine
      /\ pending' = <<>> /\ lines' = lines
      /\ dropped' = dropped /\ astray' = astray
      /\ shed' = shed \cup FragsOf(pending) \cup Frags(text)
  BY DEF Crash, server
<1>2. ASSUME NEW f \in 1..captured
      PROVE  StandsIn(f, lines, <<>>) \/ f \in Lost'
  <2>1. StandsIn(f, lines, pending) => StandsIn(f, lines, <<>>) \/ f \in FragsOf(pending)
    BY DEF StandsIn, FragsOf
  <2> QED
    BY <1>1, <2>1 DEF KeptInv, Accounted, Lost
<1>3. Accounted'
  BY <1>1, <1>2 DEF Accounted
<1> QED
  BY <1>1, <1>3 DEF KeptInv

\* Each box stays accounted for, and the newest row is the line on screen.
LEMMA KeptInvariant == Spec => []KeptInv
<1>1. Init => KeptInv
  <2> SUFFICES ASSUME Init
               PROVE  KeptInv
    OBVIOUS
  <2>1. captured = 0 /\ last = NoLine
    BY DEF Init
  <2>2. 1..captured = {}
    BY <2>1
  <2> QED
    BY <2>1, <2>2 DEF KeptInv, Accounted
<1>2. CaptureInv /\ KeptInv /\ [Next]_vars => KeptInv'
  <2> SUFFICES ASSUME CaptureInv, KeptInv, [Next]_vars
               PROVE  KeptInv'
    OBVIOUS
  <2>1. CASE UNCHANGED <<captured, lines, pending, last, text, pc,
                         shed, dropped, resent, astray>>
    BY <2>1 DEF KeptInv, Accounted, Lost
  <2>2. CASE \E continuation \in BOOLEAN : Capture(continuation)
    BY <2>2, CaptureKeepsLines
  <2>3. CASE Retract
    BY <2>3, RetractKeepsLines
  <2>4. CASE Add
    BY <2>4, AddKeepsLines
  <2>5. CASE Beat
    BY <2>5, BeatKeepsLines
  <2>6. CASE Arrive
    BY <2>6, ArriveKeepsLines
  <2>7. CASE Crash
    BY <2>7, CrashKeepsLines
  <2> QED
    BY <2>1, <2>2, <2>3, <2>4, <2>5, <2>6, <2>7
       DEF Next, Heartbeat, ReadSettings, Probe, Expire, TogglePause,
           Settle, logger, server, history, vars
<1> QED
  BY CaptureInvariant, <1>1, <1>2, PTL DEF Spec

\* Every text box captured stands, is held, is in hand, or was shed, paused away
\* or taken by a retract that was not meant for it: NothingVanishes of
\* CaptureSink, with nothing asked of the constants.
THEOREM EveryBoxAccountedFor == Spec => []NothingVanishes
<1>1. CaptureInv /\ KeptInv => NothingVanishes
  <2> SUFFICES ASSUME CaptureInv, KeptInv
               PROVE  NothingVanishes
    OBVIOUS
  <2>0. lines \in Seq(Row) /\ pending \in Seq(Lines)
    BY Types
  <2>1. /\ Rows \in Seq(Row) /\ Len(Rows) = Len(lines) + Len(pending)
        /\ \A i \in DOMAIN lines : Rows[i] = lines[i]
        /\ \A i \in DOMAIN pending : /\ Rows[Len(lines) + i].line = pending[i]
                                     /\ ~Rows[Len(lines) + i].discarded
    BY <2>0, Appended DEF Rows
  <2>2. ASSUME NEW f, StandsIn(f, lines, pending)
        PROVE  \E i \in Standing : f \in Frags(Rows[i].line)
    <3>1. DOMAIN Rows = 1..(Len(lines) + Len(pending))
      BY <2>1
    <3>2. CASE \E i \in DOMAIN lines : ~lines[i].discarded /\ f \in Frags(lines[i].line)
      <4>1. PICK i \in DOMAIN lines : ~lines[i].discarded /\ f \in Frags(lines[i].line)
        BY <3>2
      <4>2. i \in DOMAIN Rows
        BY <2>0, <3>1
      <4>3. Rows[i] = lines[i]
        BY <2>1
      <4> QED
        BY <4>1, <4>2, <4>3 DEF Standing
    <3>3. CASE \E i \in DOMAIN pending : f \in Frags(pending[i])
      <4>1. PICK i \in DOMAIN pending : f \in Frags(pending[i])
        BY <3>3
      <4>2. Len(lines) + i \in DOMAIN Rows
        BY <2>0, <3>1
      <4>3. /\ Rows[Len(lines) + i].line = pending[i]
            /\ ~Rows[Len(lines) + i].discarded
        BY <2>1
      <4> QED
        BY <4>1, <4>2, <4>3 DEF Standing
    <3> QED
      BY <2>2, <3>2, <3>3 DEF StandsIn
  <2>3. 1..captured \subseteq (UNION {Frags(Rows[i].line) : i \in Standing})
                                \cup Frags(text) \cup shed \cup dropped \cup astray
    BY <2>2 DEF KeptInv, Accounted, Lost
  <2> QED
    BY <2>3 DEF CaptureInv, NothingVanishes
<1> QED
  BY CaptureInvariant, KeptInvariant, <1>1, PTL

\* The row a retract flags is the line the capture in hand continues, unless
\* nobody waited for it, that line was paused away, or the row is of a post that
\* was sent again: RetractsItsOwn of CaptureSink, with nothing asked of the
\* constants.
THEOREM RetractsOnlyItsOwn == Spec => RetractsItsOwn
<1> DEFINE Own == \A i \in DOMAIN lines :
                    lines'[i].discarded /\ ~lines[i].discarded =>
                        \/ lines[i].line = last
                        \/ wire' # wire
                        \/ Frags(last) \cap dropped # {}
                        \/ Frags(lines[i].line) \cap resent # {}
<1>1. CaptureInv /\ KeptInv /\ [Next]_vars => [Own]_vars
  <2> SUFFICES ASSUME CaptureInv, KeptInv, [Next]_vars
               PROVE  Own
    OBVIOUS
  <2>0. lines \in Seq(Row) /\ pending \in Seq(Lines) /\ quiet \in BOOLEAN
    BY Types
  <2>1. CASE lines' = lines
    BY <2>1
  <2>2. CASE Retract
    <3>1. pc = "retract" /\ last # NoLine /\ TakingBack
      BY <2>2, RetractComesTo DEF Retract, CaptureInv, Near
    <3>2. NewestLine(lines, pending, last, dropped, resent)
      BY <3>1 DEF KeptInv
    <3>3. CASE pending = <<>> /\ lines' = Retracted(lines)
      <4>1. \A i \in DOMAIN lines : i # Len(lines) => lines'[i] = lines[i]
        BY <2>0, <3>3, RetractedRows
      <4> QED
        BY <3>2, <3>3, <4>1 DEF NewestLine
    <3> QED
      BY <2>1, <3>1, <3>3 DEF TakingBack
  <2>3. ASSUME NEW h \in Seq(Lines), Sending(h)
        PROVE  Own
    <3>1. \A i \in DOMAIN lines : (lines \o Fresh(h))[i] = lines[i]
      BY <2>0, Appended
    <3>2. lines' = lines \/ lines' = lines \o Fresh(h)
      BY <2>3 DEF Sending
    <3> QED
      BY <3>1, <3>2
  <2>4. CASE Add
    <3>1. pc = "add" /\ Send(Newest(Held))
      BY <2>4 DEF Add
    <3>2. Newest(Held) \in Seq(Lines)
      BY <3>1, HeldIs, NewestOf
    <3> QED
      BY <2>0, <2>3, <3>1, <3>2, SendComesTo
  <2>5. CASE Beat
    BY <2>0, <2>3, <2>5, SendComesTo DEF Beat
  <2>6. CASE Arrive
    <3>1. wire # {} /\ wire' = {}
      BY <2>6 DEF Arrive
    <3> QED
      BY <3>1
  <2> QED
    BY <2>1, <2>2, <2>4, <2>5, <2>6
       DEF Next, Capture, Heartbeat, ReadSettings, Probe, Expire, TogglePause,
           Settle, Crash, logger, server, history, vars
<1> QED
  BY CaptureInvariant, KeptInvariant, <1>1, PTL DEF Spec, RetractsItsOwn
=============================================================================
