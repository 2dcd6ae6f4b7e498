--------------------------- MODULE MiningQueueProofs ---------------------------
(***************************************************************************)
(* MiningQueue, and CardAdd under it, for any number of lines, adds and    *)
(* refreshes: a row that is offered has its media, says what became of its *)
(* card, is made one card of, and a card reported complete has its media.  *)
(***************************************************************************)
EXTENDS MiningQueue, TLAPS

---------------------------------------------------------------------------
(* The invariant.                                                          *)

\* An add and the request under it: a promote sends once it has read its row,
\* ends once it was answered, and what follows a card follows one that was
\* answered for.
AddOk(a) ==
    /\ a \in made => step[a] # "idle"
    /\ step[a] = "added" => a \in made
    /\ from[a] = Ring <=> promote[a] = "idle"
    /\ promote[a] = "read" => step[a] = "idle"
    /\ promote[a] = "over" => ~InFlight(a)
    /\ from[a] # Ring => row[from[a]] # "none"
    /\ \A kind \in {"mirror", "enrich", "finish", "lacking"} : <<kind, a>> \in task => step[a] = "added"
    /\ a \in told => step[a] = "added"

\* A line whose media are taken and whose row is still to come has them, and
\* those that are being removed are of a row that was resolved.
LineOk(l) ==
    /\ row[l] = "pending" => l \in files \cup raced
    /\ capture[l] = "saved" => l \in files \cup raced \/ row[l] # "none"
    /\ l \in removing => row[l] \in {"promoted", "discarded"}
    /\ row[l] = "promoted" => \E a \in CardsOf(l) : step[a] = "added"
    /\ row[l] = "pending" => \A a \in CardsOf(l) :
         AtWork(a) \/ step[a] # "added" \/ a \in unresolved

\* A promote that ended without a card it knows of, or was cut off before it
\* could resolve the row.
Spent(a) == promote[a] = "over" /\ (step[a] # "added" \/ a \in unresolved)
\* Two promotes of a line were at work together, or one of them is spent.
PairOk(a, b) ==
    a # b /\ from[a] = from[b] /\ from[a] # Ring => {a, b} \subseteq rival \/ Spent(a) \/ Spent(b)

\* Somebody else had the line in hand while the add did.
Disturbed(a) == a \in touched \cup rival
\* A promote has had what it needs of its row and its files, and so has the
\* capture that follows it; what is told of was given its media.
PromoteOk(a) == from[a] # Ring =>
    /\ promote[a] = "read" => row[from[a]] = "pending" \/ Disturbed(a)
    /\ promote[a] = "sent" \/ <<"enrich", a>> \in task => a \in paths \/ Disturbed(a)
    /\ AtWork(a) \/ <<"enrich", a>> \in task =>
         from[a] \in files \cup raced \/ Disturbed(a)
    /\ from[a] \in removing => Disturbed(a)
\* What is told of, or about to be, was given its media.
ReportOk(a) == <<"finish", a>> \in task \/ a \in told =>
    a \in media \/ Disturbed(a) \/ from[a] \in raced

AddsOk     == \A a \in Adds : AddOk(a)
LinesOk    == \A l \in Lines : LineOk(l)
PairsOk    == \A a, b \in Adds : PairOk(a, b)
PromotesOk == \A a \in Adds : PromoteOk(a)
ReportsOk  == \A a \in Adds : ReportOk(a)

QueueInv == TypeOK /\ AddsOk /\ LinesOk /\ PairsOk /\ PromotesOk /\ ReportsOk

---------------------------------------------------------------------------
(* The types.                                                              *)

\* What the steps of adds and refreshes keep.
LEMMA CardTypes ==
    ASSUME CardTypeOK, CardNext
    PROVE  CardTypeOK'
<1>1. ASSUME NEW a \in Adds, Answered(a) PROVE CardTypeOK'
    <2>1. step' \in [Adds -> Steps] /\ word' = word
        BY <1>1 DEF Answered, Moved, CardTypeOK, Steps
    <2>2. notes' \subseteq made' /\ made' \subseteq Adds
        BY <1>1 DEF Answered, Applied, CardTypeOK
    <2>3. task' \subseteq Tasks
        BY <1>1 DEF Answered, CardTypeOK, Tasks
    <2> QED
        BY <1>1, <2>1, <2>2, <2>3 DEF Answered, copy, CardTypeOK
<1>2. ASSUME NEW a \in Adds, Lost(a) PROVE CardTypeOK'
    <2>1. step' \in [Adds -> Steps] /\ word' = word
        BY <1>2 DEF Lost, AfterLoss, Moved, CardTypeOK, Steps
    <2>2. notes' \subseteq made' /\ made' \subseteq Adds
        BY <1>2 DEF Lost, Applied, anki, CardTypeOK
    <2> QED
        BY <1>2, <2>1, <2>2 DEF Lost, effect, copy, CardTypeOK
<1>3. ASSUME NEW a \in Adds, MirrorAdded(a) \/ EnrichFinish(a) \/ DeleteNote(a) PROVE CardTypeOK'
    BY <1>3 DEF MirrorAdded, EnrichFinish, DeleteNote, Ended, request, anki, effect, copy, CardTypeOK
<1>4. ASSUME NEW r \in Refreshers, RefreshList(r) \/ RefreshRead(r) PROVE CardTypeOK'
    <2>1. /\ deck' \in [Refreshers -> SUBSET Adds] /\ at' \in [Refreshers -> {"idle", "listed", "read"}]
          /\ UNCHANGED <<request, anki, effect, mirror>>
        BY <1>4 DEF RefreshList, RefreshRead, CardTypeOK
    <2> QED
        BY <2>1 DEF request, anki, effect, CardTypeOK
<1>5. ASSUME NEW r \in Refreshers, RefreshStore(r) \/ RefreshFail(r) PROVE CardTypeOK'
    <2>1. /\ deck' \in [Refreshers -> SUBSET Adds] /\ at' \in [Refreshers -> {"idle", "listed", "read"}]
          /\ mirror' \subseteq Adds /\ UNCHANGED <<request, anki, effect>>
        BY <1>5 DEF RefreshStore, RefreshFail, Replacement, CardTypeOK
    <2> QED
        BY <2>1 DEF request, anki, effect, CardTypeOK
<1> QED
    BY <1>1, <1>2, <1>3, <1>4, <1>5 DEF CardNext

\* What of a card the queue's own steps change.
LEMMA SendTypes ==
    ASSUME CardTypeOK, NEW a, Send(a), UNCHANGED <<anki, effect, copy>>
    PROVE  CardTypeOK'
<1>1. step' \in [Adds -> Steps]
    BY DEF Send, CardTypeOK, Steps
<1> QED
    BY <1>1 DEF Send, anki, effect, copy, CardTypeOK

\* The card's capture keeps the types.
LEMMA EnrichTypes ==
    ASSUME CardTypeOK, NEW a \in Adds, NEW found, EnrichCapture(a, found)
    PROVE  CardTypeOK'
<1>1. task' \subseteq Tasks /\ media' \subseteq Adds
    BY DEF EnrichCapture, CardTypeOK, Tasks
<1> QED
    BY <1>1 DEF EnrichCapture, request, anki, copy, CardTypeOK

\* A dropped request keeps the types.
LEMMA AbandonTypes ==
    ASSUME CardTypeOK, NEW a \in Adds, Abandoned(a)
    PROVE  CardTypeOK'
<1>1. step' \in [Adds -> Steps] /\ word' = word
    BY DEF Abandoned, Moved, CardTypeOK, Steps
<1>2. notes' \subseteq made' /\ made' \subseteq Adds
    BY DEF Abandoned, Applied, anki, CardTypeOK
<1> QED
    BY <1>1, <1>2 DEF Abandoned, effect, copy, CardTypeOK

\* A crash keeps the types.
LEMMA CrashTypes ==
    ASSUME CardTypeOK, CardCrash
    PROVE  CardTypeOK'
<1>1. step' \in [Adds -> Steps]
    BY DEF CardCrash, CardTypeOK, Steps
<1> QED
    BY <1>1 DEF CardCrash, anki, CardTypeOK

\* The media that are taken keep the types.
LEMMA CaptureTypes ==
    ASSUME TypeOK, NEW l \in Lines,
           \/ Age(l) \/ Ask(l) \/ Shoot(l) \/ ShotTaken(l) \/ GiveUp(l) \/ StrayEnds(l) \/ Enqueue(l)
    PROVE  TypeOK'
<1>1. UNCHANGED <<cardVars, handlers, past, crashed>>
    BY DEF Age, Ask, Shoot, ShotTaken, GiveUp, StrayEnds, Enqueue
<1>2. /\ capture' \in [Lines -> {"unread", "waiting", "shooting", "saved", "over"}]
      /\ stray' \cup tooOld' \cup files' \subseteq Lines
    BY DEF Age, Ask, Shoot, ShotTaken, GiveUp, StrayEnds, Enqueue, At, rows, TypeOK
<1>3. row' \in [Lines -> {"none", "pending", "promoted", "discarded"}]
    BY DEF Age, Ask, Shoot, ShotTaken, GiveUp, StrayEnds, Enqueue, At, rows, TypeOK
<1>4. CardTypeOK'
    BY <1>1 DEF cardVars, TypeOK, CardTypeOK
<1> QED
    BY <1>1, <1>2, <1>3, <1>4 DEF handlers, past, TypeOK

\* The promotes keep the types.
LEMMA PromoteTypes ==
    ASSUME TypeOK, NEW a \in Adds,
           \/ \E l \in Lines : PromoteRead(a, l)
           \/ PromoteSend(a) \/ PromoteEnd(a) \/ PromoteDropped(a)
           \/ Mine(a) \/ MineDropped(a)
           \/ EnrichCapture(a, Found(a)) /\ UNCHANGED queueVars
    PROVE  TypeOK'
<1>1. CASE \E l \in Lines : PromoteRead(a, l)
    <2>1. PICK l \in Lines : PromoteRead(a, l)
        BY <1>1
    <2>2. promote' \in [Adds -> {"idle", "read", "sent", "over"}] /\ from' \in [Adds -> Lines \cup {Ring}]
        BY <2>1 DEF PromoteRead, TypeOK
    <2>3. rival' \subseteq Adds
        BY <2>1 DEF PromoteRead, TypeOK
    <2> QED
        BY <2>1, <2>2, <2>3 DEF PromoteRead, cardVars, shooting, rows, TypeOK, CardTypeOK
<1>2. CASE PromoteSend(a)
    <2>1. CardTypeOK'
        BY <1>2, SendTypes DEF PromoteSend, TypeOK
    <2>2. promote' \in [Adds -> {"idle", "read", "sent", "over"}] /\ paths' \subseteq Adds
        BY <1>2 DEF PromoteSend, TypeOK
    <2> QED
        BY <1>2, <2>1, <2>2 DEF PromoteSend, shooting, rows, past, TypeOK
<1>3. CASE PromoteEnd(a)
    <2>1. promote' \in [Adds -> {"idle", "read", "sent", "over"}]
        BY <1>3 DEF PromoteEnd, TypeOK
    <2>2. row' \in [Lines -> {"none", "pending", "promoted", "discarded"}]
        BY <1>3 DEF PromoteEnd, Resolved, TypeOK
    <2> QED
        BY <1>3, <2>1, <2>2 DEF PromoteEnd, cardVars, shooting, past, TypeOK, CardTypeOK
<1>4. CASE Mine(a)
    BY <1>4, SendTypes DEF Mine, queueVars, shooting, rows, handlers, past, TypeOK
<1>5. CASE EnrichCapture(a, Found(a)) /\ UNCHANGED queueVars
    BY <1>5, EnrichTypes DEF queueVars, shooting, rows, handlers, past, TypeOK
<1>6. CASE PromoteDropped(a)
    <2>1. CardTypeOK'
        BY <1>6, AbandonTypes DEF PromoteDropped, cardVars, TypeOK, CardTypeOK
    <2>2. promote' \in [Adds -> {"idle", "read", "sent", "over"}] /\ unresolved' \subseteq Adds
        BY <1>6 DEF PromoteDropped, Carded, TypeOK
    <2> QED
        BY <1>6, <2>1, <2>2 DEF PromoteDropped, shooting, rows, TypeOK
<1>7. CASE MineDropped(a)
    BY <1>7, AbandonTypes DEF MineDropped, queueVars, shooting, rows, handlers, past, TypeOK
<1> QED
    BY <1>1, <1>2, <1>3, <1>4, <1>5, <1>6, <1>7

\* Discards, clears and crashes keep the types.
LEMMA DiscardTypes ==
    ASSUME TypeOK,
           \/ \E l \in Lines : DiscardResolve(l) \/ DiscardRemove(l) \/ DiscardLeaves(l)
           \/ ClearResolve \/ ClearRemove \/ ClearLeaves \/ Crash
    PROVE  TypeOK'
<1>1. ASSUME NEW l \in Lines, DiscardResolve(l) \/ DiscardRemove(l) PROVE TypeOK'
    <2>1. row' \in [Lines -> {"none", "pending", "promoted", "discarded"}]
        BY <1>1 DEF DiscardResolve, DiscardRemove, Resolved, TypeOK
    <2>2. files' \subseteq Lines /\ removing' \subseteq Lines /\ touched' \subseteq Adds
        BY <1>1 DEF DiscardResolve, DiscardRemove, Since, past, TypeOK
    <2> QED
        BY <1>1, <2>1, <2>2 DEF DiscardResolve, DiscardRemove, cardVars, shooting, past, TypeOK, CardTypeOK
<1>2. CASE ClearResolve
    <2>1. row' \in [Lines -> {"none", "pending", "promoted", "discarded"}]
        BY <1>2 DEF ClearResolve, TypeOK
    <2>2. touched' \subseteq Adds
        BY <1>2 DEF ClearResolve, Since, TypeOK
    <2> QED
        BY <1>2, <2>1, <2>2 DEF ClearResolve, cardVars, shooting, TypeOK, CardTypeOK
<1>3. CASE ClearRemove
    <2>1. raced' \subseteq Lines /\ touched' \subseteq Adds
        BY <1>3 DEF ClearRemove, Since, TypeOK
    <2> QED
        BY <1>3, <2>1 DEF ClearRemove, cardVars, shooting, TypeOK, CardTypeOK
<1>4. CASE Crash
    <2>1. CardTypeOK'
        BY <1>4, CrashTypes DEF Crash, TypeOK
    <2>2. /\ capture' \in [Lines -> {"unread", "waiting", "shooting", "saved", "over"}]
          /\ promote' \in [Adds -> {"idle", "read", "sent", "over"}] /\ stray' \subseteq Lines
        BY <1>4 DEF Crash, TypeOK
    <2>3. unresolved' \subseteq Adds
        BY <1>4 DEF Crash, Carded, TypeOK
    <2> QED
        BY <1>4, <2>1, <2>2, <2>3 DEF Crash, rows, TypeOK
<1>5. CASE ClearLeaves \/ \E l \in Lines : DiscardLeaves(l)
    BY <1>5 DEF ClearLeaves, DiscardLeaves, cardVars, shooting, rows, past, TypeOK, CardTypeOK
<1> QED
    BY <1>1, <1>2, <1>3, <1>4, <1>5

\* Every step keeps the types.
LEMMA TypesKeep ==
    ASSUME TypeOK, [Next]_vars
    PROVE  TypeOK'
<1>1. CASE CardNext /\ UNCHANGED queueVars
    BY <1>1, CardTypes DEF queueVars, shooting, rows, handlers, past, TypeOK
<1>2. CASE QueueNext
    BY <1>2, CaptureTypes, PromoteTypes, DiscardTypes DEF QueueNext
<1>3. CASE UNCHANGED vars
    BY <1>3 DEF vars, cardVars, queueVars, shooting, rows, handlers, past, TypeOK, CardTypeOK
<1> QED
    BY <1>1, <1>2, <1>3 DEF Next

---------------------------------------------------------------------------
(* Taking the media.                                                       *)

\* A step of a capture leaves the adds alone; files come and rows are made.
LEMMA CapturesLeave ==
    ASSUME QueueInv, UNCHANGED <<cardVars, handlers, past, crashed>>,
           files \subseteq files',
           \A l \in Lines : row'[l] = row[l] \/ (row[l] = "none" /\ row'[l] = "pending")
    PROVE  AddsOk' /\ PairsOk' /\ PromotesOk' /\ ReportsOk'
<1>1. AddsOk'
    <2> SUFFICES ASSUME NEW a \in Adds PROVE AddOk(a)'
        BY DEF AddsOk
    <2>1. AddOk(a) /\ from[a] \in Lines \cup {Ring}
        BY DEF QueueInv, TypeOK, AddsOk
    <2>2. UNCHANGED <<step, made, task, told, from, promote>>
        BY DEF cardVars, handlers
    <2>3. from[a] # Ring => row'[from[a]] # "none"
        BY <2>1 DEF AddOk
    <2> QED
        BY <2>1, <2>2, <2>3 DEF AddOk, InFlight
<1>2. PairsOk'
    BY DEF QueueInv, cardVars, handlers, past, PairsOk, PairOk, Spent
<1>3. PromotesOk'
    <2> SUFFICES ASSUME NEW a \in Adds, from[a] # Ring PROVE PromoteOk(a)'
        BY DEF handlers, PromotesOk, PromoteOk
    <2>1. PromoteOk(a) /\ from[a] \in Lines
        BY DEF QueueInv, TypeOK, PromotesOk
    <2>2. row[from[a]] = "pending" => row'[from[a]] = "pending"
        BY <2>1
    <2> QED
        BY <2>1, <2>2 DEF cardVars, handlers, past, PromoteOk, AtWork, Disturbed
<1>4. ReportsOk'
    BY DEF QueueInv, cardVars, handlers, past, ReportsOk, ReportOk, Disturbed
<1> QED
    BY <1>1, <1>2, <1>3, <1>4

\* The seven steps of a capture.
LEMMA CapturesKeep ==
    ASSUME QueueInv, NEW l \in Lines,
           \/ Age(l) \/ Ask(l) \/ Shoot(l) \/ ShotTaken(l) \/ GiveUp(l) \/ StrayEnds(l) \/ Enqueue(l)
    PROVE  QueueInv'
<1>1. TypeOK'
    BY CaptureTypes DEF QueueInv
<1>2. /\ UNCHANGED <<cardVars, handlers, past, crashed>>
      /\ files \subseteq files'
      /\ \A k \in Lines : row'[k] = row[k] \/ (row[k] = "none" /\ row'[k] = "pending")
    BY DEF Age, Ask, Shoot, ShotTaken, GiveUp, StrayEnds, Enqueue, rows, QueueInv, TypeOK
<1>3. ASSUME NEW k \in Lines PROVE LineOk(k)'
    <2>1. LineOk(k)
        BY DEF QueueInv, LinesOk
    <2>2. capture'[k] = "saved" => k \in files' \cup raced' \/ row'[k] # "none"
        BY <1>2, <2>1 DEF Age, Ask, Shoot, ShotTaken, GiveUp, StrayEnds, Enqueue, At, rows, past,
                          QueueInv, TypeOK, LineOk
    <2>3. row'[k] = "pending" => k \in files' \cup raced'
        BY <1>2, <2>1 DEF Age, Ask, Shoot, ShotTaken, GiveUp, StrayEnds, Enqueue, rows, past,
                          QueueInv, TypeOK, LineOk
    <2>4. row[k] = "none" => CardsOf(k) = {}
        <3>1. k # Ring
            BY QueueAssumptions
        <3> QED
            BY <3>1 DEF CardsOf, QueueInv, TypeOK, CardTypeOK, AddsOk, AddOk
    <2>5. CardsOf(k)' = CardsOf(k) /\ UNCHANGED <<step, promote, unresolved, removing>>
        BY <1>2 DEF cardVars, handlers, past, CardsOf
    <2>6. row'[k] = "promoted" => row[k] = "promoted"
        BY <1>2
    <2>7. row'[k] = "pending" => \A a \in CardsOf(k)' : AtWork(a)' \/ step'[a] # "added" \/ a \in unresolved'
        BY <1>2, <2>1, <2>4, <2>5 DEF LineOk, AtWork
    <2>8. k \in removing' => row'[k] \in {"promoted", "discarded"}
        BY <1>2, <2>1, <2>5 DEF LineOk
    <2> QED
        BY <2>1, <2>2, <2>3, <2>5, <2>6, <2>7, <2>8 DEF LineOk
<1> QED
    BY <1>1, <1>2, <1>3, CapturesLeave DEF QueueInv, LinesOk

---------------------------------------------------------------------------
(* Requests and what follows them.                                         *)

\* A reply that says the note is there: only now does the add count as added.
LEMMA AnsweredKeeps ==
    ASSUME QueueInv, NEW a \in Adds, Answered(a), UNCHANGED queueVars
    PROVE  QueueInv'
<1>1. PICK s \in {"refused", "added"} :
        /\ step' = [step EXCEPT ![a] = s] /\ InFlight(a)
        /\ made \subseteq made' /\ made' \subseteq made \cup {a}
        /\ s = "added" => a \in made'
        /\ task' = IF s = "added" THEN task \cup {<<"mirror", a>>, <<"enrich", a>>} ELSE task
        /\ UNCHANGED <<media, told>>
    BY DEF Answered, Applied, Moved
<1>2. UNCHANGED <<capture, row, files, from, promote, paths, removing, raced, touched, rival, unresolved>>
    BY DEF queueVars, shooting, rows, handlers, past
<1>3. /\ step'[a] = s /\ \A b \in Adds \ {a} : step'[b] = step[b]
      /\ step[a] \notin {"idle", "added"}
    BY <1>1 DEF InFlight, QueueInv, TypeOK, CardTypeOK
<1>4. \A b \in Adds \ {a} : /\ b \in made' <=> b \in made
                            /\ \A kind : <<kind, b>> \in task' <=> <<kind, b>> \in task
    BY <1>1
<1>5. TypeOK'
    BY TypesKeep DEF QueueInv, Next, CardNext
<1>6. AddsOk'
    <2>1. ASSUME NEW b \in Adds \ {a} PROVE AddOk(b)'
        BY <1>1, <1>2, <1>3, <1>4 DEF QueueInv, AddsOk, AddOk, InFlight
    <2>2. AddOk(a)'
        BY <1>1, <1>2, <1>3 DEF QueueInv, AddsOk, AddOk, InFlight
    <2> QED
        BY <2>1, <2>2 DEF AddsOk
<1>7. from[a] # Ring => promote[a] = "sent"
    BY <1>1 DEF InFlight, QueueInv, TypeOK, AddsOk, AddOk
<1>8. LinesOk'
    <2> SUFFICES ASSUME NEW l \in Lines PROVE LineOk(l)'
        BY DEF LinesOk
    <2>1. LineOk(l) /\ l # Ring
        BY QueueAssumptions DEF QueueInv, LinesOk
    <2>2. \A b \in CardsOf(l)' : b \in CardsOf(l) \/ b = a
        BY <1>2, <1>4, <1>5 DEF CardsOf, TypeOK, CardTypeOK
    <2>3. CardsOf(l) \subseteq CardsOf(l)' /\ CardsOf(l)' \subseteq Adds
        BY <1>1, <1>2 DEF CardsOf, QueueInv, TypeOK, CardTypeOK
    <2>4. a \in CardsOf(l)' => AtWork(a)'
        BY <1>2, <1>7, <2>1 DEF CardsOf, AtWork
    <2>5. row[l] = "promoted" => \E b \in CardsOf(l)' : step'[b] = "added"
        BY <1>3, <2>1, <2>3 DEF LineOk
    <2>6. row[l] = "pending" => \A b \in CardsOf(l)' : AtWork(b)' \/ step'[b] # "added" \/ b \in unresolved'
        BY <1>2, <1>3, <2>1, <2>2, <2>3, <2>4 DEF LineOk, AtWork
    <2> QED
        BY <1>2, <2>1, <2>5, <2>6 DEF LineOk
<1>9. PairsOk'
    <2>1. ASSUME NEW b \in Adds, Spent(b), from[b] # Ring PROVE Spent(b)'
        BY <1>2, <1>3, <1>7, <2>1 DEF Spent
    <2> QED
        BY <1>2, <2>1 DEF QueueInv, PairsOk, PairOk
<1>10. PromotesOk'
    <2> SUFFICES ASSUME NEW b \in Adds, from[b] # Ring PROVE PromoteOk(b)'
        BY <1>2 DEF PromotesOk, PromoteOk
    <2>1. PromoteOk(b)
        BY DEF QueueInv, PromotesOk
    <2>2. <<"enrich", b>> \in task' => <<"enrich", b>> \in task \/ promote[b] = "sent"
        BY <1>4, <1>7
    <2> QED
        BY <1>2, <2>1, <2>2 DEF PromoteOk, AtWork, Disturbed
<1>11. ReportsOk'
    <2> SUFFICES ASSUME NEW b \in Adds PROVE ReportOk(b)'
        BY DEF ReportsOk
    <2>1. <<"finish", b>> \in task' => <<"finish", b>> \in task
        BY <1>1
    <2> QED
        BY <1>1, <1>2, <2>1 DEF QueueInv, ReportsOk, ReportOk, Disturbed
<1> QED
    BY <1>5, <1>6, <1>8, <1>9, <1>10, <1>11 DEF QueueInv

\* A lost request keeps the types beside the queue.
LEMMA TypesOfLost ==
    ASSUME TypeOK, NEW a \in Adds, Lost(a) \/ Abandoned(a), UNCHANGED queueVars
    PROVE  TypeOK'
<1>1. CardTypeOK'
    BY CardTypes, AbandonTypes DEF CardNext, TypeOK
<1> QED
    BY <1>1 DEF queueVars, shooting, rows, handlers, past, TypeOK

\* A request that is lost is not added, whatever Anki made of it.
LEMMA LostKeeps ==
    ASSUME QueueInv, NEW a \in Adds, Lost(a) \/ Abandoned(a), UNCHANGED queueVars
    PROVE  QueueInv'
<1>1. PICK s \in {"second", "failed"} :
        /\ step' = [step EXCEPT ![a] = s] /\ InFlight(a)
        /\ made \subseteq made' /\ made' \subseteq made \cup {a}
        /\ UNCHANGED <<task, media, told>>
    BY DEF Lost, Abandoned, AfterLoss, Applied, Moved, anki, effect
<1>2. UNCHANGED <<capture, row, files, from, promote, paths, removing, raced, touched, rival, unresolved>>
    BY DEF queueVars, shooting, rows, handlers, past
<1>3. /\ step'[a] = s /\ \A b \in Adds \ {a} : step'[b] = step[b]
      /\ step[a] \notin {"idle", "added"}
    BY <1>1 DEF InFlight, QueueInv, TypeOK, CardTypeOK
<1>4. \A b \in Adds \ {a} : b \in made' <=> b \in made
    BY <1>1
<1>5. TypeOK'
    BY TypesOfLost DEF QueueInv
<1>6. AddsOk'
    <2>1. ASSUME NEW b \in Adds \ {a} PROVE AddOk(b)'
        BY <1>1, <1>2, <1>3, <1>4 DEF QueueInv, AddsOk, AddOk, InFlight
    <2>2. AddOk(a)'
        BY <1>1, <1>2, <1>3 DEF QueueInv, AddsOk, AddOk, InFlight
    <2> QED
        BY <2>1, <2>2 DEF AddsOk
<1>7. from[a] # Ring => promote[a] = "sent"
    BY <1>1 DEF InFlight, QueueInv, TypeOK, AddsOk, AddOk
<1>8. LinesOk'
    <2> SUFFICES ASSUME NEW l \in Lines PROVE LineOk(l)'
        BY DEF LinesOk
    <2>1. LineOk(l)
        BY DEF QueueInv, LinesOk
    <2>2. \A b \in CardsOf(l)' : b \in CardsOf(l) \/ b = a
        BY <1>2, <1>4, <1>5 DEF CardsOf, TypeOK, CardTypeOK
    <2>3. CardsOf(l) \subseteq CardsOf(l)' /\ CardsOf(l)' \subseteq Adds
        BY <1>1, <1>2, <1>5 DEF CardsOf, TypeOK, CardTypeOK
    <2>4. row[l] = "promoted" => \E b \in CardsOf(l)' : step'[b] = "added"
        BY <1>3, <2>1, <2>3 DEF LineOk
    <2>5. row[l] = "pending" => \A b \in CardsOf(l)' : AtWork(b)' \/ step'[b] # "added" \/ b \in unresolved'
        BY <1>2, <1>3, <2>1, <2>2, <2>3 DEF LineOk, AtWork
    <2> QED
        BY <1>2, <2>1, <2>4, <2>5 DEF LineOk
<1>9. PairsOk'
    <2>1. ASSUME NEW b \in Adds, Spent(b) PROVE Spent(b)'
        BY <1>2, <1>3, <2>1 DEF Spent
    <2> QED
        BY <1>2, <2>1 DEF QueueInv, PairsOk, PairOk
<1>10. PromotesOk' /\ ReportsOk'
    BY <1>1, <1>2 DEF QueueInv, PromotesOk, PromoteOk, ReportsOk, ReportOk, AtWork, Disturbed
<1> QED
    BY <1>5, <1>6, <1>8, <1>9, <1>10 DEF QueueInv

\* The caller of the popup's card is gone.
LEMMA MineDroppedKeeps ==
    ASSUME QueueInv, NEW a \in Adds, MineDropped(a)
    PROVE  QueueInv'
BY LostKeeps DEF MineDropped

\* What leaves requests, tasks, rows and media as they are, or ends a task.
LEMMA IdleKeeps ==
    ASSUME QueueInv, TypeOK', UNCHANGED <<step, made, media, told, queueVars>>, task' \subseteq task
    PROVE  QueueInv'
<1>1. UNCHANGED <<capture, row, files, from, promote, paths, removing, raced, touched, rival, unresolved>>
    BY DEF queueVars, shooting, rows, handlers, past
<1>2. AddsOk'
    BY <1>1 DEF QueueInv, AddsOk, AddOk, InFlight
<1>3. LinesOk'
    BY <1>1 DEF QueueInv, LinesOk, LineOk, CardsOf, AtWork
<1>4. PairsOk'
    BY <1>1 DEF QueueInv, PairsOk, PairOk, Spent
<1>5. PromotesOk'
    BY <1>1 DEF QueueInv, PromotesOk, PromoteOk, AtWork, Disturbed
<1>6. ReportsOk'
    BY <1>1 DEF QueueInv, ReportsOk, ReportOk, Disturbed
<1> QED
    BY <1>2, <1>3, <1>4, <1>5, <1>6 DEF QueueInv

\* The card's capture finds what it was promised, or something disturbed it.
LEMMA EnrichKeeps ==
    ASSUME QueueInv, NEW a \in Adds, EnrichCapture(a, Found(a)), UNCHANGED queueVars
    PROVE  QueueInv'
<1>1. UNCHANGED <<capture, row, files, from, promote, paths, removing, raced, touched, rival, unresolved>>
    BY DEF queueVars, shooting, rows, handlers, past
<1>2. /\ UNCHANGED <<step, made, told>> /\ <<"enrich", a>> \in task /\ media \subseteq media'
      /\ \A kind : <<kind, a>> \in task' => <<kind, a>> \in task \/ kind \in {"finish", "lacking"}
      /\ \A kind, b : b # a => (<<kind, b>> \in task' <=> <<kind, b>> \in task)
      /\ <<"finish", a>> \in task' => <<"finish", a>> \in task \/ ~Found(a) \/ a \in media'
    BY DEF EnrichCapture, request, anki
<1>3. TypeOK'
    BY PromoteTypes DEF QueueInv
<1>4. AddsOk'
    <2>1. ASSUME NEW b \in Adds \ {a} PROVE AddOk(b)'
        BY <1>1, <1>2 DEF QueueInv, AddsOk, AddOk, InFlight
    <2>2. AddOk(a)'
        BY <1>1, <1>2 DEF QueueInv, AddsOk, AddOk, InFlight
    <2> QED
        BY <2>1, <2>2 DEF AddsOk
<1>5. LinesOk'
    BY <1>1, <1>2 DEF QueueInv, LinesOk, LineOk, CardsOf, AtWork
<1>6. PairsOk'
    BY <1>1, <1>2 DEF QueueInv, PairsOk, PairOk, Spent
<1>7. PromotesOk'
    BY <1>1, <1>2 DEF QueueInv, PromotesOk, PromoteOk, AtWork, Disturbed
<1>8. ReportsOk'
    <2>1. ASSUME NEW b \in Adds \ {a} PROVE ReportOk(b)'
        BY <1>1, <1>2 DEF QueueInv, ReportsOk, ReportOk, Disturbed
    <2>2. ReportOk(a)'
        <3>1. CASE <<"finish", a>> \in task \/ a \in told \/ a \in media'
            BY <1>1, <1>2, <3>1 DEF QueueInv, ReportsOk, ReportOk, Disturbed
        <3>2. CASE ~Found(a)
            BY <1>1, <1>2, <3>2 DEF QueueInv, PromotesOk, PromoteOk, Found, ReportOk, Disturbed
        <3> QED
            BY <1>2, <3>1, <3>2 DEF ReportOk
    <2> QED
        BY <2>1, <2>2 DEF ReportsOk
<1> QED
    BY <1>3, <1>4, <1>5, <1>6, <1>7, <1>8 DEF QueueInv

\* The report is made of a card whose capture had something to show.
LEMMA FinishKeeps ==
    ASSUME QueueInv, NEW a \in Adds, EnrichFinish(a), UNCHANGED queueVars
    PROVE  QueueInv'
<1>1. UNCHANGED <<capture, row, files, from, promote, paths, removing, raced, touched, rival, unresolved>>
    BY DEF queueVars, shooting, rows, handlers, past
<1>2. /\ UNCHANGED <<step, made, media>> /\ task' \subseteq task /\ told \subseteq told'
      /\ \E kind \in {"finish", "lacking"} : <<kind, a>> \in task
      /\ \A b \in told' : b \in told \/ (b = a /\ <<"finish", a>> \in task)
    BY DEF EnrichFinish, request, anki
<1>3. TypeOK'
    BY TypesKeep DEF QueueInv, Next, CardNext
<1>4. AddsOk'
    BY <1>1, <1>2 DEF QueueInv, AddsOk, AddOk, InFlight
<1>5. LinesOk'
    BY <1>1, <1>2 DEF QueueInv, LinesOk, LineOk, CardsOf, AtWork
<1>6. PairsOk'
    BY <1>1, <1>2 DEF QueueInv, PairsOk, PairOk, Spent
<1>7. PromotesOk'
    BY <1>1, <1>2 DEF QueueInv, PromotesOk, PromoteOk, AtWork, Disturbed
<1>8. ReportsOk'
    BY <1>1, <1>2 DEF QueueInv, ReportsOk, ReportOk, Disturbed
<1> QED
    BY <1>3, <1>4, <1>5, <1>6, <1>7, <1>8 DEF QueueInv

\* Every step of adds and refreshes beside the queue.
LEMMA CardKeeps ==
    ASSUME QueueInv, CardNext, UNCHANGED queueVars
    PROVE  QueueInv'
<1>1. TypeOK'
    BY TypesKeep DEF QueueInv, Next
<1>2. ASSUME NEW a \in Adds, MirrorAdded(a) \/ DeleteNote(a) PROVE QueueInv'
    <2>1. UNCHANGED <<step, made, media, told>> /\ task' \subseteq task
        BY <1>2 DEF MirrorAdded, DeleteNote, Ended, request, anki, effect
    <2> QED
        BY <1>1, <2>1, IdleKeeps
<1>3. ASSUME NEW r \in Refreshers, RefreshList(r) \/ RefreshRead(r) \/ RefreshStore(r) \/ RefreshFail(r)
      PROVE  QueueInv'
    <2>1. UNCHANGED <<step, made, media, told>> /\ task' \subseteq task
        BY <1>3 DEF RefreshList, RefreshRead, RefreshStore, RefreshFail, request, anki, effect
    <2> QED
        BY <1>1, <2>1, IdleKeeps
<1> QED
    BY <1>2, <1>3, AnsweredKeeps, LostKeeps, FinishKeeps DEF CardNext

---------------------------------------------------------------------------
(* Promoting.                                                              *)

\* A row that is pending is read: whoever else is at work on it is a rival,
\* and nobody is done with it.
LEMMA PromoteReadKeeps ==
    ASSUME QueueInv, NEW a \in Adds, NEW l \in Lines, PromoteRead(a, l)
    PROVE  QueueInv'
<1>1. /\ UNCHANGED <<step, made, task, told, media, capture, row, files, paths, removing, raced, touched, unresolved>>
      /\ step[a] = "idle" /\ promote[a] = "idle" /\ row[l] = "pending"
    BY DEF PromoteRead, cardVars, shooting, rows
<1>2. /\ promote'[a] = "read" /\ from'[a] = l
      /\ \A b \in Adds \ {a} : promote'[b] = promote[b] /\ from'[b] = from[b]
    BY DEF PromoteRead, QueueInv, TypeOK
<1>3. /\ rival \subseteq rival'
      /\ \A b \in Adds : from[b] = l /\ AtWork(b) => {a, b} \subseteq rival'
    BY DEF PromoteRead
<1>4. from[a] = Ring /\ a \notin made /\ l # Ring /\ \A kind \in {"enrich", "finish"} : <<kind, a>> \notin task
    BY <1>1, QueueAssumptions DEF QueueInv, AddsOk, AddOk
<1>5. a \notin told
    BY <1>1 DEF QueueInv, AddsOk, AddOk
<1>6. TypeOK'
    BY PromoteTypes DEF QueueInv
<1>7. AddsOk'
    <2>1. ASSUME NEW b \in Adds \ {a} PROVE AddOk(b)'
        BY <1>1, <1>2 DEF QueueInv, AddsOk, AddOk, InFlight
    <2>2. AddOk(a)'
        BY <1>1, <1>2, <1>4 DEF QueueInv, AddsOk, AddOk, InFlight
    <2> QED
        BY <2>1, <2>2 DEF AddsOk
<1>8. LinesOk'
    <2> SUFFICES ASSUME NEW k \in Lines PROVE LineOk(k)'
        BY DEF LinesOk
    <2>1. LineOk(k)
        BY DEF QueueInv, LinesOk
    <2>2. CardsOf(k)' = CardsOf(k) /\ a \notin CardsOf(k) /\ CardsOf(k) \subseteq Adds
        BY <1>1, <1>2, <1>4, <1>6 DEF CardsOf, TypeOK, CardTypeOK
    <2> QED
        BY <1>1, <1>2, <2>1, <2>2 DEF LineOk, AtWork
<1>9. PairsOk'
    <2>1. ASSUME NEW b \in Adds \ {a}, NEW c \in Adds \ {a} PROVE PairOk(b, c)'
        BY <1>1, <1>2, <1>3 DEF QueueInv, PairsOk, PairOk, Spent
    <2>2. ASSUME NEW b \in Adds \ {a}, from[b] = l, ~AtWork(b) PROVE Spent(b)'
        <3>1. promote[b] = "over"
            BY <1>4, <2>2 DEF QueueInv, TypeOK, AddsOk, AddOk, AtWork
        <3>2. step[b] # "added" \/ b \in unresolved
            BY <1>1, <2>2 DEF QueueInv, AddsOk, AddOk, LinesOk, LineOk, CardsOf
        <3> QED
            BY <1>1, <1>2, <3>1, <3>2 DEF Spent
    <2>3. ASSUME NEW b \in Adds \ {a} PROVE PairOk(a, b)' /\ PairOk(b, a)'
        BY <1>2, <1>3, <2>2 DEF PairOk
    <2>4. PairOk(a, a)'
        BY DEF PairOk
    <2> QED
        BY <2>1, <2>3, <2>4 DEF PairsOk
<1>10. PromotesOk'
    <2>1. ASSUME NEW b \in Adds \ {a} PROVE PromoteOk(b)'
        BY <1>1, <1>2, <1>3 DEF QueueInv, PromotesOk, PromoteOk, AtWork, Disturbed
    <2>2. l \in files \cup raced /\ l \notin removing
        BY <1>1 DEF QueueInv, LinesOk, LineOk
    <2>3. PromoteOk(a)'
        BY <1>1, <1>2, <1>4, <2>2 DEF PromoteOk
    <2> QED
        BY <2>1, <2>3 DEF PromotesOk
<1>11. ReportsOk'
    <2>1. ASSUME NEW b \in Adds \ {a} PROVE ReportOk(b)'
        BY <1>1, <1>2, <1>3 DEF QueueInv, ReportsOk, ReportOk, Disturbed
    <2>2. ReportOk(a)'
        BY <1>1, <1>4, <1>5 DEF ReportOk
    <2> QED
        BY <2>1, <2>2 DEF ReportsOk
<1> QED
    BY <1>6, <1>7, <1>8, <1>9, <1>10, <1>11 DEF QueueInv

\* The media are looked up and the request goes out.
LEMMA SendKeeps ==
    ASSUME QueueInv, NEW a \in Adds, PromoteSend(a)
    PROVE  QueueInv'
<1>1. /\ UNCHANGED <<made, task, told, media, capture, row, files, from, removing, raced, touched, rival, unresolved>>
      /\ promote[a] = "read" /\ step[a] = "idle"
      /\ paths \subseteq paths'
      /\ row[from[a]] = "pending" => a \in paths'
    BY DEF PromoteSend, Send, anki, effect, copy, shooting, rows, past
<1>2. /\ promote'[a] = "sent" /\ step'[a] = "first"
      /\ \A b \in Adds \ {a} : promote'[b] = promote[b] /\ step'[b] = step[b]
    BY DEF PromoteSend, Send, QueueInv, TypeOK, CardTypeOK
<1>3. TypeOK'
    BY PromoteTypes DEF QueueInv
<1>4. AddsOk'
    <2>1. ASSUME NEW b \in Adds \ {a} PROVE AddOk(b)'
        BY <1>1, <1>2 DEF QueueInv, AddsOk, AddOk, InFlight
    <2>2. AddOk(a)'
        BY <1>1, <1>2 DEF QueueInv, AddsOk, AddOk
    <2> QED
        BY <2>1, <2>2 DEF AddsOk
<1>5. LinesOk'
    <2> SUFFICES ASSUME NEW l \in Lines PROVE LineOk(l)'
        BY DEF LinesOk
    <2>1. LineOk(l) /\ CardsOf(l)' = CardsOf(l) /\ CardsOf(l) \subseteq Adds
        BY <1>1 DEF QueueInv, TypeOK, CardTypeOK, LinesOk, CardsOf
    <2>2. row[l] = "promoted" => \E b \in CardsOf(l) : step'[b] = "added"
        <3>1. ASSUME NEW b \in Adds, step[b] = "added" PROVE step'[b] = "added"
            BY <1>1, <1>2, <3>1
        <3> QED
            BY <2>1, <3>1 DEF LineOk
    <2>3. ASSUME NEW b \in Adds, AtWork(b) \/ step[b] # "added" \/ b \in unresolved
          PROVE  AtWork(b)' \/ step'[b] # "added" \/ b \in unresolved'
        BY <1>1, <1>2, <2>3 DEF AtWork
    <2> QED
        BY <1>1, <2>1, <2>2, <2>3 DEF LineOk
<1>6. PairsOk'
    <2>1. ASSUME NEW b \in Adds, Spent(b) PROVE Spent(b)'
        BY <1>1, <1>2, <2>1 DEF Spent
    <2> QED
        BY <1>1, <2>1 DEF QueueInv, PairsOk, PairOk
<1>7. PromotesOk'
    <2>1. ASSUME NEW b \in Adds \ {a} PROVE PromoteOk(b)'
        BY <1>1, <1>2 DEF QueueInv, PromotesOk, PromoteOk, AtWork, Disturbed
    <2>2. PromoteOk(a)'
        BY <1>1, <1>2 DEF QueueInv, PromotesOk, PromoteOk, AtWork, Disturbed
    <2> QED
        BY <2>1, <2>2 DEF PromotesOk
<1>8. ReportsOk'
    BY <1>1 DEF QueueInv, ReportsOk, ReportOk, Disturbed
<1> QED
    BY <1>3, <1>4, <1>5, <1>6, <1>7, <1>8 DEF QueueInv

\* The answer came: the row is resolved on a card the add knows of.
LEMMA PromoteEndKeeps ==
    ASSUME QueueInv, NEW a \in Adds, PromoteEnd(a)
    PROVE  QueueInv'
<1>1. /\ UNCHANGED <<step, made, task, told, media, capture, files, from, paths, removing, raced, touched, rival, unresolved>>
      /\ promote[a] = "sent" /\ ~InFlight(a)
    BY DEF PromoteEnd, cardVars, shooting, past
<1>2. /\ promote'[a] = "over" /\ \A b \in Adds \ {a} : promote'[b] = promote[b]
    BY DEF PromoteEnd, QueueInv, TypeOK
<1>3. PICK l \in Lines : l = from[a]
    BY <1>1 DEF QueueInv, TypeOK, AddsOk, AddOk
<1>4. \A k \in Lines : \/ row'[k] = row[k] /\ (k = l => row[l] # "pending" \/ step[a] # "added")
                       \/ k = l /\ row[l] = "pending" /\ step[a] = "added" /\ row'[l] = "promoted"
    BY <1>3 DEF PromoteEnd, Resolved, QueueInv, TypeOK
<1>5. step[a] = "added" => a \in CardsOf(l)
    BY <1>3 DEF QueueInv, AddsOk, AddOk, CardsOf
<1>6. TypeOK'
    BY PromoteTypes DEF QueueInv
<1>7. AddsOk'
    <2> SUFFICES ASSUME NEW b \in Adds PROVE AddOk(b)'
        BY DEF AddsOk
    <2>1. AddOk(b) /\ from[b] \in Lines \cup {Ring}
        BY DEF QueueInv, TypeOK, AddsOk
    <2>2. from[b] # Ring => row'[from[b]] # "none"
        BY <1>4, <2>1 DEF AddOk
    <2>3. CASE b = a
        <3>1. from[a] # Ring
            BY <1>3, QueueAssumptions
        <3> QED
            BY <1>1, <1>2, <2>1, <2>2, <2>3, <3>1 DEF AddOk, InFlight
    <2>4. CASE b # a
        BY <1>1, <1>2, <2>1, <2>2, <2>4 DEF AddOk, InFlight
    <2> QED
        BY <2>3, <2>4
<1>8. LinesOk'
    <2> SUFFICES ASSUME NEW k \in Lines PROVE LineOk(k)'
        BY DEF LinesOk
    <2>1. LineOk(k) /\ CardsOf(k)' = CardsOf(k) /\ CardsOf(k) \subseteq Adds
        BY <1>1 DEF QueueInv, TypeOK, CardTypeOK, LinesOk, CardsOf
    <2>2. row'[k] = "promoted" => \E b \in CardsOf(k) : step[b] = "added"
        BY <1>4, <1>5, <2>1 DEF LineOk
    <2>3. row'[k] = "pending" => \A b \in CardsOf(k) : AtWork(b)' \/ step[b] # "added" \/ b \in unresolved
        <3> SUFFICES ASSUME row'[k] = "pending", NEW b \in CardsOf(k), step[b] = "added", b \notin unresolved
                     PROVE  AtWork(b)'
            OBVIOUS
        <3>1. row[k] = "pending"
            BY <1>4
        <3>2. b # a
            BY <1>3, <1>4, <3>1 DEF CardsOf
        <3> QED
            BY <1>2, <2>1, <3>1, <3>2 DEF LineOk, AtWork
    <2>4. /\ row'[k] = "pending" => row[k] = "pending"
          /\ row[k] # "none" => row'[k] # "none"
          /\ row[k] \in {"promoted", "discarded"} => row'[k] = row[k]
        BY <1>4
    <2> QED
        BY <1>1, <2>1, <2>2, <2>3, <2>4 DEF LineOk
<1>9. PairsOk'
    <2>1. ASSUME NEW b \in Adds, Spent(b) PROVE Spent(b)'
        BY <1>1, <1>2, <2>1 DEF Spent
    <2> QED
        BY <1>1, <2>1 DEF QueueInv, PairsOk, PairOk
<1>10. PromotesOk'
    <2> SUFFICES ASSUME NEW b \in Adds, from[b] # Ring PROVE PromoteOk(b)'
        BY <1>1 DEF PromotesOk, PromoteOk
    <2>1. PromoteOk(b) /\ from[b] \in Lines
        BY DEF QueueInv, TypeOK, PromotesOk
    <2>2. promote'[b] = "read" => row'[from[b]] = "pending" \/ Disturbed(b)
        <3> SUFFICES ASSUME promote'[b] = "read", row[from[b]] = "pending", row'[from[b]] # "pending"
                     PROVE  Disturbed(b)
            BY <1>2, <2>1 DEF PromoteOk
        <3>1. from[b] = from[a] /\ b # a
            BY <1>2, <1>3, <1>4, <2>1
        <3>2. promote[b] = "read"
            BY <1>2, <3>1
        <3>3. PairOk(a, b)
            BY DEF QueueInv, PairsOk
        <3> QED
            BY <1>1, <3>1, <3>2, <3>3 DEF PairOk, Spent, Disturbed
    <2>3. AtWork(b)' => AtWork(b)
        BY <1>1, <1>2 DEF AtWork
    <2>4. promote'[b] = "sent" => promote[b] = "sent"
        BY <1>1, <1>2
    <2> QED
        BY <1>1, <2>1, <2>2, <2>3, <2>4 DEF PromoteOk, Disturbed
<1>11. ReportsOk'
    BY <1>1 DEF QueueInv, ReportsOk, ReportOk, Disturbed
<1> QED
    BY <1>6, <1>7, <1>8, <1>9, <1>10, <1>11 DEF QueueInv

\* The handler ends early: what its request comes to no add knows of, and the row
\* of a card it has stays as it is.
LEMMA DroppedKeeps ==
    ASSUME QueueInv, NEW a \in Adds, PromoteDropped(a)
    PROVE  QueueInv'
<1>1. /\ UNCHANGED <<task, told, media, capture, row, files, from, paths, removing, raced, touched, rival>>
      /\ AtWork(a) /\ made \subseteq made' /\ made' \subseteq made \cup {a}
      /\ unresolved \subseteq unresolved' /\ (step[a] = "added" => a \in unresolved')
    BY DEF PromoteDropped, Carded, Abandoned, Applied, anki, effect, cardVars, shooting, rows
<1>2. /\ promote'[a] = "over" /\ \A b \in Adds \ {a} : promote'[b] = promote[b]
    BY DEF PromoteDropped, QueueInv, TypeOK
<1>3. /\ \A b \in Adds \ {a} : step'[b] = step[b]
      /\ step'[a] = IF InFlight(a) THEN "failed" ELSE step[a]
      /\ ~InFlight(a) => made' = made
    BY DEF PromoteDropped, Abandoned, Moved, InFlight, cardVars, QueueInv, TypeOK, CardTypeOK
<1>4. \A b \in Adds : step'[b] = "added" <=> step[b] = "added"
    BY <1>3 DEF InFlight
<1>5. from[a] # Ring
    BY <1>1 DEF QueueInv, AddsOk, AddOk, AtWork
<1>6. TypeOK'
    BY PromoteTypes DEF QueueInv
<1>7. AddsOk'
    <2>1. ASSUME NEW b \in Adds \ {a} PROVE AddOk(b)'
        <3>1. b \in made' <=> b \in made
            BY <1>1
        <3> QED
            BY <1>1, <1>2, <1>3, <3>1 DEF QueueInv, AddsOk, AddOk, InFlight
    <2>2. AddOk(a)'
        <3>1. AddOk(a)
            BY DEF QueueInv, AddsOk
        <3>2. ~InFlight(a)' /\ (step'[a] = "idle" => step[a] = "idle" /\ made' = made)
            BY <1>3 DEF InFlight
        <3> QED
            BY <1>1, <1>2, <1>4, <1>5, <3>1, <3>2 DEF AddOk
    <2> QED
        BY <2>1, <2>2 DEF AddsOk
<1>8. LinesOk'
    <2> SUFFICES ASSUME NEW k \in Lines PROVE LineOk(k)'
        BY DEF LinesOk
    <2>1. LineOk(k) /\ CardsOf(k) \subseteq CardsOf(k)' /\ CardsOf(k) \subseteq Adds
        BY <1>1 DEF QueueInv, TypeOK, CardTypeOK, LinesOk, CardsOf
    <2>2. \A b \in CardsOf(k)' : b \in CardsOf(k) \/ b = a
        BY <1>1 DEF CardsOf
    <2>3. row[k] = "promoted" => \E b \in CardsOf(k)' : step'[b] = "added"
        BY <1>4, <2>1 DEF LineOk
    <2>4. row[k] = "pending" => \A b \in CardsOf(k)' : AtWork(b)' \/ step'[b] # "added" \/ b \in unresolved'
        <3> SUFFICES ASSUME row[k] = "pending", NEW b \in CardsOf(k)', step[b] = "added", b \notin unresolved'
                     PROVE  AtWork(b)'
            BY <1>4, <2>1, <2>2
        <3>1. b # a
            BY <1>1
        <3> QED
            BY <1>1, <1>2, <2>1, <2>2, <3>1 DEF LineOk, AtWork
    <2> QED
        BY <1>1, <2>1, <2>3, <2>4 DEF LineOk
<1>9. PairsOk'
    <2>1. ASSUME NEW b \in Adds, Spent(b) PROVE Spent(b)'
        <3>1. b # a
            BY <1>1, <2>1 DEF Spent, AtWork
        <3> QED
            BY <1>1, <1>2, <1>3, <2>1, <3>1 DEF Spent
    <2> QED
        BY <1>1, <2>1 DEF QueueInv, PairsOk, PairOk
<1>10. PromotesOk' /\ ReportsOk'
    <2>1. \A b \in Adds : /\ promote'[b] = "read" => promote[b] = "read"
                          /\ promote'[b] = "sent" => promote[b] = "sent"
        BY <1>2
    <2> QED
        BY <1>1, <2>1 DEF QueueInv, PromotesOk, PromoteOk, ReportsOk, ReportOk, AtWork, Disturbed
<1> QED
    BY <1>6, <1>7, <1>8, <1>9, <1>10 DEF QueueInv

\* A card from the popup is of no line.
LEMMA MineKeeps ==
    ASSUME QueueInv, NEW a \in Adds, Mine(a)
    PROVE  QueueInv'
<1>1. /\ UNCHANGED <<made, task, told, media>>
      /\ UNCHANGED <<capture, row, files, from, promote, paths, removing, raced, touched, rival, unresolved>>
      /\ promote[a] = "idle" /\ step[a] = "idle"
    BY DEF Mine, Send, anki, effect, copy, queueVars, shooting, rows, handlers, past
<1>2. step'[a] = "first" /\ \A b \in Adds \ {a} : step'[b] = step[b]
    BY DEF Mine, Send, QueueInv, TypeOK, CardTypeOK
<1>3. from[a] = Ring /\ a \notin made
    BY <1>1 DEF QueueInv, AddsOk, AddOk
<1>4. TypeOK'
    BY PromoteTypes DEF QueueInv
<1>5. AddsOk'
    <2>1. ASSUME NEW b \in Adds \ {a} PROVE AddOk(b)'
        BY <1>1, <1>2 DEF QueueInv, AddsOk, AddOk, InFlight
    <2>2. AddOk(a)'
        BY <1>1, <1>2 DEF QueueInv, AddsOk, AddOk
    <2> QED
        BY <2>1, <2>2 DEF AddsOk
<1>6. LinesOk'
    <2> SUFFICES ASSUME NEW l \in Lines PROVE LineOk(l)'
        BY DEF LinesOk
    <2>1. LineOk(l) /\ CardsOf(l)' = CardsOf(l) /\ CardsOf(l) \subseteq Adds \ {a}
        BY <1>1, <1>3 DEF QueueInv, TypeOK, CardTypeOK, LinesOk, CardsOf
    <2> QED
        BY <1>1, <1>2, <2>1 DEF LineOk, AtWork
<1>7. PairsOk'
    <2>1. ASSUME NEW b \in Adds, Spent(b) PROVE Spent(b)'
        BY <1>1, <1>2, <2>1 DEF Spent
    <2> QED
        BY <1>1, <2>1 DEF QueueInv, PairsOk, PairOk
<1>8. PromotesOk' /\ ReportsOk'
    BY <1>1 DEF QueueInv, PromotesOk, PromoteOk, ReportsOk, ReportOk, AtWork, Disturbed
<1> QED
    BY <1>4, <1>5, <1>6, <1>7, <1>8 DEF QueueInv

---------------------------------------------------------------------------
(* Discarding, clearing and dying.                                         *)

\* Rows that are pending are resolved, and whoever has them in hand is
\* disturbed.
LEMMA ResolvesKeep ==
    ASSUME QueueInv, TypeOK',
           UNCHANGED <<step, made, task, told, media, capture, files, from, promote, paths, raced, rival, unresolved>>,
           removing \subseteq removing', touched \subseteq touched',
           \A l \in Lines :
             /\ \/ row'[l] = row[l]
                \/ row[l] = "pending" /\ row'[l] = "discarded" /\ Since(l) \subseteq touched'
             /\ l \in removing' \ removing =>
                  row'[l] \in {"promoted", "discarded"} /\ Since(l) \subseteq touched'
    PROVE  QueueInv'
<1>1. AddsOk'
    <2> SUFFICES ASSUME NEW b \in Adds PROVE AddOk(b)'
        BY DEF AddsOk
    <2>1. AddOk(b) /\ from[b] \in Lines \cup {Ring}
        BY DEF QueueInv, TypeOK, AddsOk
    <2>2. from[b] # Ring => row'[from[b]] # "none"
        BY <2>1 DEF AddOk
    <2> QED
        BY <2>1, <2>2 DEF AddOk, InFlight
<1>2. LinesOk'
    <2> SUFFICES ASSUME NEW k \in Lines PROVE LineOk(k)'
        BY DEF LinesOk
    <2>1. LineOk(k) /\ CardsOf(k)' = CardsOf(k)
        BY DEF QueueInv, LinesOk, CardsOf
    <2>2. /\ row'[k] \in {"pending", "promoted"} => row'[k] = row[k]
          /\ row[k] # "none" => row'[k] # "none"
          /\ row[k] \in {"promoted", "discarded"} => row'[k] = row[k]
        OBVIOUS
    <2> QED
        BY <2>1, <2>2 DEF LineOk, AtWork
<1>3. PairsOk' /\ ReportsOk'
    BY DEF QueueInv, PairsOk, PairOk, Spent, ReportsOk, ReportOk, Disturbed
<1>4. PromotesOk'
    <2> SUFFICES ASSUME NEW b \in Adds, from[b] # Ring PROVE PromoteOk(b)'
        BY DEF PromotesOk, PromoteOk
    <2>1. PromoteOk(b) /\ from[b] \in Lines
        BY DEF QueueInv, TypeOK, PromotesOk
    <2>2. b \in Since(from[b])
        BY DEF QueueInv, AddsOk, AddOk, Since, Promotes
    <2>3. Disturbed(b) => Disturbed(b)'
        BY DEF Disturbed
    <2>4. row'[from[b]] = row[from[b]] \/ Disturbed(b)'
        BY <2>1, <2>2 DEF Disturbed
    <2>5. from[b] \in removing' => from[b] \in removing \/ Disturbed(b)'
        BY <2>1, <2>2 DEF Disturbed
    <2> QED
        BY <2>1, <2>3, <2>4, <2>5 DEF PromoteOk, AtWork
<1> QED
    BY <1>1, <1>2, <1>3, <1>4 DEF QueueInv

\* A discard resolves its row, a clear all of them.
LEMMA DiscardKeeps ==
    ASSUME QueueInv, (\E l \in Lines : DiscardResolve(l)) \/ ClearResolve
    PROVE  QueueInv'
<1>1. TypeOK'
    BY DiscardTypes DEF QueueInv
<1>2. ASSUME NEW l \in Lines, DiscardResolve(l) PROVE QueueInv'
    <2>1. /\ UNCHANGED <<step, made, task, told, media, capture, files, from, promote, paths, raced, rival, unresolved>>
          /\ removing' = removing \cup {l} /\ touched' = touched \cup Since(l)
        BY <1>2 DEF DiscardResolve, cardVars, shooting
    <2>2. row'[l] \in {"promoted", "discarded"} /\ (row'[l] = row[l] \/ (row[l] = "pending" /\ row'[l] = "discarded"))
        BY <1>2 DEF DiscardResolve, Resolved, QueueInv, TypeOK
    <2>3. \A k \in Lines \ {l} : row'[k] = row[k]
        BY <1>2 DEF DiscardResolve, Resolved, QueueInv, TypeOK
    <2> QED
        BY <1>1, <2>1, <2>2, <2>3, ResolvesKeep
<1>3. CASE ClearResolve
    <2>1. /\ UNCHANGED <<step, made, task, told, media, capture, files, from, promote, paths, removing, raced, rival, unresolved>>
          /\ touched \subseteq touched' /\ \A l \in Lines : Since(l) \subseteq touched'
          /\ \A l \in Lines : row'[l] = IF row[l] = "pending" THEN "discarded" ELSE row[l]
        BY <1>3 DEF ClearResolve, cardVars, shooting
    <2> QED
        BY <1>1, <2>1, ResolvesKeep
<1> QED
    BY <1>2, <1>3

\* Files go of lines whose row was resolved and whose promotes were disturbed,
\* or of all, or stay.
LEMMA RemovesKeep ==
    ASSUME QueueInv,
           (\E l \in Lines : DiscardRemove(l) \/ DiscardLeaves(l)) \/ ClearRemove \/ ClearLeaves
    PROVE  QueueInv'
<1>1. TypeOK'
    BY DiscardTypes DEF QueueInv
<1>2. /\ UNCHANGED <<step, made, task, told, media, capture, row, from, promote, paths, rival, unresolved>>
      /\ removing' \subseteq removing /\ raced \subseteq raced' /\ touched \subseteq touched'
    BY DEF DiscardRemove, DiscardLeaves, ClearRemove, ClearLeaves, cardVars, shooting, rows, past
<1>3. \A l \in files \ files' :
        \/ l \in removing
        \/ Since(l) \subseteq touched' /\ (capture[l] = "saved" \/ row[l] = "pending" => l \in raced')
    BY DEF DiscardRemove, DiscardLeaves, ClearRemove, ClearLeaves, rows, QueueInv, TypeOK
<1>4. AddsOk'
    BY <1>2 DEF QueueInv, AddsOk, AddOk, InFlight
<1>5. LinesOk'
    <2> SUFFICES ASSUME NEW k \in Lines PROVE LineOk(k)'
        BY DEF LinesOk
    <2>1. LineOk(k) /\ CardsOf(k)' = CardsOf(k)
        BY <1>2 DEF QueueInv, LinesOk, CardsOf
    <2>2. row[k] = "pending" => k \in files' \cup raced'
        BY <1>2, <1>3, <2>1 DEF LineOk
    <2>3. capture[k] = "saved" => k \in files' \cup raced' \/ row[k] # "none"
        BY <1>2, <1>3, <2>1 DEF LineOk
    <2> QED
        BY <1>2, <2>1, <2>2, <2>3 DEF LineOk, AtWork
<1>6. PairsOk' /\ ReportsOk'
    BY <1>2 DEF QueueInv, PairsOk, PairOk, Spent, ReportsOk, ReportOk, Disturbed
<1>7. PromotesOk'
    <2> SUFFICES ASSUME NEW b \in Adds, from[b] # Ring PROVE PromoteOk(b)'
        BY <1>2 DEF PromotesOk, PromoteOk
    <2>1. PromoteOk(b) /\ b \in Since(from[b])
        BY DEF QueueInv, PromotesOk, AddsOk, AddOk, Since, Promotes
    <2>2. Disturbed(b) => Disturbed(b)'
        BY <1>2 DEF Disturbed
    <2>3. from[b] \in files \ files' => Disturbed(b)'
        BY <1>2, <1>3, <2>1, <2>2 DEF PromoteOk, Disturbed
    <2> QED
        BY <1>2, <2>1, <2>2, <2>3 DEF PromoteOk, AtWork
<1> QED
    BY <1>1, <1>4, <1>5, <1>6, <1>7 DEF QueueInv

\* The server dies: its handlers and tasks end where they are.
LEMMA CrashKeeps ==
    ASSUME QueueInv, Crash
    PROVE  QueueInv'
<1>1. /\ UNCHANGED <<made, told, media, row, files, from, paths, raced, touched, rival>>
      /\ task' = {} /\ removing' = {} /\ unresolved \subseteq unresolved'
      /\ \A a \in Adds : AtWork(a) /\ step[a] = "added" => a \in unresolved'
    BY DEF Crash, Carded, CardCrash, anki, rows
<1>2. \A a \in Adds : /\ step'[a] = IF InFlight(a) THEN "failed" ELSE step[a]
                      /\ promote'[a] = IF AtWork(a) THEN "over" ELSE promote[a]
    BY DEF Crash, CardCrash
<1>3. \A l \in Lines : capture'[l] # "saved"
    BY DEF Crash
<1>4. \A a \in Adds : step'[a] = "added" <=> step[a] = "added"
    BY <1>2 DEF InFlight
<1>5. TypeOK'
    BY DiscardTypes DEF QueueInv
<1>6. AddsOk'
    <2> SUFFICES ASSUME NEW a \in Adds PROVE AddOk(a)'
        BY DEF AddsOk
    <2>1. AddOk(a)
        BY DEF QueueInv, AddsOk
    <2>2. promote'[a] # "read" /\ ~InFlight(a)' /\ (promote'[a] = "idle" <=> promote[a] = "idle")
        BY <1>2 DEF AtWork, InFlight
    <2>3. step'[a] = "idle" <=> step[a] = "idle"
        BY <1>2 DEF InFlight
    <2> QED
        BY <1>1, <1>4, <2>1, <2>2, <2>3 DEF AddOk
<1>7. LinesOk'
    <2> SUFFICES ASSUME NEW k \in Lines PROVE LineOk(k)'
        BY DEF LinesOk
    <2>1. LineOk(k) /\ CardsOf(k)' = CardsOf(k) /\ CardsOf(k) \subseteq Adds
        BY <1>1 DEF QueueInv, TypeOK, CardTypeOK, LinesOk, CardsOf
    <2>2. row[k] = "pending" => \A b \in CardsOf(k) : step'[b] # "added" \/ b \in unresolved'
        BY <1>1, <1>4, <2>1 DEF LineOk
    <2> QED
        BY <1>1, <1>3, <1>4, <2>1, <2>2 DEF LineOk
<1>8. PairsOk'
    <2>1. ASSUME NEW a \in Adds, Spent(a) PROVE Spent(a)'
        BY <1>1, <1>2, <1>4, <2>1 DEF Spent, AtWork
    <2> QED
        BY <1>1, <2>1 DEF QueueInv, PairsOk, PairOk
<1>9. PromotesOk'
    BY <1>1, <1>2 DEF PromotesOk, PromoteOk, AtWork
<1>10. ReportsOk'
    BY <1>1 DEF QueueInv, ReportsOk, ReportOk, Disturbed
<1> QED
    BY <1>5, <1>6, <1>7, <1>8, <1>9, <1>10 DEF QueueInv

---------------------------------------------------------------------------
(* The theorems.                                                           *)

\* Every step keeps the invariant.
LEMMA QueueKeeps ==
    ASSUME QueueInv, [Next]_vars
    PROVE  QueueInv'
<1>1. CASE UNCHANGED vars
    <2>1. TypeOK'
        BY TypesKeep DEF QueueInv
    <2> QED
        BY <1>1, <2>1, IdleKeeps DEF vars, cardVars
<1>2. CASE QueueNext
    BY <1>2, CapturesKeep, PromoteReadKeeps, SendKeeps, PromoteEndKeeps, DroppedKeeps, MineKeeps,
       MineDroppedKeeps, EnrichKeeps,
       DiscardKeeps, RemovesKeep, CrashKeeps DEF QueueNext
<1> QED
    BY <1>1, <1>2, CardKeeps DEF Next

\* It holds before anything was captured.
LEMMA QueueBegins ==
    ASSUME Init
    PROVE  QueueInv
<1>1. TypeOK
    BY DEF Init, CardInit, TypeOK, CardTypeOK, Steps
<1>2. AddsOk
    BY DEF Init, CardInit, AddsOk, AddOk, InFlight
<1>3. LinesOk
    BY DEF Init, CardInit, LinesOk, LineOk
<1>4. PairsOk /\ PromotesOk /\ ReportsOk
    BY DEF Init, CardInit, PairsOk, PairOk, PromotesOk, PromoteOk, ReportsOk, ReportOk
<1> QED
    BY <1>1, <1>2, <1>3, <1>4 DEF QueueInv

\* However captures, promotes, discards, clears and what follows a card
\* overlap, and whatever is lost on the way to Anki.
THEOREM QueueInvariant == Spec => []QueueInv
BY QueueBegins, QueueKeeps, PTL DEF Spec

\* A row that is offered has its media, unless a clear removed them before the
\* row was there.
THEOREM OffersHaveMedia == Spec => []PendingHasMedia
<1>1. QueueInv => PendingHasMedia
    BY DEF QueueInv, LinesOk, LineOk, PendingHasMedia
<1> QED
    BY <1>1, QueueInvariant, PTL

\* A row that was promoted has its card, and one that is pending has none that
\* an add knows of, unless it was cut off between card and row.
THEOREM RowsTellOfCards == Spec => []RowTellsOfCard
<1>1. QueueInv => RowTellsOfCard
    BY DEF QueueInv, LinesOk, LineOk, RowTellsOfCard
<1> QED
    BY <1>1, QueueInvariant, PTL

\* Two promotes of a row both know of a card of theirs only if they were at
\* work together, or one was cut off before it could resolve the row.
THEOREM OneCardEach == Spec => []OneCardPerLine
<1>1. ASSUME QueueInv PROVE OneCardPerLine
    <2> SUFFICES ASSUME NEW l \in Lines, NEW a \in CardsOf(l), NEW b \in CardsOf(l), a # b
                 PROVE  \/ {a, b} \subseteq rival
                        \/ \E c \in {a, b} : step[c] # "added" \/ c \in unresolved
        BY DEF OneCardPerLine
    <2>1. a \in Adds /\ b \in Adds /\ from[a] = from[b] /\ from[a] # Ring
        BY <1>1, QueueAssumptions DEF CardsOf, QueueInv, TypeOK, CardTypeOK
    <2> QED
        BY <1>1, <2>1 DEF QueueInv, PairsOk, PairOk, Spent
<1> QED
    BY <1>1, QueueInvariant, PTL

\* A card that is reported complete was given its media, unless somebody else
\* had its line in hand.
THEOREM ReportsAreTrue == Spec => []ToldMeansMedia
<1>1. QueueInv => ToldMeansMedia
    BY DEF QueueInv, TypeOK, CardTypeOK, ReportsOk, ReportOk, Disturbed, ToldMeansMedia
<1> QED
    BY <1>1, QueueInvariant, PTL
================================================================================
