------------------------------- MODULE MiningQueue -------------------------------
(***************************************************************************)
(* The mining queue: capture_candidates (services/mining_queue.rs) takes a *)
(* line's sound and picture while they last, and promote, discard and      *)
(* clear (routes/mining_queue.rs) say what becomes of it.  The handlers    *)
(* share the rows (db/mining_queue.rs) and the media directories and hold  *)
(* no lock: what is one action below is one statement of theirs.  A        *)
(* promote adds its card through CardAdd.  A handler ends where it is when  *)
(* a statement of it fails, or when its caller is gone and it is dropped.   *)
(*                                                                         *)
(* The capture script is external: it may never end, and one that was      *)
(* given up on after CAPTURE_TIMEOUT is not killed.                        *)
(***************************************************************************)
EXTENDS CardAdd

CONSTANTS
    Lines,     \* lines that hold a word the ledger has not judged
    Ring,      \* where a card from the popup has its media from: not a line
    Stalling,  \* whether the capture script may hang
    Clearing,  \* whether the reader discards rows and clears the queue
    Crashing   \* whether the server may die, once

ASSUME QueueAssumptions ==
    /\ IsFiniteSet(Lines) /\ Ring \notin Lines
    /\ {Stalling, Clearing, Crashing} \subseteq BOOLEAN

VARIABLES
    capture,   \* where capture_one is for each line
    stray,     \* lines whose capture was given up on and still runs
    tooOld,    \* lines past MAX_LINE_AGE_SECS
    row,       \* the line's row in mining_queue
    files,     \* lines whose media directory holds what was captured
    from,      \* the line each add promotes, or Ring
    promote,   \* where each promote is
    paths,     \* promotes whose row still named its media
    removing,  \* lines whose discard has resolved the row and not yet removed the files
    wiping,    \* a clear has resolved the rows and not yet removed the files
    crashed,   \* the server died
    raced,     \* history: lines whose media a clear removed before their row was there
    touched,   \* history: adds whose line was discarded or cleared since they began
    rival,     \* history: adds whose line another promote was at work on
    unresolved \* history: adds that got their card and ended without resolving its row

rows     == <<row, files>>
shooting == <<capture, stray, tooOld>>
handlers == <<from, promote, paths, removing, wiping>>
past     == <<raced, touched, rival, unresolved>>
queueVars == <<shooting, rows, handlers, past, crashed>>
vars == <<cardVars, queueVars>>

TypeOK ==
    /\ CardTypeOK
    /\ capture \in [Lines -> {"unread", "waiting", "shooting", "saved", "over"}]
    /\ row \in [Lines -> {"none", "pending", "promoted", "discarded"}]
    /\ from \in [Adds -> Lines \cup {Ring}]
    /\ promote \in [Adds -> {"idle", "read", "sent", "over"}]
    /\ stray \cup tooOld \cup files \cup removing \cup raced \subseteq Lines
    /\ paths \cup touched \cup rival \cup unresolved \subseteq Adds
    /\ {wiping, crashed} \subseteq BOOLEAN

Init ==
    /\ CardInit
    /\ capture = [l \in Lines |-> "unread"] /\ stray = {} /\ tooOld = {}
    /\ row = [l \in Lines |-> "none"] /\ files = {}
    /\ from = [a \in Adds |-> Ring] /\ promote = [a \in Adds |-> "idle"] /\ paths = {}
    /\ removing = {} /\ wiping = FALSE /\ crashed = FALSE
    /\ raced = {} /\ touched = {} /\ rival = {} /\ unresolved = {}

---------------------------------------------------------------------------
(* Taking the media.                                                       *)

At(l, where) == capture' = [capture EXCEPT ![l] = where]

\* CAPTURE_SLOT is held until capture_one returns.
SlotTaken == \E l \in Lines : capture[l] \in {"shooting", "saved"}

Age(l) ==
    /\ capture[l] \in {"unread", "waiting"} /\ tooOld' = tooOld \cup {l}
    /\ UNCHANGED <<cardVars, capture, stray, rows, handlers, past, crashed>>

\* The line was read: capture_candidates looks at its age and its words.
Ask(l) ==
    /\ capture[l] = "unread"
    /\ At(l, IF l \in tooOld THEN "over" ELSE "waiting")
    /\ UNCHANGED <<cardVars, stray, tooOld, rows, handlers, past, crashed>>

\* Its turn: the age is looked at again.
Shoot(l) ==
    /\ capture[l] = "waiting" /\ ~SlotTaken
    /\ At(l, IF l \in tooOld THEN "over" ELSE "shooting")
    /\ UNCHANGED <<cardVars, stray, tooOld, rows, handlers, past, crashed>>

\* The script ends: with media, or with neither sound nor picture.
ShotTaken(l) ==
    /\ capture[l] = "shooting"
    /\ \/ At(l, "saved") /\ files' = files \cup {l}
       \/ At(l, "over") /\ UNCHANGED files
    /\ UNCHANGED <<cardVars, stray, tooOld, row, handlers, past, crashed>>

\* Mutant: the capture has no timeout.
X_GiveUp(l) == l \notin Lines /\ UNCHANGED vars

\* CAPTURE_TIMEOUT.
GiveUp(l) ==
    /\ capture[l] = "shooting" /\ At(l, "over") /\ stray' = stray \cup {l}
    /\ UNCHANGED <<cardVars, tooOld, rows, handlers, past, crashed>>

StrayEnds(l) ==
    /\ l \in stray /\ stray' = stray \ {l}
    /\ files' \in {files, files \cup {l}}
    /\ UNCHANGED <<cardVars, capture, tooOld, row, handlers, past, crashed>>

\* insert_entry: INSERT OR IGNORE on the line's id; or it fails.
Enqueue(l) ==
    /\ capture[l] = "saved" /\ At(l, "over")
    /\ \/ row[l] = "none" /\ row' = [row EXCEPT ![l] = "pending"]
       \/ UNCHANGED row
    /\ UNCHANGED <<cardVars, stray, tooOld, files, handlers, past, crashed>>

---------------------------------------------------------------------------
(* Promoting a row.                                                        *)

Resolved(l, status) ==
    IF row[l] = "pending" THEN [row EXCEPT ![l] = status] ELSE row

AtWork(a) == promote[a] \in {"read", "sent"}
Promotes(a, l) == from[a] = l /\ promote[a] # "idle"

\* Mutant: the row's status is not looked at.
X_PromoteRead(a, l) ==
    /\ step[a] = "idle" /\ promote[a] = "idle" /\ row[l] # "none"
    /\ promote' = [promote EXCEPT ![a] = "read"] /\ from' = [from EXCEPT ![a] = l]
    /\ rival' = LET others == {b \in Adds : from[b] = l /\ AtWork(b)}
                IN  IF others = {} THEN rival ELSE rival \cup others \cup {a}
    /\ UNCHANGED <<cardVars, shooting, rows, paths, removing, wiping,
                   raced, touched, unresolved, crashed>>

\* fetch_entry, and the look at its status.
PromoteRead(a, l) ==
    /\ step[a] = "idle" /\ promote[a] = "idle" /\ row[l] = "pending"
    /\ promote' = [promote EXCEPT ![a] = "read"] /\ from' = [from EXCEPT ![a] = l]
    /\ rival' = LET others == {b \in Adds : from[b] = l /\ AtWork(b)}
                IN  IF others = {} THEN rival ELSE rival \cup others \cup {a}
    /\ UNCHANGED <<cardVars, shooting, rows, paths, removing, wiping,
                   raced, touched, unresolved, crashed>>

\* fetch_media, whose columns are empty once the row is resolved; build_note;
\* add_note_with.
PromoteSend(a) ==
    /\ promote[a] = "read" /\ promote' = [promote EXCEPT ![a] = "sent"]
    /\ paths' = IF row[from[a]] = "pending" THEN paths \cup {a} ELSE paths
    /\ Send(a)
    /\ UNCHANGED <<anki, effect, copy, shooting, rows, from, removing, wiping, past, crashed>>

\* Mutant: the row is resolved whatever Anki answered.
X_PromoteEnd(a) ==
    /\ promote[a] = "sent" /\ ~InFlight(a)
    /\ promote' = [promote EXCEPT ![a] = "over"]
    /\ row' = Resolved(from[a], "promoted")
    /\ UNCHANGED <<cardVars, shooting, files, from, paths, removing, wiping, past, crashed>>

\* Mutant: the files go with the row.
X_PromoteRemoves(a) ==
    /\ promote[a] = "sent" /\ ~InFlight(a)
    /\ promote' = [promote EXCEPT ![a] = "over"]
    /\ row' = IF step[a] = "added" THEN Resolved(from[a], "promoted") ELSE row
    /\ files' = IF step[a] = "added" THEN files \ {from[a]} ELSE files
    /\ UNCHANGED <<cardVars, shooting, from, paths, removing, wiping, past, crashed>>

\* The row is resolved only on a card that exists; its files are left to the
\* capture, which is detached and still to read them.
PromoteEnd(a) ==
    /\ promote[a] = "sent" /\ ~InFlight(a)
    /\ promote' = [promote EXCEPT ![a] = "over"]
    /\ row' = IF step[a] = "added" THEN Resolved(from[a], "promoted") ELSE row
    /\ UNCHANGED <<cardVars, shooting, files, from, paths, removing, wiping, past, crashed>>

\* Adds that have their card while their handler ends.
Carded(ending) == unresolved' = unresolved \cup {a \in ending : step[a] = "added"}

\* A statement of a promote fails, its note cannot be built, or its caller is
\* gone: it ends where it is, and a card it has already leaves the row pending.
PromoteDropped(a) ==
    /\ AtWork(a) /\ promote' = [promote EXCEPT ![a] = "over"]
    /\ Abandoned(a) \/ (~InFlight(a) /\ UNCHANGED cardVars)
    /\ Carded({a})
    /\ UNCHANGED <<shooting, rows, from, paths, removing, wiping, raced, touched, rival, crashed>>

\* A card from the popup, of the line on screen; its caller may go as well.
Mine(a) ==
    /\ promote[a] = "idle" /\ Send(a)
    /\ UNCHANGED <<anki, effect, copy, queueVars>>

MineDropped(a) == from[a] = Ring /\ Abandoned(a) /\ UNCHANGED queueVars

\* What the capture of an added card finds.  From the ring, what is on screen.
Found(a) == from[a] = Ring \/ (a \in paths /\ from[a] \in files)

---------------------------------------------------------------------------
(* Discarding a row, and clearing them all.                                *)

Since(l) == {a \in Adds : Promotes(a, l)}

\* Mutant: the files are removed first.
X_DiscardResolve(l) ==
    /\ Clearing /\ row[l] # "none" /\ l \notin removing
    /\ files' = files \ {l} /\ removing' = removing \cup {l}
    /\ touched' = touched \cup Since(l)
    /\ UNCHANGED <<cardVars, shooting, row, from, promote, paths, wiping, raced, rival,
                   unresolved, crashed>>

\* discard reads the row, whatever its status, and resolves it.
DiscardResolve(l) ==
    /\ Clearing /\ row[l] # "none" /\ l \notin removing
    /\ row' = Resolved(l, "discarded") /\ removing' = removing \cup {l}
    /\ touched' = touched \cup Since(l)
    /\ UNCHANGED <<cardVars, shooting, files, from, promote, paths, wiping, raced, rival,
                   unresolved, crashed>>

DiscardRemove(l) ==
    /\ l \in removing /\ removing' = removing \ {l} /\ files' = files \ {l}
    /\ UNCHANGED <<cardVars, shooting, row, from, promote, paths, wiping, past, crashed>>

\* The files stay: they could not be removed, or the caller was gone by then.
DiscardLeaves(l) ==
    /\ l \in removing /\ removing' = removing \ {l}
    /\ UNCHANGED <<cardVars, shooting, rows, from, promote, paths, wiping, past, crashed>>

\* discard_all_pending.
ClearResolve ==
    /\ Clearing /\ ~wiping /\ wiping' = TRUE
    /\ row' = [l \in Lines |-> IF row[l] = "pending" THEN "discarded" ELSE row[l]]
    /\ touched' = touched \cup UNION {Since(l) : l \in Lines}
    /\ UNCHANGED <<cardVars, shooting, files, from, promote, paths, removing, raced, rival,
                   unresolved, crashed>>

\* remove_all_media.
ClearRemove ==
    /\ wiping /\ wiping' = FALSE /\ files' = {}
    /\ raced' = raced \cup {l \in files : capture[l] = "saved" \/ row[l] = "pending"}
    /\ touched' = touched \cup UNION {Since(l) : l \in Lines}
    /\ UNCHANGED <<cardVars, shooting, row, from, promote, paths, removing, rival,
                   unresolved, crashed>>

ClearLeaves ==
    /\ wiping /\ wiping' = FALSE
    /\ UNCHANGED <<cardVars, shooting, rows, from, promote, paths, removing, past, crashed>>

\* The rows and the files stay; a script outlives the server that started it.
Crash ==
    /\ Crashing /\ ~crashed /\ crashed' = TRUE
    /\ CardCrash
    /\ capture' = [l \in Lines |-> IF capture[l] = "unread" THEN "unread" ELSE "over"]
    /\ stray' = stray \cup {l \in Lines : capture[l] = "shooting"}
    /\ promote' = [a \in Adds |-> IF AtWork(a) THEN "over" ELSE promote[a]]
    /\ Carded({a \in Adds : AtWork(a)})
    /\ removing' = {} /\ wiping' = FALSE
    /\ UNCHANGED <<tooOld, rows, from, paths, raced, touched, rival>>

---------------------------------------------------------------------------
QueueNext ==
    \/ \E l \in Lines : \/ Age(l) \/ Ask(l) \/ Shoot(l) \/ ShotTaken(l)
                        \/ Stalling /\ GiveUp(l)
                        \/ StrayEnds(l) \/ Enqueue(l)
                        \/ DiscardResolve(l) \/ DiscardRemove(l) \/ DiscardLeaves(l)
    \/ \E a \in Adds : \/ \E l \in Lines : PromoteRead(a, l)
                       \/ PromoteSend(a) \/ PromoteEnd(a) \/ PromoteDropped(a)
                       \/ Mine(a) \/ MineDropped(a)
                       \/ EnrichCapture(a, Found(a)) /\ UNCHANGED queueVars
    \/ ClearResolve \/ ClearRemove \/ ClearLeaves \/ Crash

Next == (CardNext /\ UNCHANGED queueVars) \/ QueueNext

Spec == Init /\ [][Next]_vars

(* The server's own steps happen; a script need not end, a line need not    *)
(* age, and nobody need press anything.  The dashboard is opened again and  *)
(* again, and its refresh does not always fail.                            *)
Fairness ==
    /\ \A l \in Lines : /\ SF_vars(Shoot(l))
                        /\ WF_vars(GiveUp(l)) /\ WF_vars(Enqueue(l))
    /\ \A a \in Adds : WF_vars((Answered(a) \/ Lost(a) \/ MirrorAdded(a)) /\ UNCHANGED queueVars)
    /\ \A r \in Refreshers : /\ WF_vars(RefreshList(r) /\ UNCHANGED queueVars)
                             /\ SF_vars(RefreshRead(r) /\ UNCHANGED queueVars)
                             /\ SF_vars(RefreshStore(r) /\ UNCHANGED queueVars)

FairSpec == Spec /\ Fairness

---------------------------------------------------------------------------
(* Properties.                                                             *)

(* A row offered in the queue has its media, unless a clear that ran beside *)
(* its capture removed them before the row was there.                      *)
PendingHasMedia ==
    \A l \in Lines : row[l] = "pending" => l \in files \cup raced

CardsOf(l) == {a \in made : from[a] = l}

(* The row says what became of the line: a promoted one has its card, and a *)
(* pending one has none, but for a promote still at work, one whose answer  *)
(* was lost, and one that was cut off between its card and its row.         *)
RowTellsOfCard ==
    /\ TypeOK
    /\ \A l \in Lines :
        /\ row[l] = "promoted" => \E a \in CardsOf(l) : step[a] = "added"
        /\ row[l] = "pending" => \A a \in CardsOf(l) :
              AtWork(a) \/ step[a] # "added" \/ a \in unresolved

(* One line, one card: two promotes of a row both add one only if they ran  *)
(* at the same time, or the first was never told of its card or was cut off *)
(* before it could resolve the row.                                        *)
OneCardPerLine ==
    \A l \in Lines : \A a, b \in CardsOf(l) :
        a = b \/ {a, b} \subseteq rival
              \/ \E c \in {a, b} : step[c] # "added" \/ c \in unresolved

(* The notification means that nothing failed: a card of the queue that is  *)
(* reported complete was given its media, unless they were removed under it: *)
(* its line was discarded or cleared, or promoted a second time, meanwhile. *)
ToldMeansMedia ==
    \A a \in told : a \in media \cup touched \cup rival \/ from[a] \in raced

(* A script that hangs does not keep the slot: every capture that waits for *)
(* it ends.                                                                *)
CapturesEnd == \A l \in Lines : capture[l] = "waiting" ~> capture[l] = "over"

(* Whatever overlaps, the mirror comes to hold just the notes Anki holds.   *)
MirrorCatchesUp == <>[](mirror = notes)
=============================================================================
