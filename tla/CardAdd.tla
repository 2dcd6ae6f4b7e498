--------------------------------- MODULE CardAdd ---------------------------------
(***************************************************************************)
(* Adding a card to Anki and what has to follow it: add_note and forward   *)
(* (kotodex-server/src/services/card.rs), the mirror row of the new note   *)
(* (db/anki_notes.rs) and the refresh of the deck that replaces the mirror *)
(* (routes/anki.rs).                                                       *)
(*                                                                         *)
(* Anki is external.  It is asked never to add a second note of a word, it *)
(* may apply a request whose answer is lost, and its owner may delete a    *)
(* note there.  A note is named by the add that made it.                   *)
(***************************************************************************)
EXTENDS Integers, FiniteSets

CONSTANTS
    Adds,        \* adds made in one run of the system
    Words,       \* the words cards are made of
    Refreshers,  \* dashboards that may refresh the deck at the same time
    Losses,      \* what can happen to a request: see Loss
    Deleting     \* whether a note may be deleted in Anki

(* "out": it failed on its way, Anki never saw it.  "back": Anki applied it *)
(* and the connection closed before an answer.  "unreadable": the answer    *)
(* came and could not be read.                                              *)
Loss == {"out", "back", "unreadable"}

ASSUME CardAssumptions ==
    /\ IsFiniteSet(Adds) /\ IsFiniteSet(Words)
    /\ Losses \subseteq Loss /\ Deleting \in BOOLEAN

VARIABLES
    step,    \* where each add's request is
    word,    \* the word each add is for
    notes,   \* the notes Anki holds
    made,    \* history: every note Anki ever made
    task,    \* the detached tasks that have not ended: <<kind, add>>
    media,   \* the notes that were given sound or picture
    told,    \* the adds whose completion was notified
    mirror,  \* anki_notes
    deck,    \* what each refresh has read of the deck
    at       \* where each refresh is

anki    == <<notes, made>>
request == <<step, word>>
effect  == <<task, media, told>>
copy    == <<mirror, deck, at>>
cardVars == <<step, word, notes, made, task, media, told, mirror, deck, at>>

Steps == {"idle", "first", "second", "added", "refused", "failed"}
Tasks == {"mirror", "enrich", "finish", "lacking"} \X Adds

CardTypeOK ==
    /\ step \in [Adds -> Steps] /\ word \in [Adds -> Words]
    /\ notes \subseteq made /\ made \subseteq Adds
    /\ task \subseteq Tasks /\ media \subseteq Adds /\ told \subseteq Adds
    /\ mirror \subseteq Adds
    /\ deck \in [Refreshers -> SUBSET Adds]
    /\ at \in [Refreshers -> {"idle", "listed", "read"}]

CardInit ==
    /\ step = [a \in Adds |-> "idle"] /\ word \in [Adds -> Words]
    /\ notes = {} /\ made = {}
    /\ task = {} /\ media = {} /\ told = {}
    /\ mirror = {}
    /\ deck = [r \in Refreshers |-> {}] /\ at = [r \in Refreshers |-> "idle"]

---------------------------------------------------------------------------
(* The request.                                                            *)

InFlight(a) == step[a] \in {"first", "second"}
Moved(a, s) == step' = [step EXCEPT ![a] = s] /\ UNCHANGED word

\* build_note and the popup: an add of any word.
Send(a) ==
    /\ step[a] = "idle"
    /\ step' = [step EXCEPT ![a] = "first"] /\ UNCHANGED word

\* Anki, asked for a note with allowDuplicate false.
Duplicate(a) == \E n \in notes : word[n] = word[a]
Applied(a) ==
    /\ notes' = IF Duplicate(a) THEN notes ELSE notes \cup {a}
    /\ made'  = IF Duplicate(a) THEN made ELSE made \cup {a}

\* The reply has a note id: two tasks are spawned and awaited by nothing.
Answered(a) ==
    /\ InFlight(a) /\ Applied(a)
    /\ IF Duplicate(a)
       THEN Moved(a, "refused") /\ UNCHANGED task
       ELSE Moved(a, "added") /\ task' = task \cup {<<"mirror", a>>, <<"enrich", a>>}
    /\ UNCHANGED <<media, told, copy>>

\* is_request() holds of a send that failed on its way out and of one whose
\* connection closed before an answer: one more attempt, then an error.
AfterLoss(a) == IF step[a] = "first" THEN "second" ELSE "failed"

Lost(a) ==
    /\ InFlight(a)
    /\ \/ "out" \in Losses /\ Moved(a, AfterLoss(a)) /\ UNCHANGED anki
       \/ "back" \in Losses /\ Moved(a, AfterLoss(a)) /\ Applied(a)
       \/ "unreadable" \in Losses /\ Moved(a, "failed") /\ Applied(a)
    /\ UNCHANGED <<effect, copy>>

\* The caller is gone and the handler is dropped in the middle of the request,
\* which Anki may have applied.
Abandoned(a) ==
    /\ InFlight(a) /\ Moved(a, "failed")
    /\ Applied(a) \/ UNCHANGED anki
    /\ UNCHANGED <<effect, copy>>

---------------------------------------------------------------------------
(* What follows an added card.                                             *)

Ended(t) == task' = task \ {t}

\* mirror_added_note: best effort.
MirrorAdded(a) ==
    /\ <<"mirror", a>> \in task /\ Ended(<<"mirror", a>>)
    /\ mirror' \in {mirror, mirror \cup {a}}
    /\ UNCHANGED <<request, anki, media, told, deck, at>>

\* capture::run, as enrich_added_note awaits it: the script attaches what it
\* was given and answers ok, `found` or not; or it fails.
EnrichCapture(a, found) ==
    /\ <<"enrich", a>> \in task
    /\ \/ /\ task' = (task \ {<<"enrich", a>>}) \cup {<<"finish", a>>}
          /\ media' = IF found THEN media \cup {a} ELSE media
       \/ /\ task' = (task \ {<<"enrich", a>>}) \cup {<<"lacking", a>>}
          /\ UNCHANGED media
    /\ UNCHANGED <<request, anki, told, copy>>

\* The definition is written and read back, or is not: only a card that
\* lacked nothing is reported.
EnrichFinish(a) ==
    /\ \/ <<"finish", a>> \in task /\ told' \in {told, told \cup {a}}
       \/ <<"lacking", a>> \in task /\ UNCHANGED told
    /\ task' = task \ {<<"finish", a>>, <<"lacking", a>>}
    /\ UNCHANGED <<request, anki, media, copy>>

---------------------------------------------------------------------------
(* The deck refresh: find_notes, notes_vocab, replace_anki_notes.          *)

RefreshList(r) ==
    /\ at[r] = "idle" /\ at' = [at EXCEPT ![r] = "listed"]
    /\ deck' = [deck EXCEPT ![r] = notes]
    /\ UNCHANGED <<request, anki, effect, mirror>>

\* A note deleted since it was listed comes back empty and is skipped.
RefreshRead(r) ==
    /\ at[r] = "listed" /\ at' = [at EXCEPT ![r] = "read"]
    /\ deck' = [deck EXCEPT ![r] = @ \cap notes]
    /\ UNCHANGED <<request, anki, effect, mirror>>

\* Mutant: the deck is laid over what the mirror holds.
X_Replacement(r) == deck[r] \cup mirror

Replacement(r) == deck[r]

\* One transaction; a refresh may also fail before it and leave no trace.
RefreshStore(r) ==
    /\ at[r] = "read" /\ at' = [at EXCEPT ![r] = "idle"]
    /\ deck' = [deck EXCEPT ![r] = {}]
    /\ mirror' = Replacement(r)
    /\ UNCHANGED <<request, anki, effect>>

RefreshFail(r) ==
    /\ at[r] # "idle" /\ at' = [at EXCEPT ![r] = "idle"]
    /\ deck' = [deck EXCEPT ![r] = {}]
    /\ UNCHANGED <<request, anki, effect, mirror>>

DeleteNote(a) ==
    /\ Deleting /\ a \in notes /\ notes' = notes \ {a}
    /\ UNCHANGED <<made, request, effect, copy>>

\* The server dies: no request, task or refresh of its survives.
CardCrash ==
    /\ step' = [a \in Adds |-> IF InFlight(a) THEN "failed" ELSE step[a]]
    /\ task' = {}
    /\ at' = [r \in Refreshers |-> "idle"] /\ deck' = [r \in Refreshers |-> {}]
    /\ UNCHANGED <<word, anki, media, told, mirror>>

CardNext ==
    \/ \E a \in Adds : \/ Answered(a) \/ Lost(a)
                       \/ MirrorAdded(a) \/ EnrichFinish(a) \/ DeleteNote(a)
    \/ \E r \in Refreshers : \/ RefreshList(r) \/ RefreshRead(r)
                             \/ RefreshStore(r) \/ RefreshFail(r)
=============================================================================
