------------------------------ MODULE Dictionaries ------------------------------
(***************************************************************************)
(* The dictionaries of knowledge.db and the command that manages them,     *)
(* jp-dict (jp-core/src/bin/jp-dict.rs over knowledge/dictionaries.rs and  *)
(* dictionary/mod.rs).  A command is a process of its own: the launcher    *)
(* starts a sync it never waits for while somebody may type another one.   *)
(* Each action is one statement or one transaction of the command; what a  *)
(* command read earlier it carries along.                                  *)
(*                                                                         *)
(* A zip is parsed outside the database and is external.  Entries and      *)
(* frequencies are their number: that is all the fingerprint sees of them. *)
(***************************************************************************)
EXTENDS Integers, FiniteSets, Sequences, Functions

CONSTANTS
    Commands,    \* processes that may run jp-dict
    Zips,        \* the zips in the dictionaries directory, in order
    Holds,       \* zip -> [entries, freqs] that parsing it gives
    Reparsed,    \* zip -> the numbers of entries a later parser may give
    Configured,  \* the zip KOTODEX_MASTER_DICTIONARY names, installed or not
    Installed,   \* the dictionaries at the start, by id
    Settable,    \* roles somebody sets
    MaxId,       \* bound: the highest rowid given out
    MaxRuns,     \* bound: commands run
    MaxDeaths    \* bound: processes killed

VARIABLES
    dicts,   \* id -> [zip, role, priority, entries, freqs]
    cmd,     \* where each command is and what it has read
    runs,    \* commands begun
    deaths,  \* processes killed
    overlap  \* history: two commands have run at once

dictVars == <<dicts, cmd, runs, deaths, overlap>>

Roles == {"master", "standard", "name", "frequency", "pitch", "reference"}
Ids   == 1 .. MaxId
Row   == [zip : DOMAIN Holds, role : Roles, priority : Ids \cup {0},
          entries : Nat, freqs : Nat]
\* What a command has read and means to do: the zips to go through, the zips it knew,
\* its listing, and the rows it has yet to give a role.
Idle  == [pc |-> "idle", op |-> "none", id |-> 0, role |-> "reference",
          todo |-> << >>, known |-> {}, sets |-> {}, listing |-> << >>]

ASSUME DictAssumptions ==
    /\ Zips \in Seq(DOMAIN Holds)
    /\ \A z \in DOMAIN Holds : Holds[z].entries \in Nat /\ Holds[z].freqs \in Nat
    /\ \A z \in DOMAIN Holds : Reparsed[z] \subseteq Nat
    /\ Settable \subseteq Roles
    /\ {MaxId, MaxRuns, MaxDeaths} \subseteq Nat
\* The dictionaries at the start: no two masters, and all frequencies are in.
ASSUME InstalledAssumption ==
    /\ DOMAIN Installed \subseteq Ids /\ Installed \in [DOMAIN Installed -> Row]
    /\ \A i \in DOMAIN Installed : Installed[i].freqs = Holds[Installed[i].zip].freqs
    /\ \A i, j \in DOMAIN Installed :
          Installed[i].role = "master" /\ Installed[j].role = "master" => i = j

DictTypeOK ==
    /\ DOMAIN dicts \subseteq Ids /\ \A i \in DOMAIN dicts : dicts[i] \in Row
    /\ \A c \in Commands : cmd[c].pc \in
          {"idle", "find", "import", "freqs", "guess", "order", "label", "choose",
           "count", "demote", "apply", "remove", "replace", "refresh", "deriving"}
    /\ runs \in 0 .. MaxRuns /\ deaths \in 0 .. MaxDeaths /\ overlap \in BOOLEAN

DictInit ==
    /\ dicts = Installed
    /\ cmd = [c \in Commands |-> Idle]
    /\ runs = 0 /\ deaths = 0 /\ overlap = FALSE

---------------------------------------------------------------------------
(* What the handlers ask of the table.                                     *)

\* A row more, or another in its place.
Put(f, k, v) == [x \in DOMAIN f \cup {k} |-> IF x = k THEN v ELSE f[x]]

\* list_dictionaries, and what of ids comes first in its order: by priority, then id.
Listed == [i \in DOMAIN dicts |-> [zip |-> dicts[i].zip, role |-> dicts[i].role,
                                   priority |-> dicts[i].priority]]
Foremost(ids, list) ==
    {i \in ids : \A j \in ids : \/ list[i].priority < list[j].priority
                               \/ (list[i].priority = list[j].priority /\ i <= j)}
IdsOf(z)   == {i \in DOMAIN dicts : dicts[i].zip = z}
RoleIs(r)  == {i \in DOMAIN dicts : dicts[i].role = r}
Masters    == RoleIs("master")
\* SQLite's next rowid of a table without AUTOINCREMENT: one above the highest.
NextIds == {n \in Ids : n - 1 \in DOMAIN dicts \cup {0} /\ \A i \in DOMAIN dicts : i < n}
\* guess_role: the banks a freshly imported zip turned out to have.
GuessRole(i) ==
    IF dicts[i].entries > 0 THEN "reference"
    ELSE IF dicts[i].freqs > 0 THEN "frequency" ELSE "reference"

At(c, pc)  == cmd[c].pc = pc
Goto(c, pc) == cmd' = [cmd EXCEPT ![c].pc = pc]
Ends(c)    == cmd' = [cmd EXCEPT ![c] = Idle]
\* The command proper is over; what is left is refresh_derived_cache.
Finished(c) == cmd' = [cmd EXCEPT ![c] = [Idle EXCEPT !.pc = "refresh", !.op = cmd[c].op]]
Same       == UNCHANGED <<runs, deaths, overlap>>
Read(c)    == UNCHANGED dicts /\ Same
\* An UPDATE by id changes nothing when the row has gone.
Update(i, field, v) ==
    dicts' = [j \in DOMAIN dicts |->
                IF j = i THEN [dicts[j] EXCEPT ![field] = v] ELSE dicts[j]]

Begin(c, op, next) ==
    /\ runs' = runs + 1
    /\ overlap' = (overlap \/ \E d \in Commands : ~At(d, "idle"))
    /\ cmd' = [cmd EXCEPT ![c] = [next EXCEPT !.op = op]]
    /\ UNCHANGED deaths

---------------------------------------------------------------------------
(* jp-dict sync, which import is too.                                      *)

\* import_all's first read: which zips are cached.
Sync(c) ==
    /\ Begin(c, "sync", [Idle EXCEPT !.pc = "find", !.todo = Zips,
                                     !.known = {dicts[i].zip : i \in DOMAIN dicts}])
    /\ UNCHANGED dicts

\* load_or_import: a zip that is cached by now is not imported.
Find(c) ==
    /\ At(c, "find") /\ cmd[c].todo # << >>
    /\ Goto(c, IF IdsOf(Head(cmd[c].todo)) # {} THEN "guess" ELSE "import")
    /\ Read(c)

\* import_dictionary: the row and its entries in one transaction.  The path is
\* unique: another command that was faster makes this one fail.
Import(c) ==
    LET z == Head(cmd[c].todo) IN
    /\ At(c, "import")
    /\ IF IdsOf(z) # {} THEN Ends(c) /\ UNCHANGED dicts
       ELSE \E i \in NextIds :
            /\ dicts' = Put(dicts, i, [zip |-> z, role |-> "reference", priority |-> 0,
                                       entries |-> Holds[z].entries, freqs |-> 0])
            /\ cmd' = [cmd EXCEPT ![c] = [cmd[c] EXCEPT !.id = i,
                         !.pc = IF Holds[z].freqs > 0 THEN "freqs" ELSE "guess"]]
    /\ Same
\* insert_frequency_entries, a transaction of its own; it refers to the row.
Freqs(c) ==
    LET i == cmd[c].id IN
    /\ At(c, "freqs")
    /\ IF i \notin DOMAIN dicts THEN Ends(c) /\ UNCHANGED dicts
       ELSE /\ Update(i, "freqs", dicts[i].freqs + Holds[Head(cmd[c].todo)].freqs)
            /\ Goto(c, "guess")
    /\ Same
\* The row is found again by its path; a role is guessed for a new row only, and
\* new is what was not in the first listing.
Guess(c) ==
    LET z == Head(cmd[c].todo) IN
    /\ At(c, "guess")
    /\ cmd' = IF IdsOf(z) = {} \/ z \in cmd[c].known
              THEN [cmd EXCEPT ![c] = [cmd[c] EXCEPT !.pc = "find", !.todo = Tail(cmd[c].todo)]]
              ELSE LET i == CHOOSE i \in IdsOf(z) : TRUE IN
                   [cmd EXCEPT ![c] = [cmd[c] EXCEPT !.pc = "order", !.id = i, !.role = GuessRole(i)]]
    /\ Read(c)
Order(c) ==
    /\ At(c, "order") /\ Update(cmd[c].id, "priority", cmd[c].id)
    /\ Goto(c, "label") /\ Same
Label(c) ==
    /\ At(c, "label") /\ Update(cmd[c].id, "role", cmd[c].role)
    /\ cmd' = [cmd EXCEPT ![c] = [cmd[c] EXCEPT !.pc = "find", !.todo = Tail(cmd[c].todo), !.id = 0,
                                          !.role = "reference"]]
    /\ Same

\* Mutant: a master is looked for only by its configured name.
X_Master(c) ==
    /\ At(c, "find") /\ cmd[c].todo = << >>
    /\ IF Masters # {} \/ IdsOf(Configured) = {} THEN Finished(c) ELSE Goto(c, "choose")
    /\ Read(c)
\* ensure_master of the command: nothing to do when a master is set.
Master(c) ==
    /\ At(c, "find") /\ cmd[c].todo = << >>
    /\ IF Masters # {} THEN Finished(c) ELSE Goto(c, "choose")
    /\ Read(c)

\* The updates ensure_master makes: the target is to be the master and no other.
Promote(c, all, target) ==
    LET needed == {i \in DOMAIN all : (i = target) # (all[i].role = "master")} IN
    IF needed = {} THEN Finished(c)
    ELSE cmd' = [cmd EXCEPT ![c] = [Idle EXCEPT !.pc = "apply", !.op = cmd[c].op,
                    !.id = target, !.role = "master", !.sets = needed, !.listing = all]]

\* ensure_master of the library, up to fallback_master's count.
Choose(c) ==
    LET named    == IdsOf(Configured)
        standard == RoleIs("standard") IN
    /\ At(c, "choose")
    /\ IF named # {} THEN \E i \in Foremost(named, Listed) : Promote(c, Listed, i)
       ELSE IF Masters # {} THEN Finished(c)
       ELSE IF standard # {} THEN \E i \in Foremost(standard, Listed) : Promote(c, Listed, i)
       ELSE cmd' = [cmd EXCEPT ![c] = [cmd[c] EXCEPT !.pc = "count", !.listing = Listed]]
    /\ Read(c)
\* The smallest dictionary that has entries, else the first that could have any.
Count(c) ==
    LET all     == cmd[c].listing
        counted == {i \in DOMAIN dicts : dicts[i].entries > 0}
        Less(i, j) == \/ dicts[i].entries < dicts[j].entries
                      \/ dicts[i].entries = dicts[j].entries /\ i <= j
        least   == {i \in counted \cap DOMAIN all : \A j \in counted : Less(i, j)}
        could   == {i \in DOMAIN all : all[i].role \notin {"frequency", "pitch"}} IN
    /\ At(c, "count")
    /\ IF least # {} THEN \E i \in least : Promote(c, all, i)
       ELSE IF could # {} THEN \E i \in Foremost(could, all) : Promote(c, all, i)
       ELSE Finished(c)
    /\ Read(c)

\* set_role, one statement at a time, in the order of the listing.
Apply(c) ==
    /\ At(c, "apply")
    /\ \E i \in Foremost(cmd[c].sets, cmd[c].listing) :
         /\ Update(i, "role", IF i = cmd[c].id THEN cmd[c].role ELSE "reference")
         /\ IF cmd[c].sets = {i} THEN Finished(c)
            ELSE cmd' = [cmd EXCEPT ![c].sets = cmd[c].sets \ {i}]
    /\ Same

---------------------------------------------------------------------------
(* The other commands: each lists the dictionaries first.                  *)

\* Mutant: the incumbent does not step down.
X_SetRole(c, i, r) ==
    /\ i \in DOMAIN dicts
    /\ Begin(c, "set-role", [Idle EXCEPT !.pc = "apply", !.id = i, !.role = r,
                                         !.sets = {i}, !.listing = Listed])
    /\ UNCHANGED dicts
\* set-role: exactly one master, so who else holds the role is demoted first.
SetRole(c, i, r) ==
    LET old == IF r = "master" THEN Masters \ {i} ELSE {} IN
    /\ i \in DOMAIN dicts
    /\ Begin(c, "set-role", [Idle EXCEPT !.pc = IF old = {} THEN "apply" ELSE "demote",
            !.id = i, !.role = r, !.sets = IF old = {} THEN {i} ELSE old, !.listing = Listed])
    /\ UNCHANGED dicts
Demote(c) ==
    /\ At(c, "demote")
    /\ \E i \in Foremost(cmd[c].sets, cmd[c].listing) :
         /\ Update(i, "role", "reference")
         /\ cmd' = IF cmd[c].sets = {i}
                   THEN [cmd EXCEPT ![c] = [cmd[c] EXCEPT !.pc = "apply", !.sets = {cmd[c].id}]]
                   ELSE [cmd EXCEPT ![c].sets = cmd[c].sets \ {i}]
    /\ Same
SetPriority(c, i, n) ==
    /\ i \in DOMAIN dicts
    /\ Begin(c, "priority", [Idle EXCEPT !.pc = "refresh"])
    /\ Update(i, "priority", n)
\* remove refuses the master it listed; by then another command may have made it one.
RemoveCmd(c, i) ==
    /\ i \in DOMAIN dicts \ Masters
    /\ Begin(c, "remove", [Idle EXCEPT !.pc = "remove", !.id = i]) /\ UNCHANGED dicts
Removed(c) ==
    /\ At(c, "remove") /\ Finished(c) /\ Same
    /\ dicts' = [j \in DOMAIN dicts \ {cmd[c].id} |-> dicts[j]]
\* reimport parses the zip and replaces the entries in one transaction.
Reimport(c, i) ==
    /\ i \in DOMAIN dicts
    /\ Begin(c, "reimport", [Idle EXCEPT !.pc = "replace", !.id = i]) /\ UNCHANGED dicts
Replaced(c) ==
    LET i == cmd[c].id IN
    /\ At(c, "replace") /\ Same
    /\ IF i \notin DOMAIN dicts THEN Ends(c) /\ UNCHANGED dicts
       ELSE /\ \E n \in Reparsed[dicts[i].zip] : Update(i, "entries", n)
            /\ Finished(c)

Die(c) ==
    /\ ~At(c, "idle") /\ deaths < MaxDeaths
    /\ deaths' = deaths + 1 /\ Ends(c) /\ UNCHANGED <<dicts, runs, overlap>>

Step(c) ==
    /\ cmd[c].pc \notin {"idle", "refresh", "deriving"}
    /\ \/ Find(c) \/ Import(c) \/ Freqs(c) \/ Guess(c) \/ Order(c) \/ Label(c)
       \/ Master(c) \/ Choose(c) \/ Count(c) \/ Demote(c) \/ Apply(c) \/ Removed(c) \/ Replaced(c)
\* What is typed.  Bounds: a priority is set where it decides something, among
\* the lists, and a zip without entries is not parsed again, which changes nothing.
Typed(c) ==
    /\ At(c, "idle") /\ runs < MaxRuns
    /\ \/ Sync(c)
       \/ \E i \in DOMAIN dicts :
            \/ \E r \in Settable : SetRole(c, i, r)
            \/ i \in RoleIs("frequency") /\ SetPriority(c, i, 0)
            \/ RemoveCmd(c, i)
            \/ dicts[i].entries > 0 /\ Reimport(c, i)

---------------------------------------------------------------------------
(* "Exactly one row should hold this": commands that never overlapped leave *)
(* at most one master, wherever one of them was killed.                     *)
OneMaster == ~overlap => Cardinality(Masters) <= 1

(* A sync that ran to its end alone, after none was killed, leaves every   *)
(* zip cached with all its frequencies and a master among the dictionaries *)
(* that can be one.                                                        *)
SyncLeaves ==
    \A c \in Commands :
      At(c, "refresh") /\ cmd[c].op = "sync" /\ ~overlap /\ deaths = 0 =>
        /\ \A z \in Range(Zips) : \E i \in IdsOf(z) : dicts[i].freqs = Holds[z].freqs
        /\ \/ Masters # {}
           \/ \A i \in DOMAIN dicts : dicts[i].role \in {"frequency", "pitch"}
=============================================================================
