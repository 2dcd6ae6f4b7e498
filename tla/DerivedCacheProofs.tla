--------------------------- MODULE DerivedCacheProofs ---------------------------
(***************************************************************************)
(* Dictionaries and DerivedCache for all commands, servers and zips: jp-dict *)
(* leaves at most one master and a finished import as long as commands do   *)
(* not overlap; and a server that trusts the cache has what a build of its  *)
(* own would give it, however many builds, stores and changes of the        *)
(* dictionaries went on at once.                                            *)
(***************************************************************************)
EXTENDS DerivedCache, FiniteSetTheorems, TLAPS

---------------------------------------------------------------------------
(* Types.                                                                  *)

\* The functions from a part of S to V.
Table(S, V) == UNION {[T -> V] : T \in SUBSET S}
Entry    == [zip : DOMAIN Holds, role : Roles, priority : Ids \cup {0}]
Command  == [pc : {"idle", "find", "import", "freqs", "guess", "order", "label", "choose",
                   "count", "demote", "apply", "remove", "replace", "refresh", "deriving"},
             op : {"none", "sync", "set-role", "priority", "remove", "reimport"},
             id : Ids \cup {0}, role : Roles, todo : Seq(DOMAIN Holds),
             known : SUBSET DOMAIN Holds, sets : SUBSET (Ids \cup {0}), listing : Table(Ids, Entry)]
Sections == {"master", "reader_ranks"}
Pair     == Nat \X Nat
Stamp    == [rows : Table(Ids, Entry), counts : Table(Ids, Pair)]
Payload  == SUBSET ((DOMAIN Holds) \X Nat)
Rows     == Table(Sections, [stamp : Stamp, payload : Payload])
Work     == [pc : {"rest", "load", "print", "stored", "build", "store", "ready"},
             listed : BOOLEAN, print : Stamp, read : {<< >>} \cup {<<r>> : r \in Rows},
             built : Table(Sections, Payload),
             todo : {<< >>, SECTIONS, <<"reader_ranks">>}, moved : BOOLEAN]

DictTypes ==
    /\ dicts \in Table(Ids, Row)
    /\ cmd \in [Commands -> Command]
    /\ runs \in 0 .. MaxRuns /\ deaths \in 0 .. MaxDeaths /\ overlap \in BOOLEAN
CacheTypes ==
    /\ cache \in Rows
    /\ work \in [Workers -> Work]
    /\ starts \in 0 .. MaxStarts /\ returned \in BOOLEAN

---------------------------------------------------------------------------
(* The invariant of jp-dict.                                               *)

\* A sync at a zip has one.
AtZip == {"import", "freqs", "guess", "order", "label"}
TodoInv == \A c \in Commands : cmd[c].pc \in AtZip => cmd[c].todo # << >>

\* Commands that never overlapped ran one at a time, and left at most one master.
Alone == ~overlap => \A c, d \in Commands : ~At(c, "idle") /\ ~At(d, "idle") => c = d
SoleMaster == ~overlap => \A i, j \in Masters : i = j

\* Where a command that runs alone is with the master.
Promoting(c) ==
    /\ cmd[c].pc \in {"choose", "count"} => Masters = {}
    /\ At(c, "count") => cmd[c].listing = Listed
    /\ cmd[c].pc \in {"order", "label"} => cmd[c].role # "master"
    /\ At(c, "demote") => Masters \subseteq cmd[c].sets \cup {cmd[c].id}
    /\ At(c, "apply") => /\ cmd[c].sets = {cmd[c].id}
                         /\ cmd[c].role = "master" => Masters \subseteq {cmd[c].id}
MasterInv == /\ Alone /\ SoleMaster
             /\ ~overlap => \A c \in Commands : Promoting(c)

\* A row has all its frequencies, or the command that put it there is about to add them.
Filling(c, i) == /\ At(c, "freqs") /\ cmd[c].id = i /\ cmd[c].todo # << >>
                 /\ dicts[i].zip = Head(cmd[c].todo)
WholeRow(i) == \/ dicts[i].freqs = Holds[dicts[i].zip].freqs
               \/ dicts[i].freqs = 0 /\ \E c \in Commands : Filling(c, i)

\* How far a sync that runs alone has got.
HasMaster == \/ Masters # {}
             \/ \A i \in DOMAIN dicts : dicts[i].role \in {"frequency", "pitch"}
Importing(c) ==
    /\ cmd[c].op = "sync" /\ ~At(c, "idle") =>
         /\ \A z \in Range(Zips) : z \in Range(cmd[c].todo) \/ IdsOf(z) # {}
         /\ cmd[c].pc \notin {"demote", "remove", "replace"}
         /\ At(c, "apply") => cmd[c].id \in DOMAIN dicts /\ cmd[c].role = "master"
         /\ At(c, "refresh") => HasMaster
    /\ cmd[c].pc \in {"guess", "order", "label"} =>
         cmd[c].todo # << >> /\ IdsOf(Head(cmd[c].todo)) # {}
    /\ At(c, "freqs") => /\ cmd[c].id \in DOMAIN dicts /\ Filling(c, cmd[c].id)
                         /\ dicts[cmd[c].id].freqs = 0
    /\ cmd[c].pc \in {"choose", "count", "apply", "demote", "refresh", "deriving"} => cmd[c].todo = << >>
SyncInv ==
    ~overlap /\ deaths = 0 =>
        /\ \A i \in DOMAIN dicts : WholeRow(i)
        /\ \A c \in Commands : Importing(c)

---------------------------------------------------------------------------
(* The invariant of the cache.                                             *)

Complete(t) == DOMAIN t.counts = DOMAIN t.rows
\* What a fingerprint says is true, or a part of it is past.
Live(t)  == Parts(t) \subseteq Parts(Fingerprint)
Stale(t) == Parts(t) \cap was # {}
Seen(t)  == Live(t) \/ Stale(t)
\* If t is true now, then d is what the section's query answers.
Sound(t, x, d) == Live(t) => d = Derive(x)
Trusty(r, x) == Seen(r.stamp) /\ Sound(r.stamp, x, r.payload)

\* Where each process is with its fingerprint and its build.
Shape(w) ==
    /\ w \in Commands /\ ~In(w, "rest") => At(w, "deriving")
    /\ In(w, "rest") => ~work[w].listed
    /\ work[w].pc \in {"rest", "load", "print"} => work[w].built = << >>
    /\ work[w].listed => DOMAIN work[w].print.counts \subseteq DOMAIN work[w].print.rows
    /\ work[w].pc \in {"build", "store"} => work[w].listed /\ Complete(work[w].print)
    /\ In(w, "build") => \/ work[w].todo = SECTIONS /\ work[w].built = << >>
                         \/ work[w].todo = <<"reader_ranks">> /\ DOMAIN work[w].built = {"master"}
    /\ In(w, "store") => /\ work[w].todo \in {SECTIONS, <<"reader_ranks">>}
                         /\ DOMAIN work[w].built = Sections
ShapeInv ==
    /\ \A w \in Workers : Shape(w)
    /\ \A x \in DOMAIN cache : Complete(cache[x].stamp)
    /\ \A w \in Workers : \A n \in DOMAIN work[w].read : \A x \in DOMAIN work[w].read[n] :
         Complete(work[w].read[n][x].stamp)

\* As long as no part of a fingerprint came back.
Trust(w) ==
    /\ work[w].listed => Seen(work[w].print)
    /\ work[w].pc \in {"build", "store"} =>
         \A x \in DOMAIN work[w].built : Sound(work[w].print, x, work[w].built[x])
    /\ \A n \in DOMAIN work[w].read : \A x \in DOMAIN work[w].read[n] :
         Trusty(work[w].read[n][x], x)
TrustInv == ~returned =>
    /\ was \cap Parts(Fingerprint) = {}
    /\ \A x \in DOMAIN cache : Trusty(cache[x], x)
    /\ \A w \in Workers : Trust(w)

\* What a server has seen while no dictionary changed is still so.
Current(t) == /\ t.rows = Listed
              /\ \A i \in DOMAIN t.counts : t.counts[i] = Counted(i)
Fresh(s) ==
    /\ work[s].listed => Current(work[s].print)
    /\ work[s].pc \in {"build", "store"} =>
         \A x \in DOMAIN work[s].built : work[s].built[x] = Derive(x)
    /\ In(s, "ready") /\ ~returned => work[s].built = [x \in Range(SECTIONS) |-> Derive(x)]
FreshInv == \A s \in Servers : ~work[s].moved => Fresh(s)

DictInv  == DictTypes /\ TodoInv /\ MasterInv /\ SyncInv
CacheInv == CacheTypes /\ ShapeInv /\ TrustInv /\ FreshInv
---------------------------------------------------------------------------
(* The types of jp-dict.                                                   *)

\* A function from a part of S to V is one of the table's, and the other way round.
LEMMA TableIntro ==
    ASSUME NEW S, NEW V, NEW T \in SUBSET S, NEW f \in [T -> V]
    PROVE  f \in Table(S, V)
BY DEF Table
LEMMA TableElim ==
    ASSUME NEW S, NEW V, NEW f \in Table(S, V)
    PROVE  /\ DOMAIN f \subseteq S /\ f \in [DOMAIN f -> V]
           /\ f = [x \in DOMAIN f |-> f[x]] /\ \A x \in DOMAIN f : f[x] \in V
BY DEF Table

\* The empty table is one of any.
LEMMA NoRows ==
    ASSUME NEW S, NEW V
    PROVE  << >> \in Table(S, V) /\ DOMAIN << >> = {}
<1>1. << >> \in [{} -> V]
  OBVIOUS
<1> QED
  BY <1>1, TableIntro

LEMMA IdsNat == MaxId \in Nat /\ Ids \subseteq Nat \ {0}
BY DictAssumptions DEF Ids

\* A command at rest, whatever it was called.
LEMMA IdleTyped == Idle \in Command
<1>1. << >> \in Table(Ids, Entry)
  BY NoRows
<1>2. << >> \in Seq(DOMAIN Holds)
  OBVIOUS
<1> QED
  BY <1>1, <1>2 DEF Idle, Command, Roles

\* The listing of the table.
LEMMA ListedTyped ==
    ASSUME dicts \in Table(Ids, Row)
    PROVE  /\ Listed \in Table(Ids, Entry) /\ DOMAIN Listed = DOMAIN dicts
           /\ \A i \in DOMAIN dicts : Listed[i].role = dicts[i].role
<1>1. /\ DOMAIN dicts \subseteq Ids
      /\ \A i \in DOMAIN dicts : dicts[i] \in Row
  BY TableElim
<1>2. \A i \in DOMAIN dicts : [zip |-> dicts[i].zip, role |-> dicts[i].role,
                              priority |-> dicts[i].priority] \in Entry
  BY <1>1 DEF Row, Entry
<1>3. Listed \in [DOMAIN dicts -> Entry]
  BY <1>2 DEF Listed
<1> QED
  BY <1>1, <1>3, TableIntro DEF Listed

\* A column of one row is set: the ids stay, and so do the other rows and columns.
LEMMA SetRoleColumn ==
    ASSUME dicts \in Table(Ids, Row), NEW i, NEW v \in Roles, Update(i, "role", v)
    PROVE  /\ dicts' \in Table(Ids, Row) /\ DOMAIN dicts' = DOMAIN dicts
           /\ \A j \in DOMAIN dicts :
                /\ dicts'[j].role = IF j = i THEN v ELSE dicts[j].role
                /\ dicts'[j].zip = dicts[j].zip /\ dicts'[j].freqs = dicts[j].freqs
                /\ dicts'[j].entries = dicts[j].entries
<1>1. /\ DOMAIN dicts \subseteq Ids
      /\ \A j \in DOMAIN dicts : dicts[j] \in Row
  BY TableElim
<1>2. \A j \in DOMAIN dicts : [dicts[j] EXCEPT !["role"] = v] \in Row
  BY <1>1 DEF Row
<1>3. dicts' \in [DOMAIN dicts -> Row]
  BY <1>1, <1>2 DEF Update
<1> QED
  BY <1>1, <1>2, <1>3, TableIntro DEF Update, Row
LEMMA SetPriorityColumn ==
    ASSUME dicts \in Table(Ids, Row), NEW i, NEW v \in Ids \cup {0}, Update(i, "priority", v)
    PROVE  /\ dicts' \in Table(Ids, Row) /\ DOMAIN dicts' = DOMAIN dicts
           /\ \A j \in DOMAIN dicts :
                /\ dicts'[j].role = dicts[j].role
                /\ dicts'[j].zip = dicts[j].zip /\ dicts'[j].freqs = dicts[j].freqs
<1>1. /\ DOMAIN dicts \subseteq Ids
      /\ \A j \in DOMAIN dicts : dicts[j] \in Row
  BY TableElim
<1>2. \A j \in DOMAIN dicts : [dicts[j] EXCEPT !["priority"] = v] \in Row
  BY <1>1 DEF Row
<1>3. dicts' \in [DOMAIN dicts -> Row]
  BY <1>1, <1>2 DEF Update
<1> QED
  BY <1>1, <1>2, <1>3, TableIntro DEF Update, Row
LEMMA SetFreqsColumn ==
    ASSUME dicts \in Table(Ids, Row), NEW i, NEW v \in Nat, Update(i, "freqs", v)
    PROVE  /\ dicts' \in Table(Ids, Row) /\ DOMAIN dicts' = DOMAIN dicts
           /\ \A j \in DOMAIN dicts :
                /\ dicts'[j].role = dicts[j].role /\ dicts'[j].zip = dicts[j].zip
                /\ dicts'[j].freqs = IF j = i THEN v ELSE dicts[j].freqs
<1>1. /\ DOMAIN dicts \subseteq Ids
      /\ \A j \in DOMAIN dicts : dicts[j] \in Row
  BY TableElim
<1>2. \A j \in DOMAIN dicts : [dicts[j] EXCEPT !["freqs"] = v] \in Row
  BY <1>1 DEF Row
<1>3. dicts' \in [DOMAIN dicts -> Row]
  BY <1>1, <1>2 DEF Update
<1> QED
  BY <1>1, <1>2, <1>3, TableIntro DEF Update, Row
LEMMA SetEntriesColumn ==
    ASSUME dicts \in Table(Ids, Row), NEW i, NEW v \in Nat, Update(i, "entries", v)
    PROVE  /\ dicts' \in Table(Ids, Row) /\ DOMAIN dicts' = DOMAIN dicts
           /\ \A j \in DOMAIN dicts :
                /\ dicts'[j].role = dicts[j].role
                /\ dicts'[j].zip = dicts[j].zip /\ dicts'[j].freqs = dicts[j].freqs
<1>1. /\ DOMAIN dicts \subseteq Ids
      /\ \A j \in DOMAIN dicts : dicts[j] \in Row
  BY TableElim
<1>2. \A j \in DOMAIN dicts : [dicts[j] EXCEPT !["entries"] = v] \in Row
  BY <1>1 DEF Row
<1>3. dicts' \in [DOMAIN dicts -> Row]
  BY <1>1, <1>2 DEF Update
<1> QED
  BY <1>1, <1>2, <1>3, TableIntro DEF Update, Row

\* The row an import adds, and the row a removal takes away.
LEMMA AddRow ==
    ASSUME dicts \in Table(Ids, Row), NEW i \in Ids, i \notin DOMAIN dicts,
           NEW r \in Row, dicts' = Put(dicts, i, r)
    PROVE  /\ dicts' \in Table(Ids, Row) /\ DOMAIN dicts' = DOMAIN dicts \cup {i}
           /\ dicts'[i] = r /\ \A j \in DOMAIN dicts : dicts'[j] = dicts[j]
<1>1. /\ DOMAIN dicts \subseteq Ids
      /\ \A j \in DOMAIN dicts : dicts[j] \in Row
  BY TableElim
<1>2. dicts' \in [DOMAIN dicts \cup {i} -> Row]
  BY <1>1 DEF Put
<1> QED
  BY <1>1, <1>2, TableIntro DEF Put
LEMMA DropRow ==
    ASSUME dicts \in Table(Ids, Row), NEW i,
           dicts' = [j \in DOMAIN dicts \ {i} |-> dicts[j]]
    PROVE  /\ dicts' \in Table(Ids, Row) /\ DOMAIN dicts' = DOMAIN dicts \ {i}
           /\ \A j \in DOMAIN dicts' : dicts'[j] = dicts[j]
<1>1. /\ DOMAIN dicts \subseteq Ids
      /\ \A j \in DOMAIN dicts : dicts[j] \in Row
  BY TableElim
<1>2. dicts' \in [DOMAIN dicts \ {i} -> Row]
  BY <1>1
<1> QED
  BY <1>1, <1>2, TableIntro

---------------------------------------------------------------------------
(* What a statement of a command leaves of it, and of the others.          *)

Others(c) == \A d \in Commands \ {c} : cmd'[d] = cmd[d]
Becomes(c, k) == /\ cmd' \in [Commands -> Command] /\ cmd'[c] = k /\ Others(c)

LEMMA CommandBecomes ==
    ASSUME DictTypes, NEW c \in Commands, NEW k \in Command, cmd' = [cmd EXCEPT ![c] = k]
    PROVE  Becomes(c, k)
BY DEF DictTypes, Becomes, Others

LEMMA CommandAt == ASSUME DictTypes, NEW c \in Commands PROVE cmd[c] \in Command
BY DEF DictTypes

LEMMA GoesTo ==
    ASSUME DictTypes, NEW c \in Commands, Goto(c, cmd'[c].pc),
           cmd'[c].pc \in {"find", "import", "guess", "choose", "label", "deriving"}
    PROVE  Becomes(c, [cmd[c] EXCEPT !.pc = cmd'[c].pc])
<1>1. [cmd[c] EXCEPT !.pc = cmd'[c].pc] \in Command
  BY CommandAt DEF Command
<1>2. cmd' = [cmd EXCEPT ![c] = [cmd[c] EXCEPT !.pc = cmd'[c].pc]]
  BY DEF DictTypes, Goto
<1> QED
  BY <1>1, <1>2, CommandBecomes

LEMMA EndsIdle ==
    ASSUME DictTypes, NEW c \in Commands, Ends(c)
    PROVE  Becomes(c, Idle)
BY IdleTyped, CommandBecomes DEF Ends

\* A command that only has the cache left to bring up to date.
Done(c) == [Idle EXCEPT !.pc = "refresh", !.op = cmd[c].op]
LEMMA FinishedRefresh ==
    ASSUME DictTypes, NEW c \in Commands, Finished(c)
    PROVE  Becomes(c, Done(c))
<1>1. Done(c) \in Command
  BY CommandAt, IdleTyped DEF Command, Done
<1> QED
  BY <1>1, CommandBecomes DEF Finished, Done

\* One that has a master to set.
Needed(all, target) == {i \in DOMAIN all : (i = target) # (all[i].role = "master")}
Setting(c, all, target) ==
    [Idle EXCEPT !.pc = "apply", !.op = cmd[c].op, !.id = target, !.role = "master",
                 !.sets = Needed(all, target), !.listing = all]
LEMMA PromoteSets ==
    ASSUME DictTypes, NEW c \in Commands, NEW all \in Table(Ids, Entry), NEW i \in Ids,
           Promote(c, all, i)
    PROVE  \/ Needed(all, i) = {} /\ Becomes(c, Done(c))
           \/ Needed(all, i) # {} /\ Becomes(c, Setting(c, all, i))
<1>1. Needed(all, i) \subseteq Ids
  BY TableElim DEF Needed
<1>2. Setting(c, all, i) \in Command
  BY <1>1, CommandAt, IdleTyped, ZenonT(60) DEF Command, Setting, Roles
<1> QED
  BY <1>2, CommandBecomes, FinishedRefresh DEF Promote, Needed, Setting

\* A new command.
LEMMA BeginBecomes ==
    ASSUME DictTypes, NEW c \in Commands, NEW next \in Command,
           NEW op \in {"sync", "set-role", "priority", "remove", "reimport"},
           runs < MaxRuns, Begin(c, op, next)
    PROVE  /\ Becomes(c, [next EXCEPT !.op = op])
           /\ runs' \in 0 .. MaxRuns /\ deaths' \in 0 .. MaxDeaths /\ overlap' \in BOOLEAN
<1>1. [next EXCEPT !.op = op] \in Command
  BY DEF Command
<1>2. runs' \in 0 .. MaxRuns /\ deaths' \in 0 .. MaxDeaths
  BY DictAssumptions DEF Begin, DictTypes
<1>3. overlap' \in BOOLEAN
  BY DEF Begin, DictTypes
<1> QED
  BY <1>1, <1>2, <1>3, CommandBecomes DEF Begin

\* The types after a statement, from what it does to the command and the table.
LEMMA TypesAfter ==
    ASSUME DictTypes, cmd' \in [Commands -> Command], dicts' \in Table(Ids, Row), Same
    PROVE  DictTypes'
<1>1. runs' = runs /\ deaths' = deaths /\ overlap' = overlap
  BY DEF Same
<1> QED
  BY <1>1 DEF DictTypes

---------------------------------------------------------------------------
(* Each statement: the command and the table after it.                     *)

\* The zips to go through.
LEMMA TodoTail ==
    ASSUME NEW S, NEW q \in Seq(S), q # << >>
    PROVE  /\ Head(q) \in S /\ Tail(q) \in Seq(S)
           /\ Range(q) = {Head(q)} \cup Range(Tail(q))
<1>1. Head(q) \in S /\ Tail(q) \in Seq(S) /\ Len(q) > 0
  OBVIOUS
<1>2. /\ \A n \in DOMAIN Tail(q) : Tail(q)[n] = q[n + 1] /\ n + 1 \in DOMAIN q
      /\ \A n \in DOMAIN q : n = 1 \/ (n - 1 \in DOMAIN Tail(q) /\ Tail(q)[n - 1] = q[n])
      /\ Head(q) = q[1] /\ 1 \in DOMAIN q
  BY <1>1
<1>3. Range(q) \subseteq {Head(q)} \cup Range(Tail(q))
  BY <1>2 DEF Range
<1>4. {Head(q)} \cup Range(Tail(q)) \subseteq Range(q)
  BY <1>2 DEF Range
<1> QED
  BY <1>1, <1>3, <1>4

LEMMA FindSteps ==
    ASSUME DictTypes, NEW c \in Commands, Find(c)
    PROVE  /\ DictTypes' /\ Others(c) /\ UNCHANGED dicts /\ Same /\ cmd[c].todo # << >>
           /\ IF IdsOf(Head(cmd[c].todo)) # {}
              THEN cmd'[c] = [cmd[c] EXCEPT !.pc = "guess"]
              ELSE cmd'[c] = [cmd[c] EXCEPT !.pc = "import"]
<1> DEFINE p == IF IdsOf(Head(cmd[c].todo)) # {} THEN "guess" ELSE "import"
<1>1. [cmd[c] EXCEPT !.pc = p] \in Command
  BY CommandAt DEF Command
<1>2. cmd' = [cmd EXCEPT ![c] = [cmd[c] EXCEPT !.pc = p]] /\ UNCHANGED dicts /\ Same
  BY DEF Find, Goto, Read, DictTypes
<1>3. Becomes(c, [cmd[c] EXCEPT !.pc = p])
  BY <1>1, <1>2, CommandBecomes
<1>4. DictTypes'
  BY <1>2, <1>3, TypesAfter DEF Becomes, DictTypes
<1> QED
  BY <1>2, <1>3, <1>4 DEF Becomes, Find

LEMMA ImportSteps ==
    ASSUME DictTypes, NEW c \in Commands, Import(c), cmd[c].todo # << >>
    PROVE  /\ DictTypes' /\ Others(c) /\ Same
           /\ \/ cmd'[c] = Idle /\ UNCHANGED dicts /\ IdsOf(Head(cmd[c].todo)) # {}
              \/ \E i \in Ids :
                   /\ i \notin DOMAIN dicts /\ DOMAIN dicts' = DOMAIN dicts \cup {i}
                   /\ dicts'[i].zip = Head(cmd[c].todo) /\ dicts'[i].role = "reference"
                   /\ dicts'[i].freqs = 0
                   /\ \A j \in DOMAIN dicts : dicts'[j] = dicts[j]
                   /\ cmd'[c] = [cmd[c] EXCEPT !.id = i,
                        !.pc = IF Holds[Head(cmd[c].todo)].freqs > 0 THEN "freqs" ELSE "guess"]
<1> DEFINE z == Head(cmd[c].todo)
<1>0. Same /\ cmd[c] \in Command
  BY CommandAt DEF Import
<1>1. z \in DOMAIN Holds
  BY <1>0, TodoTail DEF Command
<1>2. CASE IdsOf(z) # {}
  <2>1. Ends(c) /\ UNCHANGED dicts
    BY <1>2 DEF Import
  <2> QED
    BY <2>1, <1>0, <1>2, EndsIdle, TypesAfter DEF Becomes, DictTypes
<1>3. CASE IdsOf(z) = {}
  <2> DEFINE r == [zip |-> z, role |-> "reference", priority |-> 0,
                   entries |-> Holds[z].entries, freqs |-> 0]
             p == IF Holds[z].freqs > 0 THEN "freqs" ELSE "guess"
  <2>1. PICK i \in NextIds : /\ dicts' = Put(dicts, i, r)
                             /\ cmd' = [cmd EXCEPT ![c] = [cmd[c] EXCEPT !.id = i, !.pc = p]]
    BY <1>3 DEF Import, DictTypes
  <2>2. i \in Ids /\ i \notin DOMAIN dicts
    <3>1. i \in Ids /\ \A j \in DOMAIN dicts : j < i
      BY DEF NextIds
    <3>2. i \in Nat /\ ~(i < i)
      BY <3>1, IdsNat
    <3> QED
      BY <3>1, <3>2
  <2>3. r \in Row
    BY <1>1, DictAssumptions DEF Row, Roles
  <2> HIDE DEF r, p
  <2>4. /\ dicts' \in Table(Ids, Row) /\ DOMAIN dicts' = DOMAIN dicts \cup {i}
        /\ dicts'[i] = r /\ \A j \in DOMAIN dicts : dicts'[j] = dicts[j]
    BY <2>1, <2>2, <2>3, AddRow DEF DictTypes
  <2> DEFINE k == [cmd[c] EXCEPT !.id = i, !.pc = p]
  <2>5. k \in Command
    BY <1>0, <2>2 DEF Command, p
  <2>6. cmd' = [cmd EXCEPT ![c] = k]
    BY <2>1
  <2> HIDE DEF k
  <2>7. Becomes(c, k)
    BY <2>5, <2>6, CommandBecomes
  <2>8. DictTypes'
    BY <1>0, <2>4, <2>7, TypesAfter DEF Becomes
  <2> QED
    <3>1. /\ dicts'[i].zip = z /\ dicts'[i].role = "reference" /\ dicts'[i].freqs = 0
      BY <2>4 DEF r
    <3>2. cmd'[c] = [cmd[c] EXCEPT !.id = i,
                        !.pc = IF Holds[z].freqs > 0 THEN "freqs" ELSE "guess"]
      BY <2>7 DEF Becomes, k, p
    <3> HIDE DEF z
    <3>3. \E j \in Ids :
            /\ j \notin DOMAIN dicts /\ DOMAIN dicts' = DOMAIN dicts \cup {j}
            /\ dicts'[j].zip = z /\ dicts'[j].role = "reference" /\ dicts'[j].freqs = 0
            /\ \A d \in DOMAIN dicts : dicts'[d] = dicts[d]
            /\ cmd'[c] = [cmd[c] EXCEPT !.id = j,
                            !.pc = IF Holds[z].freqs > 0 THEN "freqs" ELSE "guess"]
      BY <2>2, <2>4, <3>1, <3>2
    <3> QED
      BY <1>0, <2>7, <2>8, <3>3 DEF Becomes, z
<1> QED
  BY <1>2, <1>3

LEMMA FreqsSteps ==
    ASSUME DictTypes, NEW c \in Commands, Freqs(c), cmd[c].todo # << >>
    PROVE  /\ DictTypes' /\ Others(c) /\ Same
           /\ \/ cmd'[c] = Idle /\ UNCHANGED dicts /\ cmd[c].id \notin DOMAIN dicts
              \/ /\ cmd[c].id \in DOMAIN dicts /\ DOMAIN dicts' = DOMAIN dicts
                 /\ \A j \in DOMAIN dicts :
                      /\ dicts'[j].role = dicts[j].role /\ dicts'[j].zip = dicts[j].zip
                      /\ dicts'[j].freqs = IF j = cmd[c].id
                            THEN dicts[j].freqs + Holds[Head(cmd[c].todo)].freqs
                            ELSE dicts[j].freqs
                 /\ cmd'[c] = [cmd[c] EXCEPT !.pc = "guess"]
<1> DEFINE z == Head(cmd[c].todo)
           i == cmd[c].id
<1>0. Same /\ cmd[c] \in Command
  BY CommandAt DEF Freqs
<1>1. z \in DOMAIN Holds
  BY <1>0, TodoTail DEF Command
<1>2. CASE i \notin DOMAIN dicts
  <2>1. Ends(c) /\ UNCHANGED dicts
    BY <1>2 DEF Freqs
  <2> QED
    BY <2>1, <1>0, <1>2, EndsIdle, TypesAfter DEF Becomes, DictTypes
<1>3. CASE i \in DOMAIN dicts
  <2>0. dicts[i] \in Row
    BY <1>3, TableElim DEF DictTypes
  <2>1. dicts[i].freqs + Holds[z].freqs \in Nat
    BY <1>1, <2>0, DictAssumptions, SMTT(30) DEF Row
  <2>2. Update(i, "freqs", dicts[i].freqs + Holds[z].freqs) /\ Goto(c, "guess")
    BY <1>3 DEF Freqs
  <2>3. [cmd[c] EXCEPT !.pc = "guess"] \in Command
    BY <1>0 DEF Command
  <2>4. cmd' = [cmd EXCEPT ![c] = [cmd[c] EXCEPT !.pc = "guess"]]
    BY <2>2 DEF Goto, DictTypes
  <2>5. Becomes(c, [cmd[c] EXCEPT !.pc = "guess"])
    BY <2>3, <2>4, CommandBecomes
  <2>6. /\ dicts' \in Table(Ids, Row) /\ DOMAIN dicts' = DOMAIN dicts
        /\ \A j \in DOMAIN dicts :
             /\ dicts'[j].role = dicts[j].role /\ dicts'[j].zip = dicts[j].zip
             /\ dicts'[j].freqs = IF j = i THEN dicts[i].freqs + Holds[z].freqs ELSE dicts[j].freqs
    BY <2>1, <2>2, SetFreqsColumn DEF DictTypes
  <2>7. DictTypes'
    BY <1>0, <2>5, <2>6, TypesAfter, Zenon DEF Becomes
  <2> QED
    BY <1>0, <1>3, <2>5, <2>6, <2>7 DEF Becomes
<1> QED
  BY <1>2, <1>3

LEMMA GuessSteps ==
    ASSUME DictTypes, NEW c \in Commands, Guess(c), cmd[c].todo # << >>
    PROVE  /\ DictTypes' /\ Others(c) /\ UNCHANGED dicts /\ Same
           /\ \/ /\ cmd'[c] = [cmd[c] EXCEPT !.pc = "find", !.todo = Tail(cmd[c].todo)]
                 /\ IdsOf(Head(cmd[c].todo)) = {} \/ Head(cmd[c].todo) \in cmd[c].known
              \/ \E i \in IdsOf(Head(cmd[c].todo)) : \E r \in {"reference", "frequency"} :
                   cmd'[c] = [cmd[c] EXCEPT !.pc = "order", !.id = i, !.role = r]
<1> DEFINE z == Head(cmd[c].todo)
<1>0. Same /\ cmd[c] \in Command /\ UNCHANGED dicts
  BY CommandAt DEF Guess, Read
<1>1. Tail(cmd[c].todo) \in Seq(DOMAIN Holds)
  BY <1>0, TodoTail DEF Command
<1>2. CASE IdsOf(z) = {} \/ z \in cmd[c].known
  <2> DEFINE k == [cmd[c] EXCEPT !.pc = "find", !.todo = Tail(cmd[c].todo)]
  <2>1. k \in Command
    BY <1>0, <1>1 DEF Command
  <2>2. cmd' = [cmd EXCEPT ![c] = k]
    BY <1>2 DEF Guess, DictTypes
  <2>3. Becomes(c, k)
    BY <2>1, <2>2, CommandBecomes
  <2> QED
    BY <1>0, <1>2, <2>3, TypesAfter DEF Becomes, DictTypes
<1>3. CASE ~(IdsOf(z) = {} \/ z \in cmd[c].known)
  <2> DEFINE i == CHOOSE i \in IdsOf(z) : TRUE
             k == [cmd[c] EXCEPT !.pc = "order", !.id = i, !.role = GuessRole(i)]
  <2>1. i \in IdsOf(z)
    BY <1>3
  <2>2. i \in Ids
    BY <2>1, TableElim DEF IdsOf, DictTypes
  <2>3. GuessRole(i) \in {"reference", "frequency"}
    BY DEF GuessRole
  <2>4. cmd' = [cmd EXCEPT ![c] = k]
    BY <1>3 DEF Guess, DictTypes
  <2> HIDE DEF i
  <2>5. k \in Command
    BY <1>0, <2>2, <2>3 DEF Command, Roles
  <2>6. Becomes(c, k)
    BY <2>4, <2>5, CommandBecomes
  <2>7. DictTypes'
    BY <1>0, <2>6, TypesAfter DEF Becomes, DictTypes
  <2> QED
    BY <1>0, <2>1, <2>3, <2>6, <2>7 DEF Becomes
<1> QED
  BY <1>2, <1>3

LEMMA OrderSteps ==
    ASSUME DictTypes, NEW c \in Commands, Order(c)
    PROVE  /\ DictTypes' /\ Others(c) /\ Same /\ DOMAIN dicts' = DOMAIN dicts
           /\ \A j \in DOMAIN dicts :
                /\ dicts'[j].role = dicts[j].role
                /\ dicts'[j].zip = dicts[j].zip /\ dicts'[j].freqs = dicts[j].freqs
           /\ cmd'[c] = [cmd[c] EXCEPT !.pc = "label"]
<1>0. /\ Same /\ cmd[c] \in Command /\ cmd[c].id \in Ids \cup {0}
      /\ Update(cmd[c].id, "priority", cmd[c].id)
  BY CommandAt DEF Order, Command
<1>1. [cmd[c] EXCEPT !.pc = "label"] \in Command
  BY <1>0 DEF Command
<1>2. cmd' = [cmd EXCEPT ![c] = [cmd[c] EXCEPT !.pc = "label"]]
  BY DEF Order, Goto, DictTypes
<1>3. Becomes(c, [cmd[c] EXCEPT !.pc = "label"])
  BY <1>1, <1>2, CommandBecomes
<1>4. /\ dicts' \in Table(Ids, Row) /\ DOMAIN dicts' = DOMAIN dicts
      /\ \A j \in DOMAIN dicts :
           /\ dicts'[j].role = dicts[j].role
           /\ dicts'[j].zip = dicts[j].zip /\ dicts'[j].freqs = dicts[j].freqs
  BY <1>0, SetPriorityColumn DEF DictTypes
<1>5. DictTypes'
  BY <1>0, <1>3, <1>4, TypesAfter DEF Becomes
<1> QED
  BY <1>0, <1>3, <1>4, <1>5 DEF Becomes

LEMMA LabelSteps ==
    ASSUME DictTypes, NEW c \in Commands, Label(c), cmd[c].todo # << >>
    PROVE  /\ DictTypes' /\ Others(c) /\ Same /\ DOMAIN dicts' = DOMAIN dicts
           /\ \A j \in DOMAIN dicts :
                /\ dicts'[j].role = IF j = cmd[c].id THEN cmd[c].role ELSE dicts[j].role
                /\ dicts'[j].zip = dicts[j].zip /\ dicts'[j].freqs = dicts[j].freqs
           /\ cmd'[c] = [cmd[c] EXCEPT !.pc = "find", !.todo = Tail(cmd[c].todo), !.id = 0,
                                       !.role = "reference"]
<1> DEFINE k == [cmd[c] EXCEPT !.pc = "find", !.todo = Tail(cmd[c].todo), !.id = 0,
                               !.role = "reference"]
<1>0. /\ Same /\ cmd[c] \in Command /\ cmd[c].role \in Roles
      /\ Update(cmd[c].id, "role", cmd[c].role)
  BY CommandAt DEF Label, Command
<1>1. k \in Command
  BY <1>0, TodoTail DEF Command, Roles
<1>2. cmd' = [cmd EXCEPT ![c] = k]
  BY DEF Label, DictTypes
<1> HIDE DEF k
<1>3. Becomes(c, k)
  BY <1>1, <1>2, CommandBecomes
<1>4. /\ dicts' \in Table(Ids, Row) /\ DOMAIN dicts' = DOMAIN dicts
      /\ \A j \in DOMAIN dicts :
           /\ dicts'[j].role = IF j = cmd[c].id THEN cmd[c].role ELSE dicts[j].role
           /\ dicts'[j].zip = dicts[j].zip /\ dicts'[j].freqs = dicts[j].freqs
  BY <1>0, SetRoleColumn DEF DictTypes
<1>5. DictTypes'
  BY <1>0, <1>3, <1>4, TypesAfter DEF Becomes
<1> QED
  BY <1>0, <1>3, <1>4, <1>5 DEF Becomes, k

LEMMA MasterSteps ==
    ASSUME DictTypes, NEW c \in Commands, Master(c)
    PROVE  /\ DictTypes' /\ Others(c) /\ UNCHANGED dicts /\ Same /\ cmd[c].todo = << >>
           /\ \/ Masters # {} /\ cmd'[c] = Done(c)
              \/ Masters = {} /\ cmd'[c] = [cmd[c] EXCEPT !.pc = "choose"]
<1>0. Same /\ cmd[c] \in Command /\ UNCHANGED dicts
  BY CommandAt DEF Master, Read
<1>1. CASE Masters # {}
  <2>1. Becomes(c, Done(c))
    BY <1>1, FinishedRefresh DEF Master
  <2> QED
    BY <1>0, <1>1, <2>1, TypesAfter DEF Becomes, DictTypes, Master
<1>2. CASE Masters = {}
  <2>1. [cmd[c] EXCEPT !.pc = "choose"] \in Command
    BY <1>0 DEF Command
  <2>2. cmd' = [cmd EXCEPT ![c] = [cmd[c] EXCEPT !.pc = "choose"]]
    BY <1>2 DEF Master, Goto, DictTypes
  <2>3. Becomes(c, [cmd[c] EXCEPT !.pc = "choose"])
    BY <2>1, <2>2, CommandBecomes
  <2> QED
    BY <1>0, <1>2, <2>3, TypesAfter DEF Becomes, DictTypes, Master
<1> QED
  BY <1>1, <1>2

\* ensure_master has found the dictionary to promote, or that there is none.
Promoted(c, all, i) ==
    \/ Needed(all, i) = {} /\ cmd'[c] = Done(c)
    \/ Needed(all, i) # {} /\ cmd'[c] = Setting(c, all, i)
LEMMA ChooseSteps ==
    ASSUME DictTypes, NEW c \in Commands, Choose(c)
    PROVE  /\ DictTypes' /\ Others(c) /\ UNCHANGED dicts /\ Same
           /\ \/ \E i \in DOMAIN dicts : Promoted(c, Listed, i)
              \/ Masters # {} /\ cmd'[c] = Done(c)
              \/ Masters = {} /\ cmd'[c] = [cmd[c] EXCEPT !.pc = "count", !.listing = Listed]
<1>0. Same /\ cmd[c] \in Command /\ UNCHANGED dicts
  BY CommandAt DEF Choose, Read
<1>1. /\ Listed \in Table(Ids, Entry) /\ DOMAIN dicts \subseteq Ids
  BY ListedTyped, TableElim DEF DictTypes
<1>2. ASSUME NEW i \in DOMAIN dicts, Promote(c, Listed, i)
      PROVE  DictTypes' /\ Others(c) /\ Promoted(c, Listed, i)
  <2>1. \/ Needed(Listed, i) = {} /\ Becomes(c, Done(c))
        \/ Needed(Listed, i) # {} /\ Becomes(c, Setting(c, Listed, i))
    BY <1>1, <1>2, PromoteSets
  <2> QED
    BY <1>0, <2>1, TypesAfter DEF Becomes, DictTypes, Promoted
<1>3. ASSUME Masters # {}, Finished(c)
      PROVE  DictTypes' /\ Others(c) /\ cmd'[c] = Done(c)
  BY <1>0, <1>3, FinishedRefresh, TypesAfter DEF Becomes, DictTypes
<1>4. ASSUME cmd' = [cmd EXCEPT ![c] = [cmd[c] EXCEPT !.pc = "count", !.listing = Listed]]
      PROVE  /\ DictTypes' /\ Others(c)
             /\ cmd'[c] = [cmd[c] EXCEPT !.pc = "count", !.listing = Listed]
  <2> DEFINE k == [cmd[c] EXCEPT !.pc = "count", !.listing = Listed]
  <2>1. k \in Command
    BY <1>0, <1>1 DEF Command
  <2>2. cmd' = [cmd EXCEPT ![c] = k]
    BY <1>4 DEF DictTypes
  <2>3. Becomes(c, k)
    BY <2>1, <2>2, CommandBecomes
  <2> QED
    BY <1>0, <2>3, TypesAfter DEF Becomes, DictTypes
<1>5. IdsOf(Configured) \subseteq DOMAIN dicts /\ RoleIs("standard") \subseteq DOMAIN dicts
  BY DEF IdsOf, RoleIs
<1>6. \A S \in SUBSET DOMAIN dicts : Foremost(S, Listed) \subseteq DOMAIN dicts
  BY DEF Foremost
<1>7. \/ \E i \in DOMAIN dicts : Promote(c, Listed, i)
      \/ Masters # {} /\ Finished(c)
      \/ Masters = {} /\ cmd' = [cmd EXCEPT ![c] = [cmd[c] EXCEPT !.pc = "count", !.listing = Listed]]
  BY <1>5, <1>6 DEF Choose
<1> QED
  BY <1>0, <1>2, <1>3, <1>4, <1>7

LEMMA CountSteps ==
    ASSUME DictTypes, NEW c \in Commands, Count(c)
    PROVE  /\ DictTypes' /\ Others(c) /\ UNCHANGED dicts /\ Same
           /\ \/ \E i \in DOMAIN cmd[c].listing : Promoted(c, cmd[c].listing, i)
              \/ /\ cmd'[c] = Done(c)
                 /\ \A i \in DOMAIN cmd[c].listing :
                      cmd[c].listing[i].role \in {"frequency", "pitch"}
<1> DEFINE all == cmd[c].listing
<1>0. Same /\ cmd[c] \in Command /\ UNCHANGED dicts
  BY CommandAt DEF Count, Read
<1>1. all \in Table(Ids, Entry) /\ DOMAIN all \subseteq Ids
  BY <1>0, TableElim DEF Command
<1>2. ASSUME NEW i \in DOMAIN all, Promote(c, all, i)
      PROVE  DictTypes' /\ Others(c) /\ Promoted(c, all, i)
  <2>1. \/ Needed(all, i) = {} /\ Becomes(c, Done(c))
        \/ Needed(all, i) # {} /\ Becomes(c, Setting(c, all, i))
    BY <1>1, <1>2, PromoteSets
  <2> QED
    BY <1>0, <2>1, TypesAfter DEF Becomes, DictTypes, Promoted
<1>3. ASSUME Finished(c)
      PROVE  DictTypes' /\ Others(c) /\ cmd'[c] = Done(c)
  BY <1>0, <1>3, FinishedRefresh, TypesAfter DEF Becomes, DictTypes
<1>4. \/ \E i \in DOMAIN all : Promote(c, all, i)
      \/ Finished(c) /\ \A i \in DOMAIN all : all[i].role \in {"frequency", "pitch"}
  BY DEF Count, Foremost
<1> QED
  BY <1>0, <1>2, <1>3, <1>4

LEMMA DemoteSteps ==
    ASSUME DictTypes, NEW c \in Commands, Demote(c)
    PROVE  /\ DictTypes' /\ Others(c) /\ Same /\ DOMAIN dicts' = DOMAIN dicts
           /\ \E i \in cmd[c].sets :
                /\ \A j \in DOMAIN dicts :
                     /\ dicts'[j].role = IF j = i THEN "reference" ELSE dicts[j].role
                     /\ dicts'[j].zip = dicts[j].zip /\ dicts'[j].freqs = dicts[j].freqs
                /\ IF cmd[c].sets = {i}
                   THEN cmd'[c] = [cmd[c] EXCEPT !.pc = "apply", !.sets = {cmd[c].id}]
                   ELSE cmd'[c] = [cmd[c] EXCEPT !.sets = cmd[c].sets \ {i}]
<1>0. Same /\ cmd[c] \in Command /\ At(c, "demote")
  BY CommandAt DEF Demote
<1>1. PICK i \in Foremost(cmd[c].sets, cmd[c].listing) :
         /\ Update(i, "role", "reference")
         /\ cmd' = IF cmd[c].sets = {i}
                   THEN [cmd EXCEPT ![c] = [cmd[c] EXCEPT !.pc = "apply", !.sets = {cmd[c].id}]]
                   ELSE [cmd EXCEPT ![c].sets = cmd[c].sets \ {i}]
  BY DEF Demote
<1>2. i \in cmd[c].sets
  BY DEF Foremost
<1>3. /\ dicts' \in Table(Ids, Row) /\ DOMAIN dicts' = DOMAIN dicts
      /\ \A j \in DOMAIN dicts :
           /\ dicts'[j].role = IF j = i THEN "reference" ELSE dicts[j].role
           /\ dicts'[j].zip = dicts[j].zip /\ dicts'[j].freqs = dicts[j].freqs
  BY <1>1, SetRoleColumn DEF DictTypes, Roles
<1>4. CASE cmd[c].sets = {i}
  <2> DEFINE k == [cmd[c] EXCEPT !.pc = "apply", !.sets = {cmd[c].id}]
  <2>1. k \in Command /\ cmd' = [cmd EXCEPT ![c] = k]
    BY <1>0, <1>1, <1>4 DEF Command, DictTypes
  <2>2. Becomes(c, k)
    BY <2>1, CommandBecomes
  <2>3. DictTypes'
    BY <1>0, <1>3, <2>2, TypesAfter DEF Becomes
  <2> QED
    BY <1>0, <1>2, <1>3, <1>4, <2>2, <2>3 DEF Becomes
<1>5. CASE cmd[c].sets # {i}
  <2> DEFINE k == [cmd[c] EXCEPT !.sets = cmd[c].sets \ {i}]
  <2>1. k \in Command /\ cmd' = [cmd EXCEPT ![c] = k]
    BY <1>0, <1>1, <1>5 DEF Command, DictTypes
  <2>2. Becomes(c, k)
    BY <2>1, CommandBecomes
  <2>3. DictTypes'
    BY <1>0, <1>3, <2>2, TypesAfter DEF Becomes
  <2> QED
    BY <1>0, <1>2, <1>3, <1>5, <2>2, <2>3 DEF Becomes
<1> QED
  BY <1>4, <1>5

LEMMA ApplySteps ==
    ASSUME DictTypes, NEW c \in Commands, Apply(c)
    PROVE  /\ DictTypes' /\ Others(c) /\ Same /\ DOMAIN dicts' = DOMAIN dicts
           /\ \E i \in cmd[c].sets :
                /\ \A j \in DOMAIN dicts :
                     /\ dicts'[j].role = IF j # i THEN dicts[j].role
                                         ELSE IF i = cmd[c].id THEN cmd[c].role ELSE "reference"
                     /\ dicts'[j].zip = dicts[j].zip /\ dicts'[j].freqs = dicts[j].freqs
                /\ IF cmd[c].sets = {i}
                   THEN cmd'[c] = Done(c)
                   ELSE cmd'[c] = [cmd[c] EXCEPT !.sets = cmd[c].sets \ {i}]
<1>0. Same /\ cmd[c] \in Command /\ At(c, "apply") /\ cmd[c].role \in Roles
  BY CommandAt DEF Apply, Command
<1>1. PICK i \in Foremost(cmd[c].sets, cmd[c].listing) :
         /\ Update(i, "role", IF i = cmd[c].id THEN cmd[c].role ELSE "reference")
         /\ IF cmd[c].sets = {i} THEN Finished(c)
            ELSE cmd' = [cmd EXCEPT ![c].sets = cmd[c].sets \ {i}]
  BY DEF Apply
<1>2. i \in cmd[c].sets
  BY DEF Foremost
<1> DEFINE r == IF i = cmd[c].id THEN cmd[c].role ELSE "reference"
<1>3. r \in Roles
  BY <1>0 DEF Roles
<1>4. /\ dicts' \in Table(Ids, Row) /\ DOMAIN dicts' = DOMAIN dicts
      /\ \A j \in DOMAIN dicts :
           /\ dicts'[j].role = IF j = i THEN r ELSE dicts[j].role
           /\ dicts'[j].zip = dicts[j].zip /\ dicts'[j].freqs = dicts[j].freqs
  <2>1. Update(i, "role", r)
    BY <1>1
  <2> HIDE DEF r
  <2> QED
    BY <1>3, <2>1, SetRoleColumn DEF DictTypes
<1>5. CASE cmd[c].sets = {i}
  <2>2. Becomes(c, Done(c))
    BY <1>1, <1>5, FinishedRefresh
  <2>3. DictTypes'
    BY <1>0, <1>4, <2>2, TypesAfter DEF Becomes
  <2> QED
    BY <1>0, <1>2, <1>4, <1>5, <2>2, <2>3 DEF Becomes
<1>6. CASE cmd[c].sets # {i}
  <2> DEFINE k == [cmd[c] EXCEPT !.sets = cmd[c].sets \ {i}]
  <2>1. k \in Command /\ cmd' = [cmd EXCEPT ![c] = k]
    BY <1>0, <1>1, <1>6 DEF Command, DictTypes
  <2>2. Becomes(c, k)
    BY <2>1, CommandBecomes
  <2>3. DictTypes'
    BY <1>0, <1>4, <2>2, TypesAfter DEF Becomes
  <2> QED
    BY <1>0, <1>2, <1>4, <1>6, <2>2, <2>3 DEF Becomes
<1> QED
  BY <1>5, <1>6

LEMMA RemovedSteps ==
    ASSUME DictTypes, NEW c \in Commands, Removed(c)
    PROVE  /\ DictTypes' /\ Others(c) /\ Same /\ DOMAIN dicts' \subseteq DOMAIN dicts
           /\ \A j \in DOMAIN dicts' : dicts'[j] = dicts[j]
           /\ cmd'[c] = Done(c)
<1>1. Becomes(c, Done(c)) /\ Same
  BY FinishedRefresh DEF Removed
<1>2. /\ dicts' \in Table(Ids, Row) /\ DOMAIN dicts' = DOMAIN dicts \ {cmd[c].id}
      /\ \A j \in DOMAIN dicts' : dicts'[j] = dicts[j]
  BY DropRow DEF Removed, DictTypes
<1> QED
  BY <1>1, <1>2, TypesAfter DEF Becomes

LEMMA ReplacedSteps ==
    ASSUME DictTypes, NEW c \in Commands, Replaced(c)
    PROVE  /\ DictTypes' /\ Others(c) /\ Same /\ DOMAIN dicts' = DOMAIN dicts
           /\ \A j \in DOMAIN dicts :
                /\ dicts'[j].role = dicts[j].role
                /\ dicts'[j].zip = dicts[j].zip /\ dicts'[j].freqs = dicts[j].freqs
           /\ cmd'[c] \in {Idle, Done(c)}
<1>0. Same
  BY DEF Replaced
<1>1. CASE cmd[c].id \notin DOMAIN dicts
  <2>1. Becomes(c, Idle) /\ UNCHANGED dicts
    BY <1>1, EndsIdle DEF Replaced
  <2> QED
    BY <1>0, <2>1, TypesAfter DEF Becomes, DictTypes
<1>2. CASE cmd[c].id \in DOMAIN dicts
  <2>1. PICK n \in Reparsed[dicts[cmd[c].id].zip] : Update(cmd[c].id, "entries", n)
    BY <1>2 DEF Replaced
  <2>2. dicts[cmd[c].id].zip \in DOMAIN Holds
    <3>1. dicts[cmd[c].id] \in Row
      BY <1>2, TableElim DEF DictTypes
    <3> QED
      BY <3>1 DEF Row
  <2>3. n \in Nat
    BY <2>2, DictAssumptions
  <2>4. Becomes(c, Done(c))
    BY <1>2, FinishedRefresh DEF Replaced
  <2>5. /\ dicts' \in Table(Ids, Row) /\ DOMAIN dicts' = DOMAIN dicts
        /\ \A j \in DOMAIN dicts :
             /\ dicts'[j].role = dicts[j].role
             /\ dicts'[j].zip = dicts[j].zip /\ dicts'[j].freqs = dicts[j].freqs
    BY <2>1, <2>3, SetEntriesColumn DEF DictTypes
  <2>6. DictTypes'
    BY <1>0, <2>4, <2>5, TypesAfter DEF Becomes
  <2> QED
    BY <1>0, <2>4, <2>5, <2>6 DEF Becomes
<1> QED
  BY <1>1, <1>2

---------------------------------------------------------------------------
(* What is typed, and a process killed.                                    *)

LEMMA SyncBegins ==
    ASSUME DictTypes, NEW c \in Commands, runs < MaxRuns, Sync(c)
    PROVE  /\ DictTypes' /\ Others(c) /\ UNCHANGED <<dicts, deaths>>
           /\ overlap' = (overlap \/ \E d \in Commands : ~At(d, "idle"))
           /\ cmd'[c].pc = "find" /\ cmd'[c].op = "sync" /\ cmd'[c].todo = Zips
<1> DEFINE known == {dicts[i].zip : i \in DOMAIN dicts}
           k == [Idle EXCEPT !.pc = "find", !.todo = Zips, !.known = known]
<1>1. known \subseteq DOMAIN Holds
  <2>1. \A i \in DOMAIN dicts : dicts[i] \in Row
    BY TableElim DEF DictTypes
  <2> QED
    BY <2>1 DEF Row
<1>2. Zips \in Seq(DOMAIN Holds)
  BY DictAssumptions
<1> HIDE DEF known
<1>3. k \in Command
  BY <1>1, <1>2, IdleTyped DEF Command
<1>4. Begin(c, "sync", k) /\ UNCHANGED dicts
  BY DEF Sync, known
<1>5. k.pc = "find" /\ k.todo = Zips
  BY DEF Idle
<1> HIDE DEF k
<1>6. /\ Becomes(c, [k EXCEPT !.op = "sync"])
      /\ runs' \in 0 .. MaxRuns /\ deaths' \in 0 .. MaxDeaths /\ overlap' \in BOOLEAN
  BY <1>3, <1>4, BeginBecomes
<1>7. DictTypes'
  BY <1>4, <1>6 DEF DictTypes, Becomes
<1>8. cmd'[c] = [k EXCEPT !.op = "sync"] /\ Others(c)
  BY <1>6 DEF Becomes
<1>9. cmd'[c].pc = "find" /\ cmd'[c].op = "sync" /\ cmd'[c].todo = Zips
  BY <1>3, <1>5, <1>8 DEF Command
<1>10. UNCHANGED deaths /\ overlap' = (overlap \/ \E d \in Commands : ~At(d, "idle"))
  BY <1>4 DEF Begin
<1> QED
  BY <1>4, <1>7, <1>8, <1>9, <1>10

LEMMA SetRoleBegins ==
    ASSUME DictTypes, NEW c \in Commands, runs < MaxRuns,
           NEW i \in DOMAIN dicts, NEW r \in Settable, SetRole(c, i, r)
    PROVE  /\ DictTypes' /\ Others(c) /\ UNCHANGED <<dicts, deaths>>
           /\ overlap' = (overlap \/ \E d \in Commands : ~At(d, "idle"))
           /\ cmd'[c].op = "set-role" /\ cmd'[c].todo = << >> /\ cmd'[c].id = i
           /\ cmd'[c].role = r
           /\ \/ cmd'[c].pc = "demote" /\ cmd'[c].sets = Masters \ {i} /\ r = "master"
              \/ /\ cmd'[c].pc = "apply" /\ cmd'[c].sets = {i}
                 /\ r = "master" => Masters \subseteq {i}
<1> DEFINE old == IF r = "master" THEN Masters \ {i} ELSE {}
           p == IF old = {} THEN "apply" ELSE "demote"
           S == IF old = {} THEN {i} ELSE old
           k == [Idle EXCEPT !.pc = p, !.id = i, !.role = r, !.sets = S, !.listing = Listed]
<1>1. DOMAIN dicts \subseteq Ids /\ i \in Ids /\ Listed \in Table(Ids, Entry)
  BY TableElim, ListedTyped DEF DictTypes
<1>2. old \subseteq Ids /\ S \subseteq Ids
  BY <1>1 DEF Masters, RoleIs
<1>3. p \in {"apply", "demote"} /\ r \in Roles
  BY DictAssumptions
<1>4. \/ p = "demote" /\ S = Masters \ {i} /\ r = "master"
      \/ p = "apply" /\ S = {i} /\ (r = "master" => Masters \subseteq {i})
  OBVIOUS
<1>5. Begin(c, "set-role", k) /\ UNCHANGED dicts
  BY DEF SetRole
<1> HIDE DEF old, p, S
<1>6. k \in Command
  BY <1>1, <1>2, <1>3, IdleTyped DEF Command
<1>7. k.pc = p /\ k.id = i /\ k.role = r /\ k.sets = S /\ k.todo = << >>
  BY DEF Idle
<1> HIDE DEF k
<1>8. /\ Becomes(c, [k EXCEPT !.op = "set-role"])
      /\ runs' \in 0 .. MaxRuns /\ deaths' \in 0 .. MaxDeaths /\ overlap' \in BOOLEAN
  BY <1>5, <1>6, BeginBecomes
<1>9. DictTypes'
  BY <1>5, <1>8 DEF DictTypes, Becomes
<1>10. cmd'[c] = [k EXCEPT !.op = "set-role"] /\ Others(c)
  BY <1>8 DEF Becomes
<1>11. /\ cmd'[c].pc = p /\ cmd'[c].id = i /\ cmd'[c].role = r /\ cmd'[c].sets = S
       /\ cmd'[c].todo = << >> /\ cmd'[c].op = "set-role"
  BY <1>6, <1>7, <1>10 DEF Command
<1>12. UNCHANGED deaths /\ overlap' = (overlap \/ \E d \in Commands : ~At(d, "idle"))
  BY <1>5 DEF Begin
<1> QED
  BY <1>4, <1>5, <1>9, <1>10, <1>11, <1>12

LEMMA SetPriorityBegins ==
    ASSUME DictTypes, NEW c \in Commands, runs < MaxRuns,
           NEW i \in DOMAIN dicts, SetPriority(c, i, 0)
    PROVE  /\ DictTypes' /\ Others(c) /\ UNCHANGED deaths /\ DOMAIN dicts' = DOMAIN dicts
           /\ overlap' = (overlap \/ \E d \in Commands : ~At(d, "idle"))
           /\ cmd'[c].pc = "refresh" /\ cmd'[c].op = "priority" /\ cmd'[c].todo = << >>
           /\ \A j \in DOMAIN dicts :
                /\ dicts'[j].role = dicts[j].role
                /\ dicts'[j].zip = dicts[j].zip /\ dicts'[j].freqs = dicts[j].freqs
<1> DEFINE k == [Idle EXCEPT !.pc = "refresh"]
<1>1. k \in Command /\ k.pc = "refresh" /\ k.todo = << >>
  BY IdleTyped DEF Command, Idle
<1>2. Begin(c, "priority", k) /\ Update(i, "priority", 0)
  BY DEF SetPriority
<1> HIDE DEF k
<1>3. /\ Becomes(c, [k EXCEPT !.op = "priority"])
      /\ runs' \in 0 .. MaxRuns /\ deaths' \in 0 .. MaxDeaths /\ overlap' \in BOOLEAN
  BY <1>1, <1>2, BeginBecomes
<1>4. /\ dicts' \in Table(Ids, Row) /\ DOMAIN dicts' = DOMAIN dicts
      /\ \A j \in DOMAIN dicts :
           /\ dicts'[j].role = dicts[j].role
           /\ dicts'[j].zip = dicts[j].zip /\ dicts'[j].freqs = dicts[j].freqs
  BY <1>2, SetPriorityColumn DEF DictTypes
<1>5. DictTypes'
  BY <1>3, <1>4 DEF DictTypes, Becomes
<1>6. cmd'[c] = [k EXCEPT !.op = "priority"] /\ Others(c)
  BY <1>3 DEF Becomes
<1>7. cmd'[c].pc = "refresh" /\ cmd'[c].op = "priority" /\ cmd'[c].todo = << >>
  BY <1>1, <1>6 DEF Command
<1>8. UNCHANGED deaths /\ overlap' = (overlap \/ \E d \in Commands : ~At(d, "idle"))
  BY <1>2 DEF Begin
<1> QED
  BY <1>4, <1>5, <1>6, <1>7, <1>8

\* remove and reimport begin alike.
LEMMA OnRowBegins ==
    ASSUME DictTypes, NEW c \in Commands, runs < MaxRuns, NEW i \in DOMAIN dicts,
           RemoveCmd(c, i) \/ Reimport(c, i)
    PROVE  /\ DictTypes' /\ Others(c) /\ UNCHANGED <<dicts, deaths>>
           /\ overlap' = (overlap \/ \E d \in Commands : ~At(d, "idle"))
           /\ cmd'[c].pc \in {"remove", "replace"} /\ cmd'[c].op \in {"remove", "reimport"}
<1>1. PICK op \in {"remove", "reimport"}, p \in {"remove", "replace"} :
         Begin(c, op, [Idle EXCEPT !.pc = p, !.id = i]) /\ UNCHANGED dicts
  BY DEF RemoveCmd, Reimport
<1> DEFINE k == [Idle EXCEPT !.pc = p, !.id = i]
<1>2. i \in Ids
  BY TableElim DEF DictTypes
<1>3. k \in Command /\ k.pc = p
  BY <1>2, IdleTyped DEF Command
<1>4. Begin(c, op, k)
  BY <1>1
<1> HIDE DEF k
<1>5. /\ Becomes(c, [k EXCEPT !.op = op])
      /\ runs' \in 0 .. MaxRuns /\ deaths' \in 0 .. MaxDeaths /\ overlap' \in BOOLEAN
  BY <1>3, <1>4, BeginBecomes
<1>6. DictTypes'
  BY <1>1, <1>5 DEF DictTypes, Becomes
<1>7. cmd'[c] = [k EXCEPT !.op = op] /\ Others(c)
  BY <1>5 DEF Becomes
<1>8. cmd'[c].pc = p /\ cmd'[c].op = op
  BY <1>3, <1>7 DEF Command
<1>9. UNCHANGED deaths /\ overlap' = (overlap \/ \E d \in Commands : ~At(d, "idle"))
  BY <1>4 DEF Begin
<1> QED
  BY <1>1, <1>6, <1>7, <1>8, <1>9

\* Every way a command begins, and what its first statement leaves of the table.
Opened(c) ==
    /\ DictTypes' /\ Others(c) /\ UNCHANGED deaths
    /\ overlap' = (overlap \/ \E d \in Commands : ~At(d, "idle"))
    /\ DOMAIN dicts' = DOMAIN dicts
    /\ \A j \in DOMAIN dicts :
         /\ dicts'[j].role = dicts[j].role
         /\ dicts'[j].zip = dicts[j].zip /\ dicts'[j].freqs = dicts[j].freqs
    /\ \/ cmd'[c].pc = "find" /\ cmd'[c].op = "sync" /\ cmd'[c].todo = Zips
       \/ /\ cmd'[c].op = "set-role" /\ cmd'[c].todo = << >>
          /\ \/ /\ cmd'[c].pc = "demote"
                /\ Masters \subseteq cmd'[c].sets \cup {cmd'[c].id}
             \/ /\ cmd'[c].pc = "apply" /\ cmd'[c].sets = {cmd'[c].id}
                /\ cmd'[c].role = "master" => Masters \subseteq {cmd'[c].id}
       \/ cmd'[c].pc = "refresh" /\ cmd'[c].op = "priority" /\ cmd'[c].todo = << >>
       \/ cmd'[c].pc \in {"remove", "replace"} /\ cmd'[c].op \in {"remove", "reimport"}
LEMMA TypedBegins ==
    ASSUME DictTypes, NEW c \in Commands, Typed(c)
    PROVE  At(c, "idle") /\ Opened(c)
<1>0. At(c, "idle") /\ runs < MaxRuns
  BY DEF Typed
<1>1. Sync(c) => Opened(c)
  BY <1>0, SyncBegins DEF Opened
<1>2. ASSUME NEW i \in DOMAIN dicts, NEW r \in Settable, SetRole(c, i, r)
      PROVE  Opened(c)
  BY <1>0, <1>2, SetRoleBegins DEF Opened
<1>3. ASSUME NEW i \in DOMAIN dicts, SetPriority(c, i, 0)
      PROVE  Opened(c)
  BY <1>0, <1>3, SetPriorityBegins DEF Opened
<1>4. ASSUME NEW i \in DOMAIN dicts, RemoveCmd(c, i) \/ Reimport(c, i)
      PROVE  Opened(c)
  BY <1>0, <1>4, OnRowBegins DEF Opened
<1> QED
  BY <1>0, <1>1, <1>2, <1>3, <1>4 DEF Typed

---------------------------------------------------------------------------
(* A sync at a zip has one.                                                *)

LEMMA TodoAfter ==
    ASSUME TodoInv, NEW c \in Commands, Others(c), cmd'[c].pc \in AtZip => cmd'[c].todo # << >>
    PROVE  TodoInv'
BY DEF TodoInv, Others

LEMMA TodoStep ==
    ASSUME DictTypes, TodoInv, NEW c \in Commands, Step(c)
    PROVE  TodoInv'
<1>0. cmd[c] \in Command /\ (cmd[c].pc \in AtZip => cmd[c].todo # << >>)
  BY CommandAt DEF TodoInv
<1>d. Done(c).pc = "refresh" /\ Idle.pc = "idle"
  BY DEF Done, Idle
<1>1. CASE Find(c)
  BY <1>0, <1>1, FindSteps, TodoAfter DEF Command
<1>2. CASE Import(c)
  BY <1>0, <1>2, <1>d, ImportSteps, TodoAfter, ZenonT(60) DEF Command, Import, At, AtZip
<1>3. CASE Freqs(c)
  BY <1>0, <1>3, <1>d, FreqsSteps, TodoAfter DEF Command, Freqs, At, AtZip
<1>4. CASE Guess(c)
  <2>1. cmd[c].todo # << >>
    BY <1>0, <1>4 DEF Guess, At, AtZip
  <2>2. Others(c) /\ \/ cmd'[c].pc = "find"
                     \/ cmd'[c].todo = cmd[c].todo
    BY <1>0, <1>4, <2>1, GuessSteps DEF Command
  <2> QED
    BY <2>1, <2>2, TodoAfter DEF AtZip
<1>5. CASE Order(c)
  BY <1>0, <1>5, OrderSteps, TodoAfter DEF Command, Order, At, AtZip
<1>6. CASE Label(c)
  <2>1. cmd[c].todo # << >>
    BY <1>0, <1>6 DEF Label, At, AtZip
  <2>2. Others(c) /\ cmd'[c].pc = "find"
    BY <1>0, <1>6, <2>1, LabelSteps, ZenonT(60) DEF Command
  <2> QED
    BY <2>2, TodoAfter DEF AtZip
<1>7. CASE Master(c)
  BY <1>0, <1>7, <1>d, MasterSteps, TodoAfter DEF Command, AtZip
<1>8. CASE Choose(c)
  <2>1. Others(c) /\ cmd'[c].pc \in {"apply", "refresh", "count"}
    BY <1>0, <1>8, <1>d, ChooseSteps, ZenonT(60) DEF Command, Promoted, Setting, Idle
  <2> QED
    BY <2>1, TodoAfter DEF AtZip
<1>9. CASE Count(c)
  <2>1. Others(c) /\ cmd'[c].pc \in {"apply", "refresh"}
    BY <1>0, <1>9, <1>d, CountSteps, ZenonT(60) DEF Command, Promoted, Setting, Idle
  <2> QED
    BY <2>1, TodoAfter DEF AtZip
<1>10. CASE Demote(c)
  <2>1. Others(c) /\ cmd'[c].pc \in {"apply", "demote"}
    BY <1>0, <1>10, DemoteSteps DEF Command, Demote, At
  <2> QED
    BY <2>1, TodoAfter DEF AtZip
<1>11. CASE Apply(c)
  <2>1. Others(c) /\ cmd'[c].pc \in {"apply", "refresh"}
    BY <1>0, <1>11, <1>d, ApplySteps DEF Command, Apply, At
  <2> QED
    BY <2>1, TodoAfter DEF AtZip
<1>12. CASE Removed(c)
  BY <1>12, <1>d, RemovedSteps, TodoAfter DEF AtZip
<1>13. CASE Replaced(c)
  BY <1>13, <1>d, ReplacedSteps, TodoAfter DEF AtZip
<1> QED
  BY <1>1, <1>2, <1>3, <1>4, <1>5, <1>6, <1>7, <1>8, <1>9, <1>10, <1>11, <1>12, <1>13 DEF Step

\* Every statement keeps the types and leaves the other commands alone.
LEMMA StepTypes ==
    ASSUME DictTypes, TodoInv, NEW c \in Commands, Step(c)
    PROVE  DictTypes' /\ Others(c) /\ Same
<1>0. cmd[c].pc \in AtZip => cmd[c].todo # << >>
  BY Zenon DEF TodoInv
<1>1. CASE Import(c) \/ Freqs(c) \/ Guess(c) \/ Label(c)
  <2>1. cmd[c].todo # << >>
    BY <1>0, <1>1 DEF AtZip, Import, Freqs, Guess, Label, At
  <2> QED
    BY <1>1, <2>1, ImportSteps, FreqsSteps, GuessSteps, LabelSteps
<1>2. CASE Find(c) \/ Order(c) \/ Master(c) \/ Choose(c) \/ Count(c)
  BY <1>2, FindSteps, OrderSteps, MasterSteps, ChooseSteps, CountSteps
<1>3. CASE Demote(c) \/ Apply(c) \/ Removed(c) \/ Replaced(c)
  BY <1>3, DemoteSteps, ApplySteps, RemovedSteps, ReplacedSteps
<1> QED
  BY <1>1, <1>2, <1>3 DEF Step

---------------------------------------------------------------------------
(* One master.                                                             *)

\* While commands do not overlap, those other than the one at work are idle.
LEMMA OthersIdle ==
    ASSUME Alone, ~overlap, NEW c \in Commands, ~At(c, "idle"), Others(c)
    PROVE  \A d \in Commands \ {c} : At(d, "idle") /\ At(d, "idle")'
BY DEF Alone, At, Others

LEMMA MasterAfter ==
    ASSUME NEW c \in Commands, \A d \in Commands \ {c} : At(d, "idle")',
           \A i, j \in Masters' : i = j, Promoting(c)'
    PROVE  MasterInv'
<1>1. \A d \in Commands : Promoting(d)'
  BY DEF Promoting, At
<1> QED
  BY <1>1 DEF MasterInv, Alone, SoleMaster

\* A row that keeps its role, or takes one that is not master, is no new master.
LEMMA NoNewMaster ==
    ASSUME \A j \in DOMAIN dicts' :
              \/ j \in DOMAIN dicts /\ dicts'[j].role = dicts[j].role
              \/ dicts'[j].role # "master"
    PROVE  Masters' \subseteq Masters
BY DEF Masters, RoleIs

LEMMA MasterStep ==
    ASSUME DictTypes, TodoInv, MasterInv, NEW c \in Commands, Step(c)
    PROVE  MasterInv'
<1>0. cmd[c] \in Command /\ (cmd[c].pc \in AtZip => cmd[c].todo # << >>)
  BY CommandAt DEF TodoInv
<1>1. Others(c) /\ overlap' = overlap /\ ~At(c, "idle")
  BY StepTypes DEF Same, Step, At
<1>2. CASE overlap
  BY <1>1, <1>2 DEF MasterInv, Alone, SoleMaster
<1> SUFFICES ASSUME ~overlap PROVE MasterInv'
  BY <1>2
<1>3. \A d \in Commands \ {c} : At(d, "idle") /\ At(d, "idle")'
  BY <1>1, OthersIdle DEF MasterInv
<1>4. (\A i, j \in Masters : i = j) /\ Promoting(c)
  BY DEF MasterInv, SoleMaster
<1>5. SUFFICES (\A i, j \in Masters' : i = j) /\ Promoting(c)'
  BY <1>3, MasterAfter
<1>d. Done(c).pc = "refresh" /\ Idle.pc = "idle"
  BY DEF Done, Idle
\* at none of the places Promoting is about, with no new master
<1>6. ASSUME Masters' \subseteq Masters,
             cmd'[c].pc \notin {"choose", "count", "order", "label", "demote", "apply"}
      PROVE  (\A i, j \in Masters' : i = j) /\ Promoting(c)'
  BY <1>4, <1>6 DEF Promoting, At
\* ensure_master found a target, and nobody is master yet
<1>7. ASSUME NEW i \in DOMAIN Listed, Promoted(c, Listed, i), UNCHANGED dicts, Masters = {}
      PROVE  (\A k, j \in Masters' : k = j) /\ Promoting(c)'
  <2>1. DOMAIN Listed = DOMAIN dicts /\ \A j \in DOMAIN dicts : Listed[j].role # "master"
    BY <1>7, ListedTyped DEF DictTypes, Masters, RoleIs
  <2>2. Needed(Listed, i) = {i}
    BY <1>7, <2>1 DEF Needed
  <2>3. cmd'[c] = Setting(c, Listed, i)
    BY <1>7, <2>2 DEF Promoted
  <2>4. cmd'[c].pc = "apply" /\ cmd'[c].sets = {i} /\ cmd'[c].id = i
    BY <2>2, <2>3 DEF Setting, Idle
  <2>5. Masters' = {}
    BY <1>7 DEF Masters, RoleIs
  <2> QED
    BY <2>4, <2>5 DEF Promoting, At
<1>8. ASSUME UNCHANGED dicts PROVE Masters' = Masters /\ Listed' = Listed
  BY <1>8 DEF Masters, RoleIs, Listed
<1>11. CASE Find(c)
  <2>1. UNCHANGED dicts /\ cmd'[c].pc \in {"guess", "import"}
    BY <1>0, <1>11, FindSteps DEF Command
  <2> QED
    BY <1>6, <1>8, <2>1
<1>12. CASE Import(c)
  <2>1. cmd[c].todo # << >>
    BY <1>0, <1>12 DEF Import, At, AtZip
  <2>2. cmd'[c].pc \in {"idle", "freqs", "guess"}
    BY <1>0, <1>12, <1>d, <2>1, ImportSteps DEF Command
  <2>3. Masters' \subseteq Masters
    <3>1. \A j \in DOMAIN dicts' :
              \/ j \in DOMAIN dicts /\ dicts'[j].role = dicts[j].role
              \/ dicts'[j].role # "master"
      BY <1>12, <2>1, ImportSteps, ZenonT(60)
    <3> QED
      BY <3>1, NoNewMaster
  <2> QED
    BY <1>6, <2>2, <2>3
<1>13. CASE Freqs(c)
  <2>1. cmd[c].todo # << >>
    BY <1>0, <1>13 DEF Freqs, At, AtZip
  <2>2. cmd'[c].pc \in {"idle", "guess"}
    BY <1>0, <1>13, <1>d, <2>1, FreqsSteps DEF Command
  <2>3. Masters' \subseteq Masters
    BY <1>13, <2>1, FreqsSteps, NoNewMaster
  <2> QED
    BY <1>6, <2>2, <2>3
<1>14. CASE Guess(c)
  <2>1. cmd[c].todo # << >>
    BY <1>0, <1>14 DEF Guess, At, AtZip
  <2>2. UNCHANGED dicts
    BY <1>14, <2>1, GuessSteps, ZenonT(60)
  <2>3. \/ cmd'[c].pc = "find"
        \/ cmd'[c].pc = "order" /\ cmd'[c].role # "master"
    BY <1>0, <1>14, <2>1, GuessSteps DEF Command
  <2> QED
    BY <1>4, <1>6, <1>8, <2>2, <2>3 DEF Promoting, At
<1>15. CASE Order(c)
  <2>1. cmd'[c].pc = "label" /\ cmd'[c].role = cmd[c].role /\ cmd[c].role # "master"
    BY <1>0, <1>4, <1>15, OrderSteps, ZenonT(60) DEF Command, Promoting, Order, At
  <2>2. Masters' \subseteq Masters
    BY <1>15, OrderSteps, NoNewMaster
  <2> QED
    BY <1>4, <2>1, <2>2 DEF Promoting, At
<1>16. CASE Label(c)
  <2>1. cmd[c].todo # << >> /\ cmd[c].role # "master"
    BY <1>0, <1>4, <1>16 DEF Label, At, AtZip, Promoting
  <2>2. cmd'[c].pc = "find"
    BY <1>0, <1>16, <2>1, LabelSteps, ZenonT(60) DEF Command
  <2>3. Masters' \subseteq Masters
    BY <1>16, <2>1, LabelSteps, NoNewMaster
  <2> QED
    BY <1>6, <2>2, <2>3
<1>17. CASE Master(c)
  <2>1. UNCHANGED dicts /\ \/ cmd'[c].pc = "refresh"
                           \/ cmd'[c].pc = "choose" /\ Masters = {}
    BY <1>0, <1>17, <1>d, MasterSteps DEF Command
  <2> QED
    BY <1>4, <1>6, <1>8, <2>1 DEF Promoting, At
<1>18. CASE Choose(c)
  <2>1. Masters = {} /\ UNCHANGED dicts
    BY <1>4, <1>18, ChooseSteps DEF Promoting, Choose, At
  <2>2. CASE \E i \in DOMAIN dicts : Promoted(c, Listed, i)
    BY <1>7, <2>1, <2>2, ListedTyped DEF DictTypes
  <2>3. CASE cmd'[c] = [cmd[c] EXCEPT !.pc = "count", !.listing = Listed]
    <3>1. cmd'[c].pc = "count" /\ cmd'[c].listing = Listed
      BY <1>0, <2>3 DEF Command
    <3> QED
      BY <1>8, <2>1, <3>1 DEF Promoting, At
  <2> QED
    BY <1>18, <2>1, <2>2, <2>3, ChooseSteps
<1>19. CASE Count(c)
  <2>1. Masters = {} /\ UNCHANGED dicts /\ cmd[c].listing = Listed
    BY <1>4, <1>19, CountSteps DEF Promoting, Count, At
  <2>2. CASE \E i \in DOMAIN Listed : Promoted(c, Listed, i)
    BY <1>7, <2>1, <2>2
  <2>3. CASE cmd'[c] = Done(c)
    BY <1>6, <1>8, <1>d, <2>1, <2>3
  <2> QED
    BY <1>19, <2>1, <2>2, <2>3, CountSteps
<1>20. CASE Demote(c)
  <2>1. Masters \subseteq cmd[c].sets \cup {cmd[c].id} /\ At(c, "demote")
    BY <1>4, <1>20 DEF Promoting, Demote
  <2>2. PICK i \in cmd[c].sets :
           /\ DOMAIN dicts' = DOMAIN dicts
           /\ \A j \in DOMAIN dicts :
                dicts'[j].role = IF j = i THEN "reference" ELSE dicts[j].role
           /\ IF cmd[c].sets = {i}
              THEN cmd'[c] = [cmd[c] EXCEPT !.pc = "apply", !.sets = {cmd[c].id}]
              ELSE cmd'[c] = [cmd[c] EXCEPT !.sets = cmd[c].sets \ {i}]
    BY <1>20, DemoteSteps, ZenonT(60)
  <2>3. Masters' \subseteq Masters \ {i}
    BY <2>2 DEF Masters, RoleIs
  <2>4. CASE cmd[c].sets = {i}
    <3>1. cmd'[c].pc = "apply" /\ cmd'[c].sets = {cmd[c].id} /\ cmd'[c].id = cmd[c].id
      BY <1>0, <2>2, <2>4 DEF Command
    <3> QED
      BY <1>4, <2>1, <2>3, <2>4, <3>1 DEF Promoting, At
  <2>5. CASE cmd[c].sets # {i}
    <3>1. /\ cmd'[c].pc = "demote" /\ cmd'[c].sets = cmd[c].sets \ {i}
          /\ cmd'[c].id = cmd[c].id
      BY <1>0, <2>1, <2>2, <2>5 DEF Command, At
    <3> QED
      BY <1>4, <2>1, <2>3, <3>1 DEF Promoting, At
  <2> QED
    BY <2>4, <2>5
<1>21. CASE Apply(c)
  <2>1. /\ cmd[c].sets = {cmd[c].id}
        /\ cmd[c].role = "master" => Masters \subseteq {cmd[c].id}
    BY <1>4, <1>21 DEF Promoting, Apply
  <2>2. /\ DOMAIN dicts' = DOMAIN dicts /\ cmd'[c] = Done(c)
        /\ \A j \in DOMAIN dicts :
             dicts'[j].role = IF j = cmd[c].id THEN cmd[c].role ELSE dicts[j].role
    <3>1. PICK i \in cmd[c].sets :
             /\ DOMAIN dicts' = DOMAIN dicts
             /\ \A j \in DOMAIN dicts :
                  dicts'[j].role = IF j # i THEN dicts[j].role
                                   ELSE IF i = cmd[c].id THEN cmd[c].role ELSE "reference"
             /\ IF cmd[c].sets = {i}
                THEN cmd'[c] = Done(c)
                ELSE cmd'[c] = [cmd[c] EXCEPT !.sets = cmd[c].sets \ {i}]
      BY <1>21, ApplySteps
    <3>2. i = cmd[c].id /\ cmd[c].sets = {i}
      BY <2>1
    <3> QED
      BY <3>1, <3>2
  <2>3. CASE cmd[c].role # "master"
    BY <1>6, <1>d, <2>2, <2>3, NoNewMaster
  <2>4. CASE cmd[c].role = "master"
    <3>1. Masters' \subseteq {cmd[c].id}
      BY <2>1, <2>2, <2>4 DEF Masters, RoleIs
    <3> QED
      BY <1>d, <2>2, <3>1 DEF Promoting, At
  <2> QED
    BY <2>3, <2>4
<1>22. CASE Removed(c)
  <2>1. Masters' \subseteq Masters
    BY <1>22, RemovedSteps, NoNewMaster
  <2> QED
    BY <1>6, <1>22, <1>d, <2>1, RemovedSteps
<1>23. CASE Replaced(c)
  <2>1. Masters' \subseteq Masters
    BY <1>23, ReplacedSteps, NoNewMaster
  <2> QED
    BY <1>6, <1>23, <1>d, <2>1, ReplacedSteps
<1> QED
  BY <1>11, <1>12, <1>13, <1>14, <1>15, <1>16, <1>17, <1>18, <1>19, <1>20, <1>21, <1>22,
     <1>23 DEF Step

---------------------------------------------------------------------------
(* What a sync leaves.                                                     *)

LEMMA SyncAfter ==
    ASSUME NEW c \in Commands, \A d \in Commands \ {c} : At(d, "idle")',
           \A i \in DOMAIN dicts' : WholeRow(i)', Importing(c)'
    PROVE  SyncInv'
<1>1. \A d \in Commands : Importing(d)'
  BY DEF Importing, At
<1> QED
  BY <1>1 DEF SyncInv

\* With nobody about to add frequencies, every row has its own.
AllIn == \A i \in DOMAIN dicts : dicts[i].freqs = Holds[dicts[i].zip].freqs
LEMMA RowsWhole ==
    ASSUME NEW c \in Commands, \A d \in Commands \ {c} : At(d, "idle"), ~At(c, "freqs"),
           \A i \in DOMAIN dicts : WholeRow(i)
    PROVE  AllIn
BY DEF AllIn, WholeRow, Filling, At
LEMMA RowsKept ==
    ASSUME AllIn,
           \A j \in DOMAIN dicts' : /\ j \in DOMAIN dicts /\ dicts'[j].zip = dicts[j].zip
                                    /\ dicts'[j].freqs = dicts[j].freqs
    PROVE  \A i \in DOMAIN dicts' : WholeRow(i)'
BY DEF AllIn, WholeRow

\* A zip that is cached stays so.
LEMMA ZipKept ==
    ASSUME \A j \in DOMAIN dicts : j \in DOMAIN dicts' /\ dicts'[j].zip = dicts[j].zip
    PROVE  \A z : IdsOf(z) # {} => IdsOf(z)' # {}
BY DEF IdsOf

LEMMA SyncStep ==
    ASSUME DictTypes, TodoInv, MasterInv, SyncInv, NEW c \in Commands, Step(c)
    PROVE  SyncInv'
<1>0. cmd[c] \in Command /\ (cmd[c].pc \in AtZip => cmd[c].todo # << >>)
  BY CommandAt DEF TodoInv
<1>1. Others(c) /\ overlap' = overlap /\ deaths' = deaths /\ ~At(c, "idle")
  BY StepTypes DEF Same, Step, At
<1>2. CASE overlap \/ deaths # 0
  BY <1>1, <1>2 DEF SyncInv
<1> SUFFICES ASSUME ~overlap, deaths = 0 PROVE SyncInv'
  BY <1>2
<1>3. \A d \in Commands \ {c} : At(d, "idle") /\ At(d, "idle")'
  BY <1>1, OthersIdle DEF MasterInv
<1>4. /\ \A i \in DOMAIN dicts : WholeRow(i)
      /\ Importing(c) /\ Promoting(c)
  BY DEF MasterInv, SyncInv
<1>5. ASSUME \A i \in DOMAIN dicts' : WholeRow(i)', Importing(c)' PROVE SyncInv'
  BY <1>3, <1>5, SyncAfter
<1>6. ~At(c, "freqs") => AllIn
  BY <1>3, <1>4, RowsWhole
<1> DEFINE Cached == \A z \in Range(Zips) : z \in Range(cmd[c].todo) \/ IdsOf(z) # {}
<1>7. cmd[c].op = "sync" => Cached
  BY <1>1, <1>4 DEF Importing
<1>d. /\ Done(c).pc = "refresh" /\ Idle.pc = "idle" /\ Done(c).todo = << >> /\ Idle.todo = << >>
      /\ Done(c).op = cmd[c].op /\ Idle.op = "none"
  BY DEF Done, Idle
<1>e. Range(<< >>) = {}
  BY DEF Range
\* the table is only read
<1>8. ASSUME UNCHANGED dicts, ~At(c, "freqs")
      PROVE  /\ \A i \in DOMAIN dicts' : WholeRow(i)'
             /\ \A z : IdsOf(z)' = IdsOf(z)
             /\ HasMaster' = HasMaster /\ Masters' = Masters
  BY <1>6, <1>8, RowsKept DEF IdsOf, HasMaster, Masters, RoleIs
\* a column is set that is not the zip nor the frequencies
<1>9. ASSUME DOMAIN dicts' = DOMAIN dicts, ~At(c, "freqs"),
             \A j \in DOMAIN dicts : dicts'[j].zip = dicts[j].zip /\ dicts'[j].freqs = dicts[j].freqs
      PROVE  /\ \A i \in DOMAIN dicts' : WholeRow(i)'
             /\ \A z : IdsOf(z) # {} => IdsOf(z)' # {}
  BY <1>6, <1>9, RowsKept, ZipKept
\* ensure_master found a target, and nobody is master yet
<1>10. ASSUME NEW i \in DOMAIN Listed, Promoted(c, Listed, i), UNCHANGED dicts, Masters = {},
              cmd[c].todo = << >>, ~At(c, "freqs")
       PROVE  SyncInv'
  <2>1. DOMAIN Listed = DOMAIN dicts /\ \A j \in DOMAIN dicts : Listed[j].role # "master"
    BY <1>10, ListedTyped DEF DictTypes, Masters, RoleIs
  <2>2. Needed(Listed, i) = {i}
    BY <1>10, <2>1 DEF Needed
  <2>3. cmd'[c] = Setting(c, Listed, i)
    BY <1>10, <2>2 DEF Promoted
  <2>4. /\ cmd'[c].pc = "apply" /\ cmd'[c].id = i /\ cmd'[c].role = "master"
        /\ cmd'[c].todo = << >> /\ cmd'[c].op = cmd[c].op
    BY <2>3 DEF Setting, Idle
  <2>5. i \in DOMAIN dicts'
    BY <1>10, <2>1
  <2>6. Importing(c)'
    BY <1>7, <1>8, <1>10, <2>4, <2>5 DEF Importing, At
  <2> QED
    BY <1>5, <1>8, <1>10, <2>6
<1>11. CASE Find(c)
  <2>1. /\ UNCHANGED dicts /\ cmd[c].todo # << >> /\ At(c, "find")
        /\ cmd'[c].todo = cmd[c].todo /\ cmd'[c].op = cmd[c].op
        /\ \/ cmd'[c].pc = "guess" /\ IdsOf(Head(cmd[c].todo)) # {}
           \/ cmd'[c].pc = "import"
    BY <1>0, <1>11, FindSteps, ZenonT(60) DEF Command, Find
  <2>2. Importing(c)'
    BY <1>7, <1>8, <2>1 DEF Importing, At
  <2> QED
    BY <1>5, <1>8, <2>1, <2>2 DEF At
<1>12. CASE Import(c)
  <2>1. cmd[c].todo # << >> /\ At(c, "import") /\ AllIn
    BY <1>0, <1>6, <1>12 DEF Import, At, AtZip
  <2>2. CASE cmd'[c] = Idle /\ UNCHANGED dicts
    BY <1>5, <1>8, <1>d, <2>1, <2>2 DEF Importing, At
  <2>3. ASSUME NEW i \in Ids, i \notin DOMAIN dicts, DOMAIN dicts' = DOMAIN dicts \cup {i},
               dicts'[i].zip = Head(cmd[c].todo), dicts'[i].freqs = 0,
               \A j \in DOMAIN dicts : dicts'[j] = dicts[j],
               cmd'[c] = [cmd[c] EXCEPT !.id = i,
                        !.pc = IF Holds[Head(cmd[c].todo)].freqs > 0 THEN "freqs" ELSE "guess"]
        PROVE  SyncInv'
    <3>1. /\ cmd'[c].id = i /\ cmd'[c].todo = cmd[c].todo /\ cmd'[c].op = cmd[c].op
          /\ cmd'[c].pc = IF Holds[Head(cmd[c].todo)].freqs > 0 THEN "freqs" ELSE "guess"
      BY <1>0, <2>3 DEF Command
    <3>2. Holds[Head(cmd[c].todo)].freqs \in Nat
      BY <1>0, <2>1, TodoTail, DictAssumptions DEF Command
    <3>3. WholeRow(i)'
      <4>1. CASE Holds[Head(cmd[c].todo)].freqs > 0
        <5>1. Filling(c, i)'
          BY <2>1, <2>3, <3>1, <4>1 DEF Filling, At
        <5> QED
          BY <2>3, <5>1 DEF WholeRow
      <4>2. CASE Holds[Head(cmd[c].todo)].freqs = 0
        BY <2>3, <4>2 DEF WholeRow
      <4> QED
        BY <3>2, <4>1, <4>2
    <3>4. \A j \in DOMAIN dicts' : WholeRow(j)'
      BY <2>1, <2>3, <3>3 DEF WholeRow, AllIn
    <3>5. /\ \A z : IdsOf(z) # {} => IdsOf(z)' # {}
          /\ IdsOf(Head(cmd[c].todo))' # {}
      BY <2>3, <3>1, ZipKept DEF IdsOf
    <3>6. Importing(c)'
      BY <1>7, <2>1, <2>3, <3>1, <3>5 DEF Importing, Filling, At
    <3> QED
      BY <1>5, <3>4, <3>6
  <2> QED
    BY <1>12, <2>1, <2>2, <2>3, ImportSteps
<1>13. CASE Freqs(c)
  <2> DEFINE z == Head(cmd[c].todo)
             i == cmd[c].id
  <2>1. /\ cmd[c].todo # << >> /\ At(c, "freqs") /\ i \in DOMAIN dicts
        /\ dicts[i].zip = z /\ dicts[i].freqs = 0
    BY <1>0, <1>4, <1>13 DEF Freqs, At, AtZip, Importing, Filling
  <2>2. /\ DOMAIN dicts' = DOMAIN dicts
        /\ \A j \in DOMAIN dicts :
             /\ dicts'[j].zip = dicts[j].zip
             /\ dicts'[j].freqs = IF j = i THEN dicts[j].freqs + Holds[z].freqs
                                  ELSE dicts[j].freqs
        /\ cmd'[c] = [cmd[c] EXCEPT !.pc = "guess"]
    BY <1>13, <2>1, FreqsSteps
  <2>3. Holds[z].freqs \in Nat
    BY <1>0, <2>1, TodoTail, DictAssumptions DEF Command
  <2>4. /\ cmd'[c].pc = "guess" /\ cmd'[c].todo = cmd[c].todo /\ cmd'[c].op = cmd[c].op
    BY <1>0, <2>2 DEF Command
  <2>5. dicts'[i].freqs = Holds[dicts'[i].zip].freqs
    BY <2>1, <2>2, <2>3
  <2>6. ASSUME NEW j \in DOMAIN dicts, j # i
        PROVE  dicts'[j].freqs = Holds[dicts'[j].zip].freqs
    BY <1>3, <1>4, <2>2, <2>6 DEF WholeRow, Filling, At
  <2>7. \A j \in DOMAIN dicts' : WholeRow(j)'
    BY <2>2, <2>5, <2>6 DEF WholeRow
  <2>8. IdsOf(z)' # {} /\ \A y : IdsOf(y) # {} => IdsOf(y)' # {}
    BY <2>1, <2>2, <2>4, ZipKept DEF IdsOf
  <2>9. Importing(c)'
    BY <1>7, <2>1, <2>4, <2>8 DEF Importing, At
  <2> QED
    BY <1>5, <2>7, <2>9
<1>14. CASE Guess(c)
  <2>1. /\ cmd[c].todo # << >> /\ At(c, "guess") /\ IdsOf(Head(cmd[c].todo)) # {}
    BY <1>0, <1>4, <1>14, Zenon DEF Guess, At, AtZip, Importing
  <2>2. UNCHANGED dicts
    BY <1>14, <2>1, GuessSteps
  <2>3. /\ cmd'[c].op = cmd[c].op
        /\ \/ cmd'[c].pc = "find" /\ cmd'[c].todo = Tail(cmd[c].todo)
           \/ cmd'[c].pc = "order" /\ cmd'[c].todo = cmd[c].todo
    <3>1. \/ cmd'[c] = [cmd[c] EXCEPT !.pc = "find", !.todo = Tail(cmd[c].todo)]
          \/ \E i, r : cmd'[c] = [cmd[c] EXCEPT !.pc = "order", !.id = i, !.role = r]
      BY <1>14, <2>1, GuessSteps
    <3> QED
      BY <1>0, <3>1, ZenonT(60) DEF Command
  <2>4. Range(cmd[c].todo) = {Head(cmd[c].todo)} \cup Range(Tail(cmd[c].todo))
    BY <1>0, <2>1, TodoTail DEF Command
  <2>5. Importing(c)'
    BY <1>7, <1>8, <2>1, <2>2, <2>3, <2>4 DEF Importing, At
  <2> QED
    BY <1>5, <1>8, <2>1, <2>2, <2>5 DEF At
<1>15. CASE Order(c)
  <2>1. /\ At(c, "order") /\ cmd'[c].pc = "label" /\ cmd'[c].todo = cmd[c].todo
        /\ cmd'[c].op = cmd[c].op /\ cmd[c].todo # << >> /\ IdsOf(Head(cmd[c].todo)) # {}
    BY <1>0, <1>4, <1>15, OrderSteps, ZenonT(60) DEF Command, Importing, Order, At, AtZip
  <2>2. /\ DOMAIN dicts' = DOMAIN dicts
        /\ \A j \in DOMAIN dicts : dicts'[j].zip = dicts[j].zip /\ dicts'[j].freqs = dicts[j].freqs
    BY <1>15, OrderSteps
  <2>3. Importing(c)'
    BY <1>7, <1>9, <2>1, <2>2 DEF Importing, At
  <2> QED
    BY <1>5, <1>9, <2>1, <2>2, <2>3 DEF At
<1>16. CASE Label(c)
  <2>1. At(c, "label") /\ cmd[c].todo # << >> /\ IdsOf(Head(cmd[c].todo)) # {}
    BY <1>0, <1>4, <1>16 DEF Importing, Label, At, AtZip
  <2>2. /\ DOMAIN dicts' = DOMAIN dicts
        /\ \A j \in DOMAIN dicts : dicts'[j].zip = dicts[j].zip /\ dicts'[j].freqs = dicts[j].freqs
    BY <1>16, <2>1, LabelSteps
  <2>3. cmd'[c].pc = "find" /\ cmd'[c].todo = Tail(cmd[c].todo) /\ cmd'[c].op = cmd[c].op
    <3>1. cmd'[c] = [cmd[c] EXCEPT !.pc = "find", !.todo = Tail(cmd[c].todo), !.id = 0,
                                   !.role = "reference"]
      BY <1>16, <2>1, LabelSteps
    <3> QED
      BY <1>0, <3>1 DEF Command
  <2>4. Range(cmd[c].todo) = {Head(cmd[c].todo)} \cup Range(Tail(cmd[c].todo))
    BY <1>0, <2>1, TodoTail DEF Command
  <2>5. Importing(c)'
    BY <1>7, <1>9, <2>1, <2>2, <2>3, <2>4 DEF Importing, At
  <2> QED
    BY <1>5, <1>9, <2>1, <2>2, <2>5 DEF At
<1>17. CASE Master(c)
  <2>1. At(c, "find") /\ UNCHANGED dicts /\ cmd[c].todo = << >>
    BY <1>17, MasterSteps DEF Master
  <2>2. /\ cmd'[c].op = cmd[c].op /\ cmd'[c].todo = << >>
        /\ \/ cmd'[c].pc = "refresh" /\ HasMaster
           \/ cmd'[c].pc = "choose"
    BY <1>0, <1>17, <1>d, <2>1, MasterSteps, ZenonT(60) DEF Command, HasMaster
  <2>3. Importing(c)'
    BY <1>7, <1>8, <2>1, <2>2 DEF Importing, At
  <2> QED
    BY <1>5, <1>8, <2>1, <2>3 DEF At
<1>18. CASE Choose(c)
  <2>1. Masters = {} /\ UNCHANGED dicts /\ At(c, "choose") /\ cmd[c].todo = << >>
    BY <1>4, <1>18, ChooseSteps DEF Promoting, Importing, Choose, At
  <2>2. CASE \E i \in DOMAIN dicts : Promoted(c, Listed, i)
    BY <1>10, <2>1, <2>2, ListedTyped DEF DictTypes, At
  <2>3. CASE cmd'[c] = [cmd[c] EXCEPT !.pc = "count", !.listing = Listed]
    <3>1. cmd'[c].pc = "count" /\ cmd'[c].todo = << >> /\ cmd'[c].op = cmd[c].op
      BY <1>0, <2>1, <2>3 DEF Command
    <3>2. Importing(c)'
      BY <1>7, <1>8, <2>1, <3>1 DEF Importing, At
    <3> QED
      BY <1>5, <1>8, <2>1, <3>2 DEF At
  <2> QED
    BY <1>18, <2>1, <2>2, <2>3, ChooseSteps
<1>19. CASE Count(c)
  <2>1. /\ Masters = {} /\ UNCHANGED dicts /\ cmd[c].listing = Listed
        /\ At(c, "count") /\ cmd[c].todo = << >>
    BY <1>4, <1>19, CountSteps DEF Promoting, Importing, Count, At
  <2>2. CASE \E i \in DOMAIN Listed : Promoted(c, Listed, i)
    BY <1>10, <2>1, <2>2 DEF At
  <2>3. CASE /\ cmd'[c] = Done(c)
             /\ \A i \in DOMAIN Listed : Listed[i].role \in {"frequency", "pitch"}
    <3>1. HasMaster
      BY <2>3, ListedTyped DEF DictTypes, HasMaster
    <3>2. Importing(c)'
      BY <1>7, <1>8, <1>d, <2>1, <2>3, <3>1 DEF Importing, At
    <3> QED
      BY <1>5, <1>8, <2>1, <3>2 DEF At
  <2> QED
    BY <1>19, <2>1, <2>2, <2>3, CountSteps
<1>20. CASE Demote(c)
  <2>1. At(c, "demote") /\ cmd[c].op # "sync" /\ cmd[c].todo = << >>
    BY <1>1, <1>4, <1>20 DEF Importing, Demote, At
  <2>2. /\ cmd'[c].pc \in {"demote", "apply"} /\ cmd'[c].op = cmd[c].op
        /\ cmd'[c].todo = cmd[c].todo
    <3>1. \/ cmd'[c] = [cmd[c] EXCEPT !.pc = "apply", !.sets = {cmd[c].id}]
          \/ \E i : cmd'[c] = [cmd[c] EXCEPT !.sets = cmd[c].sets \ {i}]
      BY <1>20, DemoteSteps
    <3> QED
      BY <1>0, <2>1, <3>1 DEF Command, At
  <2>3. /\ DOMAIN dicts' = DOMAIN dicts
        /\ \A j \in DOMAIN dicts : dicts'[j].zip = dicts[j].zip /\ dicts'[j].freqs = dicts[j].freqs
    BY <1>20, DemoteSteps
  <2>4. Importing(c)'
    BY <2>1, <2>2 DEF Importing, At
  <2> QED
    BY <1>5, <1>9, <2>1, <2>3, <2>4 DEF At
<1>21. CASE Apply(c)
  <2>1. /\ At(c, "apply") /\ cmd[c].sets = {cmd[c].id} /\ cmd[c].todo = << >>
        /\ cmd[c].op = "sync" => cmd[c].id \in DOMAIN dicts /\ cmd[c].role = "master"
    BY <1>1, <1>4, <1>21 DEF Promoting, Importing, Apply, At
  <2>2. /\ DOMAIN dicts' = DOMAIN dicts /\ cmd'[c] = Done(c)
        /\ \A j \in DOMAIN dicts :
             /\ dicts'[j].role = IF j = cmd[c].id THEN cmd[c].role ELSE dicts[j].role
             /\ dicts'[j].zip = dicts[j].zip /\ dicts'[j].freqs = dicts[j].freqs
    <3>1. PICK i \in cmd[c].sets :
             /\ DOMAIN dicts' = DOMAIN dicts
             /\ \A j \in DOMAIN dicts :
                  /\ dicts'[j].role = IF j # i THEN dicts[j].role
                                      ELSE IF i = cmd[c].id THEN cmd[c].role ELSE "reference"
                  /\ dicts'[j].zip = dicts[j].zip /\ dicts'[j].freqs = dicts[j].freqs
             /\ IF cmd[c].sets = {i}
                THEN cmd'[c] = Done(c)
                ELSE cmd'[c] = [cmd[c] EXCEPT !.sets = cmd[c].sets \ {i}]
      BY <1>21, ApplySteps
    <3>2. i = cmd[c].id /\ cmd[c].sets = {i}
      BY <2>1
    <3> QED
      BY <3>1, <3>2
  <2>3. cmd[c].op = "sync" => HasMaster'
    BY <2>1, <2>2 DEF HasMaster, Masters, RoleIs
  <2>4. /\ \A i \in DOMAIN dicts' : WholeRow(i)'
        /\ \A z : IdsOf(z) # {} => IdsOf(z)' # {}
    BY <1>9, <2>1, <2>2 DEF At
  <2>5. Importing(c)'
    BY <1>7, <1>d, <1>e, <2>1, <2>2, <2>3, <2>4 DEF Importing, At
  <2> QED
    BY <1>5, <2>4, <2>5
<1>22. CASE Removed(c)
  <2>1. At(c, "remove") /\ cmd[c].op # "sync"
    BY <1>1, <1>4, <1>22 DEF Importing, Removed, At
  <2>2. \A i \in DOMAIN dicts' : WholeRow(i)'
    BY <1>6, <1>22, <2>1, RemovedSteps, RowsKept DEF At
  <2>3. Importing(c)'
    BY <1>22, <1>d, <2>1, RemovedSteps DEF Importing, At
  <2> QED
    BY <1>5, <2>2, <2>3
<1>23. CASE Replaced(c)
  <2>1. At(c, "replace") /\ cmd[c].op # "sync"
    BY <1>1, <1>4, <1>23 DEF Importing, Replaced, At
  <2>2. \A i \in DOMAIN dicts' : WholeRow(i)'
    BY <1>9, <1>23, <2>1, ReplacedSteps DEF At
  <2>3. Importing(c)'
    BY <1>23, <1>d, <2>1, ReplacedSteps DEF Importing, At
  <2> QED
    BY <1>5, <2>2, <2>3
<1> QED
  BY <1>11, <1>12, <1>13, <1>14, <1>15, <1>16, <1>17, <1>18, <1>19, <1>20, <1>21, <1>22,
     <1>23 DEF Step

---------------------------------------------------------------------------
(* What is typed; and a command that stops, or comes to the cache.         *)

LEMMA TypedKeeps ==
    ASSUME DictTypes, TodoInv, MasterInv, SyncInv, NEW c \in Commands, Typed(c)
    PROVE  DictTypes' /\ TodoInv' /\ MasterInv' /\ SyncInv'
<1>1. At(c, "idle") /\ Opened(c)
  BY TypedBegins
<1>2. DictTypes' /\ Others(c) /\ deaths' = deaths
  BY <1>1 DEF Opened
<1>3. TodoInv'
  <2>1. cmd'[c].pc \notin AtZip
    BY <1>1 DEF Opened, AtZip
  <2> QED
    BY <1>2, <2>1, TodoAfter
<1>4. CASE overlap'
  BY <1>2, <1>3, <1>4 DEF MasterInv, Alone, SoleMaster, SyncInv
<1>5. CASE ~overlap'
  <2>1. ~overlap /\ \A d \in Commands : At(d, "idle")
    BY <1>1, <1>5 DEF Opened
  <2>2. \A d \in Commands \ {c} : At(d, "idle")'
    BY <1>2, <2>1 DEF Others, At
  <2>3. Masters' = Masters
    BY <1>1 DEF Opened, Masters, RoleIs
  <2>4. \A i, j \in Masters' : i = j
    BY <2>1, <2>3 DEF MasterInv, SoleMaster
  <2>5. Promoting(c)'
    BY <1>1, <2>3 DEF Opened, Promoting, At
  <2>6. MasterInv'
    BY <2>2, <2>4, <2>5, MasterAfter
  <2>7. CASE deaths # 0
    BY <1>2, <1>3, <2>6, <2>7 DEF SyncInv
  <2>8. CASE deaths = 0
    <3>1. AllIn
      BY <2>1, <2>8, RowsWhole DEF SyncInv, At
    <3>2. \A i \in DOMAIN dicts' : WholeRow(i)'
      BY <1>1, <3>1, RowsKept DEF Opened
    <3>3. Importing(c)'
      BY <1>1 DEF Opened, Importing, At
    <3> QED
      BY <1>2, <1>3, <2>2, <2>6, <3>2, <3>3, SyncAfter
  <2> QED
    BY <2>7, <2>8
<1> QED
  BY <1>4, <1>5

\* A command that has done, is killed, or goes on with the cache.
Stops(c) ==
    /\ ~At(c, "idle") /\ Others(c) /\ cmd' \in [Commands -> Command]
    /\ UNCHANGED <<dicts, runs, overlap>> /\ deaths' \in {deaths, deaths + 1} /\ deaths' <= MaxDeaths
    /\ \/ cmd'[c] = Idle /\ (At(c, "deriving") \/ deaths' = deaths + 1)
       \/ At(c, "refresh") /\ cmd'[c] = [cmd[c] EXCEPT !.pc = "deriving"]
\* A server's step.
Untouched == UNCHANGED <<dicts, cmd, runs, overlap>> /\ deaths' \in {deaths, deaths + 1} /\ deaths' <= MaxDeaths

LEMMA DeathCounts ==
    ASSUME DictTypes, deaths' \in {deaths, deaths + 1}, deaths' <= MaxDeaths
    PROVE  deaths' \in 0 .. MaxDeaths /\ (deaths' = 0 => deaths = 0 /\ deaths' # deaths + 1)
BY DictAssumptions DEF DictTypes

LEMMA StopsKeeps ==
    ASSUME DictTypes, TodoInv, MasterInv, SyncInv, NEW c \in Commands, Stops(c)
    PROVE  DictTypes' /\ TodoInv' /\ MasterInv' /\ SyncInv'
<1>0. cmd[c] \in Command
  BY CommandAt
<1>1. DictTypes' /\ Others(c) /\ overlap' = overlap /\ dicts' = dicts
  BY DeathCounts DEF Stops, DictTypes
<1>2. \/ cmd'[c] = Idle /\ cmd'[c].pc = "idle"
      \/ /\ At(c, "refresh") /\ cmd'[c].pc = "deriving"
         /\ cmd'[c].op = cmd[c].op /\ cmd'[c].todo = cmd[c].todo
  BY <1>0 DEF Stops, Command, Idle
<1>3. TodoInv'
  BY <1>1, <1>2, TodoAfter DEF AtZip
<1>4. CASE overlap
  BY <1>1, <1>3, <1>4 DEF MasterInv, Alone, SoleMaster, SyncInv
<1>5. CASE ~overlap
  <2>1. \A d \in Commands \ {c} : At(d, "idle") /\ At(d, "idle")'
    BY <1>1, <1>5, OthersIdle DEF MasterInv, Stops
  <2>2. Masters' = Masters
    BY <1>1 DEF Masters, RoleIs
  <2>3. \A i, j \in Masters' : i = j
    BY <1>5, <2>2 DEF MasterInv, SoleMaster
  <2>4. Promoting(c)'
    BY <1>2 DEF Promoting, At
  <2>5. MasterInv'
    BY <2>1, <2>3, <2>4, MasterAfter
  <2>6. CASE deaths' # 0
    BY <1>1, <1>3, <2>5, <2>6 DEF SyncInv
  <2>7. CASE deaths' = 0
    <3>1. deaths = 0 /\ (At(c, "deriving") \/ At(c, "refresh"))
      BY <2>7, DeathCounts DEF Stops
    <3>2. Importing(c) /\ \A i \in DOMAIN dicts : WholeRow(i)
      BY <1>5, <3>1 DEF SyncInv
    <3>3. AllIn
      BY <2>1, <3>1, <3>2, RowsWhole DEF At
    <3>4. \A i \in DOMAIN dicts' : WholeRow(i)'
      BY <1>1, <3>3, RowsKept
    <3>5. Importing(c)'
      BY <1>1, <1>2, <3>2 DEF Importing, At, IdsOf
    <3> QED
      BY <1>1, <1>3, <2>1, <2>5, <3>4, <3>5, SyncAfter
  <2> QED
    BY <2>6, <2>7
<1> QED
  BY <1>4, <1>5

LEMMA UntouchedKeeps ==
    ASSUME DictTypes, TodoInv, MasterInv, SyncInv, Untouched
    PROVE  DictTypes' /\ TodoInv' /\ MasterInv' /\ SyncInv'
<1>1. DictTypes'
  BY DeathCounts DEF Untouched, DictTypes
<1>2. TodoInv' /\ MasterInv'
  BY DEF Untouched, TodoInv, MasterInv, Alone, SoleMaster, Promoting, At, Masters, RoleIs, Listed
<1>3. SyncInv'
  <2>1. CASE deaths' # 0
    BY <2>1 DEF SyncInv
  <2>2. CASE deaths' = 0
    <3>1. deaths = 0
      BY <2>2, DeathCounts DEF Untouched
    <3>2. (\A i \in DOMAIN dicts : WholeRow(i)) = (\A i \in DOMAIN dicts' : WholeRow(i)')
      BY DEF Untouched, WholeRow, Filling, At
    <3>3. (\A c \in Commands : Importing(c)) = (\A c \in Commands : Importing(c)')
      BY DEF Untouched, Importing, Filling, At, IdsOf, HasMaster, Masters, RoleIs
    <3> QED
      BY <3>1, <3>2, <3>3 DEF SyncInv, Untouched
  <2> QED
    BY <2>1, <2>2
<1> QED
  BY <1>1, <1>2, <1>3

\* The start: what is installed.
LEMMA DictStarts == DictInit => DictTypes /\ TodoInv /\ MasterInv /\ SyncInv
<1> SUFFICES ASSUME DictInit PROVE DictTypes /\ TodoInv /\ MasterInv /\ SyncInv
  OBVIOUS
<1>1. dicts \in Table(Ids, Row)
  BY InstalledAssumption, TableIntro DEF DictInit
<1>2. \A c \in Commands : At(c, "idle") /\ cmd[c] = Idle
  BY DEF DictInit, At, Idle
<1>3. DictTypes
  <2>1. cmd \in [Commands -> Command]
    BY IdleTyped DEF DictInit
  <2>2. runs \in 0 .. MaxRuns /\ deaths \in 0 .. MaxDeaths
    BY DictAssumptions DEF DictInit
  <2>3. overlap \in BOOLEAN
    BY DEF DictInit
  <2> QED
    BY <1>1, <2>1, <2>2, <2>3 DEF DictTypes
<1>4. TodoInv
  BY <1>2 DEF TodoInv, At, AtZip
<1>5. \A i, j \in Masters : i = j
  BY InstalledAssumption DEF DictInit, Masters, RoleIs
<1>6. MasterInv
  BY <1>2, <1>5 DEF MasterInv, Alone, SoleMaster, Promoting, At
<1>7. SyncInv
  BY <1>2, InstalledAssumption DEF SyncInv, Importing, WholeRow, DictInit, At
<1> QED
  BY <1>3, <1>4, <1>6, <1>7

---------------------------------------------------------------------------
(* The types of the cache.                                                 *)

LEMMA SectionsAre ==
    /\ Range(SECTIONS) = Sections /\ {SECTIONS[n] : n \in DOMAIN SECTIONS} = Sections
    /\ SECTIONS # << >> /\ Len(SECTIONS) = 2 /\ Head(SECTIONS) = "master"
    /\ Tail(SECTIONS) = <<"reader_ranks">>
    /\ Len(<<"reader_ranks">>) = 1 /\ Head(<<"reader_ranks">>) = "reader_ranks"
BY DEF SECTIONS, Sections, Range

LEMMA PutTyped ==
    ASSUME NEW S, NEW V, NEW f \in Table(S, V), NEW k \in S, NEW v \in V
    PROVE  /\ Put(f, k, v) \in Table(S, V) /\ DOMAIN Put(f, k, v) = DOMAIN f \cup {k}
           /\ Put(f, k, v)[k] = v /\ \A x \in DOMAIN f : x # k => Put(f, k, v)[x] = f[x]
<1>1. DOMAIN f \subseteq S /\ \A x \in DOMAIN f : f[x] \in V
  BY TableElim
<1>2. Put(f, k, v) \in [DOMAIN f \cup {k} -> V]
  BY <1>1 DEF Put
<1> QED
  BY <1>1, <1>2, TableIntro DEF Put

LEMMA AtRestTyped == /\ NoFingerprint \in Stamp /\ AtRest \in Work
                     /\ DOMAIN NoFingerprint.rows = {} /\ DOMAIN NoFingerprint.counts = {}
<1>1. << >> \in Table(Ids, Entry) /\ << >> \in Table(Ids, Pair)
      /\ << >> \in Table(Sections, Payload) /\ DOMAIN << >> = {}
  BY NoRows
<1>2. NoFingerprint \in Stamp /\ NoFingerprint.rows = << >> /\ NoFingerprint.counts = << >>
  BY <1>1 DEF NoFingerprint, Stamp
<1> QED
  BY <1>1, <1>2 DEF AtRest, Work

LEMMA RowsTyped ==
    ASSUME DictTypes
    PROVE  /\ DOMAIN dicts \subseteq Ids /\ \A i \in DOMAIN dicts : dicts[i] \in Row
           /\ \A i \in DOMAIN dicts : /\ dicts[i].zip \in DOMAIN Holds
                                      /\ dicts[i].entries \in Nat /\ dicts[i].freqs \in Nat
<1>1. DOMAIN dicts \subseteq Ids /\ \A i \in DOMAIN dicts : dicts[i] \in Row
  BY TableElim DEF DictTypes
<1> QED
  BY <1>1 DEF Row

LEMMA CountedTyped == ASSUME DictTypes PROVE \A i : Counted(i) \in Pair
BY RowsTyped DEF Counted, Pair

LEMMA FingerprintTyped ==
    ASSUME DictTypes
    PROVE  /\ Fingerprint \in Stamp /\ Fingerprint.rows = Listed /\ Complete(Fingerprint)
           /\ DOMAIN Listed = DOMAIN dicts /\ DOMAIN Fingerprint.counts = DOMAIN dicts
           /\ \A i \in DOMAIN dicts : Fingerprint.counts[i] = Counted(i)
<1>1. Listed \in Table(Ids, Entry) /\ DOMAIN Listed = DOMAIN dicts
  BY ListedTyped DEF DictTypes
<1>2. [i \in DOMAIN dicts |-> Counted(i)] \in [DOMAIN dicts -> Pair]
  BY CountedTyped
<1>3. [i \in DOMAIN dicts |-> Counted(i)] \in Table(Ids, Pair)
  BY <1>2, RowsTyped, TableIntro
<1>4. Fingerprint \in Stamp
  BY <1>1, <1>3 DEF Fingerprint, Stamp
<1>5. /\ Fingerprint.rows = Listed
      /\ Fingerprint.counts = [i \in DOMAIN dicts |-> Counted(i)]
  BY DEF Fingerprint
<1> QED
  BY <1>1, <1>4, <1>5 DEF Complete

LEMMA DeriveTyped == ASSUME DictTypes, NEW x \in Sections PROVE Derive(x) \in Payload
<1>1. RoleIs("master") \subseteq DOMAIN dicts
      /\ Foremost(RoleIs("frequency"), Listed) \subseteq DOMAIN dicts
  BY DEF RoleIs, Foremost
<1>2. CASE x = "master"
  <2>1. Derive(x) = {<<dicts[i].zip, dicts[i].entries>> : i \in RoleIs("master")}
    BY <1>2 DEF Derive, Masters
  <2> QED
    BY <1>1, <2>1, RowsTyped DEF Payload
<1>3. CASE x = "reader_ranks"
  <2>1. Derive(x) = {<<dicts[i].zip, dicts[i].freqs>> : i \in Foremost(RoleIs("frequency"), Listed)}
    BY <1>3 DEF Derive
  <2> QED
    BY <1>1, <2>1, RowsTyped DEF Payload
<1> QED
  BY <1>2, <1>3 DEF Sections

\* Of a stamp, the listing and the counts.
LEMMA StampTyped ==
    ASSUME NEW t \in Stamp
    PROVE  /\ t.rows \in Table(Ids, Entry) /\ t.counts \in Table(Ids, Pair)
           /\ DOMAIN t.rows \subseteq Ids /\ DOMAIN t.counts \subseteq Ids
           /\ t = [rows |-> t.rows, counts |-> t.counts]
<1>1. t.rows \in Table(Ids, Entry) /\ t.counts \in Table(Ids, Pair)
  BY DEF Stamp
<1> QED
  BY <1>1, TableElim DEF Stamp

---------------------------------------------------------------------------
(* The parts of a fingerprint.                                             *)

LEMMA InParts ==
    ASSUME NEW t
    PROVE  /\ \A i, r : <<i, "row", r>> \in Parts(t) <=> i \in DOMAIN t.rows /\ r = t.rows[i]
           /\ \A i, n : <<i, "count", n>> \in Parts(t) <=> i \in DOMAIN t.counts /\ n = t.counts[i]
           /\ \A i : <<i, "absent">> \in Parts(t) <=> i \in Ids \ DOMAIN t.rows
BY DEF Parts

LEMMA PartsAre ==
    ASSUME NEW t, NEW p \in Parts(t)
    PROVE  \/ \E i \in DOMAIN t.rows : p = <<i, "row", t.rows[i]>>
           \/ \E i \in DOMAIN t.counts : p = <<i, "count", t.counts[i]>>
           \/ \E i \in Ids \ DOMAIN t.rows : p = <<i, "absent">>
BY DEF Parts

\* One count more.
LEMMA PartsMore ==
    ASSUME NEW t, NEW u, NEW i, NEW n, u.rows = t.rows, i \notin DOMAIN t.counts,
           DOMAIN u.counts = DOMAIN t.counts \cup {i}, u.counts[i] = n,
           \A j \in DOMAIN t.counts : u.counts[j] = t.counts[j]
    PROVE  /\ Parts(t) \subseteq Parts(u)
           /\ Parts(u) \subseteq Parts(t) \cup {<<i, "count", n>>}
<1>1. ASSUME NEW q \in Parts(t) PROVE q \in Parts(u)
  <2>1. CASE \E j \in DOMAIN t.rows : q = <<j, "row", t.rows[j]>>
    BY <2>1, InParts
  <2>2. CASE \E j \in DOMAIN t.counts : q = <<j, "count", t.counts[j]>>
    BY <2>2, InParts
  <2>3. CASE \E j \in Ids \ DOMAIN t.rows : q = <<j, "absent">>
    BY <2>3, InParts
  <2> QED
    BY <2>1, <2>2, <2>3, PartsAre
<1>2. ASSUME NEW q \in Parts(u) PROVE q \in Parts(t) \/ q = <<i, "count", n>>
  <2>1. CASE \E j \in DOMAIN u.rows : q = <<j, "row", u.rows[j]>>
    BY <2>1, InParts
  <2>2. CASE \E j \in DOMAIN u.counts : q = <<j, "count", u.counts[j]>>
    BY <2>2, InParts
  <2>3. CASE \E j \in Ids \ DOMAIN u.rows : q = <<j, "absent">>
    BY <2>3, InParts
  <2> QED
    BY <2>1, <2>2, <2>3, PartsAre
<1> QED
  BY <1>1, <1>2

\* Of two complete fingerprints neither says less than the other.
LEMMA SameParts ==
    ASSUME NEW t \in Stamp, NEW F \in Stamp, Complete(t), Complete(F), Parts(t) \subseteq Parts(F)
    PROVE  t = F
<1>1. F \in Stamp /\ Complete(F)
  OBVIOUS
<1>2. ASSUME NEW i \in DOMAIN t.rows
      PROVE  i \in DOMAIN F.rows /\ t.rows[i] = F.rows[i]
  BY InParts
<1>3. ASSUME NEW i \in DOMAIN F.rows
      PROVE  i \in DOMAIN t.rows
  <2>1. i \in Ids
    BY <1>1, StampTyped
  <2>2. i \notin DOMAIN t.rows => <<i, "absent">> \in Parts(t)
    BY <2>1, InParts
  <2> QED
    BY <2>2, InParts
<1>4. DOMAIN t.rows = DOMAIN F.rows
  BY <1>2, <1>3
<1>5. DOMAIN t.counts = DOMAIN F.counts
  BY <1>1, <1>4 DEF Complete
<1>6. ASSUME NEW i \in DOMAIN t.counts
      PROVE  t.counts[i] = F.counts[i]
  BY InParts
<1>7. t.rows = F.rows
  <2>1. t.rows = [i \in DOMAIN t.rows |-> t.rows[i]] /\ F.rows = [i \in DOMAIN F.rows |-> F.rows[i]]
    BY <1>1, StampTyped, TableElim
  <2> QED
    BY <1>2, <1>4, <2>1
<1>8. t.counts = F.counts
  <2>1. /\ t.counts = [i \in DOMAIN t.counts |-> t.counts[i]]
        /\ F.counts = [i \in DOMAIN F.counts |-> F.counts[i]]
    BY <1>1, StampTyped, TableElim
  <2> QED
    BY <1>5, <1>6, <2>1
<1> QED
  BY <1>1, <1>7, <1>8, StampTyped

LEMMA FingerprintNow == DictTypes => Fingerprint \in Stamp /\ Complete(Fingerprint)
BY FingerprintTyped

\* A complete fingerprint that says nothing but what is true is the one taken now.
LEMMA LiveIsNow ==
    ASSUME DictTypes, NEW t \in Stamp, Complete(t), Live(t)
    PROVE  t = Fingerprint
BY FingerprintNow, SameParts DEF Live

\* The fingerprint is all the sections are derived from.
LEMMA SameFingerprint ==
    ASSUME DictTypes, DictTypes', Fingerprint' = Fingerprint
    PROVE  dicts' = dicts
<1>1. /\ Fingerprint.rows = Listed /\ Fingerprint'.rows = Listed'
      /\ DOMAIN Listed = DOMAIN dicts /\ DOMAIN Listed' = DOMAIN dicts'
      /\ \A i \in DOMAIN dicts : Fingerprint.counts[i] = <<dicts[i].entries, dicts[i].freqs>>
      /\ \A i \in DOMAIN dicts' : Fingerprint'.counts[i] = <<dicts'[i].entries, dicts'[i].freqs>>
  BY DEF Fingerprint, Listed, Counted
<1>2. DOMAIN dicts' = DOMAIN dicts
  BY <1>1
<1>3. ASSUME NEW i \in DOMAIN dicts
      PROVE  dicts'[i] = dicts[i]
  <2>1. dicts[i] \in Row /\ dicts'[i] \in Row
    <3>1. \A j \in DOMAIN dicts' : dicts'[j] \in Row
      BY TableElim DEF DictTypes
    <3> QED
      BY <1>2, <3>1, RowsTyped
  <2>2. Listed'[i] = Listed[i]
    BY <1>1
  <2>3. /\ dicts'[i].zip = dicts[i].zip /\ dicts'[i].role = dicts[i].role
        /\ dicts'[i].priority = dicts[i].priority
    BY <1>2, <2>2 DEF Listed
  <2>4. dicts'[i].entries = dicts[i].entries /\ dicts'[i].freqs = dicts[i].freqs
    BY <1>1, <1>2
  <2> QED
    BY <2>1, <2>3, <2>4 DEF Row
<1>4. dicts = [i \in DOMAIN dicts |-> dicts[i]] /\ dicts' = [i \in DOMAIN dicts' |-> dicts'[i]]
  BY TableElim DEF DictTypes
<1> QED
  BY <1>2, <1>3, <1>4

---------------------------------------------------------------------------
(* The dictionaries change under the cache.                                *)

\* A section's row has its types.
LEMMA RowAt ==
    ASSUME NEW r \in Rows, NEW x \in DOMAIN r
    PROVE  r[x] \in [stamp : Stamp, payload : Payload] /\ r[x].stamp \in Stamp
<1> DEFINE V == [stamp : Stamp, payload : Payload]
<1>1. r \in Table(Sections, V)
  BY DEF Rows
<1> HIDE DEF V
<1>2. r[x] \in V
  BY <1>1, TableElim
<1> QED
  BY <1>2 DEF V

LEMMA WorkAt ==
    ASSUME CacheTypes, NEW w \in Workers
    PROVE  /\ work[w] \in Work /\ work[w].print \in Stamp
           /\ work[w].built \in Table(Sections, Payload)
           /\ work[w].listed \in BOOLEAN /\ work[w].moved \in BOOLEAN
BY DEF CacheTypes, Work

\* What Noted leaves of each process: whether it has been moved under.
LEMMA NotedLeaves ==
    ASSUME CacheTypes, Noted
    PROVE  /\ work' \in [Workers -> Work] /\ cache' = cache /\ starts' = starts
           /\ returned' = returned \/ returned' = TRUE
           /\ \A w \in Workers :
                /\ work'[w].pc = work[w].pc /\ work'[w].listed = work[w].listed
                /\ work'[w].print = work[w].print /\ work'[w].read = work[w].read
                /\ work'[w].built = work[w].built /\ work'[w].todo = work[w].todo
                /\ ~work'[w].moved => ~work[w].moved
                /\ w \in Servers /\ ~work'[w].moved /\ ~In(w, "rest") => Fingerprint' = Fingerprint
<1> DEFINE m(w) == work[w].moved \/ (Fingerprint' # Fingerprint /\ ~In(w, "rest") /\ w \in Servers)
<1>1. /\ work' = [w \in Workers |-> [work[w] EXCEPT !.moved = m(w)]]
      /\ cache' = cache /\ starts' = starts
  BY DEF Noted
<1>2. ASSUME NEW w \in Workers
      PROVE  /\ [work[w] EXCEPT !.moved = m(w)] \in Work
             /\ [work[w] EXCEPT !.moved = m(w)].moved = m(w)
             /\ work'[w].pc = work[w].pc /\ work'[w].listed = work[w].listed
             /\ work'[w].print = work[w].print /\ work'[w].read = work[w].read
             /\ work'[w].built = work[w].built /\ work'[w].todo = work[w].todo
             /\ work'[w].moved = m(w)
  <2>1. work[w] \in Work
    BY WorkAt
  <2>2. m(w) \in BOOLEAN
    OBVIOUS
  <2>3. work'[w] = [work[w] EXCEPT !.moved = m(w)]
    BY <1>1
  <2> HIDE DEF m
  <2> QED
    BY <2>1, <2>2, <2>3 DEF Work
<1>3. work' \in [Workers -> Work]
  BY <1>1, <1>2
<1>4. returned' = returned \/ returned' = TRUE
  BY DEF Noted, CacheTypes
<1> QED
  BY <1>1, <1>2, <1>3, <1>4

\* While no part comes back: what the past holds is not true now, what was seen has been
\* seen, and a section that was right for a fingerprint that is true is right still.
LEMMA NotedSees ==
    ASSUME DictTypes, DictTypes', Noted, ~returned', was \cap Parts(Fingerprint) = {}
    PROVE  /\ ~returned /\ was' \cap Parts(Fingerprint)' = {}
           /\ \A t : Seen(t) => Seen(t)'
           /\ \A t \in Stamp : \A x, d : Complete(t) /\ Seen(t) /\ Sound(t, x, d) => Sound(t, x, d)'
<1> DEFINE F == Parts(Fingerprint)
           G == Parts(Fingerprint')
<1>1. /\ ~returned /\ (G \ F) \cap was = {} /\ was' = was \cup (F \ G)
  BY DEF Noted
<1>2. was' \cap G = {}
  BY <1>1
<1>3. ASSUME NEW t, Seen(t)
      PROVE  Seen(t)'
  <2>1. CASE Stale(t)
    BY <1>1, <2>1 DEF Seen, Stale
  <2>2. CASE Live(t) /\ ~(Parts(t) \subseteq G)
    BY <1>1, <2>2 DEF Seen, Stale, Live
  <2>3. CASE Parts(t) \subseteq G
    BY <2>3 DEF Seen, Live
  <2> QED
    BY <1>3, <2>1, <2>2, <2>3 DEF Seen
<1>4. ASSUME NEW t \in Stamp, NEW x, NEW d, Complete(t), Seen(t), Sound(t, x, d), Live(t)'
      PROVE  d = Derive(x)'
  <2>1. Parts(t) \subseteq G
    BY <1>4 DEF Live
  <2>2. Live(t)
    BY <1>1, <1>2, <1>4, <2>1 DEF Seen, Stale
  <2>3. t = Fingerprint
    BY <1>4, <2>2, LiveIsNow
  <2>4. t = Fingerprint'
    <3>1. (DictTypes => Fingerprint \in Stamp /\ Complete(Fingerprint))'
      BY FingerprintNow, PTL
    <3>2. Fingerprint' \in Stamp /\ Complete(Fingerprint')
      BY <3>1
    <3> QED
      BY <1>4, <2>1, <3>2, SameParts
  <2>5. dicts' = dicts
    BY <2>3, <2>4, SameFingerprint
  <2> QED
    BY <1>4, <2>2, <2>5 DEF Sound, Derive, Masters, RoleIs, Listed
<1> QED
  BY <1>1, <1>2, <1>3, <1>4 DEF Sound

LEMMA NotedKeeps ==
    ASSUME DictTypes, CacheTypes, ShapeInv, TrustInv, FreshInv, DictTypes', Noted,
           NEW c \in Commands, ~At(c, "deriving"), Others(c)
    PROVE  CacheTypes' /\ ShapeInv' /\ TrustInv' /\ FreshInv'
<1>0. /\ work' \in [Workers -> Work] /\ cache' = cache /\ starts' = starts
      /\ \A w \in Workers :
           /\ work'[w].pc = work[w].pc /\ work'[w].listed = work[w].listed
           /\ work'[w].print = work[w].print /\ work'[w].read = work[w].read
           /\ work'[w].built = work[w].built /\ work'[w].todo = work[w].todo
           /\ ~work'[w].moved => ~work[w].moved
           /\ w \in Servers /\ ~work'[w].moved /\ ~In(w, "rest") => Fingerprint' = Fingerprint
  BY NotedLeaves
<1>1. CacheTypes'
  <2>1. returned' \in BOOLEAN
    BY DEF Noted, CacheTypes
  <2> QED
    BY <1>0, <2>1 DEF CacheTypes
<1>2. ShapeInv'
  <2>1. ASSUME NEW w \in Workers
        PROVE  Shape(w)'
    <3>1. Shape(w)
      BY DEF ShapeInv
    <3>2. w \in Commands /\ ~In(w, "rest") => At(w, "deriving")'
      BY <3>1 DEF Shape, Others, At
    <3> QED
      BY <1>0, <3>1, <3>2 DEF Shape, In, Complete
  <2> QED
    BY <1>0, <2>1 DEF ShapeInv, Complete
<1>3. TrustInv'
  <2> SUFFICES ASSUME ~returned'
               PROVE  /\ was' \cap Parts(Fingerprint)' = {}
                      /\ \A x \in DOMAIN cache' : Trusty(cache[x], x)'
                      /\ \A w \in Workers : Trust(w)'
    BY DEF TrustInv
  <2>1. ~returned /\ was \cap Parts(Fingerprint) = {}
    BY DEF Noted, TrustInv
  <2>2. /\ was' \cap Parts(Fingerprint)' = {}
        /\ \A t : Seen(t) => Seen(t)'
        /\ \A t \in Stamp : \A x, d : Complete(t) /\ Seen(t) /\ Sound(t, x, d) => Sound(t, x, d)'
    BY <2>1, NotedSees
  <2>3. ASSUME NEW r, NEW x, r.stamp \in Stamp, Complete(r.stamp), Trusty(r, x)
        PROVE  Trusty(r, x)'
    BY <2>2, <2>3 DEF Trusty
  <2>4. ASSUME NEW x \in DOMAIN cache PROVE Trusty(cache[x], x)'
    <3>1. cache[x].stamp \in Stamp
      <4>1. cache \in Rows
        BY DEF CacheTypes
      <4> QED
        BY <4>1, RowAt
    <3>2. Complete(cache[x].stamp) /\ Trusty(cache[x], x)
      BY <2>1 DEF ShapeInv, TrustInv
    <3> QED
      BY <1>0, <2>3, <3>1, <3>2
  <2>5. ASSUME NEW w \in Workers PROVE Trust(w)'
    <3>1. Trust(w) /\ Shape(w) /\ work[w].print \in Stamp
      BY <2>1, WorkAt DEF TrustInv, ShapeInv
    <3>2. work[w].listed => Seen(work[w].print)'
      BY <1>0, <2>2, <3>1 DEF Trust
    <3>3. work[w].pc \in {"build", "store"} =>
            \A x \in DOMAIN work[w].built : Sound(work[w].print, x, work[w].built[x])'
      BY <1>0, <2>2, <3>1 DEF Trust, Shape
    <3>4. ASSUME NEW n \in DOMAIN work[w].read, NEW x \in DOMAIN work[w].read[n]
          PROVE  Trusty(work[w].read[n][x], x)'
      <4>1. work[w].read[n] \in Rows
        <5>1. work[w].read \in {<< >>} \cup {<<r>> : r \in Rows}
          BY WorkAt DEF Work
        <5> QED
          BY <5>1
      <4>2. work[w].read[n][x].stamp \in Stamp
        BY <4>1, RowAt
      <4>3. Complete(work[w].read[n][x].stamp) /\ Trusty(work[w].read[n][x], x)
        BY <3>1 DEF ShapeInv, Trust
      <4> QED
        BY <1>0, <2>3, <4>2, <4>3
    <3> QED
      BY <1>0, <3>1, <3>2, <3>3, <3>4 DEF Trust
  <2> QED
    BY <1>0, <2>2, <2>4, <2>5
<1>4. FreshInv'
  <2> SUFFICES ASSUME NEW s \in Servers, ~work'[s].moved
               PROVE  Fresh(s)'
    BY DEF FreshInv
  <2>1. s \in Workers /\ ~work[s].moved
    BY <1>0 DEF Workers
  <2>2. Fresh(s) /\ Shape(s)
    BY <2>1 DEF FreshInv, ShapeInv
  <2>3. CASE In(s, "rest")
    BY <1>0, <2>1, <2>2, <2>3 DEF Fresh, Shape, In
  <2>4. CASE ~In(s, "rest")
    <3>1. dicts' = dicts
      BY <1>0, <2>1, <2>4, SameFingerprint
    <3>2. returned => returned'
      BY DEF Noted
    <3>3. /\ \A t : Current(t) => Current(t)'
          /\ \A x : Derive(x)' = Derive(x)
      BY <3>1 DEF Current, Listed, Counted, Derive, Masters, RoleIs
    <3> QED
      BY <1>0, <2>1, <2>2, <3>2, <3>3 DEF Fresh, In
  <2> QED
    BY <2>3, <2>4
<1> QED
  BY <1>1, <1>2, <1>3, <1>4

---------------------------------------------------------------------------
(* A process takes a step with the cache, and the dictionaries stay.       *)

Turns(w, k) == /\ work' \in [Workers -> Work] /\ work'[w] = k
               /\ \A v \in Workers \ {w} : work'[v] = work[v]
LEMMA OnlyTurns ==
    ASSUME CacheTypes, NEW w \in Workers, NEW k \in Work, Only(w, k)
    PROVE  Turns(w, k)
BY DEF CacheTypes, Only, Turns

\* The dictionaries and the history, and what is read from them.
Steady == dicts' = dicts /\ was' = was /\ returned' = returned
LEMMA SteadyKeeps ==
    ASSUME Steady
    PROVE  /\ Fingerprint' = Fingerprint
           /\ \A t : (Seen(t)' <=> Seen(t)) /\ (Current(t)' <=> Current(t))
           /\ \A x : Derive(x)' = Derive(x)
           /\ \A t, x, d : Sound(t, x, d)' <=> Sound(t, x, d)
           /\ \A r, x : Trusty(r, x)' <=> Trusty(r, x)
<1>1. Listed' = Listed /\ \A i : Counted(i)' = Counted(i)
  BY DEF Steady, Listed, Counted
<1>2. Fingerprint' = Fingerprint
  BY <1>1 DEF Steady, Fingerprint
<1>3. \A x : Derive(x)' = Derive(x)
  BY DEF Steady, Derive, Masters, RoleIs, Listed
<1>4. \A t : (Seen(t)' <=> Seen(t)) /\ (Current(t)' <=> Current(t))
  BY <1>1, <1>2 DEF Steady, Seen, Live, Stale, Current
<1>5. \A t, x, d : Sound(t, x, d)' <=> Sound(t, x, d)
  BY <1>2, <1>3 DEF Sound, Live
<1> QED
  BY <1>2, <1>3, <1>4, <1>5 DEF Trusty

\* The invariants of the cache, one process at a time.
ReadWhole(w) == \A n \in DOMAIN work[w].read : \A x \in DOMAIN work[w].read[n] :
                  Complete(work[w].read[n][x].stamp)
Kept(w) == /\ Shape(w)' /\ ReadWhole(w)'
           /\ ~returned => Trust(w)'
           /\ w \in Servers /\ ~work'[w].moved => Fresh(w)'
\* What is in the cache.
Stock == /\ cache \in Rows
         /\ \A x \in DOMAIN cache : Complete(cache[x].stamp)
         /\ ~returned => \A x \in DOMAIN cache : Trusty(cache[x], x)

LEMMA WorkerAfter ==
    ASSUME DictTypes, CacheTypes, ShapeInv, TrustInv, FreshInv,
           NEW w \in Workers, NEW k, Turns(w, k), Steady, starts' \in 0 .. MaxStarts,
           \A c \in Commands \ {w} : cmd'[c] = cmd[c],
           Kept(w), Stock'
    PROVE  CacheTypes' /\ ShapeInv' /\ TrustInv' /\ FreshInv'
<1>1. /\ work' \in [Workers -> Work] /\ returned' = returned
      /\ \A v \in Workers \ {w} : work'[v] = work[v]
  BY DEF Turns, Steady
<1>2. CacheTypes'
  BY <1>1 DEF CacheTypes, Stock
<1>3. ASSUME NEW v \in Workers, v # w
      PROVE  Kept(v)
  <2>1. /\ Shape(v) /\ ReadWhole(v) /\ (~returned => Trust(v))
        /\ (v \in Servers /\ ~work[v].moved => Fresh(v))
    BY DEF ShapeInv, TrustInv, FreshInv, ReadWhole
  <2>2. work'[v] = work[v] /\ (v \in Commands => cmd'[v] = cmd[v])
    BY <1>1, <1>3
  <2>3. Shape(v)' /\ ReadWhole(v)'
    BY <2>1, <2>2 DEF Shape, ReadWhole, In, At, Complete
  <2>4. Trust(v) => Trust(v)'
    BY <2>2, SteadyKeeps DEF Trust
  <2>5. Fresh(v) => Fresh(v)'
    BY <1>1, <2>2, SteadyKeeps DEF Fresh, In
  <2> QED
    BY <2>1, <2>2, <2>3, <2>4, <2>5 DEF Kept
<1>4. \A v \in Workers : Kept(v)
  BY <1>3
<1>5. ShapeInv'
  BY <1>4 DEF ShapeInv, Kept, ReadWhole, Stock
<1>6. TrustInv'
  <2>1. ~returned => was' \cap Parts(Fingerprint)' = {}
    BY SteadyKeeps DEF TrustInv, Steady
  <2> QED
    BY <1>1, <1>4, <2>1 DEF TrustInv, Kept, Stock
<1>7. FreshInv'
  BY <1>4 DEF FreshInv, Kept, Workers
<1> QED
  BY <1>2, <1>5, <1>6, <1>7

\* A step that leaves the cache alone.
LEMMA StockKept ==
    ASSUME CacheTypes, ShapeInv, TrustInv, Steady, cache' = cache
    PROVE  Stock'
BY SteadyKeeps DEF Stock, CacheTypes, ShapeInv, TrustInv, Steady, Complete

\* A process that has taken no fingerprint, read nothing and built nothing.
Blank(w) == /\ ~work'[w].listed /\ work'[w].read = << >> /\ work'[w].built = << >>
            /\ work'[w].pc \in {"rest", "load", "print"}
            /\ w \in Commands /\ ~In(w, "rest")' => At(w, "deriving")'
LEMMA BlankKept == ASSUME NEW w \in Workers, Blank(w) PROVE Kept(w)
<1>1. Shape(w)'
  BY DEF Blank, Shape, In
<1>2. ReadWhole(w)' /\ Trust(w)' /\ Fresh(w)'
  BY DEF Blank, ReadWhole, Trust, Fresh, In
<1> QED
  BY <1>1, <1>2 DEF Kept

\* The dictionaries and the commands as far as a step with the cache concerns them.
Aside == Untouched \/ \E c \in Commands : Stops(c)

\* What was read of the cache stays what it was.
LEMMA ReadKept ==
    ASSUME CacheInv, NEW w \in Workers, work'[w].read = work[w].read, Steady
    PROVE  /\ ReadWhole(w)'
           /\ ~returned => \A n \in DOMAIN work'[w].read : \A x \in DOMAIN work'[w].read[n] :
                             Trusty(work[w].read[n][x], x)'
<1>1. ReadWhole(w) /\ (~returned => Trust(w))
  BY DEF CacheInv, ShapeInv, TrustInv, ReadWhole
<1> QED
  BY <1>1, SteadyKeeps DEF ReadWhole, Trust, Complete

LEMMA ServerOrCommand == \A s \in Servers : s \notin Commands /\ s \in Workers
BY CacheAssumption DEF Workers

\* A process is through with the cache: a command exits, a server has what it built.
Leaves(w, built) ==
    /\ Only(w, IF w \in Commands THEN AtRest
               ELSE [AtRest EXCEPT !.pc = "ready", !.built = built, !.moved = work[w].moved])
    /\ Rest(w) /\ UNCHANGED <<dicts, runs, overlap>>
    /\ deaths' \in {deaths, deaths + 1} /\ deaths' <= MaxDeaths
LEMMA ReadyLeaves ==
    ASSUME DictTypes, NEW w \in Workers, NEW built, Ready(w, built)
    PROVE  Leaves(w, built)
<1>1. deaths <= MaxDeaths
  BY DictAssumptions DEF DictTypes
<1> QED
  BY <1>1 DEF Ready, Leaves, Rest, Still, dictVars

LEMMA LeavesKeeps ==
    ASSUME DictTypes, CacheInv, NEW w \in Workers, ~In(w, "rest"),
           NEW built \in Table(Sections, Payload), Leaves(w, built), Steady, Stock', starts' = starts,
           w \in Servers /\ ~work[w].moved /\ ~returned =>
             built = [x \in Range(SECTIONS) |-> Derive(x)]
    PROVE  CacheInv' /\ Aside
<1>0. starts' \in 0 .. MaxStarts
  BY DEF CacheInv, CacheTypes
<1>1. CASE w \in Commands
  <2>1. Turns(w, AtRest)
    BY <1>1, AtRestTyped, OnlyTurns DEF Leaves, CacheInv
  <2>2. Blank(w)
    BY <2>1 DEF Blank, Turns, AtRest, In
  <2>3. Becomes(w, Idle)
    BY <1>1, EndsIdle DEF Leaves, Rest
  <2>4. At(w, "deriving")
    BY <1>1 DEF CacheInv, ShapeInv, Shape
  <2>5. Stops(w)
    BY <2>3, <2>4 DEF Stops, Becomes, Leaves, At
  <2>6. \A c \in Commands \ {w} : cmd'[c] = cmd[c]
    BY <2>3 DEF Becomes, Others
  <2> QED
    BY <1>0, <1>1, <2>1, <2>2, <2>5, <2>6, BlankKept, WorkerAfter DEF Aside, CacheInv
<1>2. CASE w \notin Commands
  <2> DEFINE k == [AtRest EXCEPT !.pc = "ready", !.built = built, !.moved = work[w].moved]
  <2>1. k \in Work /\ Only(w, k) /\ cmd' = cmd
    BY <1>2, AtRestTyped, WorkAt DEF Work, Leaves, Rest, CacheInv
  <2>2. Turns(w, k)
    BY <2>1, OnlyTurns DEF CacheInv
  <2>3. /\ work'[w].pc = "ready" /\ ~work'[w].listed /\ work'[w].read = << >>
        /\ work'[w].built = built /\ work'[w].moved = work[w].moved
    BY <2>2 DEF Turns, AtRest
  <2>4. Shape(w)' /\ ReadWhole(w)' /\ Trust(w)'
    BY <1>2, <2>3 DEF Shape, ReadWhole, Trust, In
  <2>5. w \in Servers /\ ~work'[w].moved => Fresh(w)'
    BY <2>3, SteadyKeeps DEF Fresh, In, Steady
  <2>6. Kept(w)
    BY <2>4, <2>5 DEF Kept
  <2> QED
    BY <1>0, <2>1, <2>2, <2>6, WorkerAfter DEF Aside, Untouched, Leaves, CacheInv
<1> QED
  BY <1>1, <1>2

\* A listing taken now says nothing but what is true.
LEMMA ListKept ==
    ASSUME DictTypes, CacheInv, NEW w \in Workers, NEW p \in {"load", "print"}, List(w, p),
           work[w].pc \in {"rest", "load", "print"}, Steady, w \in Commands => At(w, "deriving")'
    PROVE  Turns(w, work'[w]) /\ Kept(w)
<1>1. PICK t \in Stamp : /\ t = [rows |-> Listed, counts |-> << >>]
                         /\ DOMAIN t.counts = {} /\ t.rows = Listed
  <2>1. [rows |-> Listed, counts |-> << >>] \in Stamp
    BY FingerprintTyped, StampTyped, NoRows DEF Stamp
  <2> QED
    BY <2>1, NoRows
<1> DEFINE k == [work[w] EXCEPT !.pc = p, !.listed = TRUE, !.print = t]
<1>2. k \in Work
  BY <1>1, WorkAt DEF Work, CacheInv
<1>3. Turns(w, k)
  BY <1>1, <1>2, OnlyTurns DEF CacheInv, List
<1>4. Live(t)
  <2>1. ASSUME NEW q \in Parts(t) PROVE q \in Parts(Fingerprint)
    BY <1>1, PartsAre, InParts, FingerprintTyped
  <2> QED
    BY <2>1 DEF Live
<1>5. /\ work'[w].pc = p /\ work'[w].listed /\ work'[w].print = t
      /\ work'[w].read = work[w].read /\ work'[w].built = work[w].built
      /\ work'[w].moved = work[w].moved
  BY <1>2, <1>3, WorkAt DEF Turns, Work, CacheInv
<1>6. Shape(w)'
  <2>1. work[w].built = << >>
    BY DEF CacheInv, ShapeInv, Shape
  <2> QED
    BY <1>1, <1>5, <2>1 DEF Shape, In
<1>7. ReadWhole(w)' /\ (~returned => Trust(w)')
  <2>1. Seen(t)'
    BY <1>4, SteadyKeeps DEF Seen
  <2> QED
    BY <1>5, <2>1, ReadKept DEF Trust
<1>8. Fresh(w)'
  <2>1. Current(t)
    BY <1>1 DEF Current
  <2> QED
    BY <1>5, <2>1, SteadyKeeps DEF Fresh, In
<1> QED
  BY <1>3, <1>6, <1>7, <1>8 DEF Kept, Turns

LEMMA StartKeeps ==
    ASSUME DictTypes, CacheInv, NEW s \in Servers, Start(s)
    PROVE  CacheInv' /\ Aside
<1>1. s \in Workers /\ s \notin Commands
  BY ServerOrCommand
<1> DEFINE k == [AtRest EXCEPT !.pc = "load"]
<1>2. k \in Work /\ k.pc = "load" /\ ~k.listed /\ k.read = << >> /\ k.built = << >>
  BY AtRestTyped DEF Work, AtRest
<1>a. Only(s, k)
  BY DEF Start
<1> HIDE DEF k
<1>3. Turns(s, k)
  BY <1>1, <1>2, <1>a, OnlyTurns DEF CacheInv
<1>4. Blank(s)
  BY <1>1, <1>2, <1>3 DEF Blank, Turns
<1>5. Steady /\ cache' = cache /\ cmd' = cmd /\ starts' \in 0 .. MaxStarts
  BY CacheAssumption DEF Start, Still, dictVars, Steady, CacheInv, CacheTypes
<1>6. Untouched
  BY DictAssumptions DEF Start, Still, dictVars, Untouched, DictTypes
<1>7. Stock'
  BY <1>5, StockKept DEF CacheInv
<1> QED
  BY <1>1, <1>3, <1>4, <1>5, <1>6, <1>7, BlankKept, WorkerAfter DEF Aside, CacheInv

\* A step of a server, or of a command that stays at the cache.
LEMMA StillAside ==
    ASSUME DictTypes, Still
    PROVE  Untouched /\ cmd' = cmd
BY DictAssumptions DEF Still, dictVars, Untouched, DictTypes

LEMMA PrintListKeeps ==
    ASSUME DictTypes, CacheInv, NEW s \in Servers, PrintList(s)
    PROVE  CacheInv' /\ Aside
<1>1. s \in Workers /\ s \notin Commands
  BY ServerOrCommand
<1>2. /\ work[s].pc \in {"load", "print"} /\ List(s, work[s].pc)
      /\ Steady /\ cache' = cache /\ starts' \in 0 .. MaxStarts
  BY DEF PrintList, Quiet, Still, dictVars, Steady, CacheInv, CacheTypes
<1>3. Turns(s, work'[s]) /\ Kept(s)
  BY <1>1, <1>2, ListKept
<1>4. Untouched /\ cmd' = cmd
  BY StillAside DEF PrintList
<1>5. Stock'
  BY <1>2, StockKept DEF CacheInv
<1> QED
  BY <1>1, <1>2, <1>3, <1>4, <1>5, WorkerAfter DEF Aside, CacheInv

LEMMA RebuildKeeps ==
    ASSUME DictTypes, CacheInv, NEW c \in Commands, Rebuild(c)
    PROVE  CacheInv' /\ Aside
<1>1. c \in Workers /\ cmd[c] \in Command /\ At(c, "refresh")
  BY CommandAt DEF Workers, Rebuild
<1>2. In(c, "rest")
  BY <1>1 DEF CacheInv, ShapeInv, Shape, At
<1>3. /\ List(c, "print") /\ Steady /\ cache' = cache /\ starts' \in 0 .. MaxStarts
      /\ UNCHANGED <<dicts, runs, deaths, overlap>>
  BY DEF Rebuild, Quiet, Steady, CacheInv, CacheTypes
<1>4. Becomes(c, [cmd[c] EXCEPT !.pc = "deriving"])
  <2>1. [cmd[c] EXCEPT !.pc = "deriving"] \in Command
    BY <1>1 DEF Command
  <2>2. cmd' = [cmd EXCEPT ![c] = [cmd[c] EXCEPT !.pc = "deriving"]]
    BY DEF Rebuild, Goto, DictTypes
  <2> QED
    BY <2>1, <2>2, CommandBecomes
<1>5. At(c, "deriving")'
  BY <1>1, <1>4 DEF Becomes, Command, At
<1>6. Turns(c, work'[c]) /\ Kept(c)
  BY <1>1, <1>2, <1>3, <1>5, ListKept DEF In
<1>7. Stops(c)
  <2>1. deaths' \in {deaths, deaths + 1} /\ deaths' <= MaxDeaths
    BY <1>3, DictAssumptions DEF DictTypes
  <2> QED
    BY <1>1, <1>3, <1>4, <2>1 DEF Stops, Becomes, At
<1>8. Stock'
  BY <1>3, StockKept DEF CacheInv
<1> QED
  BY <1>1, <1>3, <1>4, <1>6, <1>7, <1>8, WorkerAfter DEF Aside, CacheInv, Becomes, Others

LEMMA KilledKeeps ==
    ASSUME DictTypes, CacheInv, NEW c \in Commands, Killed(c)
    PROVE  CacheInv' /\ Aside
<1>1. c \in Workers /\ In(c, "rest") /\ ~At(c, "idle") /\ deaths' = deaths + 1 /\ deaths < MaxDeaths
  BY DEF Workers, Killed, Die
<1>2. /\ UNCHANGED cacheVars /\ UNCHANGED <<dicts, runs, overlap>>
  BY DEF Killed, Die
<1>3. Becomes(c, Idle)
  BY EndsIdle DEF Killed, Die
<1>4. Stops(c)
  <2>1. deaths' \in {deaths, deaths + 1} /\ deaths' <= MaxDeaths
    BY <1>1, DictAssumptions DEF DictTypes
  <2> QED
    BY <1>1, <1>2, <1>3, <2>1 DEF Stops, Becomes
<1>5. Steady /\ cache' = cache /\ starts' \in 0 .. MaxStarts
  BY <1>2 DEF cacheVars, Steady, CacheInv, CacheTypes
<1>6. Turns(c, work[c])
  BY <1>2 DEF cacheVars, Turns, CacheInv, CacheTypes
<1>7. Kept(c)
  <2>1. Shape(c)'
    BY <1>1, <1>2 DEF Shape, In, At, cacheVars, CacheInv, ShapeInv, Complete
  <2>2. ReadWhole(c)' /\ (~returned => Trust(c)')
    <3>1. work' = work /\ (~returned => Trust(c))
      BY <1>1, <1>2 DEF cacheVars, CacheInv, TrustInv
    <3> QED
      BY <1>1, <1>5, <3>1, ReadKept, SteadyKeeps DEF Trust
  <2> QED
    BY <2>1, <2>2, ServerOrCommand DEF Kept
<1>8. Stock'
  BY <1>5, StockKept DEF CacheInv
<1> QED
  BY <1>1, <1>3, <1>4, <1>5, <1>6, <1>7, <1>8, WorkerAfter DEF Aside, CacheInv, Becomes, Others

LEMMA PrintCountKeeps ==
    ASSUME DictTypes, CacheInv, NEW w \in Workers, PrintCount(w)
    PROVE  CacheInv' /\ Aside
<1>1. /\ work[w].pc \in {"load", "print"} /\ work[w].listed
      /\ Steady /\ cache' = cache /\ starts' \in 0 .. MaxStarts
  BY DEF PrintCount, Quiet, Still, dictVars, Steady, CacheInv, CacheTypes
<1>2. Untouched /\ cmd' = cmd
  BY StillAside DEF PrintCount
<1> DEFINE t == work[w].print
<1>3. PICK i \in Uncounted(w) :
         Only(w, [work[w] EXCEPT !.print.counts = Put(work[w].print.counts, i, Counted(i))])
  BY DEF PrintCount, Foremost
<1>4. /\ t \in Stamp /\ i \in DOMAIN t.rows /\ i \notin DOMAIN t.counts /\ i \in Ids
      /\ t.counts \in Table(Ids, Pair)
  BY <1>3, WorkAt, StampTyped DEF Uncounted, CacheInv
<1>5. PICK u \in Stamp : /\ u = [t EXCEPT !.counts = Put(t.counts, i, Counted(i))]
                         /\ u.rows = t.rows /\ DOMAIN u.counts = DOMAIN t.counts \cup {i}
                         /\ u.counts[i] = Counted(i)
                         /\ \A j \in DOMAIN t.counts : u.counts[j] = t.counts[j]
  <2> DEFINE p == Put(t.counts, i, Counted(i))
  <2>1. /\ p \in Table(Ids, Pair) /\ DOMAIN p = DOMAIN t.counts \cup {i}
        /\ p[i] = Counted(i) /\ \A j \in DOMAIN t.counts : p[j] = t.counts[j]
    <3>1. Counted(i) \in Pair
      BY CountedTyped
    <3> HIDE DEF t, p
    <3>2. Put(t.counts, i, Counted(i)) \in Table(Ids, Pair)
      BY <1>4, <3>1, PutTyped
    <3>3. /\ DOMAIN Put(t.counts, i, Counted(i)) = DOMAIN t.counts \cup {i}
          /\ Put(t.counts, i, Counted(i))[i] = Counted(i)
          /\ \A j \in DOMAIN t.counts : Put(t.counts, i, Counted(i))[j] = t.counts[j]
      BY <1>4 DEF Put
    <3> QED
      BY <3>2, <3>3 DEF p
  <2> HIDE DEF p
  <2>2. /\ [t EXCEPT !.counts = p] \in Stamp /\ [t EXCEPT !.counts = p].rows = t.rows
        /\ [t EXCEPT !.counts = p].counts = p
    BY <1>4, <2>1 DEF Stamp
  <2> QED
    BY <2>1, <2>2 DEF p
<1> DEFINE k == [work[w] EXCEPT !.print = u]
<1>6. k \in Work
  BY WorkAt DEF Work, CacheInv
<1>7. Only(w, k)
  BY <1>3, <1>5
<1> HIDE DEF k
<1>8. Turns(w, k)
  BY <1>6, <1>7, OnlyTurns DEF CacheInv
<1>9. /\ work'[w].pc = work[w].pc /\ work'[w].listed /\ work'[w].print = u
      /\ work'[w].read = work[w].read /\ work'[w].built = work[w].built
      /\ work'[w].moved = work[w].moved
  BY <1>1, <1>8, WorkAt DEF k, Turns, Work, CacheInv
<1>10. Shape(w) /\ (~returned => Trust(w)) /\ (w \in Servers /\ ~work[w].moved => Fresh(w))
  BY DEF CacheInv, ShapeInv, TrustInv, FreshInv
<1> HIDE DEF t
<1>11. Shape(w)'
  <2>1. DOMAIN u.counts \subseteq DOMAIN u.rows
    BY <1>1, <1>4, <1>5, <1>10 DEF Shape, t
  <2>2. w \in Commands /\ ~In(w, "rest") => At(w, "deriving")'
    BY <1>2, <1>10 DEF Shape, At
  <2> QED
    BY <1>1, <1>9, <1>10, <2>1, <2>2 DEF Shape, In
<1>12. Seen(t) => Seen(u)
  <2>1. /\ Parts(t) \subseteq Parts(u)
        /\ Parts(u) \subseteq Parts(t) \cup {<<i, "count", Counted(i)>>}
    <3>1. /\ u.rows = t.rows /\ DOMAIN u.counts = DOMAIN t.counts \cup {i}
          /\ u.counts[i] = Counted(i) /\ \A j \in DOMAIN t.counts : u.counts[j] = t.counts[j]
          /\ i \notin DOMAIN t.counts
      BY <1>4, <1>5
    <3> HIDE <1>4, <1>5
    <3> QED
      BY <3>1, PartsMore
  <2>2. CASE Stale(t)
    BY <2>1, <2>2 DEF Seen, Stale
  <2>3. CASE Live(t)
    <3>1. i \in DOMAIN dicts
      BY <1>4, <2>3, InParts, FingerprintTyped, ZenonT(60) DEF Live
    <3>2. <<i, "count", Counted(i)>> \in Parts(Fingerprint)
      BY <3>1, InParts, FingerprintTyped
    <3> QED
      BY <2>1, <2>3, <3>2 DEF Seen, Live
  <2> QED
    BY <2>2, <2>3 DEF Seen
<1>13. ReadWhole(w)' /\ (~returned => Trust(w)')
  BY <1>1, <1>9, <1>10, <1>12, ReadKept, SteadyKeeps DEF Trust, t
<1>14. w \in Servers /\ ~work'[w].moved => Fresh(w)'
  <2>1. Current(t) => Current(u)
    BY <1>5 DEF Current
  <2> QED
    BY <1>1, <1>9, <1>10, <2>1, SteadyKeeps DEF Fresh, In, t
<1>15. Stock'
  BY <1>1, StockKept DEF CacheInv
<1> QED
  BY <1>1, <1>2, <1>8, <1>11, <1>13, <1>14, <1>15, WorkerAfter DEF Aside, CacheInv, Kept

LEMMA LoadRowsKeeps ==
    ASSUME DictTypes, CacheInv, NEW s \in Servers, LoadRows(s)
    PROVE  CacheInv' /\ Aside
<1>1. s \in Workers /\ s \notin Commands
  BY ServerOrCommand
<1>2. /\ In(s, "load") /\ Only(s, [work[s] EXCEPT !.read = <<cache>>])
      /\ Steady /\ cache' = cache /\ starts' \in 0 .. MaxStarts
  BY DEF LoadRows, Quiet, Still, dictVars, Steady, CacheInv, CacheTypes
<1> DEFINE k == [work[s] EXCEPT !.read = <<cache>>]
<1>3. k \in Work
  BY <1>1, WorkAt DEF Work, CacheInv, CacheTypes
<1>4. Turns(s, k)
  BY <1>1, <1>2, <1>3, OnlyTurns DEF CacheInv
<1>5. /\ work'[s].pc = "load" /\ work'[s].listed = work[s].listed
      /\ work'[s].print = work[s].print /\ work'[s].read = <<cache>>
      /\ work'[s].built = work[s].built /\ work'[s].moved = work[s].moved
  BY <1>1, <1>2, <1>4, WorkAt DEF Turns, Work, CacheInv, In
<1>6. Shape(s) /\ (~returned => Trust(s)) /\ (~work[s].moved => Fresh(s))
  BY <1>1 DEF CacheInv, ShapeInv, TrustInv, FreshInv
<1>7. Shape(s)'
  BY <1>1, <1>2, <1>5, <1>6 DEF Shape, In
<1>8. DOMAIN <<cache>> = {1} /\ <<cache>>[1] = cache
  OBVIOUS
<1>9. ReadWhole(s)'
  BY <1>5, <1>8 DEF ReadWhole, CacheInv, ShapeInv, Complete
<1>10. ~returned => Trust(s)'
  <2>1. ~returned => \A x \in DOMAIN cache : Trusty(cache[x], x)'
    BY SteadyKeeps, <1>2 DEF CacheInv, TrustInv
  <2> QED
    BY <1>2, <1>5, <1>6, <1>8, <2>1, SteadyKeeps DEF Trust
<1>11. ~work'[s].moved => Fresh(s)'
  BY <1>2, <1>5, <1>6, SteadyKeeps DEF Fresh, In
<1>12. Untouched /\ cmd' = cmd
  BY StillAside DEF LoadRows
<1>13. Stock'
  BY <1>2, StockKept DEF CacheInv
<1> QED
  BY <1>1, <1>2, <1>4, <1>7, <1>9, <1>10, <1>11, <1>12, <1>13, WorkerAfter
     DEF Aside, CacheInv, Kept

\* A fingerprint whose every part is still so.
LEMMA CurrentLive ==
    ASSUME DictTypes, NEW t, Current(t), DOMAIN t.counts \subseteq DOMAIN t.rows
    PROVE  Live(t)
<1>1. /\ t.rows = Fingerprint.rows
      /\ \A i \in DOMAIN t.counts :
           i \in DOMAIN Fingerprint.counts /\ t.counts[i] = Fingerprint.counts[i]
  BY FingerprintTyped DEF Current
<1>2. ASSUME NEW q \in Parts(t) PROVE q \in Parts(Fingerprint)
  <2>1. CASE \E j \in DOMAIN t.rows : q = <<j, "row", t.rows[j]>>
    BY <1>1, <2>1, InParts
  <2>2. CASE \E j \in DOMAIN t.counts : q = <<j, "count", t.counts[j]>>
    BY <1>1, <2>2, InParts
  <2>3. CASE \E j \in Ids \ DOMAIN t.rows : q = <<j, "absent">>
    BY <1>1, <2>3, InParts
  <2> QED
    BY <2>1, <2>2, <2>3, PartsAre
<1> QED
  BY <1>2 DEF Live

\* Every section is there and carries the fingerprint.
LEMMA AgreesAll ==
    ASSUME NEW r, NEW t, Agrees(r, t)
    PROVE  \A x \in Sections : x \in DOMAIN r /\ r[x].stamp = t
BY SectionsAre DEF Agrees

LEMMA PrintedWhole ==
    ASSUME CacheInv, NEW w \in Workers, Printed(w)
    PROVE  work[w].listed /\ Complete(work[w].print)
BY DEF CacheInv, ShapeInv, Shape, Printed, Uncounted, Complete

LEMMA LoadedKeeps ==
    ASSUME DictTypes, CacheInv, NEW s \in Servers, Loaded(s)
    PROVE  CacheInv' /\ Aside
<1>1. s \in Workers /\ s \notin Commands
  BY ServerOrCommand
<1>2. work[s].listed /\ Complete(work[s].print) /\ In(s, "load")
  BY <1>1, PrintedWhole DEF Loaded
<1>3. PICK r \in Rows : work[s].read = <<r>>
  <2>1. work[s].read \in {<< >>} \cup {<<r>> : r \in Rows} /\ work[s].read # << >>
    BY <1>1, WorkAt DEF Loaded, Work, CacheInv
  <2> QED
    BY <2>1
<1>4. /\ IF Agrees(r, work[s].print)
         THEN Ready(s, [x \in DOMAIN r |-> r[x].payload])
         ELSE Only(s, [AtRest EXCEPT !.pc = "print", !.moved = work[s].moved]) /\ Still
      /\ cache' = cache /\ Quiet
  BY <1>3 DEF Loaded
<1>5. starts' = starts /\ starts' \in 0 .. MaxStarts
  BY <1>4 DEF Quiet, CacheInv, CacheTypes
<1>6. CASE Agrees(r, work[s].print)
  <2> DEFINE b == [x \in DOMAIN r |-> r[x].payload]
  <2>1. Ready(s, b) /\ Steady
    BY <1>1, <1>4, <1>6 DEF Ready, Still, Quiet, Steady, dictVars
  <2>2. DOMAIN r \subseteq Sections /\ \A x \in DOMAIN r : r[x].payload \in Payload
    BY RowAt, TableElim DEF Rows
  <2>3. b \in Table(Sections, Payload)
    BY <2>2, TableIntro
  <2>4. DOMAIN r = Sections /\ \A x \in Sections : r[x].stamp = work[s].print
    BY <1>6, <2>2, AgreesAll
  <2>5. ASSUME ~work[s].moved, ~returned
        PROVE  b = [x \in Range(SECTIONS) |-> Derive(x)]
    <3>1. Live(work[s].print)
      BY <1>1, <1>2, <2>5, CurrentLive DEF CacheInv, FreshInv, Fresh, Complete
    <3>2. \A x \in DOMAIN r : Trusty(r[x], x)
      <4>1. Trust(s) /\ DOMAIN <<r>> = {1} /\ <<r>>[1] = r
        BY <1>1, <2>5 DEF CacheInv, TrustInv
      <4> QED
        BY <1>3, <4>1 DEF Trust
    <3>3. \A x \in DOMAIN r : r[x].payload = Derive(x)
      BY <2>4, <3>1, <3>2 DEF Trusty, Sound
    <3> QED
      BY <2>4, <3>3, SectionsAre
  <2> HIDE DEF b
  <2>6. Leaves(s, b) /\ ~In(s, "rest")
    BY <1>1, <1>2, <2>1, ReadyLeaves DEF In
  <2>7. Stock'
    BY <1>4, <2>1, StockKept DEF CacheInv
  <2> QED
    BY <1>1, <1>5, <2>1, <2>3, <2>5, <2>6, <2>7, LeavesKeeps
<1>7. CASE ~Agrees(r, work[s].print)
  <2> DEFINE k == [AtRest EXCEPT !.pc = "print", !.moved = work[s].moved]
  <2>1. k \in Work /\ k.pc = "print" /\ ~k.listed /\ k.read = << >> /\ k.built = << >>
    BY <1>1, AtRestTyped, WorkAt DEF Work, AtRest, CacheInv
  <2>2. Only(s, k) /\ Still /\ Steady
    BY <1>4, <1>7 DEF Still, dictVars, Quiet, Steady
  <2> HIDE DEF k
  <2>3. Turns(s, k)
    BY <1>1, <2>1, <2>2, OnlyTurns DEF CacheInv
  <2>4. Blank(s)
    BY <1>1, <2>1, <2>3 DEF Blank, Turns
  <2>5. Untouched /\ cmd' = cmd
    BY <2>2, StillAside
  <2>6. Stock'
    BY <1>4, <2>2, StockKept DEF CacheInv
  <2> QED
    BY <1>1, <1>5, <2>2, <2>3, <2>4, <2>5, <2>6, BlankKept, WorkerAfter DEF Aside, CacheInv
<1> QED
  BY <1>6, <1>7

LEMMA StoredKeeps ==
    ASSUME DictTypes, CacheInv, NEW w \in Workers, Stored(w)
    PROVE  CacheInv' /\ Aside
<1>1. work[w].listed /\ Complete(work[w].print) /\ In(w, "print")
  BY PrintedWhole DEF Stored
<1>2. cache' = cache /\ Quiet /\ starts' = starts /\ starts' \in 0 .. MaxStarts
  BY DEF Stored, Quiet, CacheInv, CacheTypes
<1>3. CASE w \in Commands /\ Agrees(cache, work[w].print)
  <2>1. Ready(w, << >>) /\ Steady
    BY <1>2, <1>3 DEF Stored, Ready, Still, Quiet, Steady, dictVars
  <2>2. Leaves(w, << >>) /\ ~In(w, "rest") /\ w \notin Servers
    BY <1>1, <1>3, <2>1, ReadyLeaves, ServerOrCommand DEF In
  <2>3. Stock'
    BY <1>2, <2>1, StockKept DEF CacheInv
  <2> QED
    BY <1>2, <2>1, <2>2, <2>3, NoRows, LeavesKeeps
<1>4. CASE ~(w \in Commands /\ Agrees(cache, work[w].print))
  <2> DEFINE k == [work[w] EXCEPT !.pc = "build", !.todo = SECTIONS]
  <2>1. k \in Work
    BY WorkAt DEF Work, CacheInv
  <2>2. Only(w, k) /\ Still /\ Steady
    BY <1>2, <1>4 DEF Stored, Still, dictVars, Quiet, Steady
  <2>3. Turns(w, k)
    BY <2>1, <2>2, OnlyTurns DEF CacheInv
  <2>4. /\ work'[w].pc = "build" /\ work'[w].listed = work[w].listed
        /\ work'[w].print = work[w].print /\ work'[w].read = work[w].read
        /\ work'[w].built = work[w].built /\ work'[w].moved = work[w].moved
        /\ work'[w].todo = SECTIONS
    BY <2>3, WorkAt DEF Turns, Work, CacheInv
  <2>5. /\ Shape(w) /\ (~returned => Trust(w)) /\ (w \in Servers /\ ~work[w].moved => Fresh(w))
        /\ work[w].built = << >> /\ DOMAIN << >> = {}
    BY <1>1, NoRows DEF CacheInv, ShapeInv, TrustInv, FreshInv, Shape, In
  <2>6. Untouched /\ cmd' = cmd
    BY <2>2, StillAside
  <2>7. Shape(w)'
    BY <1>1, <2>4, <2>5, <2>6 DEF Shape, In, At, Complete
  <2>8. ReadWhole(w)' /\ (~returned => Trust(w)')
    BY <2>2, <2>4, <2>5, ReadKept, SteadyKeeps DEF Trust
  <2>9. w \in Servers /\ ~work'[w].moved => Fresh(w)'
    BY <2>2, <2>4, <2>5, SteadyKeeps DEF Fresh, In
  <2>10. Stock'
    BY <1>2, <2>2, StockKept DEF CacheInv
  <2> QED
    BY <1>2, <2>2, <2>3, <2>6, <2>7, <2>8, <2>9, <2>10, WorkerAfter DEF Aside, CacheInv, Kept
<1> QED
  BY <1>3, <1>4

\* A build goes from section to section.
LEMMA BuildKeeps ==
    ASSUME DictTypes, CacheInv, NEW w \in Workers, Build(w)
    PROVE  CacheInv' /\ Aside
<1>1. /\ In(w, "build") /\ Shape(w) /\ (~returned => Trust(w))
      /\ (w \in Servers /\ ~work[w].moved => Fresh(w))
  BY DEF Build, CacheInv, ShapeInv, TrustInv, FreshInv
<1>2. /\ work[w].listed /\ Complete(work[w].print)
      /\ \/ work[w].todo = SECTIONS /\ work[w].built = << >>
         \/ work[w].todo = <<"reader_ranks">> /\ DOMAIN work[w].built = {"master"}
  BY <1>1 DEF Shape, In
<1>a. Still /\ cache' = cache /\ Quiet
  BY DEF Build
<1>8. Steady /\ starts' \in 0 .. MaxStarts
  BY <1>a DEF Still, dictVars, Quiet, Steady, CacheInv, CacheTypes
<1>3. PICK x \in Sections, b \in Table(Sections, Payload) :
        /\ x = Head(work[w].todo) /\ b = Put(work[w].built, x, Derive(x))
        /\ DOMAIN b = DOMAIN work[w].built \cup {x} /\ b[x] = Derive(x)
        /\ \A y \in DOMAIN work[w].built : y # x => b[y] = work[w].built[y]
  <2>1. PICK x \in Sections : x = Head(work[w].todo)
    BY <1>2, SectionsAre DEF Sections
  <2>2. work[w].built \in Table(Sections, Payload) /\ Derive(x) \in Payload
    BY WorkAt, DeriveTyped DEF CacheInv
  <2>3. Put(work[w].built, x, Derive(x)) \in Table(Sections, Payload)
    BY <2>2, PutTyped
  <2>4. /\ DOMAIN Put(work[w].built, x, Derive(x)) = DOMAIN work[w].built \cup {x}
        /\ Put(work[w].built, x, Derive(x))[x] = Derive(x)
        /\ \A y \in DOMAIN work[w].built :
             y # x => Put(work[w].built, x, Derive(x))[y] = work[w].built[y]
    BY DEF Put
  <2> QED
    BY <2>1, <2>3, <2>4
<1>b. PICK todo, p : /\ Only(w, [work[w] EXCEPT !.built = b, !.todo = todo, !.pc = p])
                     /\ todo = IF Len(work[w].todo) = 1 THEN SECTIONS ELSE Tail(work[w].todo)
                     /\ p = IF Len(work[w].todo) = 1 THEN "store" ELSE "build"
  <2>1. Only(w, [work[w] EXCEPT !.built = b,
                   !.todo = IF Len(work[w].todo) = 1 THEN SECTIONS ELSE Tail(work[w].todo),
                   !.pc = IF Len(work[w].todo) = 1 THEN "store" ELSE "build"])
    BY <1>3 DEF Build
  <2> QED
    BY <2>1, Zenon
<1>4. /\ todo \in {SECTIONS, <<"reader_ranks">>} /\ p \in {"build", "store"}
      /\ p = "build" => todo = <<"reader_ranks">> /\ DOMAIN b = {"master"}
      /\ p = "store" => DOMAIN b = Sections
  <2>1. CASE work[w].todo = SECTIONS /\ work[w].built = << >>
    <3>1. todo = <<"reader_ranks">> /\ p = "build" /\ x = "master"
      BY <1>3, <1>b, <2>1, SectionsAre
    <3>2. DOMAIN b = {"master"}
      BY <1>3, <2>1, <3>1, NoRows
    <3> QED
      BY <3>1, <3>2
  <2>2. CASE work[w].todo = <<"reader_ranks">> /\ DOMAIN work[w].built = {"master"}
    <3>1. todo = SECTIONS /\ p = "store" /\ x = "reader_ranks"
      BY <1>3, <1>b, <2>2, SectionsAre
    <3>2. DOMAIN b = Sections
      BY <1>3, <2>2, <3>1 DEF Sections
    <3> QED
      BY <3>1, <3>2
  <2> QED
    BY <1>2, <2>1, <2>2
<1> DEFINE k == [work[w] EXCEPT !.built = b, !.todo = todo, !.pc = p]
<1>5. /\ p = "build" => todo = <<"reader_ranks">> /\ DOMAIN b = {"master"}
      /\ p = "store" => DOMAIN b = Sections
  BY <1>4
<1>6. p \in {"build", "store"}
  BY <1>4
<1>9. k \in Work
  BY <1>4, WorkAt DEF Work, CacheInv
<1>10. Turns(w, k)
  BY <1>b, <1>9, OnlyTurns DEF CacheInv
<1>11. /\ work'[w].pc = p /\ work'[w].listed = work[w].listed
       /\ work'[w].print = work[w].print /\ work'[w].read = work[w].read
       /\ work'[w].built = b /\ work'[w].todo = todo /\ work'[w].moved = work[w].moved
  BY <1>10, WorkAt DEF Turns, Work, CacheInv
<1>12. Untouched /\ cmd' = cmd
  BY <1>a, StillAside
<1>13. Shape(w)'
  <2>1. w \in Commands => At(w, "deriving")'
    BY <1>1, <1>12 DEF Shape, In, At
  <2>2. work'[w].listed /\ Complete(work'[w].print)
    BY <1>2, <1>11
  <2>3. CASE p = "build"
    BY <1>5, <1>11, <2>1, <2>2, <2>3 DEF Shape, In, Complete
  <2>4. CASE p = "store"
    BY <1>4, <1>11, <2>1, <2>2, <2>4 DEF Shape, In, Complete
  <2> QED
    BY <1>6, <2>3, <2>4
<1>14. ReadWhole(w)' /\ (~returned => Trust(w)')
  <2>1. ASSUME Trust(w)
        PROVE  \A y \in DOMAIN b : Sound(work[w].print, y, b[y])
    BY <1>1, <1>3, <2>1 DEF Trust, Sound, In
  <2> QED
    BY <1>1, <1>8, <1>11, <2>1, ReadKept, SteadyKeeps DEF Trust
<1>15. w \in Servers /\ ~work'[w].moved => Fresh(w)'
  <2>1. ASSUME Fresh(w)
        PROVE  \A y \in DOMAIN b : b[y] = Derive(y)
    BY <1>1, <1>3, <2>1 DEF Fresh, In
  <2> QED
    BY <1>1, <1>6, <1>8, <1>11, <2>1, SteadyKeeps DEF Fresh, In
<1>16. Stock'
  BY <1>a, <1>8, StockKept DEF CacheInv
<1> QED
  BY <1>8, <1>10, <1>12, <1>13, <1>14, <1>15, <1>16, WorkerAfter DEF Aside, CacheInv, Kept

\* A row that is written over or added leaves the others.
LEMMA PutRow ==
    ASSUME NEW f \in Rows, NEW x \in Sections, NEW r \in [stamp : Stamp, payload : Payload]
    PROVE  /\ Put(f, x, r) \in Rows /\ DOMAIN Put(f, x, r) = DOMAIN f \cup {x}
           /\ Put(f, x, r)[x] = r /\ \A y \in DOMAIN f : y # x => Put(f, x, r)[y] = f[y]
<1> DEFINE V == [stamp : Stamp, payload : Payload]
<1>1. f \in Table(Sections, V) /\ r \in V
  BY DEF Rows
<1> HIDE DEF V
<1>2. Put(f, x, r) \in Table(Sections, V)
  BY <1>1, PutTyped
<1>3. Put(f, x, r) \in Rows
  BY <1>2 DEF V, Rows
<1>4. /\ DOMAIN Put(f, x, r) = DOMAIN f \cup {x}
      /\ Put(f, x, r)[x] = r /\ \A y \in DOMAIN f : y # x => Put(f, x, r)[y] = f[y]
  BY DEF Put
<1> QED
  BY <1>3, <1>4

\* What a whole build of a server holds, if nothing moved under it.
LEMMA BuiltNow ==
    ASSUME CacheInv, NEW s \in Servers, In(s, "store"), ~work[s].moved
    PROVE  work[s].built = [x \in Range(SECTIONS) |-> Derive(x)]
<1>1. s \in Workers
  BY ServerOrCommand
<1>2. Fresh(s) /\ DOMAIN work[s].built = Sections
  BY <1>1 DEF CacheInv, FreshInv, ShapeInv, Shape, In
<1>3. \A x \in Sections : work[s].built[x] = Derive(x)
  BY <1>2 DEF Fresh, In
<1>4. work[s].built = [x \in DOMAIN work[s].built |-> work[s].built[x]]
  BY <1>1, WorkAt, TableElim DEF CacheInv
<1> QED
  BY <1>2, <1>3, <1>4, SectionsAre

LEMMA StoreKeeps ==
    ASSUME DictTypes, CacheInv, NEW w \in Workers, Store(w)
    PROVE  CacheInv' /\ Aside
<1>1. /\ In(w, "store") /\ Shape(w) /\ (~returned => Trust(w))
      /\ (w \in Servers /\ ~work[w].moved => Fresh(w))
  BY DEF Store, CacheInv, ShapeInv, TrustInv, FreshInv
<1>2. /\ work[w].listed /\ Complete(work[w].print) /\ DOMAIN work[w].built = Sections
      /\ work[w].todo \in {SECTIONS, <<"reader_ranks">>}
  BY <1>1 DEF Shape, In
<1>3. PICK x \in Sections : x = Head(work[w].todo)
  BY <1>2, SectionsAre DEF Sections
<1>4. PICK r \in [stamp : Stamp, payload : Payload] :
        /\ r = [stamp |-> work[w].print, payload |-> work[w].built[x]]
        /\ r.stamp = work[w].print /\ r.payload = work[w].built[x]
  <2>1. work[w].print \in Stamp /\ work[w].built[x] \in Payload
    BY <1>2, WorkAt, TableElim DEF CacheInv
  <2>2. LET r == [stamp |-> work[w].print, payload |-> work[w].built[x]] IN
        /\ r \in [stamp : Stamp, payload : Payload]
        /\ r.stamp = work[w].print /\ r.payload = work[w].built[x]
    BY <2>1
  <2> QED
    BY <2>2, Zenon
<1>5. /\ cache' = Put(cache, x, r) /\ Quiet
      /\ IF Len(work[w].todo) = 1 THEN Ready(w, work[w].built)
         ELSE Only(w, [work[w] EXCEPT !.todo = Tail(work[w].todo)]) /\ Still
  BY <1>3, <1>4 DEF Store
<1>6. Steady /\ starts' = starts /\ starts' \in 0 .. MaxStarts
  BY <1>5 DEF Ready, Still, dictVars, Quiet, Steady, CacheInv, CacheTypes
<1>7. /\ cache' \in Rows /\ DOMAIN cache' = DOMAIN cache \cup {x}
      /\ cache'[x] = r /\ \A y \in DOMAIN cache : y # x => cache'[y] = cache[y]
  <2>1. cache \in Rows
    BY DEF CacheInv, CacheTypes
  <2>2. /\ Put(cache, x, r) \in Rows /\ DOMAIN Put(cache, x, r) = DOMAIN cache \cup {x}
        /\ Put(cache, x, r)[x] = r
        /\ \A y \in DOMAIN cache : y # x => Put(cache, x, r)[y] = cache[y]
    BY <2>1, PutRow
  <2> QED
    BY <1>5, <2>2
<1>8. Stock'
  <2>1. \A y \in DOMAIN cache' : Complete(cache'[y].stamp)
    BY <1>2, <1>4, <1>7 DEF CacheInv, ShapeInv
  <2>2. ~returned => Trusty(r, x)
    BY <1>1, <1>2, <1>3, <1>4 DEF Trusty, Trust, In
  <2>3. ~returned => \A y \in DOMAIN cache' : Trusty(cache'[y], y)
    BY <1>7, <2>2 DEF CacheInv, TrustInv
  <2>4. ~returned => \A y \in DOMAIN cache' : Trusty(cache[y], y)'
    <3>1. \A q, y : Trusty(q, y)' <=> Trusty(q, y)
      BY <1>6, SteadyKeeps
    <3>2. \A y : Trusty(cache[y], y)' <=> Trusty(cache'[y], y)
      BY <3>1
    <3> QED
      BY <2>3, <3>2
  <2> QED
    BY <1>6, <1>7, <2>1, <2>4 DEF Stock, Steady, Complete
<1>9. CASE Len(work[w].todo) = 1
  <2>1. Leaves(w, work[w].built) /\ ~In(w, "rest") /\ work[w].built \in Table(Sections, Payload)
    BY <1>1, <1>5, <1>9, ReadyLeaves, WorkAt DEF In, CacheInv
  <2> QED
    BY <1>1, <1>6, <1>8, <2>1, BuiltNow, LeavesKeeps
<1>10. CASE Len(work[w].todo) # 1
  <2>1. work[w].todo = SECTIONS
    BY <1>2, <1>10, SectionsAre
  <2> DEFINE k == [work[w] EXCEPT !.todo = <<"reader_ranks">>]
  <2>2. k \in Work /\ Only(w, k) /\ Still
    <3>1. Tail(work[w].todo) = <<"reader_ranks">>
      BY <2>1, SectionsAre
    <3>2. Only(w, k) /\ Still
      BY <1>5, <1>10, <3>1
    <3>3. \A q \in Work : [q EXCEPT !.todo = <<"reader_ranks">>] \in Work
      BY DEF Work
    <3>4. work[w] \in Work
      BY WorkAt DEF CacheInv
    <3> QED
      BY <3>2, <3>3, <3>4
  <2>3. Turns(w, k)
    BY <2>2, OnlyTurns DEF CacheInv
  <2>4. /\ work'[w].pc = work[w].pc /\ work'[w].listed = work[w].listed
        /\ work'[w].print = work[w].print /\ work'[w].read = work[w].read
        /\ work'[w].built = work[w].built /\ work'[w].moved = work[w].moved
        /\ work'[w].todo = <<"reader_ranks">>
    BY <2>3, WorkAt DEF Turns, Work, CacheInv
  <2>5. Untouched /\ cmd' = cmd
    BY <2>2, StillAside
  <2>6. Shape(w)'
    BY <1>1, <1>2, <2>4, <2>5 DEF Shape, In, At, Complete
  <2>7. ReadWhole(w)' /\ (~returned => Trust(w)')
    BY <1>1, <1>6, <2>4, ReadKept, SteadyKeeps DEF Trust
  <2>8. w \in Servers /\ ~work'[w].moved => Fresh(w)'
    BY <1>1, <1>6, <2>4, SteadyKeeps DEF Fresh, In
  <2> QED
    BY <1>6, <1>8, <2>3, <2>5, <2>6, <2>7, <2>8, WorkerAfter DEF Aside, CacheInv, Kept
<1> QED
  BY <1>9, <1>10

LEMMA StoreFailsKeeps ==
    ASSUME DictTypes, CacheInv, NEW w \in Workers, StoreFails(w)
    PROVE  CacheInv' /\ Aside
<1>1. In(w, "store") /\ ~In(w, "rest") /\ cache' = cache /\ Quiet /\ Steady /\ starts' = starts
  BY DEF StoreFails, Quiet, Steady, In
<1>2. deaths' \in {deaths, deaths + 1} /\ deaths' <= MaxDeaths
  BY DictAssumptions DEF StoreFails, DictTypes
<1>3. Leaves(w, work[w].built)
  BY <1>2 DEF StoreFails, Leaves
<1>4. Stock'
  BY <1>1, StockKept DEF CacheInv
<1> QED
  BY <1>1, <1>3, <1>4, WorkAt, BuiltNow, LeavesKeeps DEF CacheInv

---------------------------------------------------------------------------
(* Together.                                                               *)

LEMMA CacheStarts == Init => CacheInv
<1> SUFFICES ASSUME Init PROVE CacheInv
  OBVIOUS
<1>1. /\ cache = << >> /\ work = [w \in Workers |-> AtRest]
      /\ starts = 0 /\ was = {} /\ returned = FALSE
  BY DEF Init
<1>2. \A w \in Workers : work[w] = AtRest
  BY <1>1
<1>3. /\ AtRest.pc = "rest" /\ AtRest.listed = FALSE /\ AtRest.read = << >>
      /\ AtRest.built = << >> /\ DOMAIN << >> = {}
  BY NoRows DEF AtRest
<1>4. cache \in Rows
  BY <1>1, NoRows DEF Rows
<1>5. CacheTypes
  <2>1. work \in [Workers -> Work]
    BY <1>1, AtRestTyped
  <2>2. starts \in 0 .. MaxStarts
    BY <1>1, CacheAssumption
  <2> QED
    BY <1>1, <1>4, <2>1, <2>2 DEF CacheTypes
<1>6. ShapeInv
  BY <1>1, <1>2, <1>3 DEF ShapeInv, Shape, In
<1>7. TrustInv
  BY <1>1, <1>2, <1>3 DEF TrustInv, Trust
<1>8. FreshInv
  <2>1. \A s \in Servers : work[s] = AtRest
    BY <1>2, ServerOrCommand
  <2> QED
    BY <1>3, <2>1 DEF FreshInv, Fresh, In
<1> QED
  BY <1>5, <1>6, <1>7, <1>8 DEF CacheInv

LEMMA CachingKeeps ==
    ASSUME DictTypes, CacheInv, NEW w \in Workers, Caching(w)
    PROVE  CacheInv' /\ Aside
BY PrintCountKeeps, StoredKeeps, BuildKeeps, StoreKeeps, StoreFailsKeeps,
   PrintListKeeps, LoadRowsKeeps, LoadedKeeps DEF Caching

LEMMA AsideKeeps ==
    ASSUME DictInv, Aside
    PROVE  DictInv'
BY StopsKeeps, UntouchedKeeps DEF Aside, DictInv

LEMMA IdleKeeps ==
    ASSUME CacheInv, UNCHANGED vars
    PROVE  CacheInv'
<1>1. Steady /\ UNCHANGED <<cmd, cache, work, starts, was, returned>>
  BY DEF vars, dictVars, cacheVars, Steady
<1>2. CacheTypes'
  BY <1>1 DEF CacheInv, CacheTypes
<1>3. ShapeInv'
  BY <1>1 DEF CacheInv, ShapeInv, Shape, In, At, Complete
<1>4. TrustInv'
  <2>1. ASSUME ~returned
        PROVE  /\ was' \cap Parts(Fingerprint') = {}
               /\ \A x \in DOMAIN cache : Trusty(cache[x], x)'
               /\ \A w \in Workers : Trust(w)'
    <3>1. \A x \in DOMAIN cache : Trusty(cache[x], x)'
      <4>1. \A r, x : Trusty(r, x)' <=> Trusty(r, x)
        BY <1>1, SteadyKeeps
      <4>2. \A x : Trusty(cache[x], x)' <=> Trusty(cache'[x], x)
        BY <4>1
      <4> QED
        BY <1>1, <2>1, <4>2 DEF CacheInv, TrustInv
    <3>2. ASSUME NEW w \in Workers
          PROVE  Trust(w)'
      BY <1>1, <2>1, SteadyKeeps DEF CacheInv, TrustInv, Trust
    <3>3. was' \cap Parts(Fingerprint') = {}
      BY <1>1, <2>1, SteadyKeeps DEF CacheInv, TrustInv
    <3> QED
      BY <3>1, <3>2, <3>3
  <2> QED
    BY <1>1, <2>1 DEF TrustInv, Parts
<1>5. FreshInv'
  BY <1>1, SteadyKeeps DEF CacheInv, FreshInv, Fresh, In
<1> QED
  BY <1>2, <1>3, <1>4, <1>5 DEF CacheInv

LEMMA NextKeeps ==
    ASSUME DictInv, CacheInv, [Next]_vars
    PROVE  DictInv' /\ CacheInv'
<1>a. DictTypes
  BY DEF DictInv
<1>1. ASSUME NEW c \in Commands, Step(c), Noted
      PROVE  DictInv' /\ CacheInv'
  <2>1. DictTypes' /\ Others(c) /\ ~At(c, "deriving")
    BY <1>1, StepTypes DEF DictInv, Step, At
  <2>2. DictInv'
    BY <1>1, <2>1, TodoStep, MasterStep, SyncStep DEF DictInv
  <2> QED
    BY <1>1, <1>a, <2>1, <2>2, NotedKeeps DEF CacheInv
<1>2. ASSUME NEW c \in Commands, Typed(c), Noted
      PROVE  DictInv' /\ CacheInv'
  <2>1. DictInv'
    BY <1>2, TypedKeeps DEF DictInv
  <2>2. DictTypes' /\ Others(c) /\ ~At(c, "deriving")
    BY <1>2, <1>a, TypedBegins DEF Opened, At
  <2> QED
    BY <1>2, <1>a, <2>1, <2>2, NotedKeeps DEF CacheInv
<1>3. ASSUME CacheInv', Aside
      PROVE  DictInv' /\ CacheInv'
  BY <1>3, AsideKeeps
<1>4. CASE UNCHANGED vars
  <2>1. Untouched
    BY <1>4, <1>a, StillAside DEF vars, Still, dictVars
  <2>2. DictInv'
    BY <2>1, <1>3, AsideKeeps DEF Aside
  <2> QED
    BY <1>4, <2>2, IdleKeeps
<1> QED
  BY <1>a, <1>1, <1>2, <1>3, <1>4, StartKeeps, RebuildKeeps, KilledKeeps, CachingKeeps DEF Next

(* Types, one command at a time for as long as none overlapped, and what each *)
(* process may trust of the cache: the inductive invariant of jp-dict and of   *)
(* the servers beside it.                                                      *)
THEOREM CacheInvariant == Spec => [](DictInv /\ CacheInv)
<1>1. Init => DictInv /\ CacheInv
  BY DictStarts, CacheStarts DEF Init, DictInv
<1>2. DictInv /\ CacheInv /\ [Next]_vars => DictInv' /\ CacheInv'
  BY NextKeeps
<1> QED
  BY <1>1, <1>2, PTL DEF Spec

LEMMA MasterIsOne == DictInv => OneMaster
<1> SUFFICES ASSUME DictInv, ~overlap PROVE Cardinality(Masters) <= 1
  BY DEF OneMaster
<1>1. \A i, j \in Masters : i = j
  BY DEF DictInv, MasterInv, SoleMaster
<1>2. CASE Masters = {}
  BY <1>2, FS_EmptySet
<1>3. CASE Masters # {}
  <2>1. PICK i : Masters = {i}
    BY <1>1, <1>3
  <2>2. Cardinality({i}) = 1
    BY FS_Singleton
  <2> QED
    BY <2>1, <2>2
<1> QED
  BY <1>2, <1>3

(* "Exactly one row should hold this": whatever set-role, sync and reimport do *)
(* with the role, and wherever one of them is killed, there are never two      *)
(* masters as long as the commands did not overlap.                            *)
THEOREM OneMasterRemains == Spec => []OneMaster
BY CacheInvariant, MasterIsOne, PTL

LEMMA SyncIsWhole == DictInv => SyncLeaves
<1> SUFFICES ASSUME DictInv, NEW c \in Commands, At(c, "refresh"), cmd[c].op = "sync",
                    ~overlap, deaths = 0
             PROVE  /\ \A z \in Range(Zips) : \E i \in IdsOf(z) : dicts[i].freqs = Holds[z].freqs
                    /\ \/ Masters # {}
                       \/ \A i \in DOMAIN dicts : dicts[i].role \in {"frequency", "pitch"}
  BY DEF SyncLeaves
<1>1. Importing(c) /\ \A i \in DOMAIN dicts : WholeRow(i)
  BY DEF DictInv, SyncInv
<1>2. \A d \in Commands : ~At(d, "freqs")
  BY DEF DictInv, MasterInv, Alone, At
<1>3. \A i \in DOMAIN dicts : dicts[i].freqs = Holds[dicts[i].zip].freqs
  BY <1>1, <1>2 DEF WholeRow, Filling
<1>4. cmd[c].todo = << >> /\ HasMaster
  BY <1>1 DEF Importing, At
<1>5. ASSUME NEW z \in Range(Zips)
      PROVE  \E i \in IdsOf(z) : dicts[i].freqs = Holds[z].freqs
  <2>1. Range(cmd[c].todo) = {}
    BY <1>4, NoRows DEF Range
  <2>2. IdsOf(z) # {}
    BY <1>1, <2>1 DEF Importing, At
  <2> QED
    BY <1>3, <2>2 DEF IdsOf
<1> QED
  BY <1>4, <1>5 DEF HasMaster

(* A sync that ran alone and to its end, and before which nothing was killed,   *)
(* has every zip cached with all its frequencies, and a master is set if any    *)
(* dictionary can be one.                                                       *)
THEOREM SyncCompletes == Spec => []SyncLeaves
BY CacheInvariant, SyncIsWhole, PTL

LEMMA NoMixNow == DictInv /\ CacheInv => TrustsNoMix
<1> SUFFICES ASSUME DictInv, CacheInv PROVE TrustsNoMix
  OBVIOUS
<1>1. DictTypeOK
  <2>1. DOMAIN dicts \subseteq Ids /\ \A i \in DOMAIN dicts : dicts[i] \in Row
    BY RowsTyped DEF DictInv
  <2>2. \A c \in Commands : cmd[c].pc \in
          {"idle", "find", "import", "freqs", "guess", "order", "label", "choose",
           "count", "demote", "apply", "remove", "replace", "refresh", "deriving"}
    BY CommandAt DEF DictInv, Command
  <2> QED
    BY <2>1, <2>2 DEF DictTypeOK, DictInv, DictTypes
<1>2. TypeOK
  <2>1. DOMAIN cache \subseteq Range(SECTIONS)
    BY TableElim, SectionsAre DEF CacheInv, CacheTypes, Rows
  <2>2. \A w \in Workers : work[w].pc \in
          {"rest", "load", "print", "stored", "build", "store", "ready"}
    BY WorkAt DEF CacheInv, Work
  <2> QED
    BY <1>1, <2>1, <2>2 DEF TypeOK, CacheInv, CacheTypes
<1>3. ASSUME NEW s \in Servers, In(s, "ready"), ~work[s].moved, ~returned
      PROVE  work[s].built = [x \in Range(SECTIONS) |-> Derive(x)]
  BY <1>3 DEF CacheInv, FreshInv, Fresh
<1> QED
  BY <1>2, <1>3 DEF TrustsNoMix

(* "The next reader derives again instead of trusting a mix": for any number of *)
(* servers and commands that fingerprint, build and store at once, a server     *)
(* that started while no dictionary changed has what its own build would give.  *)
THEOREM MixNeverTrusted == Spec => []TrustsNoMix
BY CacheInvariant, NoMixNow, PTL
=============================================================================
