--------------------------- MODULE YtJobsProofs ---------------------------
(***************************************************************************)
(* YtJobs for every number of videos, requests, segments and restarts: the *)
(* jobs implement Transcripts, a primer of a transcript that is done is    *)
(* counted over all of it, and a clip plays the line it was cut for.       *)
(***************************************************************************)
EXTENDS YtJobs, TLAPS, FiniteSetTheorems, WellFoundedInduction

---------------------------------------------------------------------------
(* The invariant.                                                          *)

SubPCs  == {"rest", "create", "media", "fill"}
PipePCs == {"begin", "audio", "start", "hear", "film", "finish"}
PrimerPCs == {"check", "count", "read", "store", "fetch"}
ViewPCs == PrimerPCs \cup {"rest", "over"}

\* The tables: every row is of a job there is, and no line is in one twice.
TableTypes ==
    /\ DOMAIN jobs \subseteq 1 .. MaxJobs
    /\ \A j \in DOMAIN jobs :
         jobs[j] \in [video : Videos, status : Live \cup {"done", "error"},
                      media : SUBSET {"audio", "film"}]
    /\ \A i \in DOMAIN rows :
         /\ rows[i] \in [job : Nat, line : Nat]
         /\ rows[i].job \in DOMAIN jobs
         /\ rows[i].line \in Spoken(jobs[rows[i].job].video)
    /\ \A i, k \in DOMAIN rows : rows[i] = rows[k] => i = k
    /\ \E n \in Nat : DOMAIN rows \subseteq 1 .. n

\* The requests and tasks: whatever they work on is there.
WorkTypes ==
    /\ sub \in [Submitters -> [pc : SubPCs, video : Videos \cup {"none"}, job : Nat, next : Nat]]
    /\ \A r \in Submitters :
         /\ sub[r].pc # "rest" => sub[r].video \in Videos
         /\ sub[r].pc \in {"media", "fill"} => sub[r].job \in DOMAIN jobs
    /\ DOMAIN pipe \subseteq DOMAIN jobs
    /\ \A j \in DOMAIN pipe : pipe[j] \in [pc : PipePCs, heard : Nat]
    /\ \A t \in DOMAIN writes : t = <<t[1], t[2]>> /\ t[1] \in DOMAIN jobs
    /\ up \in BOOLEAN /\ boots \in Nat /\ fails \in Nat /\ fails + boots <= MaxTrouble

SideTypes ==
    /\ view \in [Readers -> [pc : ViewPCs, job : Nat, built : SUBSET Nat,
                             read : SUBSET Nat, sure : BOOLEAN]]
    /\ \A x \in Readers :
         /\ IsFiniteSet(view[x].read)
         /\ view[x].pc \in PrimerPCs => view[x].job \in DOMAIN jobs
    /\ DOMAIN primers \subseteq DOMAIN jobs
    /\ \A j \in DOMAIN primers : primers[j] \in [stamp : Nat, of : SUBSET Nat]

\* When the server is down nobody is at work.
DownIdle == ~up =>
    /\ DOMAIN pipe = {} /\ DOMAIN writes = {}
    /\ \A r \in Submitters : sub[r].pc = "rest"
    /\ \A x \in Readers : view[x].pc \in {"rest", "over"}

Has(j)       == {rows[i].line : i \in RowsOf(j)}
Filler(r, j) == sub[r].pc \in {"media", "fill"} /\ sub[r].job = j
\* The lines a task has still to insert.
Due(t) == writes[t] .. Upto(jobs[t[1]].video, t[2])

\* A request that fills a job in is alone with it, and has filled it so far.
FillOk(j) ==
    /\ \A r \in Submitters : Filler(r, j) =>
         /\ jobs[j].video = sub[r].video /\ jobs[j].status = "pending"
         /\ j \notin DOMAIN pipe /\ Tasks(j) = {}
         /\ Has(j) = 1 .. sub[r].next - 1
         /\ sub[r].next > 0
         /\ sub[r].pc = "fill" => "film" \in jobs[j].media
    /\ \A r, q \in Submitters : Filler(r, j) /\ Filler(q, j) => r = q

\* A task has lines of its own segment to insert, and nobody inserted them.
TaskOk(j) == \A t \in Tasks(j) :
    /\ t[2] \in 1 .. Len(Ends[jobs[j].video])
    /\ writes[t] \in Segment(jobs[j].video, t[2])
    /\ Has(j) \cap Due(t) = {}

\* What a job has not heard nobody inserts, and it joins its tasks.
PipeOk(j) == j \in DOMAIN pipe =>
    /\ pipe[j].heard \in 0 .. Len(Ends[jobs[j].video])
    /\ Has(j) \subseteq 1 .. Upto(jobs[j].video, pipe[j].heard)
    /\ \A t \in Tasks(j) : t[2] <= pipe[j].heard
    /\ pipe[j].pc \in {"begin", "audio", "start"} => pipe[j].heard = 0
    /\ pipe[j].pc \in {"film", "finish"} =>
         pipe[j].heard = Len(Ends[jobs[j].video]) /\ Tasks(j) = {}

\* Nobody works on what is done, and a job at work has not failed.
SettledOk(j) ==
    /\ jobs[j].status = "done" => Tasks(j) = {}
    /\ jobs[j].status \in {"done", "error"} => j \notin DOMAIN pipe

StatusAt(pc) == CASE pc = "begin" -> "pending"
                  [] pc \in {"audio", "start"} -> "downloading"
                  [] pc \in {"hear", "film", "finish"} -> "transcribing"

\* Where no write was lost, a job's row says where its pipe is, and a line that
\* was heard is in the table or on its way.
TruthOk(j) == j \in DOMAIN pipe /\ jobs[j].video \notin excused =>
    /\ jobs[j].status = StatusAt(pipe[j].pc)
    /\ pipe[j].pc = "finish" => "film" \in jobs[j].media
    /\ \A l \in 1 .. Upto(jobs[j].video, pipe[j].heard) :
         l \in Has(j) \/ \E t \in Tasks(j) : l \in Due(t)

JobOk(j) == FillOk(j) /\ TaskOk(j) /\ PipeOk(j) /\ SettledOk(j) /\ TruthOk(j)
JobsOk   == \A j \in DOMAIN jobs : JobOk(j)

\* All jobs of a video but the latest have failed, and one request at most is
\* about to make the next, unless the video was submitted twice at once.
LatestLives == \A j, k \in DOMAIN jobs :
    /\ j < k /\ jobs[j].video = jobs[k].video /\ jobs[j].video \notin excused
    => jobs[j].status = "error"
OneCreates == \A r \in Submitters :
    sub[r].pc = "create" /\ sub[r].video \notin excused =>
      /\ Unfailed(sub[r].video) = {}
      /\ \A q \in Submitters : sub[q].pc = "create" /\ sub[q].video = sub[r].video => q = r

JobsInv == /\ TableTypes /\ WorkTypes /\ SideTypes /\ DownIdle
           /\ JobsOk /\ LatestLives /\ OneCreates

---------------------------------------------------------------------------
(* Numbers, functions and lines.                                           *)

\* Every non-empty set of naturals has a least member.
LEMMA LeastOf ==
    ASSUME NEW T, T \subseteq Nat, T # {}
    PROVE  \E x \in T : \A y \in T : x <= y
<1> DEFINE Less == {ss \in Nat \X Nat : ss[1] < ss[2]}
<1>1. IsWellFoundedOn(Less, Nat)
    BY NatLessThanWellFounded DEF OpToRel
<1>2. \A y, x \in Nat : y < x => <<y, x>> \in Less
    OBVIOUS
<1> HIDE DEF Less
<1>3. PICK x \in T : \A y \in T : ~(<<y, x>> \in Less)
    BY <1>1, WFMin
<1>4. ASSUME NEW y \in T PROVE x <= y
    <2>1. x \in Nat /\ y \in Nat /\ ~(y < x)
        BY <1>2, <1>3
    <2> QED
        BY <2>1
<1> QED
    BY <1>4

\* Biggest picks the largest of a bounded set of ids.
LEMMA BiggestIs ==
    ASSUME NEW n \in Nat, NEW ids, ids \subseteq 1 .. n, ids # {}
    PROVE  /\ Biggest(ids) \in ids
           /\ \A k \in ids : k <= Biggest(ids)
<1> DEFINE T == {m \in Nat : \E i \in ids : m = n - i}
<1>1. \A i \in ids : n - i \in T
    OBVIOUS
<1>2. PICK x \in T : \A y \in T : x <= y
    BY <1>1, LeastOf
<1>3. PICK i \in ids : x = n - i
    BY <1>2
<1>4. ASSUME NEW k \in ids PROVE k <= i
    <2>1. x <= n - k
        BY <1>1, <1>2
    <2> QED
        BY <1>3, <2>1
<1>5. \E m \in ids : \A k \in ids : k <= m
    BY <1>4
<1> QED
    BY <1>5 DEF Biggest

\* The next id is past every id there is.
LEMMA NextIdIs ==
    ASSUME NEW n \in Nat, NEW table, DOMAIN table \subseteq 1 .. n
    PROVE  /\ NextId(table) \in 1 .. n + 1
           /\ \A k \in DOMAIN table : k < NextId(table)
<1>1. CASE DOMAIN table = {}
    BY <1>1 DEF NextId
<1>2. CASE DOMAIN table # {}
    <2>1. /\ Biggest(DOMAIN table) \in DOMAIN table
          /\ \A k \in DOMAIN table : k <= Biggest(DOMAIN table)
        BY <1>2, BiggestIs
    <2>2. NextId(table) = Biggest(DOMAIN table) + 1
        BY <1>2 DEF NextId
    <2> QED
        BY <2>1, <2>2
<1> QED
    BY <1>1, <1>2

\* Segments follow one another.
LEMMA UptoIs ==
    ASSUME NEW v \in Videos
    PROVE  /\ Len(Ends[v]) \in Nat /\ DOMAIN Ends[v] = 1 .. Len(Ends[v])
           /\ \A h \in 0 .. Len(Ends[v]) : Upto(v, h) \in Nat
           /\ \A s \in 1 .. Len(Ends[v]) : /\ Upto(v, s) = Ends[v][s]
                                           /\ Upto(v, s - 1) < Upto(v, s)
<1>1. Ends[v] \in Seq(Nat \ {0})
    BY EndsAssumption
<1>2. Len(Ends[v]) \in Nat /\ DOMAIN Ends[v] = 1 .. Len(Ends[v])
    BY <1>1
<1>3. \A h \in 1 .. Len(Ends[v]) : Ends[v][h] \in Nat \ {0}
    BY <1>1
<1>4. \A h \in 0 .. Len(Ends[v]) : Upto(v, h) \in Nat
    BY <1>2, <1>3 DEF Upto
<1>5. ASSUME NEW s \in 1 .. Len(Ends[v])
      PROVE  Upto(v, s) = Ends[v][s] /\ Upto(v, s - 1) < Upto(v, s)
    <2>1. CASE s = 1
        BY <1>3, <2>1 DEF Upto
    <2>2. CASE s # 1
        <3>1. s \in 2 .. Len(Ends[v])
            BY <1>2, <2>2
        <3>2. Ends[v][s - 1] < Ends[v][s]
            BY <3>1, EndsAssumption
        <3> QED
            BY <1>2, <2>2, <3>2 DEF Upto
    <2> QED
        BY <2>1, <2>2
<1> QED
    BY <1>2, <1>4, <1>5

\* Later segments end later.
LEMMA UptoRises ==
    ASSUME NEW v \in Videos, NEW a \in 0 .. Len(Ends[v]), NEW b \in 0 .. Len(Ends[v]), a <= b
    PROVE  Upto(v, a) <= Upto(v, b)
<1>1. Len(Ends[v]) \in Nat
    BY UptoIs
<1>2. \A h \in 0 .. Len(Ends[v]) : Upto(v, h) \in Nat
    BY UptoIs
<1> DEFINE T == {c \in 0 .. Len(Ends[v]) : a <= c /\ ~(Upto(v, a) <= Upto(v, c))}
<1>3. SUFFICES ASSUME T # {} PROVE FALSE
    OBVIOUS
<1>4. T \subseteq Nat
    OBVIOUS
<1>5. PICK c \in T : \A d \in T : c <= d
    <2> HIDE DEF T
    <2> QED
        BY <1>3, <1>4, LeastOf
<1>6. c # a
    BY <1>2
<1>7. c \in 1 .. Len(Ends[v]) /\ c - 1 \in 0 .. Len(Ends[v]) /\ a <= c - 1
    BY <1>1, <1>5, <1>6
<1>8. c - 1 \notin T
    BY <1>5, <1>7
<1>9. Upto(v, c - 1) < Upto(v, c)
    BY <1>7, UptoIs
<1> QED
    BY <1>2, <1>7, <1>8, <1>9

\* Where two segments differ no line is in both.
LEMMA SegmentsApart ==
    ASSUME NEW v \in Videos, NEW a \in 1 .. Len(Ends[v]), NEW b \in 1 .. Len(Ends[v]), a # b
    PROVE  Segment(v, a) \cap Segment(v, b) = {}
<1>1. Len(Ends[v]) \in Nat
    BY UptoIs
<1>2. \A h \in 0 .. Len(Ends[v]) : Upto(v, h) \in Nat
    BY UptoIs
<1>3. ASSUME NEW c \in 1 .. Len(Ends[v]), NEW d \in 1 .. Len(Ends[v]), c < d
      PROVE  Upto(v, c) <= Upto(v, d - 1)
    <2>1. d - 1 \in 0 .. Len(Ends[v]) /\ c <= d - 1
        BY <1>1, <1>3
    <2> QED
        BY <2>1, UptoRises
<1>4. a - 1 \in 0 .. Len(Ends[v]) /\ b - 1 \in 0 .. Len(Ends[v])
    BY <1>1
<1>5. CASE a < b
    BY <1>2, <1>3, <1>4, <1>5 DEF Segment
<1>6. CASE b < a
    BY <1>2, <1>3, <1>4, <1>6 DEF Segment
<1> QED
    BY <1>1, <1>5, <1>6

\* A row of the table with another status, or with one more file.
LEMMA RowIs ==
    ASSUME NEW V, NEW row \in [video : V, status : Live \cup {"done", "error"},
                               media : SUBSET {"audio", "film"}]
    PROVE  /\ row.video \in V
           /\ row.status \in {"pending", "downloading", "transcribing", "done", "error"}
           /\ row.media \in SUBSET {"audio", "film"}
           /\ \A s \in Live \cup {"done", "error"} :
                [row EXCEPT !.status = s]
                  = [video |-> row.video, status |-> s, media |-> row.media]
           /\ \A m \in SUBSET {"audio", "film"} :
                [row EXCEPT !.media = m]
                  = [video |-> row.video, status |-> row.status, media |-> m]
BY DEF Live

\* A job of the table, spelled out.
LEMMA JobIs ==
    ASSUME TableTypes, NEW j \in DOMAIN jobs
    PROVE  /\ j \in Nat /\ jobs[j].video \in Videos
           /\ jobs[j].status \in {"pending", "downloading", "transcribing", "done", "error"}
           /\ jobs[j].media \in SUBSET {"audio", "film"}
           /\ \A s \in Live \cup {"done", "error"} :
                [jobs[j] EXCEPT !.status = s]
                  = [video |-> jobs[j].video, status |-> s, media |-> jobs[j].media]
           /\ \A m \in SUBSET {"audio", "film"} :
                [jobs[j] EXCEPT !.media = m]
                  = [video |-> jobs[j].video, status |-> jobs[j].status, media |-> m]
<1>1. j \in Nat
    BY BoundsAssumption DEF TableTypes
<1>2. jobs[j] \in [video : Videos, status : Live \cup {"done", "error"},
                   media : SUBSET {"audio", "film"}]
    BY DEF TableTypes
<1> QED
    BY <1>1, <1>2, RowIs

---------------------------------------------------------------------------
(* Steps that touch one job.                                               *)

\* Nothing of job k changes.
Kept(k) ==
    /\ jobs'[k] = jobs[k] /\ Has(k)' = Has(k)
    /\ k \in DOMAIN pipe' <=> k \in DOMAIN pipe
    /\ k \in DOMAIN pipe => pipe'[k] = pipe[k]
    /\ Tasks(k)' = Tasks(k)
    /\ \A t \in Tasks(k) : writes'[t] = writes[t]
    /\ \A r \in Submitters : Filler(r, k)' => Filler(r, k) /\ sub'[r] = sub[r]

\* Then what holds of it still does.
LEMMA KeptOk ==
    ASSUME NEW k, JobOk(k), Kept(k), excused \subseteq excused'
    PROVE  JobOk(k)'
<1>1. \A t \in Tasks(k) : t[1] = k /\ Due(t)' = Due(t)
    BY DEF Kept, Tasks, Due
<1>2. FillOk(k)'
    BY DEF JobOk, Kept, FillOk
<1>3. TaskOk(k)'
    BY <1>1 DEF JobOk, Kept, TaskOk
<1>4. PipeOk(k)' /\ SettledOk(k)'
    BY DEF JobOk, Kept, PipeOk, SettledOk
<1>5. TruthOk(k)'
    BY <1>1 DEF JobOk, Kept, TruthOk
<1> QED
    BY <1>2, <1>3, <1>4, <1>5 DEF JobOk

\* A step that makes no job and drops none has to show what it makes of the jobs
\* it touches.
LEMMA JobsStep ==
    ASSUME JobsInv, NEW touched,
           TableTypes', WorkTypes', SideTypes', DownIdle',
           DOMAIN jobs' = DOMAIN jobs,
           excused \subseteq excused',
           \A j \in DOMAIN jobs \cap touched :
             /\ jobs'[j].video = jobs[j].video
             /\ jobs[j].video \notin excused' /\ jobs[j].status = "error" => jobs'[j].status = "error"
             /\ JobOk(j)',
           \A k \in DOMAIN jobs \ touched : Kept(k),
           \A r \in Submitters : sub'[r].pc = "create" => sub[r] = sub'[r]
    PROVE  JobsInv'
<1>1. JobsOk'
    <2> SUFFICES ASSUME NEW k \in DOMAIN jobs, k \notin touched PROVE JobOk(k)'
        BY DEF JobsOk
    <2> QED
        BY KeptOk DEF JobsInv, JobsOk
<1>2. \A k \in DOMAIN jobs : /\ jobs'[k].video = jobs[k].video
                             /\ jobs[k].video \notin excused' /\ jobs[k].status = "error"
                                => jobs'[k].status = "error"
    BY DEF Kept
<1>3. LatestLives'
    BY <1>2 DEF JobsInv, LatestLives
<1>4. OneCreates'
    <2> SUFFICES ASSUME NEW r \in Submitters, sub'[r].pc = "create", sub'[r].video \notin excused'
                 PROVE  /\ Unfailed(sub[r].video)' = {}
                        /\ \A q \in Submitters :
                             sub'[q].pc = "create" /\ sub'[q].video = sub'[r].video => q = r
        BY DEF OneCreates
    <2>1. /\ sub[r] = sub'[r] /\ Unfailed(sub[r].video) = {}
          /\ \A q \in Submitters : sub[q].pc = "create" /\ sub[q].video = sub[r].video => q = r
        BY DEF JobsInv, OneCreates
    <2>2. \A k \in DOMAIN jobs : jobs[k].video = sub[r].video => jobs[k].status = "error"
        BY <2>1 DEF Unfailed, JobsOf
    <2>3. \A k \in DOMAIN jobs' : jobs'[k].video = sub'[r].video => jobs'[k].status = "error"
        BY <1>2, <2>1, <2>2
    <2> QED
        BY <2>1, <2>3 DEF Unfailed, JobsOf
<1> QED
    BY <1>1, <1>3, <1>4 DEF JobsInv

\* One that touches a single job.
LEMMA JobStep ==
    ASSUME JobsInv, NEW j \in DOMAIN jobs, up, up',
           TableTypes', WorkTypes', SideTypes',
           DOMAIN jobs' = DOMAIN jobs,
           jobs'[j].video = jobs[j].video,
           excused \subseteq excused',
           jobs[j].video \notin excused' /\ jobs[j].status = "error" => jobs'[j].status = "error",
           \A k \in DOMAIN jobs \ {j} : Kept(k),
           JobOk(j)',
           \A r \in Submitters : sub'[r].pc = "create" => sub[r] = sub'[r]
    PROVE  JobsInv'
<1>1. DownIdle'
    BY DEF DownIdle
<1>2. PICK touched : touched = {j}
    OBVIOUS
<1>3. /\ \A k \in DOMAIN jobs \ touched : Kept(k)
      /\ \A k \in DOMAIN jobs \cap touched : k = j
    BY <1>2
<1> QED
    BY <1>1, <1>3, JobsStep

\* A write to the row of a job: it is done, or it is lost and counted.
LEMMA SetIs ==
    ASSUME TableTypes, WorkTypes, NEW j \in DOMAIN jobs, UNCHANGED rows,
           NEW row \in [video : {jobs[j].video}, status : Live \cup {"done", "error"},
                        media : SUBSET {"audio", "film"}],
           Set(j, row)
    PROVE  /\ TableTypes'
           /\ DOMAIN jobs' = DOMAIN jobs
           /\ \A k \in DOMAIN jobs \ {j} : jobs'[k] = jobs[k]
           /\ jobs'[j] \in {jobs[j], row} /\ jobs'[j].video = jobs[j].video
           /\ jobs[j].video \notin excused' => jobs'[j] = row
           /\ excused \subseteq excused'
           /\ fails' \in Nat /\ fails' + boots <= MaxTrouble
<1>1. jobs[j] \in [video : Videos, status : Live \cup {"done", "error"},
                   media : SUBSET {"audio", "film"}]
    BY DEF TableTypes
<1>2. row \in [video : Videos, status : Live \cup {"done", "error"},
               media : SUBSET {"audio", "film"}] /\ row.video = jobs[j].video
    BY <1>1
<1>3. CASE jobs' = [jobs EXCEPT ![j] = row] /\ Sound
    <2>1. /\ DOMAIN jobs' = DOMAIN jobs /\ jobs'[j] = row
          /\ \A k \in DOMAIN jobs \ {j} : jobs'[k] = jobs[k]
          /\ UNCHANGED <<fails, excused>>
        BY <1>3 DEF Sound
    <2>2. fails' \in Nat /\ fails' + boots <= MaxTrouble
        BY <2>1 DEF WorkTypes
    <2>3. \A k \in DOMAIN jobs : jobs'[k].video = jobs[k].video
        BY <1>2, <2>1
    <2>4. TableTypes'
        BY <1>2, <2>1, <2>3 DEF TableTypes
    <2> QED
        BY <1>2, <2>1, <2>2, <2>4
<1>4. CASE Lost(jobs[j].video) /\ UNCHANGED jobs
    <2>1. /\ jobs' = jobs /\ excused' = excused \cup {jobs[j].video}
          /\ fails + boots < MaxTrouble /\ fails' = fails + 1
        BY <1>4 DEF Lost
    <2>2. fails' \in Nat /\ fails' + boots <= MaxTrouble
        BY <2>1, BoundsAssumption DEF WorkTypes
    <2>3. TableTypes'
        BY <2>1 DEF TableTypes
    <2> QED
        BY <2>1, <2>2, <2>3
<1> QED
    BY <1>3, <1>4 DEF Set

\* What Say and Gain write.
LEMMA SayIs ==
    ASSUME TableTypes, NEW j \in DOMAIN jobs, NEW status \in Live \cup {"done", "error"}, Say(j, status)
    PROVE  \E row \in [video : {jobs[j].video}, status : {status}, media : SUBSET {"audio", "film"}] :
             Set(j, row) /\ row.status = status /\ row.media = jobs[j].media
<1>1. PICK row : row = [jobs[j] EXCEPT !.status = status]
    OBVIOUS
<1>2. row = [video |-> jobs[j].video, status |-> status, media |-> jobs[j].media]
    BY <1>1, JobIs
<1>3. jobs[j].media \in SUBSET {"audio", "film"}
    BY JobIs
<1>4. Set(j, row)
    BY <1>1 DEF Say
<1> QED
    BY <1>2, <1>3, <1>4

\* A job that gained something has it beside what it had, under the same status.
LEMMA GainIs ==
    ASSUME TableTypes, NEW j \in DOMAIN jobs, NEW what \in {"audio", "film"}, Gain(j, what)
    PROVE  \E row \in [video : {jobs[j].video}, status : {jobs[j].status}, media : SUBSET {"audio", "film"}] :
             Set(j, row) /\ row.status = jobs[j].status /\ row.media = jobs[j].media \cup {what}
<1>1. PICK row : row = [jobs[j] EXCEPT !.media = @ \cup {what}]
    OBVIOUS
<1>2. jobs[j].media \cup {what} \in SUBSET {"audio", "film"}
    BY JobIs
<1>3. row = [video |-> jobs[j].video, status |-> jobs[j].status, media |-> jobs[j].media \cup {what}]
    BY <1>1, <1>2, JobIs
<1>4. Set(j, row)
    BY <1>1 DEF Gain
<1> QED
    BY <1>2, <1>3, <1>4

\* While the table of sentences stays, so does what every job has.
LEMMA HasSame ==
    ASSUME NEW k, UNCHANGED rows
    PROVE  Has(k)' = Has(k) /\ RowsOf(k)' = RowsOf(k)
BY DEF Has, RowsOf

\* A job in the pipe is in the table, and no request fills it in.
LEMMA InPipe ==
    ASSUME JobsInv, NEW j \in DOMAIN pipe
    PROVE  /\ up /\ j \in DOMAIN jobs /\ JobOk(j)
           /\ jobs[j].status \notin {"done", "error"}
           /\ \A r \in Submitters : ~Filler(r, j)
<1>1. up /\ j \in DOMAIN jobs
    BY DEF JobsInv, WorkTypes, DownIdle
<1>2. JobOk(j)
    BY <1>1 DEF JobsInv, JobsOk
<1> QED
    BY <1>1, <1>2 DEF JobOk, FillOk, SettledOk

\* A step of process_job that writes nothing but its job's row.
LEMMA PipeStep ==
    ASSUME JobsInv, NEW j \in DOMAIN pipe, Elsewhere,
           TableTypes', fails' \in Nat, fails' + boots <= MaxTrouble,
           DOMAIN jobs' = DOMAIN jobs,
           \A k \in DOMAIN jobs \ {j} : jobs'[k] = jobs[k],
           jobs'[j].video = jobs[j].video, excused \subseteq excused',
           DOMAIN pipe' \subseteq DOMAIN pipe, DOMAIN pipe \ {j} \subseteq DOMAIN pipe',
           \A k \in DOMAIN pipe \ {j} : pipe'[k] = pipe[k],
           j \in DOMAIN pipe' => pipe'[j] \in [pc : PipePCs, heard : Nat],
           \A t \in DOMAIN writes' : t \in DOMAIN writes \/ t = <<j, t[2]>>,
           \A t \in DOMAIN writes : t \in DOMAIN writes' /\ writes'[t] = writes[t],
           JobOk(j)'
    PROVE  JobsInv'
<1>1. /\ UNCHANGED <<rows, primers, files, up, boots, leftover, sub, view>>
      /\ up /\ j \in DOMAIN jobs /\ jobs[j].status # "error"
    BY InPipe DEF Elsewhere, machine
<1>2. WorkTypes'
    <2>1. \A k \in DOMAIN pipe' : k \in DOMAIN jobs' /\ pipe'[k] \in [pc : PipePCs, heard : Nat]
        BY <1>1 DEF JobsInv, WorkTypes
    <2>2. \A t \in DOMAIN writes' : t = <<t[1], t[2]>> /\ t[1] \in DOMAIN jobs'
        BY <1>1 DEF JobsInv, WorkTypes
    <2> QED
        BY <1>1, <2>1, <2>2 DEF JobsInv, WorkTypes
<1>3. SideTypes'
    BY <1>1 DEF JobsInv, SideTypes
<1>4. ASSUME NEW k \in DOMAIN jobs \ {j} PROVE Kept(k)
    <2>1. Tasks(k)' = Tasks(k)
        BY DEF Tasks
    <2>2. \A r \in Submitters : Filler(r, k)' <=> Filler(r, k)
        BY <1>1 DEF Filler
    <2>3. Has(k)' = Has(k)
        BY <1>1, HasSame
    <2>4. \A t \in Tasks(k) : writes'[t] = writes[t]
        BY DEF Tasks
    <2>5. (k \in DOMAIN pipe' <=> k \in DOMAIN pipe) /\ (k \in DOMAIN pipe => pipe'[k] = pipe[k])
        OBVIOUS
    <2> QED
        BY <1>1, <2>1, <2>2, <2>3, <2>4, <2>5 DEF Kept
<1> QED
    BY <1>1, <1>2, <1>3, <1>4, JobStep

---------------------------------------------------------------------------
(* process_job.                                                            *)

\* It goes on to another statement, with what that writes to its row.
LEMMA PipeMoves ==
    ASSUME JobsInv, NEW j \in DOMAIN pipe, NEW pc \in PipePCs,
           NEW row \in [video : {jobs[j].video}, status : Live, media : SUBSET {"audio", "film"}],
           Set(j, row) \/ (row = jobs[j] /\ Sound /\ UNCHANGED jobs),
           Goto(j, pc), Elsewhere, UNCHANGED writes,
           pc \in {"begin", "audio", "start"} => pipe[j].heard = 0,
           pc \in {"film", "finish"} =>
              pipe[j].heard = Len(Ends[jobs[j].video]) /\ Tasks(j) = {},
           jobs[j].video \notin excused => row.status = StatusAt(pc),
           pc = "finish" => "film" \in row.media
    PROVE  JobsInv'
<1>1. /\ j \in DOMAIN jobs /\ JobOk(j) /\ jobs[j].status \notin {"done", "error"}
      /\ \A r \in Submitters : ~Filler(r, j)
    BY InPipe
<1>2. UNCHANGED <<rows, sub>>
    BY DEF Elsewhere
<1>3. /\ TableTypes' /\ DOMAIN jobs' = DOMAIN jobs
      /\ \A k \in DOMAIN jobs \ {j} : jobs'[k] = jobs[k]
      /\ jobs'[j] \in {jobs[j], row} /\ jobs'[j].video = jobs[j].video
      /\ jobs[j].video \notin excused' => jobs'[j] = row
      /\ excused \subseteq excused'
      /\ fails' \in Nat /\ fails' + boots <= MaxTrouble
    <2>1. row \in [video : {jobs[j].video}, status : Live \cup {"done", "error"},
                   media : SUBSET {"audio", "film"}]
        OBVIOUS
    <2>2. CASE Set(j, row)
        BY <1>1, <1>2, <2>1, <2>2, SetIs DEF JobsInv
    <2>3. CASE row = jobs[j] /\ Sound /\ UNCHANGED jobs
        BY <1>2, <2>3 DEF JobsInv, TableTypes, WorkTypes, Sound, Elsewhere, machine
    <2> QED
        BY <2>2, <2>3
<1>4. pipe[j] \in [pc : PipePCs, heard : Nat]
    BY DEF JobsInv, WorkTypes
<1>5. /\ DOMAIN pipe' = DOMAIN pipe
      /\ \A k \in DOMAIN pipe \ {j} : pipe'[k] = pipe[k]
      /\ pipe'[j] \in [pc : PipePCs, heard : Nat]
      /\ pipe'[j].pc = pc /\ pipe'[j].heard = pipe[j].heard
    BY <1>4 DEF Goto
<1>6. Tasks(j)' = Tasks(j) /\ Has(j)' = Has(j)
    BY <1>2, HasSame DEF Tasks
<1>7. \A t \in Tasks(j) : Due(t)' = Due(t)
    BY <1>3 DEF Due, Tasks
<1>8. JobOk(j)'
    <2>1. FillOk(j)'
        BY <1>1, <1>2 DEF FillOk, Filler
    <2>2. TaskOk(j)'
        BY <1>1, <1>3, <1>6, <1>7 DEF JobOk, TaskOk
    <2>3. PipeOk(j)'
        BY <1>1, <1>3, <1>5, <1>6 DEF JobOk, PipeOk
    <2>4. SettledOk(j)'
        <3>1. row.status \notin {"done", "error"}
            BY DEF Live
        <3> QED
            BY <1>1, <1>3, <3>1 DEF SettledOk
    <2>5. TruthOk(j)'
        <3> SUFFICES ASSUME jobs[j].video \notin excused'
                     PROVE  /\ jobs'[j].status = StatusAt(pc)
                            /\ pc = "finish" => "film" \in jobs'[j].media
                            /\ \A l \in 1 .. Upto(jobs[j].video, pipe[j].heard) :
                                 l \in Has(j) \/ \E t \in Tasks(j) : l \in Due(t)
            BY <1>3, <1>5, <1>6, <1>7 DEF TruthOk
        <3> QED
            BY <1>1, <1>3 DEF JobOk, TruthOk
    <2> QED
        BY <2>1, <2>2, <2>3, <2>4, <2>5 DEF JobOk
<1> QED
    BY <1>3, <1>5, <1>8, PipeStep DEF JobsInv, WorkTypes

\* It ends, having said so or not.
LEMMA PipeEnds ==
    ASSUME JobsInv, NEW j \in DOMAIN pipe, NEW status \in {"done", "error"},
           Say(j, status), End(j), Elsewhere, UNCHANGED writes,
           status = "done" => Tasks(j) = {}
    PROVE  JobsInv'
<1>1. /\ j \in DOMAIN jobs /\ JobOk(j) /\ jobs[j].status \notin {"done", "error"}
      /\ \A r \in Submitters : ~Filler(r, j)
    BY InPipe
<1>2. UNCHANGED <<rows, sub>>
    BY DEF Elsewhere
<1>3. PICK row \in [video : {jobs[j].video}, status : Live \cup {"done", "error"},
                    media : SUBSET {"audio", "film"}] :
        row.status = status /\ Set(j, row)
    BY <1>1, SayIs DEF JobsInv
<1>4. /\ TableTypes' /\ DOMAIN jobs' = DOMAIN jobs
      /\ \A k \in DOMAIN jobs \ {j} : jobs'[k] = jobs[k]
      /\ jobs'[j] \in {jobs[j], row} /\ jobs'[j].video = jobs[j].video
      /\ excused \subseteq excused'
      /\ fails' \in Nat /\ fails' + boots <= MaxTrouble
    BY <1>1, <1>2, <1>3, SetIs DEF JobsInv
<1>5. /\ DOMAIN pipe' = DOMAIN pipe \ {j}
      /\ \A k \in DOMAIN pipe \ {j} : pipe'[k] = pipe[k]
    BY DEF End, Without
<1>6. Tasks(j)' = Tasks(j) /\ Has(j)' = Has(j)
    BY <1>2, HasSame DEF Tasks
<1>7. \A t \in Tasks(j) : Due(t)' = Due(t)
    BY <1>4 DEF Due, Tasks
<1>8. JobOk(j)'
    <2>1. FillOk(j)'
        BY <1>1, <1>2 DEF FillOk, Filler
    <2>2. TaskOk(j)'
        BY <1>1, <1>4, <1>6, <1>7 DEF JobOk, TaskOk
    <2>3. PipeOk(j)' /\ TruthOk(j)'
        BY <1>5 DEF PipeOk, TruthOk
    <2>4. SettledOk(j)'
        BY <1>1, <1>3, <1>4, <1>5, <1>6 DEF SettledOk
    <2> QED
        BY <2>1, <2>2, <2>3, <2>4 DEF JobOk
<1> QED
    BY <1>4, <1>5, <1>8, PipeStep DEF JobsInv, WorkTypes

\* Where its pipe is is what a row says, while no write was lost.
LEMMA PipeSays ==
    ASSUME JobsInv, NEW j \in DOMAIN pipe, jobs[j].video \notin excused
    PROVE  jobs[j].status = StatusAt(pipe[j].pc)
BY InPipe DEF JobOk, TruthOk

\* The pipe's first two steps: the job's row follows, or the write was refused.
LEMMA BeginsKeeps ==
    ASSUME JobsInv, NEW j, Begins(j) \/ Starts(j)
    PROVE  JobsInv'
<1>1. j \in DOMAIN pipe /\ Elsewhere /\ UNCHANGED writes
    BY DEF Begins, Starts, In
<1>2. j \in DOMAIN jobs /\ JobOk(j)
    BY <1>1, InPipe
<1>3. PICK status \in {"downloading", "transcribing"}, pc \in PipePCs :
        /\ Say(j, status) /\ Goto(j, pc) /\ pipe[j].heard = 0
        /\ pc \notin {"film", "finish"} /\ status = StatusAt(pc)
    <2>1. CASE Begins(j)
        <3> WITNESS "downloading" \in {"downloading", "transcribing"}
        <3>1. "audio" \in PipePCs /\ StatusAt("audio") = "downloading"
            BY DEF PipePCs, StatusAt
        <3>2. pipe[j].heard = 0
            BY <1>1, <1>2, <2>1 DEF Begins, In, JobOk, PipeOk
        <3> QED
            BY <2>1, <3>1, <3>2 DEF Begins
    <2>2. CASE Starts(j)
        <3> WITNESS "transcribing" \in {"downloading", "transcribing"}
        <3>1. "hear" \in PipePCs /\ StatusAt("hear") = "transcribing"
            BY DEF PipePCs, StatusAt
        <3>2. pipe[j].heard = 0
            BY <1>1, <1>2, <2>2 DEF Starts, In, JobOk, PipeOk
        <3> QED
            BY <2>2, <3>1, <3>2 DEF Starts
    <2> QED
        BY <2>1, <2>2
<1>4. PICK row \in [video : {jobs[j].video}, status : Live, media : SUBSET {"audio", "film"}] :
        row.status = status /\ Set(j, row)
    <2>1. status \in Live
        BY DEF Live
    <2> QED
        BY <1>2, <1>3, <2>1, SayIs DEF JobsInv
<1>5. Set(j, row) \/ (row = jobs[j] /\ Sound /\ UNCHANGED jobs)
    BY <1>4
<1> QED
    BY <1>1, <1>3, <1>4, <1>5, PipeMoves

\* The audio or the film comes: the job gains it.
LEMMA GainsKeeps ==
    ASSUME JobsInv, NEW j, AudioComes(j) \/ Filmed(j)
    PROVE  JobsInv'
<1>1. j \in DOMAIN pipe /\ Elsewhere /\ UNCHANGED writes
    BY DEF AudioComes, Filmed, In
<1>2. j \in DOMAIN jobs /\ JobOk(j) /\ jobs[j].status \notin {"done", "error"}
    BY <1>1, InPipe
<1>3. PICK what \in {"audio", "film"}, pc \in PipePCs :
        /\ Gain(j, what) /\ Goto(j, pc)
        /\ pc \in {"begin", "audio", "start"} => pipe[j].heard = 0
        /\ pc \in {"film", "finish"} =>
              pipe[j].heard = Len(Ends[jobs[j].video]) /\ Tasks(j) = {}
        /\ StatusAt(pc) = StatusAt(pipe[j].pc)
        /\ pc = "finish" => what = "film"
    <2>1. CASE AudioComes(j)
        <3> WITNESS "audio" \in {"audio", "film"}
        <3>1. "start" \in PipePCs /\ StatusAt("start") = StatusAt("audio")
            BY DEF PipePCs, StatusAt
        <3>2. pipe[j].pc = "audio" /\ pipe[j].heard = 0
            BY <1>1, <1>2, <2>1 DEF AudioComes, In, JobOk, PipeOk
        <3> QED
            BY <2>1, <3>1, <3>2 DEF AudioComes
    <2>2. CASE Filmed(j)
        <3> WITNESS "film" \in {"audio", "film"}
        <3>1. "finish" \in PipePCs /\ StatusAt("finish") = StatusAt("film")
            BY DEF PipePCs, StatusAt
        <3>2. /\ pipe[j].pc = "film"
              /\ pipe[j].heard = Len(Ends[jobs[j].video]) /\ Tasks(j) = {}
            BY <1>1, <1>2, <2>2 DEF Filmed, In, JobOk, PipeOk
        <3> QED
            BY <2>2, <3>1, <3>2 DEF Filmed
    <2> QED
        BY <2>1, <2>2
<1>4. PICK row \in [video : {jobs[j].video}, status : Live, media : SUBSET {"audio", "film"}] :
        row.status = jobs[j].status /\ what \in row.media /\ Set(j, row)
    <2>1. jobs[j].status \in Live
        BY <1>2, JobIs DEF JobsInv, Live
    <2> QED
        BY <1>2, <1>3, <2>1, GainIs DEF JobsInv
<1>5. jobs[j].video \notin excused => row.status = StatusAt(pc)
    BY <1>1, <1>3, <1>4, PipeSays
<1>6. Set(j, row) \/ (row = jobs[j] /\ Sound /\ UNCHANGED jobs)
    BY <1>4
<1> QED
    BY <1>1, <1>3, <1>4, <1>5, <1>6, PipeMoves

\* The four ways a pipe ends: in each the job is settled and nobody works on it.
LEMMA EndsKeep ==
    ASSUME JobsInv, NEW j, AudioFails(j) \/ HearFails(j) \/ NoFilm(j) \/ Finishes(j)
    PROVE  JobsInv'
<1>1. j \in DOMAIN pipe /\ Elsewhere /\ UNCHANGED writes /\ End(j)
    BY DEF AudioFails, HearFails, NoFilm, Finishes, In
<1>2. CASE Finishes(j)
    <2>1. Tasks(j) = {}
        BY <1>1, <1>2, InPipe DEF Finishes, In, JobOk, PipeOk
    <2>2. Say(j, "done")
        BY <1>2 DEF Finishes
    <2> QED
        BY <1>1, <2>1, <2>2, PipeEnds
<1>3. CASE ~Finishes(j)
    <2>1. Say(j, "error")
        BY <1>3 DEF AudioFails, HearFails, NoFilm
    <2> QED
        BY <1>1, <2>1, PipeEnds
<1> QED
    BY <1>2, <1>3


\* transcribe has returned, and so has every task.
LEMMA JoinsKeeps ==
    ASSUME JobsInv, NEW j, Joins(j)
    PROVE  JobsInv'
<1>1. j \in DOMAIN pipe /\ pipe[j].pc = "hear" /\ Elsewhere /\ Sound /\ UNCHANGED <<jobs, writes>>
    BY DEF Joins, In
<1>2. j \in DOMAIN jobs /\ jobs[j].status \notin {"done", "error"}
    BY <1>1, InPipe
<1>3. jobs[j] \in [video : {jobs[j].video}, status : Live, media : SUBSET {"audio", "film"}]
    BY <1>2 DEF JobsInv, TableTypes
<1>4. jobs[j].video \notin excused => jobs[j].status = StatusAt("film")
    BY <1>1, PipeSays DEF StatusAt
<1>5. "film" \in PipePCs
    BY DEF PipePCs
<1>6. Goto(j, "film") /\ pipe[j].heard = Len(Ends[jobs[j].video]) /\ Tasks(j) = {}
    BY DEF Joins
<1> HIDE DEF JobsInv
<1> QED
    BY <1>1, <1>3, <1>4, <1>5, <1>6, PipeMoves DEF Sound

---------------------------------------------------------------------------
(* The tasks.                                                              *)

\* whisper hands over a segment: a task of its own takes its lines.
LEMMA HearsKeeps ==
    ASSUME JobsInv, NEW j, Hears(j)
    PROVE  JobsInv'
<1>1. PICK s, v, new :
        /\ s = pipe[j].heard + 1 /\ v = jobs[j].video /\ new = <<j, s>>
        /\ j \in DOMAIN pipe /\ pipe[j].pc = "hear" /\ s \in DOMAIN Ends[v]
        /\ pipe' = [pipe EXCEPT ![j].heard = s]
        /\ writes' = With(writes, new, Upto(v, s - 1) + 1)
        /\ Elsewhere /\ UNCHANGED <<jobs, rows, sub, fails, excused>>
    <2> WITNESS pipe[j].heard + 1, jobs[j].video, <<j, pipe[j].heard + 1>>
    <2> QED
        BY DEF Hears, In, Sound, Elsewhere
<1>2. /\ j \in DOMAIN jobs /\ JobOk(j) /\ jobs[j].status \notin {"done", "error"}
      /\ \A r \in Submitters : ~Filler(r, j)
    BY <1>1, InPipe
<1>3. v \in Videos
    BY <1>1, <1>2, JobIs DEF JobsInv
<1>4. pipe[j] \in [pc : PipePCs, heard : Nat]
    BY <1>1 DEF JobsInv, WorkTypes
<1>5. /\ s \in 1 .. Len(Ends[v]) /\ s - 1 = pipe[j].heard /\ s \in Nat
      /\ Upto(v, s - 1) \in Nat /\ Upto(v, s) \in Nat /\ Upto(v, s - 1) < Upto(v, s)
    BY <1>1, <1>3, <1>4, UptoIs
<1>6. /\ DOMAIN pipe' = DOMAIN pipe
      /\ \A k \in DOMAIN pipe \ {j} : pipe'[k] = pipe[k]
      /\ pipe'[j] \in [pc : PipePCs, heard : Nat]
      /\ pipe'[j].pc = "hear" /\ pipe'[j].heard = s
    BY <1>1, <1>4
<1>7. \A t \in Tasks(j) : t[2] <= pipe[j].heard
    BY <1>1, <1>2 DEF JobOk, PipeOk
<1>8. new \notin DOMAIN writes
    <2>1. new[1] = j /\ new[2] = s
        BY <1>1
    <2> QED
        BY <1>1, <1>4, <1>7, <2>1 DEF Tasks
<1>9. /\ DOMAIN writes' = DOMAIN writes \cup {new}
      /\ writes'[new] = Upto(v, s - 1) + 1
      /\ \A t \in DOMAIN writes : writes'[t] = writes[t]
    <2>1. PICK first : first = Upto(v, s - 1) + 1
        OBVIOUS
    <2>2. writes' = With(writes, new, first)
        BY <1>1, <2>1
    <2>3. /\ DOMAIN writes' = DOMAIN writes \cup {new} /\ writes'[new] = first
          /\ \A t \in DOMAIN writes : t # new => writes'[t] = writes[t]
        BY <2>2 DEF With
    <2> QED
        BY <1>8, <2>1, <2>3
<1>10. Tasks(j)' = Tasks(j) \cup {new} /\ Has(j)' = Has(j)
    <2>1. new[1] = j
        BY <1>1
    <2> QED
        BY <1>1, <1>9, <2>1, HasSame DEF Tasks
<1>11. \A t \in Tasks(j) : Due(t)' = Due(t)
    BY <1>1, <1>9 DEF Due, Tasks
<1>12. Due(new)' = Upto(v, s - 1) + 1 .. Upto(v, s) /\ Due(new)' = Segment(v, s)
    <2>1. new[1] = j /\ new[2] = s
        BY <1>1
    <2> QED
        BY <1>1, <1>9, <2>1 DEF Due, Segment
<1>13. Has(j) \subseteq 1 .. Upto(v, s - 1)
    BY <1>1, <1>2, <1>5 DEF JobOk, PipeOk
<1>14. JobOk(j)'
    <2>1. FillOk(j)'
        BY <1>1, <1>2 DEF FillOk, Filler
    <2>2. TaskOk(j)'
        <3>1. \A t \in Tasks(j) : /\ t[2] \in 1 .. Len(Ends[v]) /\ writes'[t] \in Segment(v, t[2])
                                  /\ Has(j)' \cap Due(t)' = {}
            BY <1>1, <1>2, <1>9, <1>10, <1>11 DEF JobOk, TaskOk, Tasks
        <3>2. /\ new[2] \in 1 .. Len(Ends[v]) /\ writes'[new] \in Segment(v, new[2])
              /\ Has(j)' \cap Due(new)' = {}
            <4>1. new[2] = s
                BY <1>1
            <4>2. Has(j)' \cap Due(new)' = {}
                BY <1>5, <1>10, <1>12, <1>13
            <4>3. writes'[new] \in Segment(v, s)
                BY <1>5, <1>9 DEF Segment
            <4> QED
                BY <1>5, <4>1, <4>2, <4>3
        <3> QED
            BY <1>1, <1>10, <3>1, <3>2 DEF TaskOk
    <2>3. PipeOk(j)'
        <3>1. Has(j)' \subseteq 1 .. Upto(v, s)
            BY <1>5, <1>10, <1>13
        <3>2. \A t \in Tasks(j)' : t[2] <= s
            <4>1. \A t \in Tasks(j) : t[2] \in 1 .. Len(Ends[v])
                BY <1>1, <1>2 DEF JobOk, TaskOk
            <4>2. new[2] = s /\ Len(Ends[v]) \in Nat /\ pipe[j].heard \in Nat
                BY <1>1, <1>3, <1>4, UptoIs
            <4> QED
                BY <1>1, <1>5, <1>7, <1>10, <4>1, <4>2
        <3>3. s \in 0 .. Len(Ends[v])
            BY <1>5
        <3> QED
            BY <1>1, <1>6, <3>1, <3>2, <3>3 DEF PipeOk
    <2>4. SettledOk(j)'
        BY <1>1, <1>2 DEF SettledOk
    <2>5. TruthOk(j)'
        <3> SUFFICES ASSUME v \notin excused
                     PROVE  /\ jobs[j].status = StatusAt("hear")
                            /\ \A l \in 1 .. Upto(v, s) :
                                 l \in Has(j)' \/ \E t \in Tasks(j)' : l \in Due(t)'
            BY <1>1, <1>6 DEF TruthOk
        <3>1. jobs[j].status = StatusAt("hear")
            BY <1>1, PipeSays
        <3>2. \A l \in 1 .. Upto(v, s - 1) : l \in Has(j) \/ \E t \in Tasks(j) : l \in Due(t)
            BY <1>1, <1>2, <1>5 DEF JobOk, TruthOk
        <3>3. ASSUME NEW l \in 1 .. Upto(v, s)
              PROVE  l \in Has(j)' \/ \E t \in Tasks(j)' : l \in Due(t)'
            <4>1. CASE l \in 1 .. Upto(v, s - 1)
                BY <1>10, <1>11, <3>2, <4>1
            <4>2. CASE l \notin 1 .. Upto(v, s - 1)
                <5>1. l \in Upto(v, s - 1) + 1 .. Upto(v, s)
                    BY <1>5, <4>2
                <5>2. l \in Due(new)'
                    BY <1>12, <5>1
                <5> QED
                    BY <1>10, <5>2
            <4> QED
                BY <4>1, <4>2
        <3> QED
            BY <3>1, <3>3
    <2> QED
        BY <2>1, <2>2, <2>3, <2>4, <2>5 DEF JobOk
<1>15. TableTypes' /\ fails' \in Nat /\ fails' + boots <= MaxTrouble
    BY <1>1 DEF JobsInv, TableTypes, WorkTypes
<1>16. \A t \in DOMAIN writes' : t \in DOMAIN writes \/ t = <<j, t[2]>>
    BY <1>1, <1>9
<1> QED
    BY <1>1, <1>6, <1>9, <1>14, <1>15, <1>16, PipeStep

\* A row of a new line of a job: the others have what they had.
LEMMA InsertIs ==
    ASSUME TableTypes, NEW j \in DOMAIN jobs, NEW line \in Spoken(jobs[j].video),
           line \notin Has(j), Insert(j, line), UNCHANGED jobs
    PROVE  /\ TableTypes'
           /\ NextId(rows) \notin DOMAIN rows
           /\ \A i \in DOMAIN rows : i \in DOMAIN rows' /\ rows'[i] = rows[i]
           /\ \A k : RowsOf(k) \subseteq RowsOf(k)'
           /\ \A k : k # j => RowsOf(k)' = RowsOf(k) /\ Has(k)' = Has(k)
           /\ Has(j)' = Has(j) \cup {line}
<1>1. PICK n \in Nat : DOMAIN rows \subseteq 1 .. n
    BY DEF TableTypes
<1>2. PICK i : i = NextId(rows)
    OBVIOUS
<1>3. i \in 1 .. n + 1 /\ i \notin DOMAIN rows
    BY <1>1, <1>2, NextIdIs
<1>4. PICK row : row = [job |-> j, line |-> line]
    OBVIOUS
<1>5. rows' = With(rows, i, row)
    BY <1>2, <1>4 DEF Insert
<1>6. /\ DOMAIN rows' = DOMAIN rows \cup {i} /\ rows'[i] = row
      /\ \A k \in DOMAIN rows : rows'[k] = rows[k]
    BY <1>3, <1>5 DEF With
<1>7. row.job = j /\ row.line = line
    BY <1>4
<1>8. j \in Nat /\ line \in Nat
    <2>1. j \in Nat /\ jobs[j].video \in Videos
        BY JobIs
    <2> QED
        BY <2>1, UptoIs DEF Spoken
<1>9. \A k \in DOMAIN rows : rows[k] # row
    BY <1>7 DEF Has, RowsOf
<1>10. TableTypes'
    <2>1. row \in [job : Nat, line : Nat]
        BY <1>4, <1>8
    <2>2. \A k \in DOMAIN rows' :
            /\ rows'[k] \in [job : Nat, line : Nat]
            /\ rows'[k].job \in DOMAIN jobs
            /\ rows'[k].line \in Spoken(jobs[rows'[k].job].video)
        BY <1>6, <1>7, <2>1 DEF TableTypes
    <2>3. \A a, b \in DOMAIN rows' : rows'[a] = rows'[b] => a = b
        BY <1>6, <1>9 DEF TableTypes
    <2>4. n + 1 \in Nat /\ DOMAIN rows' \subseteq 1 .. n + 1
        BY <1>1, <1>3, <1>6
    <2> QED
        BY <2>2, <2>3, <2>4 DEF TableTypes
<1>11. \A k : RowsOf(k)' = IF k = j THEN RowsOf(k) \cup {i} ELSE RowsOf(k)
    BY <1>6, <1>7 DEF RowsOf
<1>12. \A k : k # j => Has(k)' = Has(k)
    BY <1>6, <1>11 DEF Has, RowsOf
<1>13. Has(j)' = Has(j) \cup {line}
    <2>1. \A l : l \in Has(j)' <=> \E k \in RowsOf(j)' : rows'[k].line = l
        BY DEF Has
    <2>2. \A l : l \in Has(j) <=> \E k \in RowsOf(j) : rows[k].line = l
        BY DEF Has
    <2>3. RowsOf(j)' = RowsOf(j) \cup {i} /\ RowsOf(j) \subseteq DOMAIN rows
        BY <1>11 DEF RowsOf
    <2> QED
        BY <1>6, <1>7, <2>1, <2>2, <2>3
<1> QED
    BY <1>2, <1>3, <1>6, <1>10, <1>11, <1>12, <1>13

\* A task has lines of its own segment to insert, and none of them is there.
LEMMA TaskIs ==
    ASSUME JobsInv, NEW t \in DOMAIN writes
    PROVE  /\ up /\ t[1] \in DOMAIN jobs /\ t = <<t[1], t[2]>> /\ t \in Tasks(t[1])
           /\ JobOk(t[1]) /\ jobs[t[1]].video \in Videos
           /\ t[2] \in 1 .. Len(Ends[jobs[t[1]].video])
           /\ writes[t] \in Segment(jobs[t[1]].video, t[2])
           /\ Has(t[1]) \cap Due(t) = {} /\ writes[t] \notin Has(t[1])
           /\ writes[t] \in Spoken(jobs[t[1]].video)
           /\ \A r \in Submitters : ~Filler(r, t[1])
<1>1. up /\ t[1] \in DOMAIN jobs /\ t = <<t[1], t[2]>> /\ t \in Tasks(t[1])
    BY DEF JobsInv, WorkTypes, DownIdle, Tasks
<1>2. JobOk(t[1]) /\ jobs[t[1]].video \in Videos
    BY <1>1, JobIs DEF JobsInv, JobsOk
<1> DEFINE v == jobs[t[1]].video
           h == t[2]
           n == Len(Ends[v])
<1>3. h \in 1 .. n /\ writes[t] \in Segment(v, h) /\ Has(t[1]) \cap Due(t) = {}
    BY <1>1, <1>2 DEF JobOk, TaskOk
<1>4. \A r \in Submitters : ~Filler(r, t[1])
    BY <1>1, <1>2 DEF JobOk, FillOk
<1>5. /\ n \in Nat /\ Upto(v, h) \in Nat /\ Upto(v, h - 1) \in Nat /\ Upto(v, n) \in Nat
      /\ Upto(v, h) <= Upto(v, n)
    <2>1. v \in Videos
        BY <1>2
    <2> HIDE DEF v
    <2>2. n \in Nat
        BY <2>1, UptoIs
    <2>3. h - 1 \in 0 .. n /\ h \in 0 .. n /\ n \in 0 .. n /\ h <= n
        BY <1>3, <2>2
    <2> HIDE DEF h
    <2>4. \A m \in 0 .. n : Upto(v, m) \in Nat
        BY <2>1, UptoIs
    <2>5. Upto(v, h) <= Upto(v, n)
        BY <2>1, <2>3, UptoRises
    <2> QED
        BY <2>2, <2>3, <2>4, <2>5
<1>6. writes[t] \in Upto(v, h - 1) + 1 .. Upto(v, h)
    BY <1>3 DEF Segment
<1> HIDE DEF v, h
<1>7. writes[t] \in Due(t) /\ writes[t] \in Spoken(v)
    BY <1>5, <1>6 DEF Due, Spoken, v, h
<1> QED
    BY <1>1, <1>2, <1>3, <1>4, <1>7 DEF v, h

\* The task inserts a line of its segment, and after the last it is over.
LEMMA InsertsKeeps ==
    ASSUME JobsInv, NEW t, Inserts(t)
    PROVE  JobsInv'
<1>1. PICK j, v, line :
        /\ t \in DOMAIN writes /\ j = t[1] /\ v = jobs[j].video /\ line = writes[t]
        /\ Insert(j, line)
        /\ writes' = IF line = Ends[v][t[2]] THEN Without(writes, {t})
                     ELSE [writes EXCEPT ![t] = @ + 1]
        /\ UNCHANGED <<jobs, primers, files, up, boots, leftover, sub, pipe, view, fails, excused>>
    BY DEF Inserts, Sound, machine
<1>2. /\ up /\ j \in DOMAIN jobs /\ t = <<j, t[2]>> /\ t \in Tasks(j)
      /\ JobOk(j) /\ v \in Videos /\ t[2] \in 1 .. Len(Ends[v])
      /\ line \in Segment(v, t[2])
      /\ Has(j) \cap Due(t) = {} /\ line \notin Has(j) /\ line \in Spoken(v)
      /\ \A r \in Submitters : ~Filler(r, j)
    BY <1>1, TaskIs
<1>3. /\ TableTypes' /\ \A k : k # j => Has(k)' = Has(k)
      /\ Has(j)' = Has(j) \cup {line}
    <2>1. TableTypes /\ line \in Spoken(jobs[j].video) /\ UNCHANGED jobs
        BY <1>1, <1>2 DEF JobsInv
    <2> QED
        BY <1>1, <1>2, <2>1, InsertIs
<1>4. /\ Upto(v, t[2]) = Ends[v][t[2]] /\ Upto(v, t[2]) \in Nat /\ Upto(v, t[2] - 1) \in Nat
      /\ line \in Upto(v, t[2] - 1) + 1 .. Upto(v, t[2])
      /\ line \in Nat /\ Due(t) = line .. Upto(v, t[2])
    <2>1. /\ Len(Ends[v]) \in Nat
          /\ \A h \in 0 .. Len(Ends[v]) : Upto(v, h) \in Nat
          /\ Upto(v, t[2]) = Ends[v][t[2]]
        BY <1>2, UptoIs
    <2>2. t[2] \in 0 .. Len(Ends[v]) /\ t[2] - 1 \in 0 .. Len(Ends[v])
        BY <1>2, <2>1
    <2> QED
        BY <1>1, <1>2, <2>1, <2>2 DEF Segment, Due
\* What becomes of the task.
<1>5. /\ DOMAIN writes' \subseteq DOMAIN writes /\ DOMAIN writes \ {t} \subseteq DOMAIN writes'
      /\ \A u \in DOMAIN writes \ {t} : writes'[u] = writes[u]
      /\ t \in DOMAIN writes' => /\ line # Upto(v, t[2]) /\ writes'[t] = line + 1
      /\ t \notin DOMAIN writes' => line = Upto(v, t[2])
    <2>1. CASE line = Upto(v, t[2])
        <3>1. writes' = Without(writes, {t})
            BY <1>1, <1>4, <2>1
        <3> QED
            BY <2>1, <3>1 DEF Without
    <2>2. CASE line # Upto(v, t[2])
        <3>1. writes' = [writes EXCEPT ![t] = @ + 1]
            BY <1>1, <1>4, <2>2
        <3> QED
            BY <1>1, <2>2, <3>1
    <2> QED
        BY <2>1, <2>2
<1>6. Tasks(j)' \subseteq Tasks(j) /\ Tasks(j) \ {t} \subseteq Tasks(j)'
    BY <1>5 DEF Tasks
<1>7. \A u \in Tasks(j) \ {t} : Due(u)' = Due(u)
    BY <1>1, <1>5 DEF Due, Tasks
<1>8. t \in DOMAIN writes' => Due(t)' = line + 1 .. Upto(v, t[2])
    BY <1>1, <1>5 DEF Due
<1>9. Due(t) = {line} \cup (IF t \in DOMAIN writes' THEN Due(t)' ELSE {})
    BY <1>4, <1>5, <1>8
\* The other tasks are about other segments.
<1>10. ASSUME NEW u \in Tasks(j), u # t PROVE line \notin Due(u)
    <2>1. u = <<j, u[2]>> /\ u[2] \in 1 .. Len(Ends[v]) /\ writes[u] \in Segment(v, u[2])
        BY <1>1, <1>2 DEF JobOk, TaskOk, Tasks, JobsInv, WorkTypes
    <2>2. u[2] # t[2]
        <3>1. u[2] = t[2] => <<j, u[2]>> = <<j, t[2]>>
            OBVIOUS
        <3> QED
            BY <1>2, <1>10, <2>1, <3>1, Zenon
    <2>3. line \notin Segment(v, u[2])
        BY <1>2, <2>1, <2>2, SegmentsApart
    <2>4. Upto(v, u[2]) \in Nat /\ Upto(v, u[2] - 1) \in Nat
        <3>1. Len(Ends[v]) \in Nat
            BY <1>2, UptoIs
        <3>2. u[2] - 1 \in 0 .. Len(Ends[v]) /\ u[2] \in 0 .. Len(Ends[v])
            BY <2>1, <3>1
        <3> QED
            BY <1>2, <3>2, UptoIs
    <2>5. Due(u) = writes[u] .. Upto(v, u[2])
        BY <1>1 DEF Due, Tasks
    <2> QED
        BY <1>4, <2>1, <2>3, <2>4, <2>5 DEF Segment
<1>11. JobOk(j)'
    <2>1. FillOk(j)'
        BY <1>1, <1>2 DEF FillOk, Filler
    <2>2. TaskOk(j)'
        <3> SUFFICES ASSUME NEW u \in Tasks(j)'
                     PROVE  /\ u[2] \in 1 .. Len(Ends[v]) /\ writes'[u] \in Segment(v, u[2])
                            /\ Has(j)' \cap Due(u)' = {}
            BY <1>1 DEF TaskOk
        <3>1. CASE u = t
            <4>1. t \in DOMAIN writes'
                BY <3>1 DEF Tasks
            <4>2. writes'[t] \in Segment(v, t[2])
                BY <1>4, <1>5, <4>1 DEF Segment
            <4>3. Has(j)' \cap Due(t)' = {}
                <5>1. Due(t)' \subseteq Due(t) /\ line \notin Due(t)'
                    BY <1>4, <1>8, <1>9, <4>1
                <5> QED
                    BY <1>2, <1>3, <5>1
            <4> QED
                BY <1>2, <3>1, <4>2, <4>3
        <3>2. CASE u # t
            <4>1. u \in Tasks(j)
                BY <1>6
            <4>2. /\ u[2] \in 1 .. Len(Ends[v]) /\ writes[u] \in Segment(v, u[2])
                  /\ Has(j) \cap Due(u) = {}
                BY <1>1, <1>2, <4>1 DEF JobOk, TaskOk
            <4>3. writes'[u] = writes[u] /\ Due(u)' = Due(u)
                BY <1>5, <1>7, <3>2, <4>1 DEF Tasks
            <4> QED
                BY <1>3, <1>10, <3>2, <4>1, <4>2, <4>3
        <3> QED
            BY <3>1, <3>2
    <2>3. PipeOk(j)'
        <3> SUFFICES ASSUME j \in DOMAIN pipe PROVE PipeOk(j)'
            BY <1>1 DEF PipeOk
        <3> DEFINE heard == pipe[j].heard
        <3>1. /\ heard \in 0 .. Len(Ends[v]) /\ Has(j) \subseteq 1 .. Upto(v, heard)
              /\ \A u \in Tasks(j) : u[2] <= heard
              /\ pipe[j].pc \in {"begin", "audio", "start"} => heard = 0
              /\ pipe[j].pc \notin {"film", "finish"}
            BY <1>1, <1>2 DEF JobOk, PipeOk
        <3>2. Upto(v, t[2]) <= Upto(v, heard) /\ Upto(v, heard) \in Nat
            <4> HIDE DEF heard
            <4>1. t[2] <= heard /\ t[2] \in 0 .. Len(Ends[v])
                BY <1>2, <3>1
            <4> QED
                BY <1>2, <3>1, <4>1, UptoRises, UptoIs
        <3>3. Has(j)' \subseteq 1 .. Upto(v, heard)
            <4>1. line \in 1 .. Upto(v, heard)
                BY <1>4, <3>2
            <4> QED
                BY <1>3, <3>1, <4>1
        <3> QED
            BY <1>1, <1>6, <3>1, <3>3 DEF PipeOk
    <2>4. SettledOk(j)'
        BY <1>1, <1>2 DEF JobOk, SettledOk
    <2>5. TruthOk(j)'
        <3> SUFFICES ASSUME j \in DOMAIN pipe, v \notin excused,
                            NEW l \in 1 .. Upto(v, pipe[j].heard)
                     PROVE  l \in Has(j)' \/ \E u \in Tasks(j)' : l \in Due(u)'
            BY <1>1, <1>2 DEF JobOk, TruthOk
        <3>1. l \in Has(j) \/ \E u \in Tasks(j) : l \in Due(u)
            BY <1>1, <1>2 DEF JobOk, TruthOk
        <3>2. CASE l \in Has(j)
            BY <1>3, <3>2
        <3>3. CASE l \in Due(t)
            <4>1. CASE l = line
                BY <1>3, <4>1
            <4>2. CASE t \in DOMAIN writes' /\ l \in Due(t)'
                <5>1. t \in Tasks(j)'
                    BY <1>1, <4>2 DEF Tasks
                <5> QED
                    BY <4>2, <5>1
            <4> QED
                BY <1>9, <3>3, <4>1, <4>2
        <3>4. CASE \E u \in Tasks(j) \ {t} : l \in Due(u)
            BY <1>6, <1>7, <3>4
        <3> QED
            BY <3>1, <3>2, <3>3, <3>4
    <2> QED
        BY <2>1, <2>2, <2>3, <2>4, <2>5 DEF JobOk
<1>12. ASSUME NEW k \in DOMAIN jobs \ {j} PROVE Kept(k)
    <2>1. \A u \in Tasks(k) : u # t
        BY <1>1 DEF Tasks
    <2>2. Tasks(k)' = Tasks(k) /\ \A u \in Tasks(k) : writes'[u] = writes[u]
        BY <1>5, <2>1, <1>1 DEF Tasks
    <2>3. Has(k)' = Has(k)
        BY <1>3
    <2> QED
        BY <1>1, <2>2, <2>3 DEF Kept, Filler
<1>13. WorkTypes'
    BY <1>1, <1>5 DEF JobsInv, WorkTypes
<1>14. SideTypes'
    BY <1>1 DEF JobsInv, SideTypes
<1> QED
    BY <1>1, <1>2, <1>3, <1>11, <1>12, <1>13, <1>14, JobStep

\* A line is lost, and the task ends: it is counted.
LEMMA InsertFailsKeeps ==
    ASSUME JobsInv, NEW t, InsertFails(t)
    PROVE  JobsInv'
<1>1. PICK j, v :
        /\ t \in DOMAIN writes /\ j = t[1] /\ v = jobs[j].video
        /\ excused' = excused \cup {v} /\ fails' = fails + 1 /\ fails + boots < MaxTrouble
        /\ writes' = Without(writes, {t})
        /\ UNCHANGED <<jobs, rows, primers, files, up, boots, leftover, sub, pipe, view>>
    BY DEF InsertFails, Lost, tables, machine
<1>2. /\ up /\ j \in DOMAIN jobs /\ t \in Tasks(j) /\ JobOk(j)
      /\ \A r \in Submitters : ~Filler(r, j)
    BY <1>1, TaskIs
<1>3. DOMAIN writes' = DOMAIN writes \ {t} /\ \A u \in DOMAIN writes \ {t} : writes'[u] = writes[u]
    BY <1>1 DEF Without
<1>4. \A k : Tasks(k)' = Tasks(k) \ {t} /\ Has(k)' = Has(k)
    BY <1>1, <1>3, HasSame DEF Tasks
<1>5. \A k : \A u \in Tasks(k) \ {t} : writes'[u] = writes[u] /\ Due(u)' = Due(u)
    BY <1>1, <1>3 DEF Tasks, Due
<1>6. JobOk(j)'
    <2>1. FillOk(j)'
        BY <1>1, <1>2 DEF FillOk, Filler
    <2>2. TaskOk(j)'
        BY <1>1, <1>2, <1>4, <1>5 DEF JobOk, TaskOk
    <2>3. PipeOk(j)' /\ SettledOk(j)'
        BY <1>1, <1>2, <1>4 DEF JobOk, PipeOk, SettledOk
    <2>4. TruthOk(j)'
        BY <1>1 DEF TruthOk
    <2> QED
        BY <2>1, <2>2, <2>3, <2>4 DEF JobOk
<1>7. ASSUME NEW k \in DOMAIN jobs \ {j} PROVE Kept(k)
    <2>1. t \notin Tasks(k)
        BY <1>1 DEF Tasks
    <2> QED
        BY <1>1, <1>4, <1>5, <2>1 DEF Kept, Filler
<1>8. TableTypes' /\ SideTypes'
    BY <1>1 DEF JobsInv, TableTypes, SideTypes
<1>9. WorkTypes'
    <2>1. fails' \in Nat /\ fails' + boots <= MaxTrouble
        BY <1>1, BoundsAssumption DEF JobsInv, WorkTypes
    <2>2. \A u \in DOMAIN writes' : u = <<u[1], u[2]>> /\ u[1] \in DOMAIN jobs
        BY <1>3 DEF JobsInv, WorkTypes
    <2> QED
        BY <1>1, <2>1, <2>2 DEF JobsInv, WorkTypes
<1> QED
    BY <1>1, <1>2, <1>6, <1>7, <1>8, <1>9, JobStep

---------------------------------------------------------------------------
(* The requests that submit.                                               *)

\* A step that touches no job.
LEMMA NoJobStep ==
    ASSUME JobsInv, UNCHANGED <<jobs, rows, pipe, writes>>,
           WorkTypes', SideTypes', DownIdle', excused \subseteq excused',
           \A r \in Submitters : \/ sub'[r] = sub[r]
                                 \/ sub'[r].pc = "rest"
    PROVE  JobsInv'
<1>1. TableTypes'
    BY DEF JobsInv, TableTypes
<1>2. ASSUME NEW k \in DOMAIN jobs PROVE Kept(k)
    <2>1. Has(k)' = Has(k) /\ Tasks(k)' = Tasks(k)
        BY HasSame DEF Tasks
    <2> QED
        BY <2>1 DEF Kept, Filler
<1>3. PICK touched : touched = {}
    OBVIOUS
<1>4. /\ \A k \in DOMAIN jobs \ touched : Kept(k)
      /\ ~ \E k \in DOMAIN jobs \cap touched : TRUE
      /\ \A r \in Submitters : sub'[r].pc = "create" => sub[r] = sub'[r]
    BY <1>2, <1>3
<1> QED
    BY <1>1, <1>4, JobsStep

\* Whoever submits a video twice at once makes two jobs of it.
LEMMA SubmitKeeps ==
    ASSUME JobsInv, NEW r \in Submitters, NEW v \in Videos, Submit(r, v)
    PROVE  JobsInv'
<1>1. /\ up /\ sub[r].pc = "rest" /\ Unfailed(v) = {}
      /\ sub' = [sub EXCEPT ![r] = [@ EXCEPT !.pc = "create", !.video = v]]
      /\ excused' = IF \E q \in Submitters : sub[q].pc = "create" /\ sub[q].video = v
                    THEN excused \cup {v} ELSE excused
      /\ UNCHANGED <<jobs, rows, primers, files, up, boots, leftover, pipe, writes, view, fails>>
    BY DEF Submit, tables, machine
<1>2. sub[r] \in [pc : SubPCs, video : Videos \cup {"none"}, job : Nat, next : Nat]
    BY DEF JobsInv, WorkTypes
<1>3. /\ sub'[r] \in [pc : SubPCs, video : Videos \cup {"none"}, job : Nat, next : Nat]
      /\ sub'[r].pc = "create" /\ sub'[r].video = v
      /\ \A q \in Submitters : q # r => sub'[q] = sub[q]
      /\ DOMAIN sub' = Submitters
    BY <1>1, <1>2 DEF JobsInv, WorkTypes, SubPCs
<1>4. TableTypes' /\ SideTypes' /\ DownIdle'
    BY <1>1 DEF JobsInv, TableTypes, SideTypes, DownIdle
<1>5. WorkTypes'
    <2>1. sub' \in [Submitters -> [pc : SubPCs, video : Videos \cup {"none"}, job : Nat, next : Nat]]
        BY <1>1, <1>3 DEF JobsInv, WorkTypes
    <2>2. \A q \in Submitters :
            /\ sub'[q].pc # "rest" => sub'[q].video \in Videos
            /\ sub'[q].pc \in {"media", "fill"} => sub'[q].job \in DOMAIN jobs
        BY <1>3 DEF JobsInv, WorkTypes
    <2> QED
        BY <1>1, <2>1, <2>2 DEF JobsInv, WorkTypes
<1>6. JobsOk'
    <2> SUFFICES ASSUME NEW k \in DOMAIN jobs PROVE JobOk(k)'
        BY <1>1 DEF JobsOk
    <2>1. Has(k)' = Has(k) /\ Tasks(k)' = Tasks(k)
        BY <1>1, HasSame DEF Tasks
    <2>2. Kept(k)
        BY <1>1, <1>3, <2>1 DEF Kept, Filler
    <2> QED
        BY <1>1, <2>2, KeptOk DEF JobsInv, JobsOk
<1>7. LatestLives'
    BY <1>1 DEF JobsInv, LatestLives
<1>8. OneCreates'
    <2> SUFFICES ASSUME NEW q \in Submitters, sub'[q].pc = "create", sub'[q].video \notin excused'
                 PROVE  /\ Unfailed(sub'[q].video) = {}
                        /\ \A p \in Submitters :
                             sub'[p].pc = "create" /\ sub'[p].video = sub'[q].video => p = q
        BY <1>1 DEF OneCreates, Unfailed, JobsOf
    <2>1. CASE sub'[q].video = v
        <3>1. \A p \in Submitters : ~(sub[p].pc = "create" /\ sub[p].video = v)
            BY <1>1, <2>1
        <3> QED
            BY <1>1, <1>3, <2>1, <3>1
    <2>2. CASE sub'[q].video # v
        <3>1. q # r /\ sub'[q] = sub[q] /\ sub[q].video \notin excused
            BY <1>1, <1>3, <2>2
        <3> QED
            BY <1>3, <2>2, <3>1 DEF JobsInv, OneCreates
    <2> QED
        BY <2>1, <2>2
<1> QED
    BY <1>4, <1>5, <1>6, <1>7, <1>8 DEF JobsInv

\* A job of a video that has none but failed ones.
LEMMA CreateKeeps ==
    ASSUME JobsInv, NEW r \in Submitters, Create(r)
    PROVE  JobsInv'
<1>1. PICK j, v, row :
        /\ j = NextId(jobs) /\ v = sub[r].video /\ j \in 1 .. MaxJobs
        /\ sub[r].pc = "create"
        /\ row = [video |-> v, status |-> "pending", media |-> {}]
        /\ jobs' = With(jobs, j, row)
        /\ \/ /\ UNCHANGED pipe
              /\ sub' = [sub EXCEPT ![r] = [@ EXCEPT !.pc = "media", !.job = j, !.next = 1]]
           \/ /\ sub' = [sub EXCEPT ![r] = NoSub]
              /\ pipe' = With(pipe, j, [pc |-> "begin", heard |-> 0])
        /\ UNCHANGED <<rows, primers, files, up, boots, leftover, writes, view, fails, excused>>
    BY DEF Create, machine
<1>2. j \in Nat /\ j \notin DOMAIN jobs /\ \A k \in DOMAIN jobs : k < j
    BY <1>1, NextIdIs, BoundsAssumption DEF JobsInv, TableTypes
<1>3. up /\ v \in Videos
    BY <1>1 DEF JobsInv, WorkTypes, DownIdle
<1>4. /\ DOMAIN jobs' = DOMAIN jobs \cup {j} /\ jobs'[j] = row
      /\ \A k \in DOMAIN jobs : jobs'[k] = jobs[k]
    BY <1>1, <1>2 DEF With
<1>5. /\ row \in [video : Videos, status : Live \cup {"done", "error"}, media : SUBSET {"audio", "film"}]
      /\ row.video = v /\ row.status = "pending"
    BY <1>1, <1>3 DEF Live
<1>6. TableTypes'
    <2>1. DOMAIN jobs' \subseteq 1 .. MaxJobs
        BY <1>1, <1>4 DEF JobsInv, TableTypes
    <2>2. \A k \in DOMAIN jobs' :
            jobs'[k] \in [video : Videos, status : Live \cup {"done", "error"},
                         media : SUBSET {"audio", "film"}]
        BY <1>4, <1>5 DEF JobsInv, TableTypes
    <2>3. \A i \in DOMAIN rows' :
            /\ rows'[i] \in [job : Nat, line : Nat]
            /\ rows'[i].job \in DOMAIN jobs'
            /\ rows'[i].line \in Spoken(jobs'[rows'[i].job].video)
        BY <1>1, <1>4 DEF JobsInv, TableTypes
    <2> QED
        BY <1>1, <2>1, <2>2, <2>3 DEF JobsInv, TableTypes
<1>7. /\ Has(j)' = {} /\ Tasks(j)' = {}
      /\ j \notin DOMAIN pipe
      /\ \A q \in Submitters : ~Filler(q, j)
    <2>1. RowsOf(j)' = {}
        BY <1>1, <1>2 DEF RowsOf, JobsInv, TableTypes
    <2>2. Tasks(j)' = {}
        BY <1>1, <1>2 DEF Tasks, JobsInv, WorkTypes
    <2> QED
        BY <1>2, <2>1, <2>2 DEF Has, Filler, JobsInv, WorkTypes
<1>8. sub[r] \in [pc : SubPCs, video : Videos \cup {"none"}, job : Nat, next : Nat]
    BY DEF JobsInv, WorkTypes
\* It is filled in by the request, or handed to a task.
<1>9. \/ /\ sub'[r].pc = "media" /\ sub'[r].video = v /\ sub'[r].job = j /\ sub'[r].next = 1
         /\ UNCHANGED pipe
      \/ /\ sub'[r] = NoSub
         /\ DOMAIN pipe' = DOMAIN pipe \cup {j} /\ pipe'[j] = [pc |-> "begin", heard |-> 0]
         /\ \A k \in DOMAIN pipe : pipe'[k] = pipe[k]
    <2>1. DOMAIN sub = Submitters
        BY DEF JobsInv, WorkTypes
    <2>2. CASE sub' = [sub EXCEPT ![r] = [@ EXCEPT !.pc = "media", !.job = j, !.next = 1]] /\ UNCHANGED pipe
        BY <1>1, <1>8, <2>1, <2>2
    <2>3. CASE sub' = [sub EXCEPT ![r] = NoSub] /\ pipe' = With(pipe, j, [pc |-> "begin", heard |-> 0])
        <3>1. PICK new : new = [pc |-> "begin", heard |-> 0]
            OBVIOUS
        <3>2. DOMAIN pipe' = DOMAIN pipe \cup {j} /\ pipe'[j] = new
              /\ \A k \in DOMAIN pipe : pipe'[k] = pipe[k]
            BY <1>7, <2>3, <3>1 DEF With
        <3>3. sub'[r] = NoSub
            BY <2>1, <2>3
        <3> QED
            BY <3>1, <3>2, <3>3
    <2> QED
        BY <1>1, <2>2, <2>3
<1>10. \A q \in Submitters : q # r => sub'[q] = sub[q]
    BY <1>1 DEF JobsInv, WorkTypes
<1>11. WorkTypes'
    <2>1. sub'[r] \in [pc : SubPCs, video : Videos \cup {"none"}, job : Nat, next : Nat]
        <3>1. CASE sub' = [sub EXCEPT ![r] = [@ EXCEPT !.pc = "media", !.job = j, !.next = 1]]
            BY <1>2, <1>8, <3>1 DEF SubPCs, JobsInv, WorkTypes
        <3>2. CASE sub' = [sub EXCEPT ![r] = NoSub]
            BY <3>2 DEF NoSub, SubPCs, JobsInv, WorkTypes
        <3> QED
            BY <1>1, <3>1, <3>2
    <2>2. sub' \in [Submitters -> [pc : SubPCs, video : Videos \cup {"none"}, job : Nat, next : Nat]]
        BY <1>1, <1>10, <2>1 DEF JobsInv, WorkTypes
    <2>3. \A q \in Submitters :
            /\ sub'[q].pc # "rest" => sub'[q].video \in Videos
            /\ sub'[q].pc \in {"media", "fill"} => sub'[q].job \in DOMAIN jobs'
        BY <1>3, <1>4, <1>9, <1>10 DEF JobsInv, WorkTypes, NoSub
    <2>4. DOMAIN pipe' \subseteq DOMAIN jobs' /\ \A k \in DOMAIN pipe' : pipe'[k] \in [pc : PipePCs, heard : Nat]
        BY <1>4, <1>9 DEF JobsInv, WorkTypes, PipePCs
    <2>5. \A t \in DOMAIN writes' : t = <<t[1], t[2]>> /\ t[1] \in DOMAIN jobs'
        BY <1>1, <1>4 DEF JobsInv, WorkTypes
    <2> QED
        BY <1>1, <2>2, <2>3, <2>4, <2>5 DEF JobsInv, WorkTypes
<1>12. SideTypes' /\ DownIdle'
    BY <1>1, <1>3, <1>4 DEF JobsInv, SideTypes, DownIdle
<1>13. JobOk(j)'
    <2>1. \A q \in Submitters : Filler(q, j)' => q = r /\ sub'[r].pc = "media"
        BY <1>7, <1>9, <1>10 DEF Filler, NoSub
    <2>2. FillOk(j)'
        BY <1>4, <1>5, <1>7, <1>9, <2>1 DEF FillOk, Filler, NoSub
    <2>3. TaskOk(j)' /\ SettledOk(j)'
        BY <1>4, <1>5, <1>7 DEF TaskOk, SettledOk
    <2>4. j \in DOMAIN pipe' => pipe'[j].pc = "begin" /\ pipe'[j].heard = 0
        BY <1>7, <1>9
    <2>5. Upto(v, 0) = 0 /\ Len(Ends[v]) \in Nat
        BY <1>3, UptoIs DEF Upto
    <2>6. PipeOk(j)'
        BY <1>4, <1>5, <1>7, <2>4, <2>5 DEF PipeOk
    <2>7. TruthOk(j)'
        BY <1>4, <1>5, <2>4, <2>5 DEF TruthOk, StatusAt
    <2> QED
        BY <2>2, <2>3, <2>6, <2>7 DEF JobOk
<1>14. ASSUME NEW k \in DOMAIN jobs PROVE JobOk(k)'
    <2>1. Has(k)' = Has(k) /\ Tasks(k)' = Tasks(k)
        BY <1>1, HasSame DEF Tasks
    <2>2. k # j
        BY <1>2
    <2>3. \A q \in Submitters : Filler(q, k)' => Filler(q, k) /\ sub'[q] = sub[q]
        BY <1>9, <1>10, <2>2 DEF Filler, NoSub
    <2>4. (k \in DOMAIN pipe' <=> k \in DOMAIN pipe) /\ (k \in DOMAIN pipe => pipe'[k] = pipe[k])
        BY <1>9, <2>2
    <2>5. Kept(k)
        BY <1>1, <1>4, <2>1, <2>3, <2>4 DEF Kept
    <2> QED
        BY <1>1, <2>5, KeptOk DEF JobsInv, JobsOk
<1>15. v \notin excused => \A k \in DOMAIN jobs : jobs[k].video = v => jobs[k].status = "error"
    BY <1>1 DEF JobsInv, OneCreates, Unfailed, JobsOf
<1>16. LatestLives'
    <2> SUFFICES ASSUME NEW a \in DOMAIN jobs', NEW b \in DOMAIN jobs', a < b,
                        jobs'[a].video = jobs'[b].video, jobs'[a].video \notin excused
                 PROVE  jobs'[a].status = "error"
        BY <1>1 DEF LatestLives
    <2>1. a # j
        BY <1>2, <1>4, BoundsAssumption DEF JobsInv, TableTypes
    <2> QED
        BY <1>4, <1>5, <1>15, <2>1 DEF JobsInv, LatestLives
<1>17. OneCreates'
    <2> SUFFICES ASSUME NEW q \in Submitters, sub'[q].pc = "create", sub'[q].video \notin excused
                 PROVE  /\ Unfailed(sub[q].video)' = {}
                        /\ \A p \in Submitters :
                             sub'[p].pc = "create" /\ sub'[p].video = sub'[q].video => p = q
        BY <1>1, <1>9, <1>10 DEF OneCreates, NoSub
    <2>1. q # r /\ sub'[q] = sub[q] /\ \A p \in Submitters : sub'[p].pc = "create" => sub'[p] = sub[p]
        BY <1>9, <1>10 DEF NoSub
    <2>2. /\ Unfailed(sub[q].video) = {}
          /\ \A p \in Submitters : sub[p].pc = "create" /\ sub[p].video = sub[q].video => p = q
        BY <2>1 DEF JobsInv, OneCreates
    <2>3. sub[q].video # v
        BY <1>1, <2>1, <2>2
    <2>4. \A k \in DOMAIN jobs : jobs[k].video = sub[q].video => jobs[k].status = "error"
        BY <2>2 DEF Unfailed, JobsOf
    <2>5. \A k \in DOMAIN jobs' : jobs'[k].video = sub'[q].video => jobs'[k].status = "error"
        BY <1>4, <1>5, <2>1, <2>3, <2>4
    <2> QED
        BY <2>1, <2>2, <2>5 DEF Unfailed, JobsOf
<1> QED
    BY <1>4, <1>6, <1>11, <1>12, <1>13, <1>14, <1>16, <1>17 DEF JobsInv, JobsOk

\* The request that fills a job in from subtitles is alone with it.
LEMMA FillerIs ==
    ASSUME JobsInv, NEW r \in Submitters, sub[r].pc \in {"media", "fill"}
    PROVE  /\ up /\ sub[r].job \in DOMAIN jobs /\ JobOk(sub[r].job)
           /\ sub[r].video \in Videos /\ jobs[sub[r].job].video = sub[r].video
           /\ jobs[sub[r].job].status = "pending"
           /\ sub[r].job \notin DOMAIN pipe /\ Tasks(sub[r].job) = {}
           /\ Has(sub[r].job) = 1 .. sub[r].next - 1
           /\ sub[r].next \in Nat /\ sub[r].next > 0
           /\ sub[r].pc = "fill" => "film" \in jobs[sub[r].job].media
           /\ \A q \in Submitters : Filler(q, sub[r].job) => q = r
<1>1. up /\ sub[r].job \in DOMAIN jobs /\ sub[r].next \in Nat /\ sub[r].video \in Videos
    BY DEF JobsInv, WorkTypes, DownIdle
<1>2. JobOk(sub[r].job)
    BY <1>1 DEF JobsInv, JobsOk
<1> QED
    BY <1>1, <1>2 DEF JobOk, FillOk, Filler

\* What a step of that request has to show.
LEMMA FillStep ==
    ASSUME JobsInv, NEW r \in Submitters, NEW j,
           sub[r].pc \in {"media", "fill"}, j = sub[r].job,
           TableTypes', DOMAIN jobs' = DOMAIN jobs,
           \A k \in DOMAIN jobs \ {j} : jobs'[k] = jobs[k],
           jobs'[j].video = jobs[j].video, jobs'[j].status # "error",
           \A k : k # j => Has(k)' = Has(k),
           sub' \in [Submitters -> [pc : SubPCs, video : Videos \cup {"none"}, job : Nat, next : Nat]],
           \A q \in Submitters : q # r => sub'[q] = sub[q],
           sub'[r].pc \in {"rest", "fill"},
           sub'[r].pc = "fill" =>
              /\ sub'[r].job = j /\ sub'[r].video = sub[r].video
              /\ jobs'[j].status = "pending" /\ "film" \in jobs'[j].media
              /\ sub'[r].next > 0 /\ Has(j)' = 1 .. sub'[r].next - 1,
           UNCHANGED <<primers, files, up, boots, leftover, pipe, writes, view, fails, excused>>
    PROVE  JobsInv'
<1>1. /\ up /\ j \in DOMAIN jobs /\ JobOk(j) /\ sub[r].video = jobs[j].video /\ sub[r].video \in Videos
      /\ j \notin DOMAIN pipe /\ Tasks(j) = {} /\ jobs[j].status = "pending"
      /\ \A q \in Submitters : Filler(q, j) => q = r
    BY FillerIs
<1>2. sub'[r].pc \in {"rest", "fill"}
    OBVIOUS
<1>3. WorkTypes'
    <2>3. \A q \in Submitters :
            /\ sub'[q].pc # "rest" => sub'[q].video \in Videos
            /\ sub'[q].pc \in {"media", "fill"} => sub'[q].job \in DOMAIN jobs
        BY <1>1, <1>2 DEF JobsInv, WorkTypes
    <2> QED
        BY <2>3 DEF JobsInv, WorkTypes
<1>4. SideTypes'
    BY DEF JobsInv, SideTypes
<1>5. JobOk(j)'
    <2>1. Tasks(j)' = {} /\ j \notin DOMAIN pipe'
        BY <1>1 DEF Tasks
    <2>2. \A q \in Submitters : Filler(q, j)' => q = r /\ sub'[r].pc = "fill"
        BY <1>1, <1>2 DEF Filler
    <2>3. FillOk(j)'
        BY <1>1, <2>1, <2>2 DEF FillOk
    <2> QED
        BY <2>1, <2>3 DEF JobOk, TaskOk, PipeOk, SettledOk, TruthOk
<1>6. ASSUME NEW k \in DOMAIN jobs \ {j} PROVE Kept(k)
    <2>1. Tasks(k)' = Tasks(k) /\ \A t \in Tasks(k) : writes'[t] = writes[t]
        BY DEF Tasks
    <2>2. \A q \in Submitters : Filler(q, k)' => Filler(q, k) /\ sub'[q] = sub[q]
        BY <1>2 DEF Filler
    <2> QED
        BY <2>1, <2>2 DEF Kept
<1>7. \A q \in Submitters : sub'[q].pc = "create" => sub[q] = sub'[q]
    BY <1>2
<1> QED
    BY <1>1, <1>3, <1>4, <1>5, <1>6, <1>7, JobStep

\* The subtitles are filled in line by line, and then the job is done.
LEMMA FillsKeeps ==
    ASSUME JobsInv, NEW r \in Submitters, Fills(r)
    PROVE  JobsInv'
<1>1. PICK j : j = sub[r].job
    OBVIOUS
<1>2. /\ sub[r].pc \in {"media", "fill"}
      /\ UNCHANGED <<primers, files, up, boots, leftover, pipe, writes, view, fails, excused>>
    BY DEF Fills, machine
<1>3. /\ j \in DOMAIN jobs /\ sub[r].video \in Videos /\ jobs[j].video = sub[r].video
      /\ jobs[j].status = "pending"
      /\ Has(j) = 1 .. sub[r].next - 1 /\ sub[r].next \in Nat /\ sub[r].next > 0
      /\ sub[r].pc = "fill" => "film" \in jobs[j].media
    BY <1>1, <1>2, FillerIs
<1>4. /\ TableTypes
      /\ sub \in [Submitters -> [pc : SubPCs, video : Videos \cup {"none"}, job : Nat, next : Nat]]
      /\ sub[r] \in [pc : SubPCs, video : Videos \cup {"none"}, job : Nat, next : Nat]
    BY DEF JobsInv, WorkTypes
<1>5. CASE /\ sub[r].pc = "media" /\ UNCHANGED rows
           /\ jobs' = [jobs EXCEPT ![j].media = {"audio", "film"}]
           /\ sub' = [sub EXCEPT ![r].pc = "fill"]
    <2>1. PICK row : row = [video |-> jobs[j].video, status |-> jobs[j].status, media |-> {"audio", "film"}]
        OBVIOUS
    <2>2. jobs' = [jobs EXCEPT ![j] = row]
        <3>1. {"audio", "film"} \in SUBSET {"audio", "film"}
            OBVIOUS
        <3>2. [jobs[j] EXCEPT !.media = {"audio", "film"}] = row
            BY <1>3, <1>4, <2>1, <3>1, JobIs
        <3>3. [jobs EXCEPT ![j].media = {"audio", "film"}]
                = [jobs EXCEPT ![j] = [jobs[j] EXCEPT !.media = {"audio", "film"}]]
            OBVIOUS
        <3> QED
            BY <1>5, <3>2, <3>3
    <2>3. /\ DOMAIN jobs' = DOMAIN jobs /\ jobs'[j] = row
          /\ \A k \in DOMAIN jobs \ {j} : jobs'[k] = jobs[k]
          /\ row.video = jobs[j].video /\ row.status = "pending" /\ "film" \in row.media
        BY <1>3, <2>1, <2>2
    <2>4. /\ sub' \in [Submitters -> [pc : SubPCs, video : Videos \cup {"none"}, job : Nat, next : Nat]]
          /\ \A q \in Submitters : q # r => sub'[q] = sub[q]
          /\ sub'[r].pc = "fill"
          /\ sub'[r].job = j /\ sub'[r].video = sub[r].video /\ sub'[r].next = sub[r].next
        <3>1. /\ \A q \in Submitters : q # r => sub'[q] = sub[q]
              /\ sub'[r].pc = "fill"
              /\ sub'[r].job = j /\ sub'[r].video = sub[r].video /\ sub'[r].next = sub[r].next
            BY <1>1, <1>4, <1>5 DEF SubPCs
        <3>2. sub'[r] \in [pc : SubPCs, video : Videos \cup {"none"}, job : Nat, next : Nat]
            BY <1>1, <1>4, <1>5 DEF SubPCs
        <3> QED
            BY <1>4, <1>5, <3>1, <3>2
    <2>5. TableTypes'
        <3>1. row \in [video : Videos, status : Live \cup {"done", "error"}, media : SUBSET {"audio", "film"}]
            BY <1>3, <2>1 DEF Live
        <3>2. \A k \in DOMAIN jobs : jobs'[k].video = jobs[k].video
            BY <2>3
        <3> QED
            BY <1>4, <1>5, <2>3, <3>1, <3>2 DEF TableTypes
    <2>6. \A k : Has(k)' = Has(k)
        BY <1>5, HasSame
    <2>7. jobs'[j].video = jobs[j].video /\ jobs'[j].status = "pending" /\ "film" \in jobs'[j].media
        BY <2>3
    <2> QED
        BY <1>1, <1>2, <1>3, <2>3, <2>4, <2>5, <2>6, <2>7, FillStep
<1>6. CASE /\ sub[r].pc = "fill" /\ sub[r].next \in Spoken(sub[r].video) /\ UNCHANGED jobs
           /\ Insert(j, sub[r].next)
           /\ sub' = [sub EXCEPT ![r].next = @ + 1]
    <2>1. PICK line : line = sub[r].next
        OBVIOUS
    <2>2. line \in Spoken(jobs[j].video) /\ line \notin Has(j)
        BY <1>3, <1>6, <2>1
    <2>3. /\ TableTypes' /\ \A k : k # j => Has(k)' = Has(k)
          /\ Has(j)' = Has(j) \cup {line}
        BY <1>3, <1>4, <1>6, <2>1, <2>2, InsertIs
    <2>4. /\ sub' \in [Submitters -> [pc : SubPCs, video : Videos \cup {"none"}, job : Nat, next : Nat]]
          /\ \A q \in Submitters : q # r => sub'[q] = sub[q]
          /\ sub'[r].pc = "fill"
          /\ sub'[r].job = j /\ sub'[r].video = sub[r].video /\ sub'[r].next = line + 1
        <3>1. /\ \A q \in Submitters : q # r => sub'[q] = sub[q]
              /\ sub'[r].pc = "fill"
              /\ sub'[r].job = j /\ sub'[r].video = sub[r].video /\ sub'[r].next = line + 1
            BY <1>1, <1>3, <1>4, <1>6, <2>1 DEF SubPCs
        <3>2. sub'[r] \in [pc : SubPCs, video : Videos \cup {"none"}, job : Nat, next : Nat]
            <4>1. sub[r].next + 1 \in Nat
                BY <1>3
            <4>2. sub'[r] = [sub[r] EXCEPT !.next = sub[r].next + 1]
                BY <1>4, <1>6
            <4> QED
                BY <1>4, <4>1, <4>2
        <3> QED
            BY <1>4, <1>6, <3>1, <3>2
    <2>5. Has(j)' = 1 .. sub'[r].next - 1 /\ sub'[r].next > 0
        <3>1. line \in Nat /\ line > 0
            BY <1>3, <2>1
        <3>2. (1 .. line - 1) \cup {line} = 1 .. line /\ (line + 1) - 1 = line
            BY <3>1
        <3>3. Has(j)' = 1 .. line
            BY <1>3, <2>1, <2>3, <3>2
        <3>4. sub'[r].next = line + 1
            BY <2>4
        <3> QED
            BY <3>1, <3>2, <3>3, <3>4
    <2>6. /\ DOMAIN jobs' = DOMAIN jobs /\ \A k \in DOMAIN jobs \ {j} : jobs'[k] = jobs[k]
          /\ jobs'[j].video = jobs[j].video /\ jobs'[j].status = "pending" /\ "film" \in jobs'[j].media
        BY <1>3, <1>6
    <2> QED
        BY <1>1, <1>2, <2>3, <2>4, <2>5, <2>6, FillStep
<1>7. CASE /\ sub[r].pc = "fill" /\ UNCHANGED rows
           /\ jobs' = [jobs EXCEPT ![j].status = "done"]
           /\ sub' = [sub EXCEPT ![r] = NoSub]
    <2>1. PICK row : row = [video |-> jobs[j].video, status |-> "done", media |-> jobs[j].media]
        OBVIOUS
    <2>2. jobs' = [jobs EXCEPT ![j] = row]
        <3>1. [jobs[j] EXCEPT !.status = "done"] = row
            BY <1>3, <1>4, <2>1, JobIs
        <3>2. [jobs EXCEPT ![j].status = "done"]
                = [jobs EXCEPT ![j] = [jobs[j] EXCEPT !.status = "done"]]
            OBVIOUS
        <3> QED
            BY <1>7, <3>1, <3>2
    <2>3. /\ DOMAIN jobs' = DOMAIN jobs /\ jobs'[j] = row
          /\ \A k \in DOMAIN jobs \ {j} : jobs'[k] = jobs[k]
          /\ row.video = jobs[j].video /\ row.status # "error"
        BY <1>3, <2>1, <2>2
    <2>4. /\ sub' \in [Submitters -> [pc : SubPCs, video : Videos \cup {"none"}, job : Nat, next : Nat]]
          /\ \A q \in Submitters : q # r => sub'[q] = sub[q]
          /\ sub'[r].pc = "rest"
        <3>1. /\ \A q \in Submitters : q # r => sub'[q] = sub[q]
              /\ sub'[r].pc = "rest"
            BY <1>4, <1>7 DEF NoSub, SubPCs
        <3>2. sub'[r] \in [pc : SubPCs, video : Videos \cup {"none"}, job : Nat, next : Nat]
            BY <1>4, <1>7 DEF NoSub, SubPCs
        <3> QED
            BY <1>4, <1>7, <3>1, <3>2
    <2>5. TableTypes'
        <3>1. row \in [video : Videos, status : Live \cup {"done", "error"}, media : SUBSET {"audio", "film"}]
            <4>1. jobs[j].media \in SUBSET {"audio", "film"}
                BY <1>3, <1>4, JobIs
            <4> QED
                BY <1>3, <2>1, <4>1
        <3>2. \A k \in DOMAIN jobs : jobs'[k].video = jobs[k].video
            BY <2>3
        <3> QED
            BY <1>4, <1>7, <2>3, <3>1, <3>2 DEF TableTypes
    <2>6. \A k : Has(k)' = Has(k)
        BY <1>7, HasSame
    <2>7. jobs'[j].video = jobs[j].video /\ jobs'[j].status # "error"
        BY <2>3
    <2> QED
        BY <1>1, <1>2, <2>3, <2>4, <2>5, <2>6, <2>7, FillStep
<1> QED
    BY <1>1, <1>5, <1>6, <1>7 DEF Fills

\* A request that fails leaves its job as it is, and is counted.
LEMMA SubmitFailsKeeps ==
    ASSUME JobsInv, NEW r \in Submitters, SubmitFails(r)
    PROVE  JobsInv'
<1>1. /\ fails + boots < MaxTrouble /\ fails' = fails + 1 /\ excused \subseteq excused'
      /\ sub' = [sub EXCEPT ![r] = NoSub]
      /\ UNCHANGED <<jobs, rows, primers, files, up, boots, leftover, pipe, writes, view>>
    BY DEF SubmitFails, tables, machine
<1>2. /\ sub'[r] = NoSub /\ \A q \in Submitters : q # r => sub'[q] = sub[q]
      /\ NoSub.pc = "rest"
    BY <1>1 DEF JobsInv, WorkTypes, NoSub
<1>3. WorkTypes'
    <2>1. NoSub \in [pc : SubPCs, video : Videos \cup {"none"}, job : Nat, next : Nat]
        BY DEF NoSub, SubPCs
    <2>2. sub' \in [Submitters -> [pc : SubPCs, video : Videos \cup {"none"}, job : Nat, next : Nat]]
        BY <1>1, <2>1 DEF JobsInv, WorkTypes
    <2>3. \A q \in Submitters :
            /\ sub'[q].pc # "rest" => sub'[q].video \in Videos
            /\ sub'[q].pc \in {"media", "fill"} => sub'[q].job \in DOMAIN jobs
        BY <1>2 DEF JobsInv, WorkTypes
    <2>4. fails' \in Nat /\ fails' + boots <= MaxTrouble
        BY <1>1, BoundsAssumption DEF JobsInv, WorkTypes
    <2> QED
        BY <1>1, <2>2, <2>3, <2>4 DEF JobsInv, WorkTypes
<1>4. SideTypes' /\ DownIdle'
    BY <1>1, <1>2 DEF JobsInv, SideTypes, DownIdle
<1>5. \A q \in Submitters : sub'[q] = sub[q] \/ sub'[q].pc = "rest"
    BY <1>2
<1> QED
    BY <1>1, <1>3, <1>4, <1>5, NoJobStep

---------------------------------------------------------------------------
(* Primers and clips touch no job.                                         *)

\* A reader who has not asked, and one who has been served.
LEMMA RestIs ==
    /\ NoView \in [pc : ViewPCs, job : Nat, built : SUBSET Nat, read : SUBSET Nat, sure : BOOLEAN]
    /\ NoView.pc = "rest" /\ NoView.read = {}
    /\ Served \in [pc : ViewPCs, job : Nat, built : SUBSET Nat, read : SUBSET Nat, sure : BOOLEAN]
    /\ Served.pc = "over" /\ IsFiniteSet(Served.read) /\ Served.pc \notin PrimerPCs
<1>1. Served.read = {}
    BY DEF Served, NoView
<1> QED
    BY <1>1, FS_EmptySet DEF Served, NoView, ViewPCs, PrimerPCs

\* A request of a reader goes on.
LEMMA ViewStep ==
    ASSUME JobsInv, NEW x \in Readers, up,
           DOMAIN view' = Readers, \A y \in Readers \ {x} : view'[y] = view[y],
           view'[x] \in [pc : ViewPCs, job : Nat, built : SUBSET Nat, read : SUBSET Nat, sure : BOOLEAN],
           IsFiniteSet(view'[x].read),
           view'[x].pc \in PrimerPCs => view'[x].job \in DOMAIN jobs,
           view' = [y \in Readers |-> view'[y]],
           UNCHANGED <<jobs, rows, sub, pipe, writes, up, boots, leftover, fails, excused>>,
           DOMAIN primers' \subseteq DOMAIN jobs,
           \A j \in DOMAIN primers' : primers'[j] \in [stamp : Nat, of : SUBSET Nat]
    PROVE  JobsInv'
<1>1. SideTypes'
    <2>1. \A y \in Readers :
            /\ view'[y] \in [pc : ViewPCs, job : Nat, built : SUBSET Nat, read : SUBSET Nat, sure : BOOLEAN]
            /\ IsFiniteSet(view'[y].read)
            /\ view'[y].pc \in PrimerPCs => view'[y].job \in DOMAIN jobs
        BY DEF JobsInv, SideTypes
    <2> QED
        BY <2>1 DEF SideTypes
<1>2. WorkTypes' /\ DownIdle'
    BY DEF JobsInv, WorkTypes, DownIdle
<1> QED
    BY <1>1, <1>2, NoJobStep

\* The ids of sentences are numbers, and a job has finitely many.
LEMMA RowsAreNat ==
    ASSUME TableTypes, NEW j
    PROVE  RowsOf(j) \subseteq Nat /\ IsFiniteSet(RowsOf(j)) /\ Cardinality(RowsOf(j)) \in Nat
<1>1. PICK n \in Nat : DOMAIN rows \subseteq 1 .. n
    BY DEF TableTypes
<1>2. IsFiniteSet(1 .. n)
    BY <1>1, FS_Interval
<1>3. RowsOf(j) \subseteq 1 .. n
    BY <1>1 DEF RowsOf
<1>4. IsFiniteSet(RowsOf(j))
    BY <1>2, <1>3, FS_Subset
<1> QED
    BY <1>3, <1>4, FS_CardinalityType

\* get_primer finds the latest job that did not fail.
LEMMA OpensKeeps ==
    ASSUME JobsInv, NEW x \in Readers, NEW v \in Videos, Opens(x, v)
    PROVE  JobsInv'
<1>1. PICK j, sure :
        /\ up /\ j = Biggest(Unfailed(v)) /\ Unfailed(v) # {}
        /\ sure \in BOOLEAN
        /\ OnlyView(x, [NoView EXCEPT !.pc = "check", !.job = j, !.sure = sure])
        /\ UNCHANGED <<primers, fails, excused>>
    BY DEF Opens, Sound
<1>2. j \in DOMAIN jobs /\ j \in Nat
    <2>1. Unfailed(v) \subseteq DOMAIN jobs /\ DOMAIN jobs \subseteq 1 .. MaxJobs
        BY DEF Unfailed, JobsOf, JobsInv, TableTypes
    <2>2. Biggest(Unfailed(v)) \in Unfailed(v)
        BY <1>1, <2>1, BoundsAssumption, BiggestIs
    <2> QED
        BY <1>1, <2>1, <2>2, BoundsAssumption
<1>3. /\ view' = [view EXCEPT ![x] = [NoView EXCEPT !.pc = "check", !.job = j, !.sure = sure]]
      /\ UNCHANGED <<jobs, rows, files, up, boots, leftover, sub, pipe, writes>>
    BY <1>1 DEF OnlyView, machine
<1>4. PICK rec : rec = [NoView EXCEPT !.pc = "check", !.job = j, !.sure = sure]
    OBVIOUS
<1>5. view' = [view EXCEPT ![x] = rec]
    BY <1>3, <1>4
<1>6. /\ rec \in [pc : ViewPCs, job : Nat, built : SUBSET Nat, read : SUBSET Nat, sure : BOOLEAN]
      /\ rec.job \in DOMAIN jobs /\ rec.read = {}
    BY <1>1, <1>2, <1>4, RestIs DEF ViewPCs, PrimerPCs
<1>7. IsFiniteSet(rec.read)
    BY <1>6, FS_EmptySet
<1>8. /\ DOMAIN view' = Readers /\ \A y \in Readers \ {x} : view'[y] = view[y]
      /\ view'[x] = rec /\ view' = [y \in Readers |-> view'[y]]
    BY <1>5 DEF JobsInv, SideTypes
<1>9. /\ DOMAIN primers' \subseteq DOMAIN jobs
      /\ \A k \in DOMAIN primers' : primers'[k] \in [stamp : Nat, of : SUBSET Nat]
    BY <1>1 DEF JobsInv, SideTypes
<1> QED
    BY <1>1, <1>3, <1>6, <1>7, <1>8, <1>9, ViewStep

\* get_primer goes on, statement by statement.
LEMMA PrimingKeeps ==
    ASSUME JobsInv, NEW x \in Readers, Priming(x)
    PROVE  JobsInv'
<1>1. PICK old : old = view[x]
    OBVIOUS
<1>2. /\ old \in [pc : ViewPCs, job : Nat, built : SUBSET Nat, read : SUBSET Nat, sure : BOOLEAN]
      /\ view \in [Readers -> [pc : ViewPCs, job : Nat, built : SUBSET Nat,
                               read : SUBSET Nat, sure : BOOLEAN]]
      /\ IsFiniteSet(old.read) /\ (old.pc \in PrimerPCs => old.job \in DOMAIN jobs)
      /\ DOMAIN primers \subseteq DOMAIN jobs
      /\ \A j \in DOMAIN primers : primers[j] \in [stamp : Nat, of : SUBSET Nat]
    BY <1>1 DEF JobsInv, SideTypes
<1>3. old.pc \in PrimerPCs /\ old.job \in DOMAIN jobs
    BY <1>1, <1>2 DEF Priming, Checks, Counts, Reads, Stores, Serves, PrimerPCs
<1>4. up
    BY <1>1, <1>3 DEF JobsInv, DownIdle, PrimerPCs
<1>5. /\ RowsOf(old.job) \subseteq Nat /\ IsFiniteSet(RowsOf(old.job))
      /\ Cardinality(RowsOf(old.job)) \in Nat
    BY RowsAreNat DEF JobsInv
<1>6. /\ UNCHANGED <<jobs, rows, sub, pipe, writes, up, boots, leftover, fails, excused>>
      /\ \E rec : view' = [view EXCEPT ![x] = rec]
    BY DEF Priming, Checks, Counts, Reads, Stores, Serves, OnlyView, Sound, machine
<1>7. /\ DOMAIN view' = Readers /\ \A y \in Readers \ {x} : view'[y] = view[y]
      /\ view' = [y \in Readers |-> view'[y]]
    BY <1>2, <1>6
<1>8. /\ view'[x] \in [pc : ViewPCs, job : Nat, built : SUBSET Nat, read : SUBSET Nat, sure : BOOLEAN]
      /\ IsFiniteSet(view'[x].read)
      /\ view'[x].pc \in PrimerPCs => view'[x].job \in DOMAIN jobs
    <2>1. CASE Checks(x)
        <3>1. Built(old.job) \in SUBSET Nat
            BY <1>2, <1>3 DEF Built
        <3>2. view'[x] = [old EXCEPT !.pc = "count", !.built = Built(old.job)]
            BY <1>1, <1>2, <2>1 DEF Checks, OnlyView
        <3> QED
            BY <1>2, <1>3, <3>1, <3>2 DEF ViewPCs, PrimerPCs
    <2>2. CASE Counts(x)
        <3>1. PICK pc \in {"fetch", "read"} : view'[x] = [old EXCEPT !.built = {}, !.pc = pc]
            BY <1>1, <1>2, <2>2 DEF Counts, OnlyView
        <3> QED
            BY <1>2, <1>3, <3>1 DEF ViewPCs, PrimerPCs
    <2>3. CASE Reads(x)
        <3>1. view'[x] = [old EXCEPT !.pc = "store", !.read = RowsOf(old.job)]
            BY <1>1, <1>2, <2>3 DEF Reads, OnlyView
        <3> QED
            BY <1>2, <1>3, <1>5, <3>1 DEF ViewPCs, PrimerPCs
    <2>4. CASE Stores(x)
        <3>1. view'[x] = [old EXCEPT !.pc = "fetch", !.read = {}]
            BY <1>1, <1>2, <2>4 DEF Stores, OnlyView
        <3> QED
            BY <1>2, <1>3, <3>1, FS_EmptySet DEF ViewPCs, PrimerPCs
    <2>5. CASE Serves(x)
        <3>1. view'[x] = Served
            BY <1>2, <2>5 DEF Serves, OnlyView
        <3> QED
            BY <3>1, RestIs
    <2> QED
        BY <2>1, <2>2, <2>3, <2>4, <2>5 DEF Priming
<1>9. /\ DOMAIN primers' \subseteq DOMAIN jobs
      /\ \A j \in DOMAIN primers' : primers'[j] \in [stamp : Nat, of : SUBSET Nat]
    <2>1. CASE UNCHANGED primers
        BY <1>2, <2>1
    <2>2. CASE Stores(x)
        <3>1. PICK j, new : j = old.job /\ new = [stamp |-> Cardinality(old.read), of |-> old.read]
            OBVIOUS
        <3>2. primers' = With(primers, j, new)
            BY <1>1, <2>2, <3>1 DEF Stores
        <3>3. new \in [stamp : Nat, of : SUBSET Nat]
            BY <1>2, <3>1, FS_CardinalityType
        <3>4. /\ DOMAIN primers' = DOMAIN primers \cup {j} /\ primers'[j] = new
              /\ \A k \in DOMAIN primers : k # j => primers'[k] = primers[k]
            BY <3>2 DEF With
        <3> QED
            BY <1>2, <1>3, <3>1, <3>3, <3>4
    <2> QED
        BY <2>1, <2>2 DEF Priming, Checks, Counts, Reads, Serves
<1> QED
    BY <1>4, <1>6, <1>7, <1>8, <1>9, ViewStep

\* Whoever asks for a clip is served at once.
LEMMA PlaysKeeps ==
    ASSUME JobsInv, NEW x \in Readers, NEW v \in Videos, NEW i \in DOMAIN rows, Plays(x, v, i)
    PROVE  JobsInv'
<1>1. /\ up /\ view' = [view EXCEPT ![x] = Served]
      /\ UNCHANGED <<jobs, rows, primers, sub, pipe, writes, up, boots, leftover, fails, excused>>
    BY DEF Plays, machine
<1>2. /\ Served \in [pc : ViewPCs, job : Nat, built : SUBSET Nat, read : SUBSET Nat, sure : BOOLEAN]
      /\ IsFiniteSet(Served.read) /\ Served.pc \notin PrimerPCs
    BY RestIs
<1>4. /\ DOMAIN view' = Readers /\ \A y \in Readers \ {x} : view'[y] = view[y]
      /\ view'[x] = Served /\ view' = [y \in Readers |-> view'[y]]
    BY <1>1 DEF JobsInv, SideTypes
<1>5. /\ DOMAIN primers' \subseteq DOMAIN jobs
      /\ \A j \in DOMAIN primers' : primers'[j] \in [stamp : Nat, of : SUBSET Nat]
    BY <1>1 DEF JobsInv, SideTypes
<1> QED
    BY <1>1, <1>2, <1>4, <1>5, ViewStep

---------------------------------------------------------------------------
(* The server stops and starts.                                            *)

\* With nobody at work a job is as it is.
LEMMA IdleOk ==
    ASSUME NEW j, DOMAIN pipe' = {}, DOMAIN writes' = {},
           \A r \in Submitters : sub'[r].pc = "rest"
    PROVE  JobOk(j)'
<1>1. Tasks(j)' = {} /\ \A r \in Submitters : ~Filler(r, j)'
    BY DEF Tasks, Filler
<1> QED
    BY <1>1 DEF JobOk, FillOk, TaskOk, PipeOk, SettledOk, TruthOk

\* What is in memory goes.
LEMMA CrashKeeps ==
    ASSUME JobsInv, Crash
    PROVE  JobsInv'
<1>1. /\ up' = FALSE /\ sub' = [r \in Submitters |-> NoSub]
      /\ view' = [x \in Readers |-> IF view[x].pc = "rest" THEN NoView ELSE Served]
      /\ pipe' = << >> /\ writes' = << >>
      /\ UNCHANGED <<jobs, rows, primers, files, boots, leftover, fails, excused>>
    BY DEF Crash, tables
<1>2. DOMAIN pipe' = {} /\ DOMAIN writes' = {}
    BY <1>1
<1>3. /\ NoSub \in [pc : SubPCs, video : Videos \cup {"none"}, job : Nat, next : Nat]
      /\ \A r \in Submitters : sub'[r].pc = "rest"
    BY <1>1 DEF NoSub, SubPCs
<1>4. TableTypes'
    BY <1>1 DEF JobsInv, TableTypes
<1>5. WorkTypes'
    BY <1>1, <1>2, <1>3 DEF JobsInv, WorkTypes
<1>6. \A x \in Readers : view'[x] \in {NoView, Served}
    BY <1>1
<1>7. SideTypes'
    <2>1. \A x \in Readers :
            /\ view'[x] \in [pc : ViewPCs, job : Nat, built : SUBSET Nat, read : SUBSET Nat, sure : BOOLEAN]
            /\ IsFiniteSet(view'[x].read) /\ view'[x].pc \notin PrimerPCs
        <3>1. IsFiniteSet(NoView.read) /\ NoView.pc \notin PrimerPCs
            BY RestIs, FS_EmptySet DEF PrimerPCs
        <3> QED
            BY <1>6, <3>1, RestIs
    <2> QED
        BY <1>1, <2>1 DEF JobsInv, SideTypes
<1>8. DownIdle'
    BY <1>2, <1>3, <1>6, RestIs DEF DownIdle
<1>9. JobsOk'
    BY <1>2, <1>3, IdleOk DEF JobsOk
<1>10. LatestLives' /\ OneCreates'
    BY <1>1, <1>3 DEF JobsInv, LatestLives, OneCreates
<1> QED
    BY <1>4, <1>5, <1>7, <1>8, <1>9, <1>10 DEF JobsInv

\* A start drops what was unfinished, or fails.
LEMMA BootKeeps ==
    ASSUME JobsInv, Boot \/ BootPanics
    PROVE  JobsInv'
<1>1. /\ ~up /\ fails + boots < MaxTrouble /\ boots' = boots + 1 /\ up' \in BOOLEAN
      /\ UNCHANGED <<primers, files, sub, pipe, writes, view, fails, excused>>
    BY DEF Boot, BootPanics, Restarts, memory, JobsInv, WorkTypes
<1>2. /\ DOMAIN pipe = {} /\ DOMAIN writes = {}
      /\ \A r \in Submitters : sub[r].pc = "rest"
      /\ \A x \in Readers : view[x].pc \in {"rest", "over"}
    BY <1>1 DEF JobsInv, DownIdle
<1>3. /\ DOMAIN jobs' \subseteq DOMAIN jobs
      /\ \A k \in DOMAIN jobs' : jobs'[k] = jobs[k]
      /\ DOMAIN rows' \subseteq DOMAIN rows
      /\ \A i \in DOMAIN rows' : rows'[i] = rows[i] /\ rows[i].job \in DOMAIN jobs'
      /\ DOMAIN primers \subseteq DOMAIN jobs'
    <2>1. CASE Boot
        <3>1. rows' = Without(rows, Orphaned) /\ jobs' = Without(jobs, Unfinished)
              /\ Unfinished \cap DOMAIN primers = {}
            BY <2>1 DEF Boot
        <3>2. /\ DOMAIN jobs' = DOMAIN jobs \ Unfinished /\ \A k \in DOMAIN jobs' : jobs'[k] = jobs[k]
              /\ DOMAIN rows' = DOMAIN rows \ Orphaned /\ \A i \in DOMAIN rows' : rows'[i] = rows[i]
            BY <3>1 DEF Without
        <3>3. \A i \in DOMAIN rows' : rows[i].job \in DOMAIN jobs /\ rows[i].job \notin Unfinished
            BY <3>2 DEF Orphaned, RowsOf, JobsInv, TableTypes
        <3> QED
            BY <3>1, <3>2, <3>3 DEF JobsInv, SideTypes
    <2>2. CASE BootPanics
        <3>1. UNCHANGED jobs /\ (UNCHANGED rows \/ rows' = Without(rows, Orphaned))
            BY <2>2 DEF BootPanics
        <3>2. DOMAIN rows' \subseteq DOMAIN rows /\ \A i \in DOMAIN rows' : rows'[i] = rows[i]
            BY <3>1 DEF Without
        <3> QED
            BY <3>1, <3>2 DEF JobsInv, TableTypes, SideTypes
    <2> QED
        BY <2>1, <2>2
<1>4. TableTypes'
    BY <1>3 DEF JobsInv, TableTypes
<1>5. WorkTypes'
    <2>1. boots' \in Nat /\ fails' + boots' <= MaxTrouble
        BY <1>1, BoundsAssumption DEF JobsInv, WorkTypes
    <2> QED
        BY <1>1, <1>2, <2>1 DEF JobsInv, WorkTypes
<1>6. SideTypes'
    BY <1>1, <1>2, <1>3 DEF JobsInv, SideTypes, PrimerPCs
<1>7. DownIdle'
    BY <1>1, <1>2 DEF DownIdle
<1>8. JobsOk'
    BY <1>1, <1>2, IdleOk DEF JobsOk
<1>9. LatestLives'
    BY <1>1, <1>3 DEF JobsInv, LatestLives
<1>10. OneCreates'
    BY <1>1, <1>2 DEF OneCreates
<1> QED
    BY <1>4, <1>5, <1>6, <1>7, <1>8, <1>9, <1>10 DEF JobsInv

---------------------------------------------------------------------------
\* Every step keeps the invariant.
LEMMA NextKeeps ==
    ASSUME JobsInv, [Next]_vars
    PROVE  JobsInv'
<1>1. ASSUME NEW r \in Submitters, Submitting(r) \/ SubmitFails(r) \/ \E v \in Videos : Submit(r, v)
      PROVE  JobsInv'
    BY <1>1, CreateKeeps, FillsKeeps, SubmitFailsKeeps, SubmitKeeps DEF Submitting
<1>2. ASSUME NEW j, Piping(j) \/ Tools(j)
      PROVE  JobsInv'
    BY <1>2, BeginsKeeps, GainsKeeps, EndsKeep, JoinsKeeps, HearsKeeps DEF Piping, Tools
<1>3. ASSUME NEW t, Inserts(t) \/ InsertFails(t)
      PROVE  JobsInv'
    BY <1>3, InsertsKeeps, InsertFailsKeeps
<1>4. ASSUME NEW x \in Readers, Priming(x) \/ \E v \in Videos : Opens(x, v) \/ \E i \in DOMAIN rows : Plays(x, v, i)
      PROVE  JobsInv'
    BY <1>4, PrimingKeeps, OpensKeeps, PlaysKeeps
<1>5. CASE UNCHANGED vars
    <2>1. UNCHANGED <<jobs, rows, primers, up, boots, fails, sub, pipe, writes, view, excused>>
        BY <1>5 DEF vars, tables, memory, machine
    <2>2. WorkTypes' /\ SideTypes' /\ DownIdle'
        BY <2>1 DEF JobsInv, WorkTypes, SideTypes, DownIdle
    <2> QED
        BY <2>1, <2>2, NoJobStep
<1> QED
    BY <1>1, <1>2, <1>3, <1>4, <1>5, CrashKeeps, BootKeeps DEF Next

\* It holds before anything was submitted.
LEMMA InitHolds == Init => JobsInv
<1> SUFFICES ASSUME Init PROVE JobsInv
    OBVIOUS
<1>1. /\ DOMAIN jobs = {} /\ DOMAIN rows = {} /\ DOMAIN primers = {} /\ DOMAIN pipe = {}
      /\ DOMAIN writes = {} /\ up = TRUE
    BY DEF Init
<1>2. TableTypes
    <2>1. 0 \in Nat /\ DOMAIN rows \subseteq 1 .. 0
        BY <1>1
    <2> QED
        BY <1>1, <2>1 DEF TableTypes
<1>3. WorkTypes
    <2>1. /\ NoSub \in [pc : SubPCs, video : Videos \cup {"none"}, job : Nat, next : Nat]
          /\ NoSub.pc = "rest"
        BY DEF NoSub, SubPCs
    <2> QED
        BY <1>1, <2>1, BoundsAssumption DEF Init, WorkTypes
<1>4. SideTypes
    <2>1. IsFiniteSet(NoView.read) /\ NoView.pc \notin PrimerPCs
        BY RestIs, FS_EmptySet DEF PrimerPCs
    <2> QED
        BY <1>1, <2>1, RestIs DEF Init, SideTypes
<1>5. DownIdle /\ JobsOk /\ LatestLives
    BY <1>1 DEF DownIdle, JobsOk, LatestLives
<1>6. OneCreates
    BY DEF Init, NoSub, OneCreates
<1> QED
    BY <1>2, <1>3, <1>4, <1>5, <1>6 DEF JobsInv

\* However requests, tasks, failures and restarts come, what a job's row says
\* is where its pipe is, no line of it is stored twice or lost unless a write
\* failed, and only its request or its pipe and tasks write it.
THEOREM JobsInvariant == Spec => []JobsInv
BY InitHolds, NextKeeps, PTL DEF Spec

---------------------------------------------------------------------------
(* The jobs implement Transcripts.                                         *)

Paper(state, has, film) == [state |-> state, has |-> has, film |-> film]
Face(status) == CASE status \in Live -> "coming"
                  [] status = "done" -> "whole"
                  [] status = "error" -> "failed"

\* A page, now and after a step.
LEMMA PageIs ==
    ASSUME NEW j
    PROVE  /\ Page(j) = Paper(Face(jobs[j].status), Has(j), "film" \in jobs[j].media)
           /\ Page(j)' = Paper(Face(jobs'[j].status), Has(j)', "film" \in jobs'[j].media)
BY DEF Page, Paper, Face, Has

\* What each status looks like from outside.
LEMMA FaceIs ==
    /\ Face("pending") = "coming" /\ Face("downloading") = "coming" /\ Face("transcribing") = "coming"
    /\ Face("done") = "whole" /\ Face("error") = "failed"
BY DEF Face, Live

\* A page with another state, with other lines, with its film.
LEMMA PaperIs ==
    ASSUME NEW state, NEW has, NEW film, NEW x
    PROVE  \E s : /\ s = Paper(state, has, film)
                  /\ s.state = state /\ s.has = has /\ s.film = film
                  /\ [s EXCEPT !.state = x] = Paper(x, has, film)
                  /\ [s EXCEPT !.has = x] = Paper(state, x, film)
                  /\ [s EXCEPT !.film = x] = Paper(state, has, x)
<1>1. [Paper(state, has, film) EXCEPT !.state = x] = Paper(x, has, film)
    BY DEF Paper
<1>2. [Paper(state, has, film) EXCEPT !.has = x] = Paper(state, x, film)
    BY DEF Paper
<1>3. [Paper(state, has, film) EXCEPT !.film = x] = Paper(state, has, x)
    BY DEF Paper
<1>4. /\ Paper(state, has, film).state = state /\ Paper(state, has, film).has = has
      /\ Paper(state, has, film).film = film
    BY DEF Paper
<1> QED
    BY <1>1, <1>2, <1>3, <1>4, Zenon

\* What Transcripts allows a page to become, but for restarts.
LEMMA FilmMay ==
    ASSUME NEW has, NEW film
    PROVE  Promise!HasFilm(Paper("coming", has, film), Paper("coming", has, TRUE))
<1>1. PICK state, x : state = "coming" /\ x = TRUE
    OBVIOUS
<1>2. PICK s : s = Paper(state, has, film) /\ s.state = state /\ [s EXCEPT !.film = x] = Paper(state, has, x)
    BY PaperIs
<1>3. Promise!HasFilm(s, Paper(state, has, x))
    BY <1>1, <1>2, Zenon DEF Promise!HasFilm
<1> QED
    BY <1>1, <1>2, <1>3, Zenon

\* A page that was coming may fail, with whatever it has.
LEMMA FailMay ==
    ASSUME NEW has, NEW film
    PROVE  Promise!Fails(Paper("coming", has, film), Paper("failed", has, film))
<1>1. PICK state, x : state = "coming" /\ x = "failed"
    OBVIOUS
<1>2. PICK s : s = Paper(state, has, film) /\ s.state = state /\ [s EXCEPT !.state = x] = Paper(x, has, film)
    BY PaperIs
<1>3. Promise!Fails(s, Paper(x, has, film))
    BY <1>1, <1>2, Zenon DEF Promise!Fails
<1> QED
    BY <1>1, <1>2, <1>3, Zenon

\* A page that was coming and has every line and its film may be whole.
LEMMA FinishMay ==
    ASSUME NEW v \in Videos
    PROVE  Promise!Finishes(v, Paper("coming", Spoken(v), TRUE), Paper("whole", Spoken(v), TRUE))
<1>1. PICK state, has, film, x : state = "coming" /\ has = Spoken(v) /\ film = TRUE /\ x = "whole"
    OBVIOUS
<1>2. PICK s : /\ s = Paper(state, has, film) /\ s.state = state /\ s.has = has /\ s.film = film
               /\ [s EXCEPT !.state = x] = Paper(x, has, film)
    BY PaperIs
<1>3. Lines[v] = has
    BY <1>1 DEF Lines
<1>4. Promise!Finishes(v, s, Paper(x, has, film))
    BY <1>1, <1>2, <1>3, Zenon DEF Promise!Finishes
<1> QED
    BY <1>1, <1>2, <1>4, Zenon

\* A page of nothing, or one that failed, may begin anew.
LEMMA BeginMay ==
    ASSUME NEW state \in {"absent", "failed"}, NEW has, NEW film
    PROVE  Promise!Begins(Paper(state, has, film), Paper("coming", {}, FALSE))
BY DEF Promise!Begins, Paper

\* A page that is coming or has failed may gain a line of its video.
LEMMA GrowMay ==
    ASSUME NEW v \in Videos, NEW state \in {"coming", "failed"}, NEW has, NEW film,
           NEW l \in Spoken(v) \ has
    PROVE  Promise!Grows(v, Paper(state, has, film), Paper(state, has \cup {l}, film))
<1>1. PICK x : x = has \cup {l}
    OBVIOUS
<1>2. PICK s : /\ s = Paper(state, has, film) /\ s.state = state /\ s.has = has
               /\ [s EXCEPT !.has = x] = Paper(state, x, film)
    BY PaperIs
<1>3. l \in Lines[v]
    BY DEF Lines
<1>4. Paper(state, x, film) = [s EXCEPT !.has = @ \cup {l}]
    BY <1>1, <1>2, Zenon
<1>5. Promise!Grows(v, s, Paper(state, x, film))
    BY <1>2, <1>3, <1>4, Zenon DEF Promise!Grows
<1> QED
    BY <1>1, <1>2, <1>5, Zenon

\* What Transcripts lets a page of v go through.
May(v, s, t) ==
    \/ s = t \/ v \in excused'
    \/ Promise!Begins(s, t) \/ Promise!Grows(v, s, t) \/ Promise!HasFilm(s, t)
    \/ Promise!Finishes(v, s, t) \/ Promise!Fails(s, t) \/ Promise!Forgets(s, t)

\* Where every page keeps or makes a move of its own, Transcripts makes a step.
LEMMA AllMay ==
    ASSUME \A v \in Videos : May(v, Shown[v], Shown'[v])
    PROVE  Promise!Next
BY DEF May, Promise!Next

\* The latest job of a video is among them.
LEMMA LatestIs ==
    ASSUME TableTypes, NEW v, JobsOf(v) # {}
    PROVE  /\ Biggest(JobsOf(v)) \in DOMAIN jobs /\ jobs[Biggest(JobsOf(v))].video = v
           /\ \A k \in DOMAIN jobs : jobs[k].video = v => k <= Biggest(JobsOf(v))
<1>1. JobsOf(v) \subseteq 1 .. MaxJobs
    BY DEF TableTypes, JobsOf
<1>2. Biggest(JobsOf(v)) \in JobsOf(v) /\ \A k \in JobsOf(v) : k <= Biggest(JobsOf(v))
    BY <1>1, BoundsAssumption, BiggestIs
<1> QED
    BY <1>2 DEF JobsOf

\* A step that touches one job changes no page but its video's.
LEMMA OnePage ==
    ASSUME NEW j,
           DOMAIN jobs' = DOMAIN jobs,
           \A k \in DOMAIN jobs : jobs'[k].video = jobs[k].video,
           \A k \in DOMAIN jobs : k # j => Page(k)' = Page(k),
           TableTypes,
           j \in DOMAIN jobs => May(jobs[j].video, Page(j), Page(j)')
    PROVE  Promise!Next
<1> SUFFICES ASSUME NEW v \in Videos PROVE May(v, Shown[v], Shown'[v])
    BY AllMay
<1>1. JobsOf(v)' = JobsOf(v)
    BY DEF JobsOf
<1>2. CASE JobsOf(v) = {}
    BY <1>1, <1>2 DEF Shown, May
<1>3. CASE JobsOf(v) # {}
    <2>1. PICK b : b = Biggest(JobsOf(v))
        OBVIOUS
    <2>2. b = Biggest(JobsOf(v)')
        BY <1>1, <2>1
    <2>3. Shown[v] = Page(b) /\ Shown'[v] = Page(b)'
        BY <1>1, <1>3, <2>1, <2>2 DEF Shown
    <2>4. b \in DOMAIN jobs /\ jobs[b].video = v
        BY <1>3, <2>1, LatestIs
    <2> QED
        BY <2>3, <2>4 DEF May
<1> QED
    BY <1>2, <1>3

\* One that writes neither table changes none.
LEMMA NoPage ==
    ASSUME UNCHANGED <<jobs, rows>>
    PROVE  UNCHANGED Shown
BY DEF Shown, JobsOf, Page, RowsOf

\* A write to a job's row shows on its video's page.
LEMMA SetPage ==
    ASSUME JobsInv, NEW j \in DOMAIN jobs, UNCHANGED rows,
           NEW row \in [video : {jobs[j].video}, status : Live \cup {"done", "error"},
                        media : SUBSET {"audio", "film"}],
           Set(j, row),
           jobs[j].video \notin excused' =>
             May(jobs[j].video, Paper(Face(jobs[j].status), Has(j), "film" \in jobs[j].media),
                                Paper(Face(row.status), Has(j), "film" \in row.media))
    PROVE  Promise!Next
<1>1. /\ DOMAIN jobs' = DOMAIN jobs
      /\ \A k \in DOMAIN jobs \ {j} : jobs'[k] = jobs[k]
      /\ jobs'[j].video = jobs[j].video
      /\ jobs[j].video \notin excused' => jobs'[j] = row
    BY SetIs DEF JobsInv
<1>2. ASSUME NEW k \in DOMAIN jobs, k # j PROVE Page(k)' = Page(k)
    BY <1>1, <1>2, HasSame, PageIs
<1>3. May(jobs[j].video, Page(j), Page(j)')
    <2>1. CASE jobs[j].video \in excused'
        BY <2>1 DEF May
    <2>2. CASE jobs[j].video \notin excused'
        BY <1>1, <2>2, HasSame, PageIs
    <2> QED
        BY <2>1, <2>2
<1> QED
    BY <1>1, <1>2, <1>3, OnePage DEF JobsInv

\* process_job tells of its progress, which no page shows.
LEMMA BeginsPage ==
    ASSUME JobsInv, NEW j, Begins(j) \/ Starts(j) \/ AudioComes(j)
    PROVE  Promise!Next
<1>1. j \in DOMAIN pipe /\ UNCHANGED rows
    BY DEF Begins, Starts, AudioComes, In, Elsewhere
<1>2. j \in DOMAIN jobs /\ jobs[j].status \notin {"done", "error"} /\ TableTypes
    BY <1>1, InPipe DEF JobsInv
<1>3. Face(jobs[j].status) = "coming"
    BY <1>2, JobIs, FaceIs
<1>4. PICK row \in [video : {jobs[j].video}, status : Live \cup {"done", "error"},
                    media : SUBSET {"audio", "film"}] :
        /\ Set(j, row) /\ Face(row.status) = "coming"
        /\ ("film" \in row.media) = ("film" \in jobs[j].media)
    <2>1. CASE Begins(j) \/ Starts(j)
        <3>1. PICK status \in {"downloading", "transcribing"} : Say(j, status)
            BY <2>1 DEF Begins, Starts
        <3>2. status \in Live
            BY DEF Live
        <3>3. PICK row \in [video : {jobs[j].video}, status : {status}, media : SUBSET {"audio", "film"}] :
                Set(j, row) /\ row.status = status /\ row.media = jobs[j].media
            BY <1>2, <3>1, <3>2, SayIs
        <3> QED
            BY <3>2, <3>3, FaceIs
    <2>2. CASE AudioComes(j)
        <3>1. Gain(j, "audio")
            BY <2>2 DEF AudioComes
        <3>2. PICK row \in [video : {jobs[j].video}, status : {jobs[j].status}, media : SUBSET {"audio", "film"}] :
                Set(j, row) /\ row.status = jobs[j].status /\ row.media = jobs[j].media \cup {"audio"}
            BY <1>2, <3>1, GainIs
        <3>3. row.status \in Live \cup {"done", "error"}
            BY <1>2, <3>2, JobIs DEF Live
        <3>4. "film" \in row.media <=> "film" \in jobs[j].media
            BY <3>2
        <3> QED
            BY <1>3, <3>2, <3>3, <3>4
    <2> QED
        BY <2>1, <2>2
<1>5. May(jobs[j].video, Paper(Face(jobs[j].status), Has(j), "film" \in jobs[j].media),
                         Paper(Face(row.status), Has(j), "film" \in row.media))
    BY <1>3, <1>4 DEF May
<1> QED
    BY <1>1, <1>2, <1>4, <1>5, SetPage

\* The film has come.
LEMMA FilmedPage ==
    ASSUME JobsInv, NEW j, Filmed(j)
    PROVE  Promise!Next
<1>1. j \in DOMAIN pipe /\ UNCHANGED rows /\ Gain(j, "film")
    BY DEF Filmed, In, Elsewhere
<1>2. j \in DOMAIN jobs /\ jobs[j].status \notin {"done", "error"} /\ TableTypes
    BY <1>1, InPipe DEF JobsInv
<1>3. Face(jobs[j].status) = "coming" /\ jobs[j].status \in Live
    BY <1>2, JobIs, FaceIs DEF Live
<1>4. PICK row \in [video : {jobs[j].video}, status : Live \cup {"done", "error"},
                    media : SUBSET {"audio", "film"}] :
        Set(j, row) /\ row.status = jobs[j].status /\ "film" \in row.media
    BY <1>1, <1>2, <1>3, GainIs
<1>5. ("film" \in row.media) = TRUE
    BY <1>4
<1>6. May(jobs[j].video, Paper(Face(jobs[j].status), Has(j), "film" \in jobs[j].media),
                         Paper(Face(row.status), Has(j), "film" \in row.media))
    BY <1>3, <1>4, <1>5, FilmMay DEF May
<1> QED
    BY <1>1, <1>2, <1>4, <1>6, SetPage

\* A tool has failed.
LEMMA FailsPage ==
    ASSUME JobsInv, NEW j, AudioFails(j) \/ HearFails(j) \/ NoFilm(j)
    PROVE  Promise!Next
<1>1. j \in DOMAIN pipe /\ UNCHANGED rows /\ Say(j, "error")
    BY DEF AudioFails, HearFails, NoFilm, In, Elsewhere
<1>2. j \in DOMAIN jobs /\ jobs[j].status \notin {"done", "error"} /\ TableTypes
    BY <1>1, InPipe DEF JobsInv
<1>3. Face(jobs[j].status) = "coming"
    BY <1>2, JobIs, FaceIs
<1>4. PICK row \in [video : {jobs[j].video}, status : Live \cup {"done", "error"},
                    media : SUBSET {"audio", "film"}] :
        Set(j, row) /\ row.status = "error" /\ row.media = jobs[j].media
    BY <1>1, <1>2, SayIs
<1>5. May(jobs[j].video, Paper(Face(jobs[j].status), Has(j), "film" \in jobs[j].media),
                         Paper(Face(row.status), Has(j), "film" \in row.media))
    BY <1>3, <1>4, FailMay, FaceIs DEF May
<1> QED
    BY <1>1, <1>2, <1>4, <1>5, SetPage

\* What a job of a video has is of that video.
LEMMA HasSpoken ==
    ASSUME TableTypes, NEW j
    PROVE  Has(j) \subseteq Spoken(jobs[j].video)
BY DEF TableTypes, Has, RowsOf

\* It is done: then all lines are there, and the film.
LEMMA FinishesPage ==
    ASSUME JobsInv, NEW j, Finishes(j)
    PROVE  Promise!Next
<1>1. j \in DOMAIN pipe /\ pipe[j].pc = "finish" /\ UNCHANGED rows /\ Say(j, "done")
    BY DEF Finishes, In, Elsewhere
<1>2. /\ j \in DOMAIN jobs /\ jobs[j].status \notin {"done", "error"} /\ TableTypes
      /\ JobOk(j) /\ jobs[j].video \in Videos
    BY <1>1, InPipe, JobIs DEF JobsInv
<1>3. Face(jobs[j].status) = "coming"
    BY <1>2, JobIs, FaceIs
<1>4. PICK row \in [video : {jobs[j].video}, status : Live \cup {"done", "error"},
                    media : SUBSET {"audio", "film"}] :
        Set(j, row) /\ row.status = "done" /\ row.media = jobs[j].media
    BY <1>1, <1>2, SayIs
<1>5. ASSUME jobs[j].video \notin excused'
      PROVE  May(jobs[j].video, Paper(Face(jobs[j].status), Has(j), "film" \in jobs[j].media),
                                Paper(Face(row.status), Has(j), "film" \in row.media))
    <2>1. jobs[j].video \notin excused
        BY <1>1, <1>2, <1>4, <1>5, SetIs DEF JobsInv
    <2>2. /\ "film" \in jobs[j].media /\ Tasks(j) = {}
          /\ pipe[j].heard = Len(Ends[jobs[j].video])
          /\ \A l \in 1 .. Upto(jobs[j].video, pipe[j].heard) : l \in Has(j)
        BY <1>1, <1>2, <2>1 DEF JobOk, PipeOk, TruthOk
    <2>3. Has(j) = Spoken(jobs[j].video)
        BY <1>2, <2>2, HasSpoken DEF Spoken
    <2>4. ("film" \in jobs[j].media) = TRUE
        BY <2>2
    <2> QED
        BY <1>2, <1>3, <1>4, <2>3, <2>4, FinishMay, FaceIs DEF May
<1> QED
    BY <1>1, <1>2, <1>4, <1>5, SetPage

\* A task has lines of a job that is coming, or has failed meanwhile.
LEMMA InsertsPage ==
    ASSUME JobsInv, NEW j \in DOMAIN jobs, NEW line \in Spoken(jobs[j].video), line \notin Has(j),
           jobs[j].status # "done", Insert(j, line), UNCHANGED jobs
    PROVE  Promise!Next
<1>1. (\A k : k # j => Has(k)' = Has(k)) /\ Has(j)' = Has(j) \cup {line}
    BY InsertIs DEF JobsInv
<1>2. Face(jobs[j].status) \in {"coming", "failed"} /\ jobs[j].video \in Videos
    BY JobIs, FaceIs DEF JobsInv
<1>3. ASSUME NEW k, k # j PROVE Page(k)' = Page(k)
    BY <1>1, <1>3, PageIs
<1>4. May(jobs[j].video, Page(j), Page(j)')
    BY <1>1, <1>2, GrowMay, PageIs DEF May
<1> QED
    BY <1>3, <1>4, OnePage DEF JobsInv

\* A request fills a job in from subtitles: it is done when they all are there.
LEMMA FillsPage ==
    ASSUME JobsInv, NEW r \in Submitters, Fills(r)
    PROVE  Promise!Next
<1>1. PICK j : j = sub[r].job
    OBVIOUS
<1>2. sub[r].pc \in {"media", "fill"} /\ UNCHANGED excused
    BY DEF Fills
<1>3. /\ j \in DOMAIN jobs /\ sub[r].video \in Videos /\ jobs[j].video = sub[r].video
      /\ jobs[j].status = "pending" /\ TableTypes
      /\ Has(j) = 1 .. sub[r].next - 1 /\ sub[r].next \in Nat /\ sub[r].next > 0
      /\ sub[r].pc = "fill" => "film" \in jobs[j].media
    BY <1>1, <1>2, FillerIs DEF JobsInv
<1>4. CASE /\ sub[r].pc = "fill" /\ sub[r].next \in Spoken(sub[r].video) /\ UNCHANGED jobs
           /\ Insert(j, sub[r].next)
    <2>1. PICK line : line = sub[r].next
        OBVIOUS
    <2>2. line \in Spoken(jobs[j].video) /\ line \notin Has(j) /\ jobs[j].status # "done"
        BY <1>3, <1>4, <2>1
    <2> QED
        BY <1>3, <1>4, <2>1, <2>2, InsertsPage
<1>5. CASE UNCHANGED rows /\ \/ sub[r].pc = "media" /\ jobs' = [jobs EXCEPT ![j].media = {"audio", "film"}]
                             \/ /\ sub[r].pc = "fill" /\ sub[r].next \notin Spoken(sub[r].video)
                                /\ jobs' = [jobs EXCEPT ![j].status = "done"]
    <2>1. /\ DOMAIN jobs' = DOMAIN jobs
          /\ \A k \in DOMAIN jobs \ {j} : jobs'[k] = jobs[k]
        BY <1>5
    <2>2. \/ /\ sub[r].pc = "media"
             /\ jobs'[j] = [video |-> jobs[j].video, status |-> jobs[j].status, media |-> {"audio", "film"}]
          \/ /\ sub[r].pc = "fill" /\ sub[r].next \notin Spoken(sub[r].video)
             /\ jobs'[j] = [video |-> jobs[j].video, status |-> "done", media |-> jobs[j].media]
        <3>1. CASE sub[r].pc = "media" /\ jobs' = [jobs EXCEPT ![j].media = {"audio", "film"}]
            <4>1. jobs'[j] = [jobs[j] EXCEPT !.media = {"audio", "film"}]
                BY <1>3, <3>1
            <4>2. {"audio", "film"} \in SUBSET {"audio", "film"}
                OBVIOUS
            <4> QED
                BY <1>3, <3>1, <4>1, <4>2, JobIs
        <3>2. CASE /\ sub[r].pc = "fill" /\ sub[r].next \notin Spoken(sub[r].video)
                   /\ jobs' = [jobs EXCEPT ![j].status = "done"]
            <4>1. jobs'[j] = [jobs[j] EXCEPT !.status = "done"]
                BY <1>3, <3>2
            <4> QED
                BY <1>3, <3>2, <4>1, JobIs
        <3> QED
            BY <1>5, <3>1, <3>2
    <2>3. jobs'[j].video = jobs[j].video
        BY <2>2
    <2>4. Face(jobs[j].status) = "coming"
        BY <1>3, FaceIs
    <2>5. ASSUME NEW k \in DOMAIN jobs, k # j PROVE Page(k)' = Page(k)
        BY <1>5, <2>1, <2>5, HasSame, PageIs
    <2>6. May(jobs[j].video, Page(j), Page(j)')
        <3>1. CASE /\ sub[r].pc = "media"
                   /\ jobs'[j] = [video |-> jobs[j].video, status |-> jobs[j].status, media |-> {"audio", "film"}]
            <4>1. jobs'[j].status = jobs[j].status /\ ("film" \in jobs'[j].media) = TRUE
                BY <3>1
            <4>2. Has(j)' = Has(j)
                BY <1>5, HasSame
            <4>3. /\ Page(j) = Paper("coming", Has(j), "film" \in jobs[j].media)
                  /\ Page(j)' = Paper("coming", Has(j), TRUE)
                BY <2>4, <4>1, <4>2, PageIs
            <4>4. Promise!HasFilm(Page(j), Page(j)')
                BY <4>3, FilmMay
            <4> QED
                BY <4>4 DEF May
        <3>2. CASE /\ sub[r].pc = "fill" /\ sub[r].next \notin Spoken(sub[r].video)
                   /\ jobs'[j] = [video |-> jobs[j].video, status |-> "done", media |-> jobs[j].media]
            <4>1. /\ jobs'[j].status = "done" /\ ("film" \in jobs[j].media) = TRUE
                  /\ ("film" \in jobs'[j].media) = TRUE
                BY <1>3, <3>2
            <4>2. Has(j) = Spoken(jobs[j].video)
                <5>1. Upto(sub[r].video, Len(Ends[sub[r].video])) \in Nat
                    <6>1. Len(Ends[sub[r].video]) \in 0 .. Len(Ends[sub[r].video])
                        BY <1>3, UptoIs
                    <6> QED
                        BY <1>3, <6>1, UptoIs
                <5>2. sub[r].next > Upto(sub[r].video, Len(Ends[sub[r].video]))
                    BY <1>3, <3>2, <5>1 DEF Spoken
                <5>3. Spoken(sub[r].video) \subseteq Has(j)
                    BY <1>3, <5>1, <5>2 DEF Spoken
                <5> QED
                    BY <1>3, <5>3, HasSpoken
            <4>3. Has(j)' = Has(j)
                BY <1>5, HasSame
            <4>4. /\ Page(j) = Paper("coming", Spoken(jobs[j].video), TRUE)
                  /\ Page(j)' = Paper("whole", Spoken(jobs[j].video), TRUE)
                BY <2>4, <4>1, <4>2, <4>3, PageIs, FaceIs
            <4>5. Promise!Finishes(jobs[j].video, Page(j), Page(j)')
                BY <1>3, <4>4, FinishMay
            <4> QED
                BY <4>5 DEF May
        <3> QED
            BY <2>2, <3>1, <3>2
    <2>7. \A k \in DOMAIN jobs : jobs'[k].video = jobs[k].video
        BY <2>1, <2>3
    <2> QED
        BY <1>3, <2>1, <2>5, <2>6, <2>7, OnePage
<1> QED
    BY <1>1, <1>4, <1>5 DEF Fills

\* A job made for a video whose jobs have all failed is its page now.
LEMMA CreatePage ==
    ASSUME JobsInv, TableTypes', NEW r \in Submitters, Create(r)
    PROVE  Promise!Next
<1>1. PICK j, row :
        /\ j = NextId(jobs) /\ j \in 1 .. MaxJobs /\ sub[r].pc = "create"
        /\ row = [video |-> sub[r].video, status |-> "pending", media |-> {}]
        /\ jobs' = With(jobs, j, row)
        /\ UNCHANGED <<rows, excused>>
    BY DEF Create
<1>2. /\ j \in Nat /\ j \notin DOMAIN jobs /\ TableTypes /\ \A k \in DOMAIN jobs : k < j /\ k \in Nat
    BY <1>1, NextIdIs, BoundsAssumption DEF JobsInv, TableTypes
<1>3. /\ DOMAIN jobs' = DOMAIN jobs \cup {j} /\ jobs'[j] = row
      /\ \A k \in DOMAIN jobs : jobs'[k] = jobs[k]
    BY <1>1, <1>2 DEF With
<1>4. row.video = sub[r].video /\ row.status = "pending" /\ ("film" \in row.media) = FALSE
    BY <1>1
<1>5. Page(j)' = Paper("coming", {}, FALSE)
    <2>1. Has(j)' = {}
        BY <1>1, <1>2 DEF Has, RowsOf, TableTypes
    <2> QED
        BY <1>3, <1>4, <2>1, PageIs, FaceIs
<1>6. ASSUME NEW k \in DOMAIN jobs PROVE Page(k)' = Page(k)
    <2>1. Has(k)' = Has(k) /\ jobs'[k] = jobs[k]
        BY <1>1, <1>3, HasSame
    <2> QED
        BY <2>1, PageIs
<1> SUFFICES ASSUME NEW v \in Videos PROVE May(v, Shown[v], Shown'[v])
    BY AllMay
<1>7. CASE v # sub[r].video
    <2>1. JobsOf(v)' = JobsOf(v)
        BY <1>3, <1>4, <1>7 DEF JobsOf
    <2>2. CASE JobsOf(v) = {}
        BY <2>1, <2>2 DEF Shown, May
    <2>3. CASE JobsOf(v) # {}
        <3>1. PICK b : b = Biggest(JobsOf(v))
            OBVIOUS
        <3>2. Shown[v] = Page(b) /\ Shown'[v] = Page(b)'
            BY <2>1, <2>3, <3>1 DEF Shown
        <3> QED
            BY <1>2, <1>6, <2>3, <3>1, <3>2, LatestIs DEF May
    <2> QED
        BY <2>2, <2>3
<1>8. CASE v = sub[r].video /\ v \notin excused
    <2>1. \A k \in DOMAIN jobs : jobs[k].video = v => jobs[k].status = "error"
        BY <1>1, <1>8 DEF JobsInv, OneCreates, Unfailed, JobsOf
    <2>2. Shown'[v] = Paper("coming", {}, FALSE)
        <3>1. j \in JobsOf(v)' /\ JobsOf(v)' \subseteq DOMAIN jobs'
            BY <1>3, <1>4, <1>8 DEF JobsOf
        <3>2. PICK b : b = Biggest(JobsOf(v)')
            OBVIOUS
        <3>3. b \in DOMAIN jobs' /\ j <= b
            <4>1. JobsOf(v)' \subseteq 1 .. MaxJobs
                BY <3>1 DEF TableTypes
            <4>2. PICK ids : ids = JobsOf(v)'
                OBVIOUS
            <4> QED
                BY <3>1, <3>2, <4>1, <4>2, BoundsAssumption, BiggestIs
        <3>4. b = j
            BY <1>2, <1>3, <3>3
        <3>5. Shown'[v] = Page(b)'
            BY <3>1, <3>2 DEF Shown
        <3> QED
            BY <1>5, <3>4, <3>5
    <2>3. \E state \in {"absent", "failed"} : \E has, film : Shown[v] = Paper(state, has, film)
        <3>1. CASE JobsOf(v) = {}
            BY <3>1 DEF Shown, Paper
        <3>2. CASE JobsOf(v) # {}
            <4>1. PICK b : b = Biggest(JobsOf(v))
                OBVIOUS
            <4>2. Shown[v] = Page(b)
                BY <3>2, <4>1 DEF Shown
            <4>3. Face(jobs[b].status) = "failed"
                BY <1>2, <2>1, <3>2, <4>1, LatestIs, FaceIs
            <4> QED
                BY <4>2, <4>3, PageIs
        <3> QED
            BY <3>1, <3>2
    <2> QED
        BY <2>2, <2>3, BeginMay DEF May
<1> QED
    BY <1>1, <1>7, <1>8 DEF May

\* A start drops what was coming; what is done stays.
LEMMA BootPage ==
    ASSUME JobsInv, TableTypes', Boot \/ BootPanics
    PROVE  Promise!Next
<1>1. /\ ~up /\ TableTypes /\ UNCHANGED excused
      /\ \A j \in Unfinished : j \in DOMAIN jobs /\ jobs[j].status \in Live
    BY DEF Boot, BootPanics, Restarts, JobsInv, Unfinished
<1>2. /\ DOMAIN jobs \ Unfinished \subseteq DOMAIN jobs' /\ DOMAIN jobs' \subseteq DOMAIN jobs
      /\ \A k \in DOMAIN jobs' : jobs'[k] = jobs[k]
      /\ \A k \in DOMAIN jobs \ Unfinished : Has(k)' = Has(k)
    <2>1. CASE UNCHANGED rows
        BY <2>1, HasSame DEF Boot, BootPanics, Without
    <2>2. CASE rows' = Without(rows, Orphaned)
        <3>1. DOMAIN rows' = DOMAIN rows \ Orphaned /\ \A i \in DOMAIN rows' : rows'[i] = rows[i]
            BY <2>2 DEF Without
        <3>2. ASSUME NEW k \in DOMAIN jobs \ Unfinished PROVE Has(k)' = Has(k)
            <4>1. RowsOf(k)' = RowsOf(k)
                BY <3>1 DEF RowsOf, Orphaned
            <4>2. \A i \in RowsOf(k) : rows'[i] = rows[i]
                BY <3>1, <4>1 DEF RowsOf
            <4> QED
                BY <4>1, <4>2 DEF Has
        <3> QED
            BY <3>2 DEF Boot, BootPanics, Without
    <2> QED
        BY <2>1, <2>2 DEF Boot, BootPanics
<1>3. ASSUME NEW k \in DOMAIN jobs \ Unfinished PROVE Page(k)' = Page(k)
    BY <1>2, PageIs
<1> SUFFICES ASSUME NEW v \in Videos, v \notin excused PROVE May(v, Shown[v], Shown'[v])
    BY <1>1, AllMay DEF May
<1>4. JobsOf(v)' \subseteq JobsOf(v)
    BY <1>2 DEF JobsOf
<1>5. CASE JobsOf(v) = {}
    BY <1>4, <1>5 DEF Shown, May
<1>6. CASE JobsOf(v) # {}
    <2>1. PICK b : b = Biggest(JobsOf(v))
        OBVIOUS
    <2>2. /\ b \in DOMAIN jobs /\ jobs[b].video = v
          /\ \A k \in DOMAIN jobs : jobs[k].video = v => k <= b
        BY <1>1, <1>6, <2>1, LatestIs
    <2>3. Shown[v] = Page(b)
        BY <1>6, <2>1 DEF Shown
    <2>4. JobsOf(v)' # {} =>
            \E c \in DOMAIN jobs' : /\ jobs[c].video = v /\ Shown'[v] = Page(c)'
                                    /\ \A k \in DOMAIN jobs' : jobs[k].video = v => k <= c
        <3> SUFFICES ASSUME JobsOf(v)' # {}
                     PROVE  \E c \in DOMAIN jobs' : /\ jobs[c].video = v /\ Shown'[v] = Page(c)'
                                                    /\ \A k \in DOMAIN jobs' : jobs[k].video = v => k <= c
            OBVIOUS
        <3>1. PICK ids : ids = JobsOf(v)'
            OBVIOUS
        <3>2. ids \subseteq 1 .. MaxJobs /\ ids = {k \in DOMAIN jobs' : jobs[k].video = v}
            BY <1>2, <3>1 DEF JobsOf, TableTypes
        <3>3. Biggest(ids) \in ids /\ \A k \in ids : k <= Biggest(ids)
            BY <3>1, <3>2, BoundsAssumption, BiggestIs
        <3>4. PICK c : c = Biggest(ids)
            OBVIOUS
        <3>5. Shown'[v] = Page(c)'
            BY <3>1, <3>4 DEF Shown
        <3> QED
            BY <3>2, <3>3, <3>4, <3>5
    <2>5. CASE b \notin Unfinished
        <3>1. b \in DOMAIN jobs'
            BY <1>2, <2>2, <2>5
        <3>2. b \in JobsOf(v)'
            BY <1>2, <2>2, <3>1 DEF JobsOf
        <3>3. PICK c \in DOMAIN jobs' : /\ jobs[c].video = v /\ Shown'[v] = Page(c)'
                                        /\ b <= c
            BY <2>2, <2>4, <3>1, <3>2
        <3>4. c = b
            BY <1>1, <1>2, <2>2, <3>3, BoundsAssumption DEF TableTypes
        <3> QED
            BY <1>3, <2>2, <2>3, <2>5, <3>3, <3>4 DEF May
    <2>6. CASE b \in Unfinished
        <3>1. Face(jobs[b].status) = "coming"
            BY <1>1, <2>6, FaceIs DEF Live
        <3>2. Shown[v].state = "coming"
            BY <2>3, <3>1, PageIs DEF Paper
        <3>3. Shown'[v].state # "whole"
            <4>1. CASE JobsOf(v)' = {}
                BY <4>1 DEF Shown
            <4>2. CASE JobsOf(v)' # {}
                <5>1. PICK c \in DOMAIN jobs' : jobs[c].video = v /\ Shown'[v] = Page(c)'
                    BY <2>4, <4>2
                <5>2. c \in DOMAIN jobs /\ jobs'[c] = jobs[c] /\ c <= b
                    BY <1>2, <2>2, <5>1
                <5>3. CASE c = b
                    <6>1. Shown'[v] = Paper("coming", Has(b)', "film" \in jobs'[b].media)
                        BY <3>1, <5>1, <5>2, <5>3, PageIs
                    <6> QED
                        BY <6>1 DEF Paper
                <5>4. CASE c # b
                    <6>1. c < b
                        BY <1>1, <2>2, <5>2, <5>4, BoundsAssumption DEF TableTypes
                    <6>2. Face(jobs[c].status) = "failed"
                        BY <2>2, <5>1, <5>2, <6>1, FaceIs DEF JobsInv, LatestLives
                    <6>3. Shown'[v] = Paper("failed", Has(c)', "film" \in jobs'[c].media)
                        BY <5>1, <5>2, <6>2, PageIs
                    <6> QED
                        BY <6>3 DEF Paper
                <5> QED
                    BY <5>3, <5>4
            <4> QED
                BY <4>1, <4>2
        <3>4. Promise!Forgets(Shown[v], Shown'[v])
            BY <1>1, <3>2, <3>3 DEF Promise!Forgets
        <3> QED
            BY <3>4 DEF May
    <2> QED
        BY <2>5, <2>6
<1> QED
    BY <1>5, <1>6

\* Every step is one of Transcripts, or shows on no page.
LEMMA StepImplements ==
    ASSUME JobsInv, JobsInv', [Next]_vars
    PROVE  Promise!Next \/ UNCHANGED Shown
<1>1. ASSUME NEW r \in Submitters, Submitting(r) \/ SubmitFails(r) \/ \E v \in Videos : Submit(r, v)
      PROVE  Promise!Next \/ UNCHANGED Shown
    <2>1. CASE Submitting(r)
        BY <2>1, CreatePage, FillsPage DEF Submitting, JobsInv
    <2>2. CASE SubmitFails(r) \/ \E v \in Videos : Submit(r, v)
        BY <2>2, NoPage DEF SubmitFails, Submit, tables
    <2> QED
        BY <1>1, <2>1, <2>2
<1>2. ASSUME NEW j, Piping(j) \/ Tools(j)
      PROVE  Promise!Next \/ UNCHANGED Shown
    <2>1. CASE Joins(j) \/ Hears(j)
        BY <2>1, NoPage DEF Joins, Hears, Elsewhere
    <2>2. CASE ~(Joins(j) \/ Hears(j))
        BY <1>2, <2>2, BeginsPage, FilmedPage, FailsPage, FinishesPage DEF Piping, Tools
    <2> QED
        BY <2>1, <2>2
<1>3. ASSUME NEW t, Inserts(t) \/ InsertFails(t)
      PROVE  Promise!Next \/ UNCHANGED Shown
    <2>1. CASE InsertFails(t)
        BY <2>1, NoPage DEF InsertFails, tables
    <2>2. CASE Inserts(t)
        <3>1. PICK j, line : j = t[1] /\ line = writes[t] /\ t \in DOMAIN writes
                             /\ Insert(j, line) /\ UNCHANGED jobs
            BY <2>2 DEF Inserts
        <3>2. /\ j \in DOMAIN jobs /\ line \in Spoken(jobs[j].video) /\ line \notin Has(j)
              /\ t \in Tasks(j) /\ JobOk(j)
            BY <3>1, TaskIs
        <3>3. jobs[j].status # "done"
            BY <3>2 DEF JobOk, SettledOk
        <3> QED
            BY <3>1, <3>2, <3>3, InsertsPage
    <2> QED
        BY <1>3, <2>1, <2>2
<1>4. ASSUME NEW x \in Readers, Priming(x) \/ \E v \in Videos : Opens(x, v) \/ \E i \in DOMAIN rows : Plays(x, v, i)
      PROVE  UNCHANGED Shown
    BY <1>4, NoPage DEF Priming, Checks, Counts, Reads, Stores, Serves, Opens, Plays, OnlyView
<1>5. CASE Crash \/ UNCHANGED vars
    BY <1>5, NoPage DEF Crash, vars, tables
<1> QED
    BY <1>1, <1>2, <1>3, <1>4, <1>5, BootPage DEF Next, JobsInv

\* "Ensure all sentence inserts finish before marking the job as Done": every
\* behaviour of the jobs is one that Transcripts allows.
THEOREM Implements == Spec => KeepsItsPromise
<1>1. Init => Promise!Init
    BY DEF Init, Promise!Init, Shown, JobsOf
<1>2. JobsInv /\ JobsInv' /\ [Next]_vars => [Promise!Next]_Shown
    BY StepImplements
<1> QED
    BY <1>1, <1>2, JobsInvariant, PTL DEF Spec, KeepsItsPromise, Promise!Spec

---------------------------------------------------------------------------
(* Primers and clips.                                                      *)

\* What the jobs' work leaves to whoever reads: sentences stay, and of a job
\* that is done there come no more.
Calm ==
    /\ up /\ UNCHANGED <<up, view, primers, files, leftover>>
    /\ DOMAIN jobs \subseteq DOMAIN jobs'
    /\ \A i \in DOMAIN rows : i \in DOMAIN rows' /\ rows'[i] = rows[i]
    /\ \A k : RowsOf(k) \subseteq RowsOf(k)'
    /\ \A k \in DOMAIN jobs : jobs[k].status = "done" =>
         jobs'[k].status = "done" /\ RowsOf(k)' = RowsOf(k)

\* Only the row of a job at work is written: primers and clips are as they were.
LEMMA SetCalm ==
    ASSUME JobsInv, NEW j \in DOMAIN pipe, Elsewhere,
           UNCHANGED jobs \/ \E row : Set(j, row)
    PROVE  Calm
<1>1. up /\ j \in DOMAIN jobs /\ jobs[j].status # "done"
    BY InPipe
<1>2. /\ UNCHANGED <<rows, up, view, primers, files, leftover>>
      /\ \A k : RowsOf(k)' = RowsOf(k)
    BY HasSame DEF Elsewhere, machine
<1>3. DOMAIN jobs' = DOMAIN jobs /\ \A k \in DOMAIN jobs \ {j} : jobs'[k] = jobs[k]
    BY DEF Set, Lost
<1> QED
    BY <1>1, <1>2, <1>3 DEF Calm

\* A line is added to a job that is not done.
LEMMA InsertCalm ==
    ASSUME JobsInv, NEW j \in DOMAIN jobs, NEW line \in Spoken(jobs[j].video), line \notin Has(j),
           jobs[j].status # "done", Insert(j, line),
           UNCHANGED <<jobs, up, view, primers, files, leftover>>, up
    PROVE  Calm
<1>1. /\ \A i \in DOMAIN rows : i \in DOMAIN rows' /\ rows'[i] = rows[i]
      /\ \A k : RowsOf(k) \subseteq RowsOf(k)'
      /\ \A k : k # j => RowsOf(k)' = RowsOf(k)
    BY InsertIs DEF JobsInv
<1> QED
    BY <1>1 DEF Calm

\* Whatever submits, downloads, hears and inserts is calm.
LEMMA PipeCalm ==
    ASSUME JobsInv, NEW j \in DOMAIN pipe, Piping(j) \/ Tools(j)
    PROVE  Calm
<1>1. Elsewhere /\ (UNCHANGED jobs \/ \E row : Set(j, row))
    BY DEF Piping, Tools, Begins, Starts, Joins, Finishes, AudioComes, AudioFails, Hears, HearFails,
           Filmed, NoFilm, Say, Gain
<1> QED
    BY <1>1, SetCalm

\* A task inserts its line or fails to.
LEMMA TaskCalm ==
    ASSUME JobsInv, NEW t \in DOMAIN writes, Inserts(t) \/ InsertFails(t)
    PROVE  Calm
<1>1. CASE InsertFails(t)
    <2>1. UNCHANGED <<jobs, rows, up, view, primers, files, leftover>> /\ up
        BY <1>1, TaskIs DEF InsertFails, tables, machine
    <2> QED
        BY <2>1, HasSame DEF Calm
<1>2. CASE Inserts(t)
    <2>1. PICK j, line : /\ j = t[1] /\ line = writes[t] /\ Insert(j, line)
                         /\ UNCHANGED <<jobs, up, view, primers, files, leftover>>
        BY <1>2 DEF Inserts, machine
    <2>2. /\ j \in DOMAIN jobs /\ line \in Spoken(jobs[j].video) /\ line \notin Has(j)
          /\ t \in Tasks(j) /\ JobOk(j) /\ up
        BY <2>1, TaskIs
    <2>3. jobs[j].status # "done"
        BY <2>2 DEF JobOk, SettledOk
    <2> QED
        BY <2>1, <2>2, <2>3, InsertCalm
<1> QED
    BY <1>1, <1>2

\* What a request does.
LEMMA SubmitCalm ==
    ASSUME JobsInv, NEW r \in Submitters,
           Submitting(r) \/ SubmitFails(r) \/ \E v \in Videos : Submit(r, v)
    PROVE  Calm
<1>1. up /\ UNCHANGED <<up, view, primers, files, leftover>>
    BY DEF Submitting, Create, Fills, SubmitFails, Submit, tables, machine, JobsInv, DownIdle
<1>2. CASE SubmitFails(r) \/ \E v \in Videos : Submit(r, v)
    <2>1. UNCHANGED <<jobs, rows>>
        BY <1>2 DEF SubmitFails, Submit, tables
    <2> QED
        BY <1>1, <2>1, HasSame DEF Calm
<1>3. CASE Create(r)
    <2>1. PICK j, row : j = NextId(jobs) /\ jobs' = With(jobs, j, row) /\ UNCHANGED rows
        BY <1>3 DEF Create
    <2>2. j \notin DOMAIN jobs
        BY <2>1, NextIdIs, BoundsAssumption DEF JobsInv, TableTypes
    <2>3. DOMAIN jobs' = DOMAIN jobs \cup {j} /\ \A k \in DOMAIN jobs : jobs'[k] = jobs[k]
        BY <2>1, <2>2 DEF With
    <2> QED
        BY <1>1, <2>1, <2>3, HasSame DEF Calm
<1>4. CASE Fills(r)
    <2>1. PICK j : j = sub[r].job
        OBVIOUS
    <2>2. sub[r].pc \in {"media", "fill"}
        BY <1>4 DEF Fills
    <2>3. /\ j \in DOMAIN jobs /\ jobs[j].video = sub[r].video /\ jobs[j].status # "done"
          /\ Has(j) = 1 .. sub[r].next - 1 /\ sub[r].next \in Nat
        BY <2>1, <2>2, FillerIs
    <2>4. CASE UNCHANGED rows /\ \E row : jobs' = [jobs EXCEPT ![j] = row]
        <3>1. DOMAIN jobs' = DOMAIN jobs /\ \A k \in DOMAIN jobs \ {j} : jobs'[k] = jobs[k]
            BY <2>4
        <3> QED
            BY <1>1, <2>3, <2>4, <3>1, HasSame DEF Calm
    <2>5. CASE UNCHANGED jobs /\ Insert(j, sub[r].next) /\ sub[r].next \in Spoken(sub[r].video)
        <3>1. PICK line : line = sub[r].next
            OBVIOUS
        <3>2. line \in Spoken(jobs[j].video) /\ line \notin Has(j)
            BY <2>3, <2>5, <3>1
        <3> QED
            BY <1>1, <2>3, <2>5, <3>1, <3>2, InsertCalm
    <2>6. \/ jobs' = [jobs EXCEPT ![j].media = {"audio", "film"}] /\ UNCHANGED rows
          \/ jobs' = [jobs EXCEPT ![j].status = "done"] /\ UNCHANGED rows
          \/ UNCHANGED jobs /\ Insert(j, sub[r].next) /\ sub[r].next \in Spoken(sub[r].video)
        BY <1>4, <2>1 DEF Fills
    <2>7. /\ [jobs EXCEPT ![j].media = {"audio", "film"}]
               = [jobs EXCEPT ![j] = [jobs[j] EXCEPT !.media = {"audio", "film"}]]
          /\ [jobs EXCEPT ![j].status = "done"] = [jobs EXCEPT ![j] = [jobs[j] EXCEPT !.status = "done"]]
        OBVIOUS
    <2> QED
        BY <2>4, <2>5, <2>6, <2>7
<1> QED
    BY <1>2, <1>3, <1>4 DEF Submitting

\* A primer is stamped with what it was counted over, and that is there unless a
\* start has failed between dropping the sentences and dropping the jobs.
PrimersOk == \A j \in DOMAIN primers :
    /\ primers[j].stamp = Cardinality(primers[j].of)
    /\ up \/ j \notin Unfinished => primers[j].of \subseteq RowsOf(j)
\* What was read for a primer is still there when it is stored.
ReadsOk == \A x \in Readers :
    view[x].pc = "store" => view[x].read \subseteq RowsOf(view[x].job)
\* Whoever came when the transcript was done and nobody had an older one to
\* store: all that is stored from then on is the whole, and a stamp that fits
\* now, or that was seen and has been replaced since, is of the whole.
SureOk(x) == view[x].pc \in PrimerPCs /\ view[x].sure =>
    /\ jobs[view[x].job].status = "done"
    /\ \A y \in Readers : view[y].pc = "store" /\ view[y].job = view[x].job =>
         view[y].read = RowsOf(view[x].job)
    /\ view[x].pc = "count" => \A n \in view[x].built :
         /\ view[x].job \in DOMAIN primers
         /\ primers[view[x].job].stamp = n \/ primers[view[x].job].of = RowsOf(view[x].job)
    /\ view[x].pc = "fetch" =>
         view[x].job \in DOMAIN primers /\ primers[view[x].job].of = RowsOf(view[x].job)
PrimerInv == PrimersOk /\ ReadsOk /\ \A x \in Readers : SureOk(x)

\* While the jobs are at work.
LEMMA CalmPrimers ==
    ASSUME JobsInv, PrimerInv, Calm
    PROVE  PrimerInv'
<1>1. PrimersOk'
    <2> SUFFICES ASSUME NEW j \in DOMAIN primers
                 PROVE  /\ primers[j].stamp = Cardinality(primers[j].of)
                        /\ primers[j].of \subseteq RowsOf(j)'
        BY DEF PrimersOk, Calm
    <2> QED
        BY DEF PrimerInv, PrimersOk, Calm
<1>2. ReadsOk'
    BY DEF PrimerInv, ReadsOk, Calm
<1>3. ASSUME NEW x \in Readers PROVE SureOk(x)'
    <2> SUFFICES ASSUME view[x].pc \in PrimerPCs /\ view[x].sure
                 PROVE  SureOk(x)'
        BY DEF SureOk, Calm
    <2>1. /\ SureOk(x) /\ UNCHANGED <<view, primers>>
          /\ view[x].job \in DOMAIN jobs /\ jobs[view[x].job].status = "done"
        BY DEF PrimerInv, SureOk, JobsInv, SideTypes, Calm
    <2>2. jobs'[view[x].job].status = "done" /\ RowsOf(view[x].job)' = RowsOf(view[x].job)
        BY <2>1 DEF Calm
    <2> QED
        BY <2>1, <2>2 DEF SureOk
<1> QED
    BY <1>1, <1>2, <1>3 DEF PrimerInv

\* A reader who is not sure, or who is served, breaks nothing.
LEMMA ReaderPrimers ==
    ASSUME JobsInv, PrimerInv, NEW x \in Readers, up,
           UNCHANGED <<jobs, rows, up, primers>>,
           \A y \in Readers \ {x} : view'[y] = view[y],
           view'[x].pc = "store" => view'[x].read = RowsOf(view'[x].job),
           SureOk(x)'
    PROVE  PrimerInv'
<1>1. \A j : RowsOf(j)' = RowsOf(j)
    BY HasSame
<1>2. PrimersOk'
    BY <1>1 DEF PrimerInv, PrimersOk
<1>3. ReadsOk'
    BY <1>1 DEF PrimerInv, ReadsOk
<1>4. ASSUME NEW z \in Readers, z # x PROVE SureOk(z)'
    BY <1>1, <1>4 DEF PrimerInv, SureOk
<1> QED
    BY <1>2, <1>3, <1>4 DEF PrimerInv

\* A part of a finite set with as many members is all of it.
LEMMA AsManyIsAll ==
    ASSUME NEW S, IsFiniteSet(S), NEW T, T \subseteq S, Cardinality(T) = Cardinality(S)
    PROVE  T = S
BY FS_Subset

\* The five steps of a primer that is built or served.
LEMMA PrimingPrimers ==
    ASSUME JobsInv, PrimerInv, NEW x \in Readers, Priming(x)
    PROVE  PrimerInv'
<1>1. PICK old, j : old = view[x] /\ j = old.job
    OBVIOUS
<1>2. /\ old \in [pc : ViewPCs, job : Nat, built : SUBSET Nat, read : SUBSET Nat, sure : BOOLEAN]
      /\ view \in [Readers -> [pc : ViewPCs, job : Nat, built : SUBSET Nat,
                               read : SUBSET Nat, sure : BOOLEAN]]
      /\ old.pc \in PrimerPCs => j \in DOMAIN jobs
    BY <1>1 DEF JobsInv, SideTypes
<1>3. old.pc \in PrimerPCs /\ up
    BY <1>1, <1>2 DEF Priming, Checks, Counts, Reads, Stores, Serves, PrimerPCs, JobsInv, DownIdle
<1>4. /\ UNCHANGED <<jobs, rows, up>> /\ \A k : RowsOf(k)' = RowsOf(k)
      /\ \E rec : view' = [view EXCEPT ![x] = rec]
    BY HasSame DEF Priming, Checks, Counts, Reads, Stores, Serves, OnlyView, machine
<1>5. \A y \in Readers \ {x} : view'[y] = view[y]
    BY <1>2, <1>4
<1>6. SureOk(x) /\ IsFiniteSet(RowsOf(j))
    BY RowsAreNat DEF PrimerInv, JobsInv
<1>7. CASE Checks(x)
    <2>1. view'[x] = [old EXCEPT !.pc = "count", !.built = Built(j)] /\ UNCHANGED primers
        BY <1>1, <1>2, <1>7 DEF Checks, OnlyView
    <2>2. /\ view'[x].pc = "count" /\ view'[x].job = j /\ view'[x].sure = old.sure
          /\ view'[x].built = Built(j)
        BY <1>1, <1>2, <2>1
    <2>3. \A n \in Built(j) : j \in DOMAIN primers /\ primers[j].stamp = n
        BY DEF Built
    <2>4. \A y \in Readers : view'[y].pc = "store" => view'[y] = view[y]
        BY <1>5, <2>2
    <2>5. SureOk(x)'
        BY <1>1, <1>3, <1>4, <1>6, <2>1, <2>2, <2>3, <2>4 DEF SureOk
    <2> QED
        BY <1>3, <1>4, <1>5, <2>1, <2>2, <2>5, ReaderPrimers
<1>8. CASE Counts(x)
    <2>1. /\ view'[x] = [old EXCEPT !.built = {}, !.pc =
                           IF old.built = {Cardinality(RowsOf(j))} THEN "fetch" ELSE "read"]
          /\ UNCHANGED primers /\ old.pc = "count"
        BY <1>1, <1>2, <1>8 DEF Counts, OnlyView
    <2>2. /\ view'[x].pc = IF old.built = {Cardinality(RowsOf(j))} THEN "fetch" ELSE "read"
          /\ view'[x].job = j /\ view'[x].sure = old.sure
        BY <1>1, <1>2, <2>1
    <2>3. ASSUME old.sure, old.built = {Cardinality(RowsOf(j))}
          PROVE  j \in DOMAIN primers /\ primers[j].of = RowsOf(j)
        <3>1. /\ j \in DOMAIN primers
              /\ primers[j].stamp = Cardinality(RowsOf(j)) \/ primers[j].of = RowsOf(j)
            BY <1>1, <1>3, <1>6, <2>1, <2>3 DEF SureOk
        <3>2. primers[j].stamp = Cardinality(primers[j].of) /\ primers[j].of \subseteq RowsOf(j)
            BY <1>3, <3>1 DEF PrimerInv, PrimersOk
        <3> QED
            BY <1>6, <3>1, <3>2, AsManyIsAll
    <2>4. \A y \in Readers : view'[y].pc = "store" => view'[y] = view[y]
        BY <1>5, <2>2
    <2>5. SureOk(x)'
        BY <1>1, <1>3, <1>4, <1>6, <2>1, <2>2, <2>3, <2>4 DEF SureOk
    <2> QED
        BY <1>3, <1>4, <1>5, <2>1, <2>2, <2>5, ReaderPrimers
<1>9. CASE Reads(x)
    <2>1. view'[x] = [old EXCEPT !.pc = "store", !.read = RowsOf(j)] /\ UNCHANGED primers
        BY <1>1, <1>2, <1>9 DEF Reads, OnlyView
    <2>2. /\ view'[x].pc = "store" /\ view'[x].job = j /\ view'[x].sure = old.sure
          /\ view'[x].read = RowsOf(j)
        BY <1>1, <1>2, <2>1
    <2>3. SureOk(x)'
        BY <1>1, <1>3, <1>4, <1>5, <1>6, <2>1, <2>2 DEF SureOk
    <2> QED
        BY <1>3, <1>4, <1>5, <2>1, <2>2, <2>3, ReaderPrimers
<1>10. CASE Serves(x)
    <2>1. view'[x].pc = "over" /\ UNCHANGED primers
        BY <1>2, <1>10, RestIs DEF Serves, OnlyView
    <2>2. SureOk(x)'
        BY <2>1 DEF SureOk, PrimerPCs
    <2> QED
        BY <1>3, <1>4, <1>5, <2>1, <2>2, ReaderPrimers
<1>11. CASE Stores(x)
    <2>1. /\ view'[x] = [old EXCEPT !.pc = "fetch", !.read = {}] /\ old.pc = "store"
          /\ primers' = With(primers, j, [stamp |-> Cardinality(old.read), of |-> old.read])
        BY <1>1, <1>2, <1>11 DEF Stores, OnlyView
    <2>2. view'[x].pc = "fetch" /\ view'[x].job = j /\ view'[x].sure = old.sure
        BY <1>1, <1>2, <2>1
    <2>3. PICK new : new = [stamp |-> Cardinality(old.read), of |-> old.read]
        OBVIOUS
    <2>4. primers' = With(primers, j, new)
        BY <2>1, <2>3
    <2>5. /\ DOMAIN primers' = DOMAIN primers \cup {j} /\ primers'[j] = new
          /\ \A k \in DOMAIN primers : k # j => primers'[k] = primers[k]
        BY <2>4 DEF With
    <2>6. new.stamp = Cardinality(new.of) /\ new.of = old.read /\ old.read \subseteq RowsOf(j)
        BY <1>1, <2>1, <2>3 DEF PrimerInv, ReadsOk
    <2>7. PrimersOk'
        BY <1>4, <2>5, <2>6 DEF PrimerInv, PrimersOk, Unfinished
    <2>8. \A y \in Readers : view'[y].pc = "store" => view'[y] = view[y]
        BY <1>5, <2>2
    <2>9. ReadsOk'
        BY <1>4, <2>8 DEF PrimerInv, ReadsOk
\* For whoever is sure of this job, what is stored is the whole.
    <2>10. ASSUME NEW z \in Readers PROVE SureOk(z)'
        <3>1. /\ view'[z].job = view[z].job /\ view'[z].sure = view[z].sure
              /\ view'[z].pc \in PrimerPCs => view[z].pc \in PrimerPCs
              /\ view'[z].pc = "count" => view[z] = view'[z]
              /\ view'[z].pc = "fetch" => z = x \/ view[z] = view'[z]
            BY <1>1, <1>3, <1>5, <2>2
        <3> SUFFICES ASSUME view[z].pc \in PrimerPCs, view[z].sure, view'[z].pc \in PrimerPCs
                     PROVE  SureOk(z)'
            BY <3>1 DEF SureOk
        <3>2. SureOk(z)
            BY DEF PrimerInv
        <3>3. CASE view[z].job = j
            <4>1. primers'[j].of = RowsOf(j) /\ j \in DOMAIN primers'
                BY <1>1, <2>1, <2>5, <2>6, <3>2, <3>3 DEF SureOk
            <4> QED
                BY <1>4, <2>8, <3>1, <3>2, <3>3, <4>1 DEF SureOk
        <3>4. CASE view[z].job # j
            <4>1. z # x
                BY <1>1, <3>4
            <4>2. view'[z] = view[z]
                BY <1>5, <4>1
            <4>3. view[z].job \in DOMAIN primers => view[z].job \in DOMAIN primers' /\ primers'[view[z].job] = primers[view[z].job]
                BY <2>5, <3>4
            <4> QED
                BY <1>4, <2>8, <3>2, <4>2, <4>3 DEF SureOk
        <3> QED
            BY <3>3, <3>4
    <2> QED
        BY <2>7, <2>9, <2>10 DEF PrimerInv
<1> QED
    BY <1>7, <1>8, <1>9, <1>10, <1>11 DEF Priming

\* A reader opens a transcript.
LEMMA OpensPrimers ==
    ASSUME JobsInv, PrimerInv, NEW x \in Readers, NEW v \in Videos, Opens(x, v)
    PROVE  PrimerInv'
<1>1. PICK j, sure :
        /\ up /\ sure \in BOOLEAN
        /\ sure => /\ jobs[j].status = "done"
                   /\ \A y \in Readers : ~(view[y].pc = "store" /\ view[y].job = j)
        /\ view' = [view EXCEPT ![x] = [NoView EXCEPT !.pc = "check", !.job = j, !.sure = sure]]
        /\ UNCHANGED <<jobs, rows, up, primers>>
    BY DEF Opens, OnlyView, machine
<1>2. PICK rec : rec = [NoView EXCEPT !.pc = "check", !.job = j, !.sure = sure]
    OBVIOUS
<1>3. rec.pc = "check" /\ rec.job = j /\ rec.sure = sure
    BY <1>2, RestIs
<1>4. view'[x] = rec /\ \A y \in Readers \ {x} : view'[y] = view[y]
    BY <1>1, <1>2 DEF JobsInv, SideTypes
<1>5. \A y \in Readers : view'[y].pc = "store" => view'[y] = view[y]
    BY <1>3, <1>4
<1>6. SureOk(x)'
    BY <1>1, <1>3, <1>4, <1>5 DEF SureOk
<1> QED
    BY <1>1, <1>3, <1>4, <1>6, ReaderPrimers

\* A reader plays a line.
LEMMA PlaysPrimers ==
    ASSUME JobsInv, PrimerInv, NEW x \in Readers, NEW v \in Videos, NEW i \in DOMAIN rows, Plays(x, v, i)
    PROVE  PrimerInv'
<1>1. up /\ UNCHANGED <<jobs, rows, up, primers>> /\ view' = [view EXCEPT ![x] = Served]
    BY DEF Plays, machine
<1>2. view'[x] = Served /\ \A y \in Readers \ {x} : view'[y] = view[y]
    BY <1>1 DEF JobsInv, SideTypes
<1>3. SureOk(x)' /\ view'[x].pc # "store"
    BY <1>2, RestIs DEF SureOk, PrimerPCs
<1> QED
    BY <1>1, <1>2, <1>3, ReaderPrimers

\* A crash leaves no reader, and a start no primer of what was unfinished.
LEMMA DownPrimers ==
    ASSUME JobsInv, PrimerInv, Crash \/ Boot \/ BootPanics
    PROVE  PrimerInv'
<1>1. \A x \in Readers : view'[x].pc \in {"rest", "over"}
    BY RestIs DEF Crash, Boot, BootPanics, Restarts, memory, JobsInv, DownIdle
<1>2. ReadsOk' /\ \A x \in Readers : SureOk(x)'
    BY <1>1 DEF ReadsOk, SureOk, PrimerPCs
<1>3. PrimersOk'
    <2>1. CASE Crash
        <3>1. UNCHANGED <<jobs, rows, primers>> /\ up /\ \A j : RowsOf(j)' = RowsOf(j)
            BY <2>1, HasSame DEF Crash, tables
        <3> QED
            BY <3>1 DEF PrimerInv, PrimersOk
    <2>2. CASE Boot \/ BootPanics
        <3>1. ~up /\ UNCHANGED primers
            BY <2>2 DEF Boot, BootPanics, Restarts
        <3>2. \A j \in DOMAIN primers : up' \/ j \notin Unfinished' => j \notin Unfinished
            BY <2>2 DEF Boot, BootPanics, Restarts, Unfinished
        <3>3. \A j \in DOMAIN primers \ Unfinished : RowsOf(j)' = RowsOf(j)
            <4>1. CASE UNCHANGED rows
                BY <4>1, HasSame
            <4>2. CASE rows' = Without(rows, Orphaned)
                <5>1. DOMAIN rows' = DOMAIN rows \ Orphaned /\ \A i \in DOMAIN rows' : rows'[i] = rows[i]
                    BY <4>2 DEF Without
                <5> QED
                    BY <5>1 DEF RowsOf, Orphaned
            <4> QED
                BY <2>2, <4>1, <4>2 DEF Boot, BootPanics
        <3> QED
            BY <3>1, <3>2, <3>3 DEF PrimerInv, PrimersOk
    <2> QED
        BY <2>1, <2>2
<1> QED
    BY <1>2, <1>3 DEF PrimerInv

\* Every step keeps the primers.
LEMMA NextPrimers ==
    ASSUME JobsInv, PrimerInv, [Next]_vars
    PROVE  PrimerInv'
<1>1. CASE Calm
    BY <1>1, CalmPrimers
<1>2. ASSUME NEW x \in Readers, Priming(x) \/ \E v \in Videos : Opens(x, v) \/ \E i \in DOMAIN rows : Plays(x, v, i)
      PROVE  PrimerInv'
    BY <1>2, PrimingPrimers, OpensPrimers, PlaysPrimers
<1>3. CASE Crash \/ Boot \/ BootPanics
    BY <1>3, DownPrimers
<1>4. CASE UNCHANGED vars
    <2>1. UNCHANGED <<jobs, rows, primers, view, up>> /\ \A j : RowsOf(j)' = RowsOf(j)
        BY <1>4, HasSame DEF vars, tables, memory, machine
    <2> QED
        BY <2>1 DEF PrimerInv, PrimersOk, ReadsOk, SureOk, Unfinished
<1>5. \/ Calm \/ Crash \/ Boot \/ BootPanics \/ UNCHANGED vars
      \/ \E x \in Readers : Priming(x) \/ \E v \in Videos : Opens(x, v) \/ \E i \in DOMAIN rows : Plays(x, v, i)
    BY PipeCalm, TaskCalm, SubmitCalm DEF Next
<1> QED
    BY <1>1, <1>2, <1>3, <1>4, <1>5

\* The types the run checks.
LEMMA TypesHold ==
    ASSUME JobsInv
    PROVE  TypeOK
<1>1. /\ \A i \in DOMAIN rows : rows[i].job \in DOMAIN jobs /\ rows[i].line \in Lines[jobs[rows[i].job].video]
      /\ \A i, k \in DOMAIN rows : rows[i] = rows[k] => i = k
    BY JobIs DEF JobsInv, TableTypes, Lines
<1>2. \A t \in DOMAIN writes :
        /\ t[1] \in DOMAIN jobs /\ t[2] \in DOMAIN Ends[jobs[t[1]].video]
        /\ writes[t] \in Segment(jobs[t[1]].video, t[2])
    BY TaskIs, UptoIs
<1>3. /\ \A x \in Readers : view[x].pc \in {"rest", "check", "count", "read", "store", "fetch", "over"}
      /\ \A r \in Submitters : sub[r].pc \in {"rest", "create", "media", "fill"}
    BY DEF JobsInv, WorkTypes, SideTypes, SubPCs, ViewPCs, PrimerPCs
<1>4. up \in BOOLEAN /\ boots + fails \in 0 .. MaxTrouble
    BY BoundsAssumption DEF JobsInv, WorkTypes
<1> QED
    BY <1>1, <1>2, <1>3, <1>4 DEF TypeOK, JobsInv, TableTypes, WorkTypes, SideTypes

\* It holds before anybody has asked, and with JobsInv every step keeps it.
LEMMA PrimerInvariant == Spec => []PrimerInv
<1>1. Init => PrimerInv
    <2> SUFFICES ASSUME Init PROVE PrimerInv
        OBVIOUS
    <2>1. DOMAIN primers = {} /\ \A x \in Readers : view[x].pc = "rest"
        BY RestIs DEF Init
    <2> QED
        BY <2>1 DEF PrimerInv, PrimersOk, ReadsOk, SureOk, PrimerPCs
<1>2. JobsInv /\ PrimerInv /\ [Next]_vars => PrimerInv'
    BY NextPrimers
<1> QED
    BY <1>1, <1>2, JobsInvariant, PTL DEF Spec

\* "The counts are over the whole transcript, so one that grew since the build
\* invalidates every one of them": whoever asks for the primer of a transcript
\* that is done finds one over all of it, unless an older one is being stored.
THEOREM PrimersWhole == Spec => []PrimerWhole
<1>1. JobsInv /\ PrimerInv => PrimerWhole
    <2> SUFFICES ASSUME JobsInv, PrimerInv PROVE PrimerWhole
        OBVIOUS
    <2>1. ASSUME NEW x \in Readers, view[x].pc = "fetch", view[x].sure
          PROVE  primers[view[x].job].of = RowsOf(view[x].job)
        BY <2>1 DEF PrimerInv, SureOk, PrimerPCs
    <2> QED
        BY <2>1, TypesHold DEF PrimerWhole
<1> QED
    BY <1>1, JobsInvariant, PrimerInvariant, PTL

\* A clip is of the row that has its ids, which is there unless a start failed
\* between dropping the sentences and dropping their jobs.
ClipOk(key) ==
    /\ key[1] \in DOMAIN jobs
    /\ \/ key[2] \in RowsOf(key[1]) /\ files[key] = rows[key[2]].line
       \/ key[2] \notin DOMAIN rows /\ key[1] \in Unfinished /\ ~up
ClipsInv == leftover \/ \A key \in DOMAIN files : ClipOk(key)

\* Every step keeps the clips.
LEMMA NextClips ==
    ASSUME JobsInv, ClipsInv, [Next]_vars
    PROVE  ClipsInv'
<1>1. CASE Calm
    <2> SUFFICES ASSUME ~leftover, NEW key \in DOMAIN files PROVE ClipOk(key)'
        BY <1>1 DEF ClipsInv, Calm
    <2>1. /\ key[1] \in DOMAIN jobs /\ up
          /\ key[2] \in RowsOf(key[1]) /\ files[key] = rows[key[2]].line
        BY <1>1 DEF ClipsInv, ClipOk, Calm
    <2>2. /\ key[1] \in DOMAIN jobs' /\ key[2] \in RowsOf(key[1])'
          /\ files'[key] = rows'[key[2]].line
        BY <1>1, <2>1 DEF Calm, RowsOf
    <2> QED
        BY <2>2 DEF ClipOk
<1>2. CASE UNCHANGED <<jobs, rows, files, leftover>> /\ (up' = up \/ up)
    <2>1. \A j : RowsOf(j)' = RowsOf(j)
        BY <1>2, HasSame
    <2> QED
        BY <1>2, <2>1 DEF ClipsInv, ClipOk, Unfinished
<1>3. ASSUME NEW x \in Readers, NEW v \in Videos, NEW i \in DOMAIN rows, Plays(x, v, i)
      PROVE  ClipsInv'
    <2>1. PICK new, line : /\ new = <<rows[i].job, i>> /\ line = rows[i].line
                           /\ files' = With(files, new, line)
                           /\ UNCHANGED <<jobs, rows, up, leftover>>
        BY <1>3 DEF Plays, machine
    <2>2. /\ DOMAIN files' = DOMAIN files \cup {new} /\ files'[new] = line
          /\ \A key \in DOMAIN files : key # new => files'[key] = files[key]
        BY <2>1 DEF With
    <2>3. \A j : RowsOf(j)' = RowsOf(j)
        BY <2>1, HasSame
    <2>4. new[1] = rows[i].job /\ new[2] = i
        BY <2>1
    <2>5. ClipOk(new)'
        <3>1. new[1] \in DOMAIN jobs /\ new[2] \in RowsOf(new[1])
            BY <2>4 DEF JobsInv, TableTypes, RowsOf
        <3> QED
            BY <2>1, <2>2, <2>3, <2>4, <3>1 DEF ClipOk
    <2>6. ASSUME NEW key \in DOMAIN files, key # new, ClipOk(key) PROVE ClipOk(key)'
        BY <2>1, <2>2, <2>3, <2>6 DEF ClipOk, Unfinished
    <2> QED
        BY <2>1, <2>2, <2>5, <2>6 DEF ClipsInv
<1>4. CASE Boot
    <2>1. /\ rows' = Without(rows, Orphaned) /\ jobs' = Without(jobs, Unfinished)
          /\ leftover' = (leftover \/ \E key \in DOMAIN files : key[1] \in Unfinished)
          /\ UNCHANGED files
        BY <1>4 DEF Boot
    <2>2. /\ DOMAIN rows' = DOMAIN rows \ Orphaned /\ \A i \in DOMAIN rows' : rows'[i] = rows[i]
          /\ DOMAIN jobs' = DOMAIN jobs \ Unfinished
        BY <2>1 DEF Without
    <2> SUFFICES ASSUME ~leftover', NEW key \in DOMAIN files PROVE ClipOk(key)'
        BY <2>1 DEF ClipsInv
    <2>3. /\ key[1] \notin Unfinished /\ key[1] \in DOMAIN jobs
          /\ key[2] \in RowsOf(key[1]) /\ files[key] = rows[key[2]].line
        BY <2>1 DEF ClipsInv, ClipOk
    <2>4. key[2] \in RowsOf(key[1])'
        BY <2>2, <2>3 DEF RowsOf, Orphaned
    <2> QED
        BY <2>1, <2>2, <2>3, <2>4 DEF ClipOk, RowsOf
<1>5. CASE BootPanics
    <2>1. /\ UNCHANGED <<jobs, files, up, leftover>> /\ ~up
          /\ UNCHANGED rows \/ rows' = Without(rows, Orphaned)
        BY <1>5 DEF BootPanics, Restarts
    <2>2. /\ DOMAIN rows' \subseteq DOMAIN rows /\ \A i \in DOMAIN rows' : rows'[i] = rows[i]
          /\ \A i \in DOMAIN rows \ DOMAIN rows' : i \in Orphaned
        BY <2>1 DEF Without
    <2> SUFFICES ASSUME ~leftover, NEW key \in DOMAIN files PROVE ClipOk(key)'
        BY <2>1 DEF ClipsInv
    <2>3. ClipOk(key)
        BY DEF ClipsInv
    <2>4. CASE key[2] \in RowsOf(key[1])
        <3>1. key[2] \in DOMAIN rows /\ rows[key[2]].job = key[1]
            BY <2>4 DEF RowsOf
        <3>2. CASE key[2] \in DOMAIN rows'
            BY <2>1, <2>2, <2>3, <3>1, <3>2 DEF ClipOk, RowsOf
        <3>3. CASE key[2] \notin DOMAIN rows'
            <4>1. key[1] \in Unfinished
                BY <2>2, <3>1, <3>3 DEF Orphaned, RowsOf
            <4> QED
                BY <2>1, <2>3, <3>3, <4>1 DEF ClipOk, Unfinished
        <3> QED
            BY <3>2, <3>3
    <2>5. CASE key[2] \notin RowsOf(key[1])
        BY <2>1, <2>2, <2>3, <2>5 DEF ClipOk, Unfinished
    <2> QED
        BY <2>4, <2>5
<1>6. \/ Calm \/ Boot \/ BootPanics
      \/ UNCHANGED <<jobs, rows, files, leftover>> /\ (up' = up \/ up)
      \/ \E x \in Readers, v \in Videos, i \in DOMAIN rows : Plays(x, v, i)
    <2>1. ASSUME NEW x \in Readers, Priming(x) \/ \E v \in Videos : Opens(x, v)
          PROVE  UNCHANGED <<jobs, rows, files, leftover, up>>
        BY <2>1 DEF Priming, Checks, Counts, Reads, Stores, Serves, Opens, OnlyView, machine
    <2>2. CASE Crash \/ UNCHANGED vars
        BY <2>2 DEF Crash, vars, tables, machine
    <2> QED
        BY <2>1, <2>2, PipeCalm, TaskCalm, SubmitCalm DEF Next
<1> QED
    BY <1>1, <1>2, <1>3, <1>4, <1>5, <1>6

\* A clip plays the line it is asked for, unless a start has dropped a job of
\* which clips were cut and its ids have come again.
THEOREM ClipsPlayTheirLine == Spec => []PlaysItsLine
<1>1. Init => ClipsInv
    BY DEF Init, ClipsInv
<1>2. JobsInv /\ ClipsInv /\ [Next]_vars => ClipsInv'
    BY NextClips
<1>3. ClipsInv => PlaysItsLine
    BY DEF ClipsInv, ClipOk, PlaysItsLine, RowsOf
<1> QED
    BY <1>1, <1>2, <1>3, JobsInvariant, PTL DEF Spec
===========================================================================
