---------------------------------- MODULE YtJobs ----------------------------------
(***************************************************************************)
(* yt-mine: a video is submitted, its audio downloaded, transcribed by     *)
(* whisper while the film comes down, and its lines stored as they are     *)
(* heard (routes/api, services/pipeline.rs, db.rs).  Beside that a page    *)
(* asks for the primer, counted over the lines there are, and for clips.   *)
(*                                                                         *)
(* A request or task between two awaits is a step; the memory of them all  *)
(* goes when the server does, and the next start cleans the tables up.     *)
(* yt-dlp, ffmpeg and whisper are external: they answer, fail, or never    *)
(* answer, as nothing times them out.  A line is its place in the          *)
(* transcript, and a segment holds the lines into_sentences cuts it into.  *)
(* A video on disk may have subtitles: then the request itself fills it in *)
(* from them.                                                              *)
(***************************************************************************)
EXTENDS Naturals, FiniteSets, Sequences

CONSTANTS
    Videos,
    Local,      \* those on disk, beside which there may be subtitles
    Ends,       \* video -> for each segment, the last of its lines
    Submitters, \* requests that submit, again and again
    Readers,    \* requests for a primer or a clip, each of them once
    MaxJobs,    \* bound: jobs in the table
    MaxTrouble  \* bound: writes that fail, requests that are dropped and restarts, together

\* into_sentences makes at least one line of a segment.
ASSUME EndsAssumption == \A v \in Videos :
    /\ Ends[v] \in Seq(Nat \ {0})
    /\ \A s \in 2 .. Len(Ends[v]) : Ends[v][s - 1] < Ends[v][s]
ASSUME BoundsAssumption == MaxJobs \in Nat /\ MaxTrouble \in Nat

VARIABLES
    jobs,     \* mining_jobs: id -> [video, status, media]
    rows,     \* mining_sentences: id -> [job, line]
    primers,  \* primer_builds and primer_words: job -> [stamp, of]
    files,    \* media_dir: <<job, sentence>> -> the line the clip is of
    up,       \* the server runs
    boots, fails,
    sub,      \* Submitters -> where each request is
    pipe,     \* job -> its process_job
    writes,   \* <<job, segment>> -> the line its task inserts next
    view,     \* Readers -> where each request is
    excused,  \* history: videos of which a write failed, or submitted twice at once
    leftover  \* history: a start dropped a job whose clips stayed

tables  == <<jobs, rows, primers, files>>
memory  == <<sub, pipe, writes, view>>
machine == <<up, boots, leftover>>
vars == <<tables, memory, machine, fails, excused>>

Live == {"pending", "downloading", "transcribing"}
\* The lines of the first h segments are 1 .. Upto(v, h).
Upto(v, h) == IF h = 0 THEN 0 ELSE Ends[v][h]
Spoken(v)  == 1 .. Upto(v, Len(Ends[v]))
Lines      == [v \in Videos |-> Spoken(v)]
Segment(v, s) == Upto(v, s - 1) + 1 .. Upto(v, s)

NoSub  == [pc |-> "rest", video |-> "none", job |-> 0, next |-> 0]
NoView == [pc |-> "rest", job |-> 0, built |-> {}, read |-> {}, sure |-> FALSE]
Served == [NoView EXCEPT !.pc = "over"]

TypeOK ==
    /\ \A j \in DOMAIN jobs :
         jobs[j] \in [video : Videos, status : Live \cup {"done", "error"},
                     media : SUBSET {"audio", "film"}]
    /\ DOMAIN jobs \subseteq 1 .. MaxJobs
    /\ \A i \in DOMAIN rows : rows[i].job \in DOMAIN jobs /\ rows[i].line \in Lines[jobs[rows[i].job].video]
    /\ \A i, k \in DOMAIN rows : rows[i] = rows[k] => i = k
    /\ DOMAIN primers \subseteq DOMAIN jobs /\ DOMAIN pipe \subseteq DOMAIN jobs
    /\ \A t \in DOMAIN writes : 
         /\ t[1] \in DOMAIN jobs /\ t[2] \in DOMAIN Ends[jobs[t[1]].video]
         /\ writes[t] \in Segment(jobs[t[1]].video, t[2])
    /\ \A x \in Readers : view[x].pc \in {"rest", "check", "count", "read", "store", "fetch", "over"}
    /\ \A r \in Submitters : sub[r].pc \in {"rest", "create", "media", "fill"}
    /\ up \in BOOLEAN /\ boots + fails \in 0 .. MaxTrouble

Init ==
    /\ jobs = << >> /\ rows = << >> /\ primers = << >> /\ files = << >>
    /\ up = TRUE /\ boots = 0 /\ fails = 0
    /\ sub = [r \in Submitters |-> NoSub] /\ pipe = << >> /\ writes = << >>
    /\ view = [x \in Readers |-> NoView]
    /\ excused = {} /\ leftover = FALSE

---------------------------------------------------------------------------
(* The tables.                                                             *)

Biggest(ids) == CHOOSE i \in ids : \A k \in ids : k <= i
\* INTEGER PRIMARY KEY: one more than the largest there is.
NextId(table) == IF DOMAIN table = {} THEN 1 ELSE Biggest(DOMAIN table) + 1
JobsOf(v)     == {j \in DOMAIN jobs : jobs[j].video = v}
\* get_job_by_video_id skips failed ones, get_latest_job_by_video_id does not.
Unfailed(v)   == {j \in JobsOf(v) : jobs[j].status # "error"}
RowsOf(j)     == {i \in DOMAIN rows : rows[i].job = j}

With(f, key, value) == [k \in DOMAIN f \cup {key} |-> IF k = key THEN value ELSE f[k]]
Without(f, keys) == [k \in DOMAIN f \ keys |-> f[k]]
\* INSERT INTO mining_sentences.
Insert(j, line) == rows' = With(rows, NextId(rows), [job |-> j, line |-> line])
\* A write the database answers with an error, which is dropped: .ok().
Lost(v) == /\ fails + boots < MaxTrouble /\ fails' = fails + 1 /\ excused' = excused \cup {v}
Sound   == UNCHANGED <<fails, excused>>
\* update_job_status and its like, on the row of a job.
Set(j, row) == \/ jobs' = [jobs EXCEPT ![j] = row] /\ Sound
               \/ Lost(jobs[j].video) /\ UNCHANGED jobs
Say(j, status) == Set(j, [jobs[j] EXCEPT !.status = status])
Gain(j, what)  == Set(j, [jobs[j] EXCEPT !.media = @ \cup {what}])

---------------------------------------------------------------------------
(* submit_job and submit_local.                                            *)

\* A video that has a job that did not fail is not submitted again.
Submit(r, v) ==
    /\ up /\ sub[r].pc = "rest" /\ Unfailed(v) = {}
    /\ sub' = [sub EXCEPT ![r] = [@ EXCEPT !.pc = "create", !.video = v]]
    /\ excused' = IF \E q \in Submitters : sub[q].pc = "create" /\ sub[q].video = v
                  THEN excused \cup {v} ELSE excused
    /\ UNCHANGED <<tables, machine, pipe, writes, view, fails>>
\* create_job, and process_job spawned unless there are subtitles.
Create(r) ==
    LET j == NextId(jobs)
        v == sub[r].video IN
    /\ sub[r].pc = "create" /\ j \in 1 .. MaxJobs
    /\ jobs' = With(jobs, j, [video |-> v, status |-> "pending", media |-> {}])
    /\ \/ /\ v \in Local /\ UNCHANGED pipe
          /\ sub' = [sub EXCEPT ![r] = [@ EXCEPT !.pc = "media", !.job = j, !.next = 1]]
       \/ /\ sub' = [sub EXCEPT ![r] = NoSub]
          /\ pipe' = With(pipe, j, [pc |-> "begin", heard |-> 0])
    /\ UNCHANGED <<rows, primers, files, machine, writes, view, fails, excused>>
\* The subtitles are the transcript: both paths, the lines one by one, done.
Fills(r) ==
    LET j    == sub[r].job
        left == sub[r].next \in Spoken(sub[r].video) IN
    /\ \/ /\ sub[r].pc = "media" /\ UNCHANGED rows
          /\ jobs' = [jobs EXCEPT ![j].media = {"audio", "film"}]
          /\ sub' = [sub EXCEPT ![r].pc = "fill"]
       \/ /\ sub[r].pc = "fill" /\ left /\ UNCHANGED jobs
          /\ Insert(j, sub[r].next)
          /\ sub' = [sub EXCEPT ![r].next = @ + 1]
       \/ /\ sub[r].pc = "fill" /\ ~left /\ UNCHANGED rows
          /\ jobs' = [jobs EXCEPT ![j].status = "done"]
          /\ sub' = [sub EXCEPT ![r] = NoSub]
    /\ UNCHANGED <<primers, files, machine, pipe, writes, view, fails, excused>>
\* A statement of the request fails, or its client goes away.
SubmitFails(r) ==
    /\ sub[r].pc # "rest" /\ fails + boots < MaxTrouble /\ fails' = fails + 1
    /\ excused' = IF sub[r].pc = "create" THEN excused ELSE excused \cup {sub[r].video}
    /\ sub' = [sub EXCEPT ![r] = NoSub]
    /\ UNCHANGED <<tables, machine, pipe, writes, view>>

---------------------------------------------------------------------------
(* process_job.                                                            *)

In(j, pc) == j \in DOMAIN pipe /\ pipe[j].pc = pc
Goto(j, pc) == pipe' = [pipe EXCEPT ![j].pc = pc]
End(j) == pipe' = Without(pipe, {j})
Elsewhere == UNCHANGED <<rows, primers, files, machine, sub, view>>
Tasks(j) == {t \in DOMAIN writes : t[1] = j}

Begins(j) ==
    /\ In(j, "begin") /\ Say(j, "downloading") /\ Goto(j, "audio")
    /\ Elsewhere /\ UNCHANGED writes
\* download_audio returns; the film's download is spawned.
AudioComes(j) ==
    /\ In(j, "audio") /\ Gain(j, "audio")
    /\ Goto(j, "start")
    /\ Elsewhere /\ UNCHANGED writes
AudioFails(j) ==
    /\ In(j, "audio") /\ Say(j, "error") /\ End(j)
    /\ Elsewhere /\ UNCHANGED writes
Starts(j) ==
    /\ In(j, "start") /\ Say(j, "transcribing") /\ Goto(j, "hear")
    /\ Elsewhere /\ UNCHANGED writes
\* on_progress: a task of its own inserts what the segment holds.
Hears(j) ==
    LET s == pipe[j].heard + 1
        v == jobs[j].video IN
    /\ In(j, "hear") /\ s \in DOMAIN Ends[v]
    /\ pipe' = [pipe EXCEPT ![j].heard = s]
    /\ writes' = With(writes, <<j, s>>, Upto(v, s - 1) + 1)
    /\ Elsewhere /\ Sound /\ UNCHANGED jobs
\* The inserts go on; nobody waits for them, nor for the film.
HearFails(j) ==
    /\ In(j, "hear") /\ Say(j, "error") /\ End(j)
    /\ Elsewhere /\ UNCHANGED writes
\* Mutant: done without waiting for the inserts.
X_Joins(j) ==
    /\ In(j, "hear") /\ pipe[j].heard = Len(Ends[jobs[j].video])
    /\ Goto(j, "film")
    /\ Elsewhere /\ Sound /\ UNCHANGED <<jobs, writes>>
\* transcribe has returned, and every task it spawned.
Joins(j) ==
    /\ In(j, "hear") /\ pipe[j].heard = Len(Ends[jobs[j].video]) /\ Tasks(j) = {}
    /\ Goto(j, "film")
    /\ Elsewhere /\ Sound /\ UNCHANGED <<jobs, writes>>
\* insert_sentences: statement by statement, in no transaction.
Inserts(t) ==
    /\ t \in DOMAIN writes
    /\ Insert(t[1], writes[t])
    /\ writes' = IF writes[t] = Ends[jobs[t[1]].video][t[2]] THEN Without(writes, {t})
                 ELSE [writes EXCEPT ![t] = @ + 1]
    /\ UNCHANGED <<jobs, primers, files, machine, sub, pipe, view>> /\ Sound
InsertFails(t) ==
    /\ t \in DOMAIN writes /\ Lost(jobs[t[1]].video)
    /\ writes' = Without(writes, {t})
    /\ UNCHANGED <<tables, machine, sub, pipe, view>>
\* The film has come down beside all this, or now, or not at all.
Filmed(j) ==
    /\ In(j, "film") /\ Gain(j, "film") /\ Goto(j, "finish")
    /\ Elsewhere /\ UNCHANGED writes
NoFilm(j) ==
    /\ In(j, "film") /\ Say(j, "error") /\ End(j)
    /\ Elsewhere /\ UNCHANGED writes
Finishes(j) ==
    /\ In(j, "finish") /\ Say(j, "done") /\ End(j)
    /\ Elsewhere /\ UNCHANGED writes

---------------------------------------------------------------------------
(* get_primer, and the clips of a sentence.                                *)

OnlyView(x, rec) == /\ view' = [view EXCEPT ![x] = rec]
                    /\ UNCHANGED <<jobs, rows, files, machine, sub, pipe, writes>>
\* sure: the transcript was done by then, and nobody had an older one to store.
Opens(x, v) ==
    /\ up /\ view[x].pc = "rest" /\ Unfailed(v) # {}
    /\ LET j == Biggest(Unfailed(v)) IN
       OnlyView(x, [NoView EXCEPT !.pc = "check", !.job = j,
                      !.sure = /\ jobs[j].status = "done"
                               /\ \A y \in Readers : ~(view[y].pc = "store" /\ view[y].job = j)])
    /\ UNCHANGED primers /\ Sound
Built(j) == IF j \in DOMAIN primers THEN {primers[j].stamp} ELSE {}
\* primer_built_for, then the count, then what there is or a build.
Checks(x) ==
    /\ view[x].pc = "check"
    /\ OnlyView(x, [view[x] EXCEPT !.pc = "count", !.built = Built(view[x].job)])
    /\ UNCHANGED primers /\ Sound
Counts(x) ==
    /\ view[x].pc = "count"
    /\ OnlyView(x, [view[x] EXCEPT !.built = {}, !.pc =
         IF view[x].built = {Cardinality(RowsOf(view[x].job))} THEN "fetch" ELSE "read"])
    /\ UNCHANGED primers /\ Sound
Reads(x) ==
    /\ view[x].pc = "read"
    /\ OnlyView(x, [view[x] EXCEPT !.pc = "store", !.read = RowsOf(view[x].job)])
    /\ UNCHANGED primers /\ Sound
\* Mutant: the stamp is counted when the primer is stored.
X_Stores(x) ==
    /\ view[x].pc = "store"
    /\ primers' = With(primers, view[x].job, [stamp |-> Cardinality(RowsOf(view[x].job)), of |-> view[x].read])
    /\ OnlyView(x, [view[x] EXCEPT !.pc = "fetch", !.read = {}]) /\ Sound
\* replace_primer, one transaction, stamped with the sentences that were read.
Stores(x) ==
    /\ view[x].pc = "store"
    /\ primers' = With(primers, view[x].job, [stamp |-> Cardinality(view[x].read), of |-> view[x].read])
    /\ OnlyView(x, [view[x] EXCEPT !.pc = "fetch", !.read = {}]) /\ Sound
\* get_primer_words serves them: whoever stored them last.
Serves(x) ==
    /\ view[x].pc = "fetch"
    /\ OnlyView(x, Served)
    /\ UNCHANGED primers /\ Sound

\* Mutant: clips are numbered by their place in the transcript.
X_Plays(x, v, i) ==
    LET key == <<rows[i].job, 1 + Cardinality({k \in RowsOf(rows[i].job) : rows[k].line < rows[i].line})>> IN
    /\ up /\ view[x].pc = "rest" /\ Unfailed(v) # {} /\ rows[i].job = Biggest(Unfailed(v))
    /\ "audio" \in jobs[rows[i].job].media /\ key \notin DOMAIN files
    /\ files' = With(files, key, rows[i].line)
    /\ view' = [view EXCEPT ![x] = Served]
    /\ UNCHANGED <<jobs, rows, primers, machine, sub, pipe, writes, fails, excused>>
\* sentence_audio cuts a clip where there is no file of that name.
Plays(x, v, i) ==
    LET key == <<rows[i].job, i>> IN
    /\ up /\ view[x].pc = "rest" /\ Unfailed(v) # {} /\ rows[i].job = Biggest(Unfailed(v))
    /\ "audio" \in jobs[rows[i].job].media /\ key \notin DOMAIN files
    /\ files' = With(files, key, rows[i].line)
    /\ view' = [view EXCEPT ![x] = Served]
    /\ UNCHANGED <<jobs, rows, primers, machine, sub, pipe, writes, fails, excused>>

---------------------------------------------------------------------------
(* The server stops and starts.                                            *)

Crash ==
    /\ up /\ up' = FALSE
    /\ sub' = [r \in Submitters |-> NoSub]
    /\ view' = [x \in Readers |-> IF view[x].pc = "rest" THEN NoView ELSE Served]
    /\ pipe' = << >> /\ writes' = << >>
    /\ UNCHANGED <<tables, boots, leftover, fails, excused>>

Unfinished == {j \in DOMAIN jobs : jobs[j].status \in Live}
Orphaned   == UNION {RowsOf(j) : j \in Unfinished}
Restarts   == ~up /\ fails + boots < MaxTrouble /\ boots' = boots + 1
\* Mutant: what was unfinished stays.
X_Boot ==
    /\ Restarts /\ Unfinished \cap DOMAIN primers = {}
    /\ up' = TRUE
    /\ UNCHANGED <<tables, leftover, memory, fails, excused>>
\* delete_incomplete_jobs: sentences, then jobs.
Boot ==
    /\ Restarts /\ Unfinished \cap DOMAIN primers = {}
    /\ up' = TRUE
    /\ rows' = Without(rows, Orphaned) /\ jobs' = Without(jobs, Unfinished)
    /\ leftover' = (leftover \/ \E key \in DOMAIN files : key[1] \in Unfinished)
    /\ UNCHANGED <<primers, files, memory, fails, excused>>
\* A primer row refers to one of them: main expects no error.  The sentences go
\* all the same where no word of the primer was first met in them.
BootPanics ==
    /\ Restarts /\ Unfinished \cap DOMAIN primers # {}
    /\ \/ /\ \E j \in Unfinished \cap DOMAIN primers : primers[j].of # {}
          /\ UNCHANGED rows
       \/ rows' = Without(rows, Orphaned)
    /\ UNCHANGED <<jobs, primers, files, memory, up, leftover, fails, excused>>

Piping(j) ==
    Begins(j) \/ Starts(j) \/ Joins(j) \/ Finishes(j)
Tools(j)  == \/ AudioComes(j) \/ AudioFails(j) \/ Hears(j) \/ HearFails(j)
             \/ Filmed(j) \/ NoFilm(j)
Priming(x) == Checks(x) \/ Counts(x) \/ Reads(x) \/ Stores(x) \/ Serves(x)
Submitting(r) == Create(r) \/ Fills(r)

Next ==
    \/ \E r \in Submitters : Submitting(r) \/ SubmitFails(r) \/ \E v \in Videos : Submit(r, v)
    \/ \E j \in DOMAIN pipe : Piping(j) \/ Tools(j)
    \/ \E t \in DOMAIN writes : Inserts(t) \/ InsertFails(t)
    \/ \E x \in Readers : Priming(x) \/ \E v \in Videos : Opens(x, v) \/ \E i \in DOMAIN rows : Plays(x, v, i)
    \/ Crash \/ Boot \/ BootPanics

Spec == Init /\ [][Next]_vars
---------------------------------------------------------------------------
\* The page of a video shows its latest job, failed or not.
Page(j) == [state |-> CASE jobs[j].status \in Live -> "coming"
                        [] jobs[j].status = "done" -> "whole"
                        [] jobs[j].status = "error" -> "failed",
            has   |-> {rows[i].line : i \in RowsOf(j)},
            film  |-> "film" \in jobs[j].media]
Shown == [v \in Videos |-> IF JobsOf(v) = {} THEN [state |-> "absent", has |-> {}, film |-> FALSE]
                           ELSE Page(Biggest(JobsOf(v)))]
Promise == INSTANCE Transcripts WITH shown <- Shown

(* "Ensure all sentence inserts finish before marking the job as Done": the *)
(* jobs implement Transcripts, in whatever order inserts, film, failures,   *)
(* retries and restarts come.                                              *)
KeepsItsPromise == Promise!Spec

(* "The counts are over the whole transcript, so one that grew since the    *)
(* build invalidates every one of them": whoever asks for the primer of a   *)
(* transcript that is done finds one counted over all of it, however        *)
(* many were built on less of it, unless one of those is still being stored.*)
PrimerWhole ==
    /\ TypeOK
    /\ \A x \in Readers : view[x].pc = "fetch" /\ view[x].sure =>
         primers[view[x].job].of = RowsOf(view[x].job)

(* A clip is derived from its ids: it plays the line it is asked for, unless *)
(* a start has dropped a job whose clips were cut, and its ids came again.   *)
PlaysItsLine ==
    \A key \in DOMAIN files : ~leftover /\ key[2] \in RowsOf(key[1]) => files[key] = rows[key[2]].line

(* No job hangs on the server itself: as long as the server runs, one that   *)
(* is coming can go on, or waits for yt-dlp or whisper.                      *)
Outside(j) ==
    \/ In(j, "audio") \/ In(j, "film")
    \/ In(j, "hear") /\ pipe[j].heard < Len(Ends[jobs[j].video])
NeverStuck ==
    \A j \in Unfinished : up /\ jobs[j].video \notin excused =>
      \/ Outside(j) \/ ENABLED Piping(j)
      \/ \E t \in Tasks(j) : ENABLED Inserts(t)
      \/ \E r \in Submitters : sub[r].job = j /\ ENABLED Submitting(r)
=============================================================================
