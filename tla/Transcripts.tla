------------------------------ MODULE Transcripts ------------------------------
(***************************************************************************)
(* What yt-mine promises whoever opens a video's page: a transcript grows  *)
(* line by line and is called done only when all of it and the film for    *)
(* its pictures are there; what is done stays.  A failed or forgotten      *)
(* video may be submitted again.  YtJobs implements it.                    *)
(***************************************************************************)
CONSTANTS
    Videos,
    Lines     \* video -> the lines spoken in it

VARIABLES
    shown,    \* video -> [state, has, film]: what its page shows; a state is
              \* "absent", "coming", "whole" or "failed"
    up,       \* the server runs
    excused   \* videos of which a write was lost, or submitted twice at once

Init == shown = [v \in Videos |-> [state |-> "absent", has |-> {}, film |-> FALSE]]

\* What may become of the page of a video, from s to t.
Begins(s, t) ==
    /\ s.state \in {"absent", "failed"}
    /\ t = [state |-> "coming", has |-> {}, film |-> FALSE]
\* Lines still on their way are written after a failure too.
Grows(v, s, t) ==
    /\ s.state \in {"coming", "failed"}
    /\ \E l \in Lines[v] \ s.has : t = [s EXCEPT !.has = @ \cup {l}]
HasFilm(s, t) == s.state = "coming" /\ t = [s EXCEPT !.film = TRUE]
Finishes(v, s, t) ==
    /\ s.state = "coming" /\ s.film /\ s.has = Lines[v]
    /\ t = [s EXCEPT !.state = "whole"]
Fails(s, t) == s.state = "coming" /\ t = [s EXCEPT !.state = "failed"]
\* A restart drops what was coming; an earlier failure may show again.
Forgets(s, t) == ~up /\ s.state = "coming" /\ t.state # "whole"

Next == \A v \in Videos :
    LET s == shown[v]
        t == shown'[v] IN
    \/ s = t \/ v \in excused'
    \/ Begins(s, t) \/ Grows(v, s, t) \/ HasFilm(s, t)
    \/ Finishes(v, s, t) \/ Fails(s, t) \/ Forgets(s, t)
Spec == Init /\ [][Next]_shown
=============================================================================
