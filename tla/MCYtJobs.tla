-------------------------------- MODULE MCYtJobs --------------------------------
(* YtJobs on a small instance: videos of two segments, a line each.        *)
EXTENDS YtJobs, TLC

MCEnds == [v \in Videos |-> <<1, 2>>]
Alike  == Permutations(Readers) \cup Permutations(Submitters)
=============================================================================
