------------------------------ MODULE MCReadingLog ------------------------------
(* ReadingLog on a small instance: a title of long lines and one of short. *)
EXTENDS ReadingLog

MCCharsOf == [w \in Works |-> IF w = "long" THEN 5 ELSE 1]
=============================================================================
