----------------------------- MODULE MCSessionIngest -----------------------------
(* SessionIngest on small instances; the .cfg files choose whether passes   *)
(* may fail.                                                               *)
EXTENDS SessionIngest
=============================================================================
