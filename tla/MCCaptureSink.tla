------------------------------ MODULE MCCaptureSink ------------------------------
(* CaptureSink on small instances; the .cfg files choose what can go wrong. *)
EXTENDS CaptureSink
=============================================================================
