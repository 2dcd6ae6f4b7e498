------------------------------ MODULE MCReaderFeed ------------------------------
(* ReaderFeed on small instances; the .cfg files choose what the reader does. *)
EXTENDS ReaderFeed, TLC

\* Two undos of the same toast are alike.
AnyUndo == Permutations(Undos)
=============================================================================
