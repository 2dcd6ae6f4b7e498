----------------------------- MODULE MCLedgerIngest -----------------------------
(* LedgerIngest on small instances; the .cfg files choose the sinks, the    *)
(* passes that overlap and whether they may fail.                          *)
EXTENDS LedgerIngest
=============================================================================
