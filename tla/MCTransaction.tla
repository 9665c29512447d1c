--------------------------- MODULE MCTransaction ---------------------------
(* Small instances of Transaction.                                         *)
EXTENDS Transaction
===========================================================================
