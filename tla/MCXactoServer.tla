--------------------------- MODULE MCXactoServer ---------------------------
(* Small instances of XactoServer: two service threads, one slot.          *)
EXTENDS XactoServer
===========================================================================
