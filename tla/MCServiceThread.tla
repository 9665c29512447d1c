-------------------------- MODULE MCServiceThread --------------------------
(* Small instances of ServiceThread.                                       *)
EXTENDS ServiceThread
============================================================================
