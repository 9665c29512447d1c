------------------------- MODULE MCClientRegistry -------------------------
(* A small instance of ClientRegistry: more threads than slots, so that a  *)
(* registration meets a full buffer while it holds lock.                   *)
EXTENDS ClientRegistry, TLC

Symmetry == Permutations(Thread) \cup Permutations(Fd)
===========================================================================
