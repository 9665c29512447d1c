---------------------------- MODULE SfmmSpec ----------------------------
(***************************************************************************)
(* What include/sfmm.h promises the callers of the allocator: a set of     *)
(* allocated regions [at, len] of bytes that never overlap and that only   *)
(* the calls of their owner touch.                                         *)
(***************************************************************************)
EXTENDS Integers

VARIABLE live

Init == live = {}

Disjoint(r, s) == r.at + r.len <= s.at \/ s.at + s.len <= r.at

\* sf_malloc: a region of the requested size, apart from all others.
Allocate == \E r \in live' : r \notin live /\ live' = live \cup {r} /\ \A s \in live : Disjoint(r, s)

\* sf_free, and sf_realloc to size 0.
Release == \E r \in live : live' = live \ {r}

\* sf_realloc: a smaller region stays where it is, a larger one is new.
Resize ==
  \E r \in live, s \in live' :
    /\ s # r /\ live' = (live \ {r}) \cup {s}
    /\ \A o \in live \ {r} : Disjoint(s, o)
    /\ (s.at = r.at /\ s.len < r.len) \/ (s.len > r.len /\ Disjoint(s, r))

Next == Allocate \/ Release \/ Resize

Spec == Init /\ [][Next]_live
=============================================================================
