----------------------------- MODULE MCSfmm -----------------------------
(* Two pages of seven units: a heap of eleven, blocks of two to eleven.  valid_region: one of fifteen. *)
EXTENDS Sfmm
=============================================================================
