--------------------------- MODULE MCImprimer ---------------------------
(* Two printers of three names, three jobs of two types, one conversion. *)
EXTENDS Imprimer, TLC
MCConversions == {[name |-> "cat", src |-> "txt", dest |-> "ps"]}
MCTypeOf == [f \in Files |-> IF f = "a.txt" THEN "txt" ELSE "pdf"]
MCSymmetry == Permutations(Names)
=============================================================================
