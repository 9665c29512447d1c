---------------------------- MODULE MCGrades ----------------------------
(* Two assignments in several policies, two sections, students with and without equal names. *)
EXTENDS Grades
Asgt(name, weight, max, policy, args, group) ==
  [kw |-> "ASSIGNMENT", name |-> name, atype |-> "hw", weight |-> weight, max |-> max,
   policy |-> policy, args |-> args, group |-> group]
Score(asgt, how, num) == [kw |-> "SCORE", asgt |-> asgt, how |-> how, num |-> num, code |-> <<>>]
MCOptions == {[collate |-> FALSE, key |-> "name"], [collate |-> FALSE, key |-> "score"], [collate |-> TRUE, key |-> "id"]}
MostLines == [COURSE |-> 1, PROFESSOR |-> 1, ASSIGNMENT |-> 2, SECTION |-> 2, STUDENT |-> 3, SCORE |-> 3, FILE |-> 1, JUNK |-> 1]
MCMost ==
  [o \in MCOptions |-> IF o.collate THEN [MostLines EXCEPT !.STUDENT = 2]
                       ELSE IF o.key = "name" THEN [MostLines EXCEPT !.ASSIGNMENT = 1, !.SCORE = 1]
                       ELSE MostLines]
ReportLines ==
  { [kw |-> "COURSE"], [kw |-> "PROFESSOR"],
    Asgt("A", Absent, 3, "QUANTILE", <<>>, "BYSECTION"),
    Asgt("A", 2, 4, "GENLINEAR", <<2, 3>>, "BYCLASS"),
    Asgt("B", 1, 0, "SCALE", <<2>>, "BYCLASS"),
    [kw |-> "SECTION", name |-> "1"],
    [kw |-> "STUDENT", id |-> 1, name |-> 2], [kw |-> "STUDENT", id |-> 2, name |-> 1],
    Score("A", "VALID", 1), Score("A", "USERAW", 3), Score("A", "USELIKEAVG", 0),
    Score("B", "USECLASSAVG", 0), Score("B", "VALID", 1),
    [kw |-> "FILE"], [kw |-> "JUNK"] }
\* What -c has to write: each policy but LINEAR and each kind of score but USENORM, with WEIGHT and MAXIMUM and without.
CollateLines ==
  { [kw |-> "COURSE"], [kw |-> "PROFESSOR"],
    Asgt("A", Absent, 3, "RAW", <<>>, "BYSECTION"),
    Asgt("A", 2, 0, "QUANTILE", <<>>, "BYSECTION"),
    Asgt("A", 2, 4, "GENLINEAR", <<2, 3>>, "BYCLASS"),
    Asgt("B", 1, 4, "SCALE", <<2>>, "BYSECTION"),
    Asgt("B", Absent, 0, "SCALE", <<2>>, "BYCLASS"),
    [kw |-> "SECTION", name |-> "1"],
    [kw |-> "STUDENT", id |-> 1, name |-> 2], [kw |-> "STUDENT", id |-> 2, name |-> 1],
    Score("A", "VALID", 1), Score("A", "USERAW", 3), Score("A", "USELIKEAVG", 0),
    Score("B", "USECLASSAVG", 0), Score("B", "VALID", 1) }
MCLines == [o \in MCOptions |-> IF o.collate THEN CollateLines ELSE ReportLines]
=============================================================================
