----------------------------- MODULE Grades -----------------------------
(***************************************************************************)
(* The grade program of hw2: main.c from the first line read to the exit.  *)
(* The input arrives line by line, any line at any point; a line stands    *)
(* for the block of physical lines under one keyword.  What -c writes can  *)
(* be read again by a second run of the program (round 2).                 *)
(***************************************************************************)
EXTENDS GradeStats

CONSTANTS Options,    \* command lines: -c or -r, and the key of -k
          Lines,      \* what an author can write under each of them, see the readers
          Missing,    \* stands where a number is expected and none is found
          Absent,     \* no WEIGHT
          Garbage,    \* contents of memory nobody has written
          Most,       \* bound: lines of the author under each of them and each keyword
          MaxLines,   \* bound: lines of the author
          MaxFiles    \* bound: files open at once

ASSUME GradesAssumption ==
  /\ Options \subseteq [collate : BOOLEAN, key : {"name", "id", "score"}]
  /\ Garbage \subseteq Int /\ MaxLines \in Nat /\ MaxFiles \in Nat \ {0}

VARIABLES phase, level,    \* where main is; which of the reading functions wants a token
          files, errors,   \* input file stack; was error() called
          course,          \* professor, assignments, sections with their rosters, students
          roster, cnext,   \* Course.roster and Student.cnext; 0 is NULL
          stats,           \* Stats
          out,             \* warned duplicates and the report
          options,         \* report or collate, and the sort key
          lines, round, feed, original   \* the input, and the course of round 1 as read

reader == <<level, files, errors, lines, feed, round>>
results == <<roster, cnext, stats, out>>
vars == <<phase, reader, course, results, options, original>>

Counted(sc) == sc.how \in {"VALID", "USERAW"}

Sum(seq) == FoldLeft(LAMBDA a, b : a + b, 0, seq)

NoCourse == [professor |-> FALSE, assignments |-> <<>>, sections |-> <<>>, students |-> <<>>]

Init ==
  /\ phase = "reading" /\ level = "course" /\ files = 1 /\ errors = FALSE
  /\ course = NoCourse /\ original = NoCourse
  /\ roster = 0 /\ cnext = <<>> /\ stats = <<>>
  /\ out = [duplicates |-> {}, report |-> <<>>]
  /\ options \in Options
  /\ lines = [kw \in DOMAIN Most[options] |-> 0] /\ round = 1 /\ feed = <<>>

(***************************************************************************)
(* Reading.                                                                *)
(***************************************************************************)
Input ==
  IF round = 2 THEN (IF feed = <<>> THEN {} ELSE {Head(feed)})
  ELSE IF FoldFunction(LAMBDA a, b : a + b, 0, lines) < MaxLines THEN {l \in Lines[options] : lines[l.kw] < Most[options][l.kw]}
  ELSE {}

Take(l, next) ==
  /\ phase = "reading"
  /\ lines' = [lines EXCEPT ![l.kw] = @ + 1]
  /\ feed' = IF round = 2 THEN Tail(feed) ELSE feed
  /\ level' = next
  /\ UNCHANGED <<phase, files, round, results, options, original>>

ReadCourse(l) ==
  /\ level = "course" /\ l.kw \in {"COURSE", "JUNK"}
  /\ Take(l, "professor")
  /\ errors' = (l.kw # "COURSE")
  /\ UNCHANGED course

ReadProfessor(l) ==
  /\ level = "professor" /\ l.kw = "PROFESSOR"
  /\ Take(l, "asgts")
  /\ course' = [course EXCEPT !.professor = TRUE]
  /\ UNCHANGED errors

\* NORMALIZE LINEAR: is not in the language, and leaves the assignment RAW.
AssignmentOf(l) ==
  LET policy == IF l.policy \in {"STDLINEAR", "GENLINEAR"} THEN "LINEAR"
                ELSE IF l.policy = "LINEAR:" THEN "RAW" ELSE l.policy
      number(x, default) == IF x = Missing THEN default ELSE x
  IN [name |-> l.name, atype |-> l.atype, weight |-> number(l.weight, Absent), npolicy |-> policy,
      ngroup |-> IF l.policy = "LINEAR:" THEN "BYCLASS" ELSE l.group,
      max |-> number(l.max, 0),
      mean |-> IF l.policy = "GENLINEAR" THEN number(l.args[1], 0) ELSE 0,
      stddev |-> IF l.policy = "GENLINEAR" THEN number(l.args[2], 1) ELSE 1,
      scale |-> IF policy = "SCALE" THEN number(l.args[1], 0) ELSE 0]

ReadAssignment(l) ==
  /\ level \in {"professor", "asgts"} /\ l.kw = "ASSIGNMENT"
  /\ Take(l, "asgts")
  /\ course' = [course EXCEPT !.assignments = Append(@, AssignmentOf(l))]
  /\ errors' = (errors \/ l.policy = "LINEAR:" \/ Missing \in {l.weight, l.max} \cup ToSet(l.args))

ReadSection(l) ==
  /\ level # "course" /\ l.kw = "SECTION"
  /\ Take(l, "students")
  /\ course' = [course EXCEPT !.sections = Append(@, [name |-> l.name, roster |-> <<>>])]
  /\ UNCHANGED errors

ReadStudent(l) ==
  LET sec == Len(course.sections)
      st == [id |-> l.id, name |-> l.name, section |-> sec, scores |-> <<>>, norm |-> <<>>, composite |-> 0]
  IN /\ level \in {"students", "scores"} /\ l.kw = "STUDENT"
     /\ Take(l, "scores")
     /\ course' = [course EXCEPT !.students = Append(@, st),
                                 !.sections[sec].roster = Append(@, Len(course.students) + 1)]
     /\ UNCHANGED errors

\* The first assignment of that name; a range is checked for QUANTILE and SCALE only.
ReadScore(l) ==
  LET named == {k \in 1..Len(course.assignments) : course.assignments[k].name = l.asgt}
      k == CHOOSE k \in named : \A j \in named : k <= j
      a == course.assignments[k]
      bad == \/ l.how \in {"VALID", "USERAW", "USENORM"} /\ l.num = Missing
             \/ l.how = "USENORM" /\ a.npolicy = "QUANTILE" /\ l.num \notin 0..100
             \/ l.how = "USENORM" /\ a.npolicy = "SCALE" /\ l.num \notin 0..a.scale
      sc == [asgt |-> k, how |-> l.how, num |-> IF l.num = Missing THEN 0 ELSE l.num, code |-> l.code]
  IN /\ level = "scores" /\ l.kw = "SCORE" /\ named # {}
     /\ Take(l, "scores")
     /\ course' = [course EXCEPT !.students[Len(course.students)].scores = Append(@, sc)]
     /\ errors' = (errors \/ bad)

\* fatal: an undeclared assignment, a file that cannot be opened, an empty input.
Fatal ==
  /\ phase = "reading"
  /\ \/ \E l \in Input : level = "scores" /\ l.kw = "SCORE"
                         /\ \A k \in 1..Len(course.assignments) : course.assignments[k].name # l.asgt
     \/ \E l \in Input : level # "course" /\ l.kw = "FILE"
     \/ level = "course" /\ feed = <<>>
  /\ phase' = "fatal"
  /\ UNCHANGED <<reader, course, results, options, original>>

\* The sections of an included file are read where its name stands.
PushFile(l) ==
  /\ phase = "reading" /\ level # "course" /\ l.kw = "FILE" /\ files < MaxFiles
  /\ files' = files + 1 /\ level' = "sections" /\ lines' = [lines EXCEPT !.FILE = @ + 1]
  /\ UNCHANGED <<phase, errors, feed, round, course, results, options, original>>

\* Mutant: the outermost file is left like the others.
PreviousFileAlways ==
  /\ phase = "reading"
  /\ files' = files - 1 /\ level' = "sections"
  /\ UNCHANGED <<phase, errors, lines, feed, round, course, results, options, original>>

PreviousFile ==
  /\ phase = "reading" /\ files > 1
  /\ files' = files - 1 /\ level' = "sections"
  /\ UNCHANGED <<phase, errors, lines, feed, round, course, results, options, original>>

\* readcourse returns, expecteof: the end of the input, or a keyword nobody waits for.
Expected ==
  CASE level = "professor" -> {"PROFESSOR", "ASSIGNMENT", "SECTION", "FILE"}
    [] level = "asgts" -> {"ASSIGNMENT", "SECTION", "FILE"}
    [] level = "sections" -> {"SECTION", "FILE"}
    [] level = "students" -> {"STUDENT", "SECTION", "FILE"}
    [] level = "scores" -> {"SCORE", "STUDENT", "SECTION", "FILE"}

EndOfCourse ==
  /\ phase = "reading" /\ level # "course"
  /\ \/ \E l \in Input : l.kw \notin Expected /\ errors' = TRUE
     \/ files = 1 /\ feed = <<>> /\ UNCHANGED errors
  /\ phase' = IF errors' THEN "refused" ELSE IF round = 2 THEN "reread" ELSE "statistics"
  /\ original' = IF round = 1 THEN course ELSE original
  /\ UNCHANGED <<level, files, lines, feed, round, course, results, options>>

Read ==
  \/ \E l \in Input : \/ ReadCourse(l) \/ ReadProfessor(l) \/ ReadAssignment(l) \/ ReadSection(l) \/ ReadStudent(l)
                      \/ ReadScore(l) \/ PushFile(l)
  \/ PreviousFile \/ EndOfCourse \/ Fatal

(***************************************************************************)
(* Computing.                                                              *)
(***************************************************************************)
Step(from, to) == phase = from /\ phase' = to /\ UNCHANGED <<reader, options, original>>

Students == 1..Len(course.students)
Assignments == 1..Len(course.assignments)

\* Mutant: the last student of the list so far is not linked to the next.
LinkForgetful(list, s) ==
  IF list.last = 0 THEN [head |-> s, last |-> s, next |-> [list.next EXCEPT ![s] = 0]]
  ELSE [list EXCEPT !.last = s, !.next[s] = 0, !.next[list.last] = s]

Link(list, s) ==
  IF list.last = 0 THEN [head |-> s, last |-> s, next |-> [list.next EXCEPT ![s] = 0]]
  ELSE [list EXCEPT !.last = s, !.next[list.last] = s, !.next[s] = 0]

\* do_links: every student is linked again for each assignment; without one the roster is empty.
DoLinks ==
  LET once == FlattenSeq([k \in 1..Len(course.sections) |-> course.sections[k].roster])
  IN FoldLeft(Link, [head |-> 0, last |-> 0, next |-> [i \in Students |-> 0]],
              FlattenSeq([a \in Assignments |-> once]))

\* The students met when the links are followed, at most as many as there are.
Follow(head, next) ==
  LET at[k \in 1..Len(next)] == IF k = 1 THEN head ELSE IF at[k - 1] = 0 THEN 0 ELSE next[at[k - 1]]
  IN SelectSeq([k \in 1..Len(next) |-> at[k]], LAMBDA s : s # 0)

Roster == Follow(roster, cnext)

GradesOf(order, a) ==
  FlattenSeq([k \in 1..Len(order) |->
    LET own == SelectSeq(course.students[order[k]].scores, LAMBDA sc : sc.asgt = a /\ Counted(sc))
    IN [j \in 1..Len(own) |-> own[j].num]])

InSection(order, sec) == SelectSeq(order, LAMBDA i : course.students[i].section = sec)

DoStatistics ==
  LET list == DoLinks
      order == Follow(list.head, list.next)
  IN /\ Step("statistics", "normalize")
     /\ roster' = list.head /\ cnext' = list.next
     /\ stats' = [a \in Assignments |->
          [class   |-> Statistics(GradesOf(order, a)),
           section |-> [s \in 1..Len(course.sections) |-> Statistics(GradesOf(InSection(order, s), a))]]]
     /\ UNCHANGED <<course, out>>

Normal(i, sc) ==
  LET a == course.assignments[sc.asgt]
      st == IF a.ngroup = "BYCLASS" THEN stats[sc.asgt].class
            ELSE stats[sc.asgt].section[course.students[i].section]
  IN CASE a.npolicy = "RAW" -> sc.num
       [] a.npolicy = "LINEAR" -> Linear(sc.num, st, a.mean, a.stddev)
       [] a.npolicy = "SCALE" -> Scale(sc.num, a.max, a.scale)
       [] a.npolicy = "QUANTILE" -> Percentile(sc.num, st)

\* Unweighted scores do not add to w: with none weighted the average is 0.
StudentAvg(i, type) ==
  LET like == SelectSeq(course.students[i].scores,
                        LAMBDA sc : Counted(sc) /\ course.assignments[sc.asgt].atype = type)
      weight(k) == course.assignments[like[k].asgt].weight
      w == Sum([k \in 1..Len(like) |-> IF weight(k) = Absent THEN 0 ELSE weight(k)])
      total == Sum([k \in 1..Len(like) |-> Normal(i, like[k]) * (IF weight(k) = Absent THEN 1 ELSE weight(k))])
  IN IF w = 0 THEN 0 ELSE total \div w

\* The mean of an assignment that is not LINEAR was never written.
Normalized(i, sc, garbage) ==
  LET a == course.assignments[sc.asgt] IN
  CASE Counted(sc) -> Normal(i, sc)
    [] sc.how = "USENORM" -> sc.num
    [] sc.how = "USELIKEAVG" -> StudentAvg(i, a.atype)
    [] sc.how = "USECLASSAVG" ->
         IF a.npolicy = "QUANTILE" THEN 50 ELSE IF a.npolicy = "LINEAR" THEN a.mean ELSE garbage

\* normal() replaces a maximum of 0 for good.
MaxAfter(k) ==
  LET a == course.assignments[k] IN
  IF a.npolicy = "SCALE" /\ a.max = 0 /\ stats[k].class.tallied > 0 THEN Tiny ELSE a.max

Normalize ==
  /\ Step("normalize", "composites")
  /\ \E garbage \in Garbage :
       course' = [course EXCEPT
         !.students = [i \in Students |-> [@[i] EXCEPT !.norm =
            [k \in 1..Len(course.students[i].scores) |->
               Normalized(i, course.students[i].scores[k], garbage)]]],
         !.assignments = [k \in Assignments |-> [@[k] EXCEPT !.max = MaxAfter(k)]]]
  /\ UNCHANGED results

\* Several scores for one assignment all count, a missing one counts nothing.
Composite(i) ==
  LET st == course.students[i] IN
  Sum([k \in 1..Len(st.scores) |->
         LET w == course.assignments[st.scores[k].asgt].weight IN st.norm[k] * (IF w = Absent THEN 1 ELSE w)])

Composites ==
  /\ Step("composites", "sort")
  /\ course' = [course EXCEPT !.students = [i \in Students |-> [@[i] EXCEPT !.composite = Composite(i)]]]
  /\ UNCHANGED results

Key == [i \in Students |->
          CASE options.key = "name" -> course.students[i].name
            [] options.key = "id" -> course.students[i].id
            [] options.key = "score" -> -course.students[i].composite]

\* The links are set again in the order of the table.
Relinked(order) ==
  [i \in Students |-> IF \E k \in 1..(Len(order) - 1) : order[k] = i
                      THEN order[(CHOOSE k \in 1..(Len(order) - 1) : order[k] = i) + 1]
                      ELSE IF order # <<>> /\ Last(order) = i THEN 0 ELSE cnext[i]]

SortRosters ==
  LET order == SortRoster(Roster, Key) IN
  /\ roster' = IF order = <<>> THEN 0 ELSE order[1]
  /\ cnext' = Relinked(order)
  /\ course' = [course EXCEPT !.sections = [s \in DOMAIN @ |-> [@[s] EXCEPT !.roster = SortRoster(@, Key)]]]

\* Mutant: only the rosters of the sections are sorted.
SortSectionsOnly ==
  /\ Step("sort", "check")
  /\ course' = [course EXCEPT !.sections = [s \in DOMAIN @ |-> [@[s] EXCEPT !.roster = SortRoster(@, Key)]]]
  /\ UNCHANGED results

Sort == Step("sort", "check") /\ SortRosters /\ UNCHANGED <<stats, out>>

CheckForDups ==
  /\ Step("check", IF options.collate THEN "collate" ELSE "resort")
  /\ out' = [out EXCEPT !.duplicates =
       {<<i, cnext[i]>> : i \in {i \in ToSet(Roster) : cnext[i] # 0
                                   /\ course.students[i].name = course.students[cnext[i]].name}}]
  /\ UNCHANGED <<course, roster, cnext, stats>>

SortAgain == Step("resort", "report") /\ SortRosters /\ UNCHANGED <<stats, out>>

(***************************************************************************)
(* Output.                                                                 *)
(***************************************************************************)
\* Mutant: BYSECTION is not written.
WrittenByClass(a) ==
  [kw |-> "ASSIGNMENT", name |-> a.name, atype |-> a.atype, weight |-> a.weight, max |-> a.max,
   policy |-> IF a.npolicy = "LINEAR" THEN "LINEAR:" ELSE a.npolicy,
   args |-> IF a.npolicy = "SCALE" THEN <<a.scale>> ELSE <<>>, group |-> "BYCLASS"]

WrittenAssignment(a) ==
  [kw |-> "ASSIGNMENT", name |-> a.name, atype |-> a.atype, weight |-> a.weight, max |-> a.max,
   policy |-> IF a.npolicy = "LINEAR" THEN "LINEAR:" ELSE a.npolicy,
   args |-> IF a.npolicy = "SCALE" THEN <<a.scale>> ELSE <<>>,
   group |-> IF a.npolicy = "RAW" THEN "BYCLASS" ELSE a.ngroup]

\* USENORM falls through to USELIKEAVG, and its number is printed by the policy; RAW prints none.
WrittenScore(sc) ==
  LET a == course.assignments[sc.asgt]
      lost == sc.how = "USENORM" /\ a.npolicy = "RAW"
  IN [kw |-> "SCORE", asgt |-> a.name, num |-> IF lost THEN 0 ELSE sc.num,
      how |-> IF lost THEN "USELIKEAVG" ELSE sc.how,
      code |-> IF sc.how = "USENORM" /\ ~ lost THEN <<"USELIKEAVG">> \o sc.code ELSE sc.code]

WrittenStudent(st) ==
  <<[kw |-> "STUDENT", id |-> st.id, name |-> st.name]>>
  \o [k \in 1..Len(st.scores) |-> WrittenScore(st.scores[k])]

WrittenSection(s) ==
  <<[kw |-> "SECTION", name |-> s.name]>>
  \o FlattenSeq([k \in 1..Len(s.roster) |-> WrittenStudent(course.students[s.roster[k]])])

WriteCourse ==
  <<[kw |-> "COURSE"]>> \o (IF course.professor THEN <<[kw |-> "PROFESSOR"]>> ELSE <<>>)
  \o [a \in Assignments |-> WrittenAssignment(course.assignments[a])]
  \o FlattenSeq([s \in 1..Len(course.sections) |-> WrittenSection(course.sections[s])])

\* The program exits; what it wrote is the input of the next run.
Collate ==
  /\ phase = "collate"
  /\ phase' = "reading" /\ level' = "course" /\ files' = 1 /\ errors' = FALSE
  /\ round' = 2 /\ feed' = WriteCourse
  /\ course' = NoCourse /\ roster' = 0 /\ cnext' = <<>> /\ stats' = <<>>
  /\ out' = [duplicates |-> {}, report |-> <<>>]
  /\ lines' = [kw \in DOMAIN lines |-> 0]
  /\ UNCHANGED <<options, original>>

Composites0 == {0} \cup {course.students[i].composite : i \in ToSet(Roster)}
Lowest == CHOOSE x \in Composites0 : \A y \in Composites0 : x <= y
Highest == CHOOSE x \in Composites0 : \A y \in Composites0 : x >= y

Report ==
  /\ Step("report", "free")
  /\ out' = [out EXCEPT !.report =
       [composites |-> [k \in 1..Len(Roster) |->
                          CompositeBin(course.students[Roster[k]].composite, Lowest, Highest)],
        bins       |-> [a \in Assignments |->
                          LET max == HistogramMax(course.assignments[a].max, stats[a].class)
                          IN [k \in DOMAIN stats[a].class.freqs |-> ScoreBin(stats[a].class.freqs[k].score, max)]],
        summary    |-> [a \in Assignments |-> [k \in 1..5 |->
                          InterpolateQuantile(stats[a].class.freqs, stats[a].class.tallied, <<10, 25, 50, 75, 90>>[k])]]]]
  /\ UNCHANGED <<course, roster, cnext, stats>>

\* c->roster and c->professor are dereferenced without a test.
FreeAll ==
  /\ Step("free", IF course.professor /\ roster # 0 THEN "exit" ELSE "crash")
  /\ UNCHANGED <<course, results>>

Compute == DoStatistics \/ Normalize \/ Composites \/ Sort \/ CheckForDups \/ SortAgain \/ Collate \/ Report \/ FreeAll

Next == Read \/ Compute

Spec == Init /\ [][Next]_vars

(***************************************************************************)
(* Properties.                                                             *)
(***************************************************************************)
\* Where main is, what it has, and that every pointer of the course is NULL or a student.
GradesTypeOK ==
  /\ phase \in {"reading", "fatal", "refused", "statistics", "normalize", "composites", "sort", "check",
                "collate", "resort", "report", "free", "exit", "crash", "reread"}
  /\ files \in 1..MaxFiles /\ errors \in BOOLEAN
  /\ roster \in {0} \cup Students /\ \A i \in DOMAIN cnext : cnext[i] \in {0} \cup Students
  /\ \A s \in DOMAIN course.sections : ToSet(course.sections[s].roster) \subseteq Students
  /\ \A i \in Students : \A k \in DOMAIN course.students[i].scores :
       course.students[i].scores[k].asgt \in Assignments

\* do_links goes over the students once for each assignment, through the links it has
\* set before: they still lead to every student once, in the order of the sections.
RosterComplete ==
  phase \in {"normalize", "composites", "sort"} /\ course.assignments # <<>> =>
    Roster = [i \in Students |-> i] /\ (Roster # <<>> => cnext[Last(Roster)] = 0)

\* The normalized grade under QUANTILE is the share of the scores of the class, or of the
\* student's section, that are lower: count_score, do_quantiles, the links from the scores to
\* their tables and the search in normal() agree.
PercentilesRight ==
  phase = "composites" =>
    \A i \in Students : \A k \in DOMAIN course.students[i].scores :
      LET sc == course.students[i].scores[k]
          a == course.assignments[sc.asgt]
          all == {<<j, m>> \in Students \X (1..Most[options].SCORE) :
                    /\ m \in DOMAIN course.students[j].scores
                    /\ course.students[j].scores[m].asgt = sc.asgt /\ Counted(course.students[j].scores[m])
                    /\ a.ngroup = "BYCLASS" \/ course.students[j].section = course.students[i].section}
          lower == {p \in all : course.students[p[1]].scores[p[2]].num < sc.num}
      IN a.npolicy = "QUANTILE" /\ Counted(sc) =>
           course.students[i].norm[k] = (100 * Cardinality(lower)) \div Cardinality(all)

\* The quicksort with its alternating ties, and the second time on its own result, orders the
\* course and section rosters by the key and loses nobody.
RostersSorted ==
  phase \in {"check", "collate", "resort", "report", "free", "exit"} =>
    /\ course.assignments # <<>> => ToSet(Roster) = Students
    /\ \A k \in 1..(Len(Roster) - 1) : Key[Roster[k]] <= Key[Roster[k + 1]]
    /\ \A s \in DOMAIN course.sections :
         LET r == course.sections[s].roster IN
         /\ ToSet(r) = {i \in Students : course.students[i].section = s}
         /\ \A k \in 1..(Len(r) - 1) : Key[r[k]] <= Key[r[k + 1]]

\* Sorted by name, every student entered twice is reported, in whatever sections and files the
\* entries are; checkfordups compares neighbours only, so this needs the sort.
DuplicatesReported ==
  phase \in {"collate", "resort"} /\ options.key = "name" /\ course.assignments # <<>> =>
    \A i, j \in Students : i # j /\ course.students[i].name = course.students[j].name =>
      \E d \in out.duplicates : i \in {d[1], d[2]}

\* What is read again of assignment k: RAW has no group, and SCALE without MAXIMUM has the
\* one normal() stored, once a score was normalized.
Collated(k) ==
  LET a == original.assignments[k]
      graded == \E st \in ToSet(original.students) : \E sc \in ToSet(st.scores) : sc.asgt = k /\ Counted(sc)
  IN [a EXCEPT !.ngroup = IF a.npolicy = "RAW" THEN "BYCLASS" ELSE @,
               !.max = IF a.npolicy = "SCALE" /\ @ = 0 /\ graded THEN Tiny ELSE @]

Entry(st) == [id |-> st.id, name |-> st.name, scores |-> st.scores]

SameSections ==
  /\ Len(course.sections) = Len(original.sections)
  /\ \A s \in DOMAIN course.sections :
       /\ course.sections[s].name = original.sections[s].name
       /\ Len(course.sections[s].roster) = Len(original.sections[s].roster)
       /\ {Entry(course.students[i]) : i \in ToSet(course.sections[s].roster)}
          = {Entry(original.students[i]) : i \in ToSet(original.sections[s].roster)}

\* What -c writes reads back without an error as the same course, up to the order of a
\* section and the MAXIMUM of a SCALE assignment that has none, when no assignment is LINEAR
\* and no score is USENORM.
CollateReadsBack ==
  (/\ round = 2 /\ phase # "reading"
   /\ \A a \in ToSet(original.assignments) : a.npolicy # "LINEAR"
   /\ \A st \in ToSet(original.students) : \A sc \in ToSet(st.scores) : sc.how # "USENORM")
  => /\ phase = "reread"
     /\ course.professor = original.professor
     /\ Len(course.assignments) = Len(original.assignments)
     /\ \A k \in Assignments : course.assignments[k] = Collated(k)
     /\ SameSections

\* Every composite falls in one of the 50 bins, every score too when none is negative, and
\* the quantile summary is ordered and inside the scores of its table.
ReportInRange ==
  out.report # <<>> =>
    /\ ToSet(out.report.composites) \subseteq 0..49
    /\ \A a \in Assignments :
         LET freqs == stats[a].class.freqs
             summary == out.report.summary[a]
         IN /\ (\A k \in DOMAIN freqs : freqs[k].score >= 0) => ToSet(out.report.bins[a]) \subseteq 0..49
            /\ freqs # <<>> =>
                 /\ freqs[1].score <= summary[1] /\ summary[5] <= freqs[Len(freqs)].score
                 /\ \A k \in 1..4 : summary[k] <= summary[k + 1]
=============================================================================
