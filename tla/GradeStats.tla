--------------------------- MODULE GradeStats ---------------------------
(***************************************************************************)
(* The computations of hw2 (stats.c, normal.c, sort.c, report.c) on one    *)
(* frequency table, one group of scores, one roster.  Scores are integers; *)
(* quotients and square roots round down.                                  *)
(***************************************************************************)
EXTENDS Integers, Sequences, FiniteSets, SequencesExt

LOCAL Least(S) == CHOOSE k \in S : \A j \in S : k <= j
LOCAL Higher(a, b) == IF a > b THEN a ELSE b

(***************************************************************************)
(* Frequency tables.                                                       *)
(***************************************************************************)
\* count_score: the bucket of g is incremented, or made before the first higher one.
CountScore(freqs, g) ==
  LET k == Least({j \in 1..Len(freqs) : freqs[j].score >= g} \cup {Len(freqs) + 1}) IN
  IF k <= Len(freqs) /\ freqs[k].score = g THEN [freqs EXCEPT ![k].count = @ + 1]
  ELSE InsertAt(freqs, k, [score |-> g, count |-> 1, numless |-> 0])

\* Mutant: the scores that are equal are counted as less.
QuantilesLessEq(freqs) ==
  [k \in DOMAIN freqs |->
     [freqs[k] EXCEPT !.numless = FoldLeft(LAMBDA n, f : n + f.count, 0, SubSeq(freqs, 1, k))]]
Quantiles(freqs) ==
  [k \in DOMAIN freqs |->
     [freqs[k] EXCEPT !.numless = FoldLeft(LAMBDA n, f : n + f.count, 0, SubSeq(freqs, 1, k - 1))]]

\* do_sums for one group; the minimum is never used, and the maximum only of the class.
Sums(scores) ==
  FoldLeft(LAMBDA st, g :
             [valid |-> st.valid + 1, sum |-> st.sum + g, sumsq |-> st.sumsq + g * g,
              max |-> IF st.valid = 0 THEN g ELSE Higher(g, st.max)],
           [valid |-> 0, sum |-> 0, sumsq |-> 0, max |-> 0], scores)

Root(n) == CHOOSE r \in 0..n : r * r <= n /\ (r + 1) * (r + 1) > n

Stddev(st) ==
  IF st.valid < 2 THEN 0
  ELSE Root((st.valid * st.sumsq - st.sum * st.sum) \div (st.valid * (st.valid - 1)))

Statistics(scores) ==
  LET st == Sums(scores) IN
  [freqs |-> Quantiles(FoldLeft(CountScore, <<>>, scores)), tallied |-> Len(scores),
   valid |-> st.valid, sum |-> st.sum, stddev |-> Stddev(st), max |-> st.max]

(***************************************************************************)
(* Normalization of one score s.                                           *)
(***************************************************************************)
\* A standard deviation below EPSILON means that all scores are the mean.
Linear(s, st, mean, stddev) ==
  IF st.stddev = 0 THEN mean
  ELSE mean + (stddev * (s * st.valid - st.sum)) \div (st.valid * st.stddev)

\* A maximum below EPSILON is replaced by 2 * EPSILON; the scores are multiplied by 1 / 2*EPSILON.
Tiny == -1
Scale(s, max, scale) == IF max \in {0, Tiny} THEN s * scale * 500000 ELSE (s * scale) \div max

Percentile(s, st) ==
  LET hits == {k \in DOMAIN st.freqs : s <= st.freqs[k].score} IN
  IF hits = {} THEN s
  ELSE (100 * st.freqs[Least(hits)].numless) \div (IF st.tallied = 0 THEN 1 ELSE st.tallied)

(***************************************************************************)
(* Sorting: the table is filled from its end, then quicksorted; students   *)
(* equal to the pivot go alternately to the high and the low part.         *)
(***************************************************************************)
Swap(t, i, j) == [t EXCEPT ![i] = t[j], ![j] = t[i]]

PartitionStep(key, pivot, st) ==
  LET c == key[st.t[st.l]] - key[pivot]
      up == IF c = 0 THEN st.alt ELSE c > 0
  IN [t   |-> IF up THEN Swap(st.t, st.l, st.h - 1) ELSE st.t,
      l   |-> IF up THEN st.l ELSE st.l + 1,
      h   |-> IF up THEN st.h - 1 ELSE st.h,
      alt |-> IF c = 0 THEN ~ st.alt ELSE st.alt]

\* Positions low..high-1; each round moves l or h by one.
Partition(t, low, high, key) ==
  FoldLeft(LAMBDA st, i : PartitionStep(key, t[(low + high) \div 2], st),
           [t |-> t, l |-> low, h |-> high, alt |-> TRUE], [i \in 1..(high - low) |-> i])

RECURSIVE SortTable(_, _, _, _)
SortTable(t, low, high, key) ==
  IF low = high THEN t
  ELSE LET p == Partition(t, low, high, key) IN
       IF low + 1 = high THEN p.t
       ELSE SortTable(SortTable(p.t, low, p.l, key), p.l, high, key)

\* Mutant: the last entry of the table is not sorted.
SortRosterShort(roster, key) ==
  IF roster = <<>> THEN <<>> ELSE SortTable(Reverse(roster), 1, Len(roster), key)

\* compare(a, b) is the difference of two keys: name, id, or minus the composite.
SortRoster(roster, key) == SortTable(Reverse(roster), 1, Len(roster) + 1, key)

(***************************************************************************)
(* Reports.                                                                *)
(***************************************************************************)
\* C division, towards zero.
LOCAL Quotient(a, b) ==
  IF (a < 0) = (b < 0) THEN (IF a < 0 THEN -a ELSE a) \div (IF b < 0 THEN -b ELSE b)
  ELSE -((IF a < 0 THEN -a ELSE a) \div (IF b < 0 THEN -b ELSE b))

\* Mutant: the histogram starts at zero, whatever the lowest composite is.
CompositeBinFromZero(x, min, max) == Quotient(49 * x, IF max = min THEN 1 ELSE max - min)

\* reporthistos: the lowest and the highest start at 0.
CompositeBin(x, min, max) == Quotient(49 * (x - min), IF max = min THEN 1 ELSE max - min)

HistogramMax(declared, st) == IF declared # 0 THEN declared ELSE IF st.max = 0 THEN 1 ELSE st.max

ScoreBin(s, max) ==
  IF max = Tiny THEN (IF s > 0 THEN 49 ELSE 49 * s * 500000)
  ELSE IF s > max THEN 49 ELSE Quotient(49 * s, max)

\* interpolatequantile: the bucket the loop stops at, and the point between it and the one before.
InterpolateQuantile(freqs, n, q) ==
  LET rank(k) == IF k = 0 THEN 0 ELSE (100 * freqs[k].numless) \div n
      score(k) == freqs[Higher(k, 1)].score
      stops == {k \in 1..(Len(freqs) - 1) : rank(k - 1) <= q /\ q < rank(k)}
      k == Least(stops)
  IN IF freqs = <<>> THEN 0
     ELSE IF stops = {} THEN freqs[Len(freqs)].score
     ELSE score(k - 1) + ((score(k) - score(k - 1)) * (q - rank(k - 1))) \div (rank(k) - rank(k - 1))
=============================================================================
