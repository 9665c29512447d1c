-------------------------- MODULE ImprimerProofs --------------------------
(***************************************************************************)
(* Proofs about the spooler, for every number of printers, jobs, names and *)
(* files.                                                                  *)
(***************************************************************************)
EXTENDS Imprimer, SequenceTheorems, FiniteSetTheorems, WellFoundedInduction, TLAPS
(***************************************************************************)
(* Numbers.                                                                *)
(***************************************************************************)
\* A set of numbers that is not empty has a least one.
LEMMA LeastExists ==
  ASSUME NEW S, S \subseteq Nat, S # {}
  PROVE  \E p \in S : \A q \in S : p <= q
  <1>1. IsWellFoundedOn(OpToRel(<, Nat), Nat)
    BY NatLessThanWellFounded
  <1>2. PICK p \in S : \A q \in S : ~ (<<q, p>> \in OpToRel(<, Nat))
    BY <1>1, WFMin
  <1>3. \A q \in S : ~ (q < p)
    BY <1>2 DEF OpToRel
  <1> QED BY <1>3

\* A power of two is a positive number: it counts the subsets of a finite set.
LEMMA PowerOfTwo ==
  ASSUME NEW n \in Nat
  PROVE  2^n \in Nat \ {0}
  <1>1. IsFiniteSet(1..n) /\ Cardinality(1..n) = n
    BY FS_Interval
  <1>2. IsFiniteSet(SUBSET (1..n)) /\ Cardinality(SUBSET (1..n)) = 2^n
    BY <1>1, FS_SUBSET
  <1>3. Cardinality(SUBSET (1..n)) \in Nat
    BY <1>2, FS_CardinalityType
  <1>4. Cardinality(SUBSET (1..n)) # 0
    BY <1>2, FS_EmptySet
  <1> QED BY <1>2, <1>3, <1>4

(***************************************************************************)
(* The sum of the bits of a sequence of names, for any weights w and any   *)
(* modulus M.  Recursive on the tail of the sequence, over all sequences:  *)
(* that there is such a function is shown for the sequences up to each     *)
(* length, where it is unique, and these functions are then put together.  *)
(***************************************************************************)
Summand(N, w, M, g, s) == IF s = <<>> THEN 0 ELSE (g[Tail(s)] + w[Head(s)]) % M

UpTo(N, n) == {s \in Seq(N) : Len(s) <= n}

Sums(N, w, M, n, f) == f = [s \in UpTo(N, n) |-> Summand(N, w, M, f, s)]

\* Two such functions are the same where both are defined.
Agree(N, n, m, f, g) == \A s \in Seq(N) : Len(s) <= n /\ Len(s) <= m => f[s] = g[s]

SumsTo(N, w, M, n) == CHOOSE f : Sums(N, w, M, n, f)

LEMMA SumsExist ==
  ASSUME NEW N, NEW w, NEW M, NEW n \in Nat
  PROVE  \E f : Sums(N, w, M, n, f)
  <1> DEFINE P(m) == \E f : Sums(N, w, M, m, f)
             T == {m \in Nat : ~ P(m)}
  <1>1. SUFFICES ASSUME T # {} PROVE FALSE
    OBVIOUS
  <1>2. PICK m \in T : \A k \in T : m <= k
    BY <1>1, LeastExists
  <1>3. m \in Nat /\ ~ P(m)
    OBVIOUS
  <1>4. CASE m = 0
    <2>1. \A s \in UpTo(N, 0) : s = <<>>
      BY EmptySeq, LenProperties DEF UpTo
    <2> DEFINE g == [s \in UpTo(N, 0) |-> 0]
    <2>2. g = [s \in UpTo(N, 0) |-> Summand(N, w, M, g, s)]
      BY <2>1 DEF Summand
    <2>3. P(0)
      BY <2>2 DEF Sums
    <2> QED BY <1>3, <1>4, <2>3
  <1>5. CASE m # 0
    <2>1. m - 1 \in Nat /\ m - 1 \notin T
      BY <1>2, <1>3, <1>5
    <2>2. PICK f : Sums(N, w, M, m - 1, f)
      BY <2>1
    <2> DEFINE g == [s \in UpTo(N, m) |-> Summand(N, w, M, f, s)]
    <2>3. \A s \in UpTo(N, m) : s # <<>> => Tail(s) \in UpTo(N, m - 1) /\ Tail(s) \in UpTo(N, m)
      BY <1>3, HeadTailProperties, LenProperties DEF UpTo
    <2>4. \A s \in UpTo(N, m - 1) : s \in UpTo(N, m) /\ g[s] = f[s]
      <3>1. \A s \in UpTo(N, m - 1) : s \in UpTo(N, m)
        BY <1>3, LenProperties DEF UpTo
      <3>2. \A s \in UpTo(N, m - 1) : f[s] = Summand(N, w, M, f, s)
        BY <2>2 DEF Sums
      <3> QED BY <3>1, <3>2
    <2> HIDE DEF g
    <2>5. \A s \in UpTo(N, m) : Summand(N, w, M, f, s) = Summand(N, w, M, g, s)
      BY <2>3, <2>4 DEF Summand
    <2>6. g = [s \in UpTo(N, m) |-> Summand(N, w, M, g, s)]
      BY <2>5 DEF g
    <2>7. P(m)
      BY <2>6 DEF Sums
    <2> QED BY <1>3, <2>7
  <1> QED BY <1>4, <1>5

LEMMA SumsUnique ==
  ASSUME NEW N, NEW w, NEW M, NEW n \in Nat, NEW m \in Nat, NEW f, NEW g,
         Sums(N, w, M, n, f), Sums(N, w, M, m, g)
  PROVE  Agree(N, n, m, f, g)
  <1> DEFINE Differ == {s \in Seq(N) : Len(s) <= n /\ Len(s) <= m /\ f[s] # g[s]}
             T == {Len(s) : s \in Differ}
  <1>1. SUFFICES ASSUME T # {} PROVE FALSE
    BY DEF Agree
  <1>2. T \subseteq Nat
    BY LenProperties
  <1>3. PICK k \in T : \A j \in T : k <= j
    BY <1>1, <1>2, LeastExists
  <1>4. PICK s \in Differ : Len(s) = k
    OBVIOUS
  <1>5. /\ s \in Seq(N) /\ Len(s) \in Nat /\ s \in UpTo(N, n) /\ s \in UpTo(N, m)
        /\ f[s] # g[s]
    BY <1>4, LenProperties DEF UpTo
  <1>6. f[s] = Summand(N, w, M, f, s) /\ g[s] = Summand(N, w, M, g, s)
    BY <1>5 DEF Sums
  <1>7. s # <<>>
    BY <1>5, <1>6 DEF Summand
  <1>8. Tail(s) \in Seq(N) /\ Len(Tail(s)) = Len(s) - 1
    BY <1>5, <1>7, HeadTailProperties
  <1>9. Tail(s) \notin Differ
    <2>1. ASSUME Tail(s) \in Differ
          PROVE  k <= Len(Tail(s))
      BY <2>1, <1>3
    <2> QED BY <2>1, <1>4, <1>5, <1>8
  <1>10. f[Tail(s)] = g[Tail(s)]
    BY <1>4, <1>5, <1>8, <1>9
  <1> QED BY <1>5, <1>6, <1>7, <1>10 DEF Summand

\* There is such a function on all sequences.
LEMMA SumExists ==
  ASSUME NEW N, NEW w, NEW M
  PROVE  \E f : f = [s \in Seq(N) |-> Summand(N, w, M, f, s)]
  <1>1. PICK F : \A n \in Nat : Sums(N, w, M, n, F[n])
    <2> DEFINE G == [n \in Nat |-> SumsTo(N, w, M, n)]
    <2>1. \A n \in Nat : Sums(N, w, M, n, G[n])
      BY SumsExist DEF SumsTo
    <2> QED BY <2>1
  <1>2. ASSUME NEW n \in Nat, NEW m \in Nat
        PROVE  Agree(N, n, m, F[n], F[m])
    <2>1. Sums(N, w, M, n, F[n]) /\ Sums(N, w, M, m, F[m])
      BY <1>1
    <2> QED BY <2>1, SumsUnique
  <1> DEFINE f == [s \in Seq(N) |-> F[Len(s)][s]]
  <1>3. ASSUME NEW s \in Seq(N)
        PROVE  f[s] = Summand(N, w, M, f, s)
    <2>1. Len(s) \in Nat /\ s \in UpTo(N, Len(s))
      BY LenProperties DEF UpTo
    <2>2. f[s] = Summand(N, w, M, F[Len(s)], s)
      BY <1>1, <2>1 DEF Sums
    <2>3. CASE s = <<>>
      BY <2>2, <2>3 DEF Summand
    <2>4. CASE s # <<>>
      <3>1. Tail(s) \in Seq(N) /\ Len(Tail(s)) \in Nat /\ Len(Tail(s)) <= Len(s)
        BY <2>1, <2>4, HeadTailProperties, LenProperties
      <3>2. F[Len(Tail(s))][Tail(s)] = F[Len(s)][Tail(s)]
        <4>1. Agree(N, Len(Tail(s)), Len(s), F[Len(Tail(s))], F[Len(s)])
          BY <2>1, <3>1, <1>2
        <4>2. Len(Tail(s)) <= Len(Tail(s)) /\ Len(Tail(s)) <= Len(s)
          BY <3>1
        <4> QED BY <3>1, <4>1, <4>2 DEF Agree
      <3>3. f[Tail(s)] = F[Len(s)][Tail(s)]
        BY <3>1, <3>2
      <3> QED BY <2>2, <2>4, <3>3 DEF Summand
    <2> QED BY <2>3, <2>4
  <1> HIDE DEF f
  <1>4. f = [s \in Seq(N) |-> Summand(N, w, M, f, s)]
    BY <1>3 DEF f
  <1> QED BY <1>4

\* Sums of numbers stay below the modulus.
LEMMA SumInRange ==
  ASSUME NEW N, NEW K, K \subseteq N, NEW w, \A x \in K : w[x] \in Int,
         NEW M \in Nat \ {0}, NEW f, f = [s \in Seq(N) |-> Summand(N, w, M, f, s)],
         NEW names \in Seq(K)
  PROVE  f[names] \in 0..(M - 1)
  <1> DEFINE Wrong == {s \in Seq(K) : f[s] \notin 0..(M - 1)}
             T == {Len(s) : s \in Wrong}
  <1>1. SUFFICES ASSUME T # {} PROVE FALSE
    OBVIOUS
  <1>2. T \subseteq Nat
    BY LenProperties
  <1>3. PICK k \in T : \A j \in T : k <= j
    BY <1>1, <1>2, LeastExists
  <1>4. PICK s \in Wrong : Len(s) = k
    OBVIOUS
  <1>5. s \in Seq(K) /\ s \in Seq(N) /\ Len(s) \in Nat /\ f[s] \notin 0..(M - 1)
    BY <1>4, SeqMonotonic, LenProperties
  <1>6. f[s] = Summand(N, w, M, f, s)
    BY <1>5
  <1>7. s # <<>>
    BY <1>5, <1>6 DEF Summand
  <1>8. Head(s) \in K /\ Tail(s) \in Seq(K) /\ Len(Tail(s)) = Len(s) - 1
    BY <1>5, <1>7, HeadTailProperties
  <1>9. Tail(s) \notin Wrong
    <2>1. ASSUME Tail(s) \in Wrong
          PROVE  k <= Len(Tail(s))
      BY <2>1, <1>3
    <2> QED BY <2>1, <1>4, <1>5, <1>8
  <1>10. f[Tail(s)] + w[Head(s)] \in Int
    BY <1>8, <1>9
  <1>11. \A x \in Int : x % M \in 0..(M - 1)
    OBVIOUS
  <1> QED BY <1>5, <1>6, <1>7, <1>10, <1>11 DEF Summand

\* The printers a job may use are a set of MaxPrinters bits.
LEMMA EligibleTyped ==
  ASSUME NEW names \in Seq(Names), KnownNames(names)
  PROVE  Eligible(names) \in 0..(2^MaxPrinters - 1)
  <1> DEFINE w == [n \in Names |-> 2^((CHOOSE i \in NamedPrinter(n) : TRUE) - 1)]
             M == 2^MaxPrinters
             K == {n \in Names : NamedPrinter(n) # {}}
  <1>0. M \in Nat \ {0}
    BY ImprimerAssumption, PowerOfTwo
  <1>1. \A n \in K : w[n] \in Int
    <2> SUFFICES ASSUME NEW n \in K PROVE w[n] \in Int
      OBVIOUS
    <2>1. (CHOOSE i \in NamedPrinter(n) : TRUE) \in NamedPrinter(n)
      OBVIOUS
    <2>2. (CHOOSE i \in NamedPrinter(n) : TRUE) - 1 \in Nat
      BY <2>1 DEF NamedPrinter
    <2> QED BY <2>2, PowerOfTwo
  <1>2. names \in Seq(K)
    <2>1. \A k \in 1..Len(names) : names[k] \in K
      BY DEF KnownNames
    <2> QED BY <2>1
  <1>3. SetOfNames = [s \in Seq(Names) |-> Summand(Names, w, M, SetOfNames, s)]
    <2>1. \A f : [s \in Seq(Names) |-> Summand(Names, w, M, f, s)]
                 = [s \in Seq(Names) |->
                      IF s = <<>> THEN 0
                      ELSE (f[Tail(s)] + 2^((CHOOSE i \in NamedPrinter(Head(s)) : TRUE) - 1)) % 2^MaxPrinters]
      <3> TAKE f
      <3>1. ASSUME NEW s \in Seq(Names), s # <<>>
            PROVE  w[Head(s)] = 2^((CHOOSE i \in NamedPrinter(Head(s)) : TRUE) - 1)
        BY <3>1, HeadTailProperties
      <3> QED BY <3>1 DEF Summand
    <2>2. \E f : f = [s \in Seq(Names) |-> Summand(Names, w, M, f, s)]
      BY SumExists, ZenonT(60)
    <2> HIDE DEF w, M
    <2>3. SetOfNames = CHOOSE f : f = [s \in Seq(Names) |->
                      IF s = <<>> THEN 0
                      ELSE (f[Tail(s)] + 2^((CHOOSE i \in NamedPrinter(Head(s)) : TRUE) - 1)) % 2^MaxPrinters]
      BY DEF SetOfNames
    <2>4. SetOfNames = CHOOSE f : f = [s \in Seq(Names) |-> Summand(Names, w, M, f, s)]
      BY <2>1, <2>3
    <2> QED BY <2>2, <2>4
  <1> HIDE DEF w, M, K
  <1>4. SetOfNames[names] \in 0..(M - 1)
    <2>1. K \subseteq Names
      BY DEF K
    <2> QED BY <1>0, <1>1, <1>2, <1>3, <2>1, SumInRange
  <1>5. 2^MaxPrinters - 1 \in 0..(2^MaxPrinters - 1)
    BY <1>0 DEF M
  <1> QED BY <1>4, <1>5 DEF Eligible, ANY_PRINTER, M
(***************************************************************************)
(* The inductive invariant.                                                *)
(***************************************************************************)
\* Nothing runs and nothing can run before the first command of the prompt.
BatchIdle ==
  mode = "batch" =>
    /\ \A p \in 1..Len(printers) : ~ printers[p].enabled
    /\ \A i \in 1..Len(jobs) : jobs[i].status # "RUNNING"

\* The queued jobs the pass has left behind have no free printer.
PassedOver ==
  mode = "pass" => \A i \in 1..Len(jobs) : i < cursor /\ jobs[i].status = "QUEUED" => FreeFor(i) = {}

IInv == ImprimerTypeOK /\ BatchIdle /\ PassedOver /\ NothingLeftWaiting /\ OneJobPerPrinter /\ NoOvertaking

LEMMA InitInv == Init => IInv
  <1> SUFFICES ASSUME Init
               PROVE  IInv
    OBVIOUS
  <1>1. printers \in Seq(Printer) /\ Len(printers) = 0 /\ Len(jobs) = 0
    BY DEF Init
  <1>2. jobs \in Seq(Job)
    BY DEF Init
  <1>3. ImprimerTypeOK
    BY <1>1, <1>2, ImprimerAssumption DEF Init, ImprimerTypeOK, Modes
  <1>4. BatchIdle /\ PassedOver /\ NothingLeftWaiting
    BY <1>1 DEF BatchIdle, PassedOver, NothingLeftWaiting
  <1>5. OneJobPerPrinter /\ NoOvertaking
    BY <1>1 DEF OneJobPerPrinter, NoOvertaking
  <1> QED BY <1>3, <1>4, <1>5 DEF IInv

(***************************************************************************)
(* Steps that leave the printers and the jobs alone.                       *)
(***************************************************************************)
LEMMA SameTables ==
  ASSUME IInv, UNCHANGED <<printers, jobs>>,
         types' \subseteq Types, convs' \subseteq Conversions,
         mode' \in Modes, cursor' \in 1..(Len(jobs) + 1),
         mode' = "batch" => mode = "batch",
         mode' = "prompt" => mode = "prompt",
         mode' = "pass" => cursor' = 1
  PROVE  IInv'
  <1>1. ImprimerTypeOK'
    BY DEF IInv, ImprimerTypeOK
  <1>2. BatchIdle'
    BY DEF IInv, BatchIdle
  <1>3. PassedOver'
    BY DEF PassedOver
  <1>4. NothingLeftWaiting'
    BY DEF IInv, NothingLeftWaiting, FreeFor, Free
  <1>5. OneJobPerPrinter' /\ NoOvertaking'
    BY DEF IInv, OneJobPerPrinter, NoOvertaking
  <1> QED BY <1>1, <1>2, <1>3, <1>4, <1>5 DEF IInv

\* How a command ends: it is either read on, or the pass starts from the first job.
LEMMA EndsWell ==
  ASSUME ImprimerTypeOK, Reading, Continue \/ EndOfCommand
  PROVE  /\ mode' \in Modes /\ cursor' \in 1..(Len(jobs) + 1)
         /\ mode' = "batch" => mode = "batch"
         /\ mode' = "prompt" => mode = "prompt"
         /\ mode' = "pass" => cursor' = 1
  BY DEF ImprimerTypeOK, Reading, Continue, EndOfCommand, Modes

LEMMA OutOfBoundsInv ==
  ASSUME IInv, OutOfBounds
  PROVE  IInv'
  <1>1. mode' = "undefined" /\ types' \subseteq Types /\ convs' \subseteq Conversions
        /\ cursor' \in 1..(Len(jobs) + 1)
    BY DEF OutOfBounds, IInv, ImprimerTypeOK
  <1> QED BY <1>1, SameTables DEF OutOfBounds, Modes

(***************************************************************************)
(* Steps that change the tables: each starts the pass again, or is one of  *)
(* a file, where nothing is enabled.                                       *)
(***************************************************************************)
LEMMA Restarted ==
  ASSUME Reading, EndOfCommand
  PROVE  PassedOver' /\ (mode = "prompt" => NothingLeftWaiting')
  BY DEF Reading, EndOfCommand, Continue, PassedOver, NothingLeftWaiting

LEMMA DeclarePrinterInv ==
  ASSUME IInv, NEW n \in Names, NEW t \in Types, DeclarePrinter(n, t)
  PROVE  IInv'
  <1>1. CASE UNCHANGED <<convs, types, printers, jobs>> /\ Continue
    BY <1>1, EndsWell, SameTables DEF IInv, ImprimerTypeOK, DeclarePrinter
  <1>2. CASE OutOfBounds
    BY <1>2, OutOfBoundsInv
  <1>3. CASE /\ printers' = Append(printers, [name |-> n, type |-> t, enabled |-> FALSE, busy |-> FALSE])
             /\ EndOfCommand /\ UNCHANGED <<types, convs, jobs>> /\ Len(printers) # MaxPrinters
    <2> DEFINE new == [name |-> n, type |-> t, enabled |-> FALSE, busy |-> FALSE]
    <2>0. /\ printers \in Seq(Printer) /\ Len(printers) \in Nat /\ Len(printers) < MaxPrinters
          /\ MaxPrinters \in Nat /\ Reading
      BY <1>3, LenProperties, ImprimerAssumption DEF IInv, ImprimerTypeOK, DeclarePrinter
    <2>1. new \in Printer /\ ~ new.enabled /\ ~ new.busy
      BY DEF Printer
    <2>2. printers' = Append(printers, new)
      BY <1>3
    <2> HIDE DEF new
    <2>3. /\ Len(printers') = Len(printers) + 1 /\ printers' \in Seq(Printer)
          /\ Len(printers') <= MaxPrinters
          /\ \A p \in 1..Len(printers) : printers'[p] = printers[p]
          /\ printers'[Len(printers) + 1] = new
      BY <2>0, <2>1, <2>2, AppendProperties
    <2>4. ImprimerTypeOK'
      BY <1>3, <2>0, <2>3, EndsWell DEF IInv, ImprimerTypeOK
    <2>5. BatchIdle'
      <3>1. ASSUME mode' = "batch"
            PROVE  mode = "batch"
        BY <3>1, <1>3, EndsWell, <2>0 DEF IInv
      <3> QED BY <3>1, <1>3, <2>0, <2>1, <2>3 DEF IInv, BatchIdle
    <2>6. OneJobPerPrinter'
      BY <1>3, <2>0, <2>1, <2>3 DEF IInv, OneJobPerPrinter
    <2>7. NoOvertaking'
      BY <1>3 DEF IInv, NoOvertaking
    <2>8. PassedOver' /\ NothingLeftWaiting'
      BY <1>3, <2>0, Restarted DEF Reading, EndOfCommand, Continue, NothingLeftWaiting
    <2> QED BY <2>4, <2>5, <2>6, <2>7, <2>8 DEF IInv
  <1> QED BY <1>1, <1>2, <1>3 DEF DeclarePrinter

LEMMA PrintInv ==
  ASSUME IInv, NEW f \in Files, NEW names \in Seq(Names), PrintJob(f, names)
  PROVE  IInv'
  <1>1. CASE UNCHANGED <<convs, types, printers, jobs>> /\ Continue
    BY <1>1, EndsWell, SameTables DEF IInv, ImprimerTypeOK, PrintJob
  <1>2. CASE OutOfBounds
    BY <1>2, OutOfBoundsInv
  <1>3. CASE /\ KnownNames(names) /\ Len(jobs) # MaxJobs
             /\ jobs' = Append(jobs, NewJob(f, names)) /\ EndOfCommand /\ UNCHANGED <<types, convs, printers>>
    <2> DEFINE new == NewJob(f, names)
    <2>0. jobs \in Seq(Job)
      BY DEF IInv, ImprimerTypeOK
    <2>1. new \in Job /\ new.status = "QUEUED"
      <3>1. Eligible(names) \in 0..(2^MaxPrinters - 1) /\ 0 \in 0..MaxPrinters
        BY <1>3, EligibleTyped, ImprimerAssumption
      <3> QED BY <3>1 DEF Job, NewJob, Status
    <2>3. jobs' = Append(jobs, new) /\ Reading
      BY <1>3 DEF PrintJob
    <2> HIDE DEF new
    <2>4. /\ Len(jobs) \in Nat /\ Len(jobs') = Len(jobs) + 1 /\ jobs' \in Seq(Job)
          /\ \A i \in 1..Len(jobs) : jobs'[i] = jobs[i]
          /\ jobs'[Len(jobs) + 1] = new
      BY <2>0, <2>1, <2>3, AppendProperties, LenProperties
    <2>5. ImprimerTypeOK'
      <3>1. Len(jobs') <= MaxJobs
        BY <1>3, <2>4, ImprimerAssumption DEF IInv, ImprimerTypeOK
      <3> QED BY <3>1, <1>3, <2>3, <2>4, EndsWell DEF IInv, ImprimerTypeOK
    <2>6. BatchIdle'
      <3>1. ASSUME mode' = "batch"
            PROVE  mode = "batch"
        BY <3>1, <1>3, EndsWell, <2>3 DEF IInv
      <3> QED BY <3>1, <1>3, <2>1, <2>4 DEF IInv, BatchIdle
    <2>7. OneJobPerPrinter'
      BY <1>3, <2>1, <2>4 DEF IInv, OneJobPerPrinter
    <2>8. NoOvertaking'
      <3> SUFFICES ASSUME NEW i \in 1..Len(jobs'), NEW k \in 1..Len(jobs'), i < k,
                          TypeOf[jobs'[i].file] = TypeOf[jobs'[k].file],
                          \A p \in 1..MaxPrinters : Member(jobs'[k].eligible, p) => Member(jobs'[i].eligible, p),
                          jobs'[k].status = "RUNNING"
                   PROVE  jobs'[i].status # "QUEUED"
        BY DEF NoOvertaking
      <3>1. k \in 1..Len(jobs) /\ i \in 1..Len(jobs)
        BY <2>1, <2>4, SMTT(30)
      <3>2. jobs'[i] = jobs[i] /\ jobs'[k] = jobs[k]
        BY <2>4, <3>1
      <3> QED BY <3>1, <3>2 DEF IInv, NoOvertaking
    <2>9. PassedOver' /\ NothingLeftWaiting'
      BY <1>3, <2>3, Restarted DEF Reading, EndOfCommand, Continue, NothingLeftWaiting
    <2> QED BY <2>5, <2>6, <2>7, <2>8, <2>9 DEF IInv
  <1> QED BY <1>1, <1>2, <1>3 DEF PrintJob

\* cancel, enable and disable: only commands of the prompt.
LEMMA CancelInv ==
  ASSUME IInv, NEW f \in Files, Cancel(f)
  PROVE  IInv'
  <1> DEFINE hit == {i \in 1..Len(jobs) : jobs[i].file = f /\ jobs[i].status = "QUEUED"}
             new == [i \in 1..Len(jobs) |-> IF i \in hit THEN [jobs[i] EXCEPT !.status = "ABORTED"] ELSE jobs[i]]
  <1>0. mode = "prompt" /\ Reading
    BY DEF Cancel, Reading
  <1>1. CASE OutOfBounds
    BY <1>1, OutOfBoundsInv
  <1>2. CASE jobs' = new /\ EndOfCommand /\ UNCHANGED <<types, convs, printers>>
    <2>0. jobs \in Seq(Job)
      BY DEF IInv, ImprimerTypeOK
    <2>1. /\ Len(jobs) \in Nat /\ Len(jobs') = Len(jobs) /\ jobs' \in Seq(Job)
          /\ \A i \in 1..Len(jobs) : i \notin hit => jobs'[i] = jobs[i]
          /\ \A i \in hit : jobs'[i] = [jobs[i] EXCEPT !.status = "ABORTED"]
      <3>1. \A i \in 1..Len(jobs) : jobs[i] \in Job
        BY <2>0
      <3>2. \A i \in 1..Len(jobs) : new[i] \in Job
        BY <3>1 DEF Job, Status
      <3>3. new \in Seq(Job) /\ Len(new) = Len(jobs) /\ Len(jobs) \in Nat
        BY <3>2, <2>0
      <3> QED BY <1>2, <3>3
    <2>2. \A i \in hit : /\ jobs'[i].status = "ABORTED" /\ jobs'[i].file = jobs[i].file
                         /\ jobs'[i].eligible = jobs[i].eligible /\ jobs'[i].chosen = jobs[i].chosen
                         /\ jobs[i].status = "QUEUED"
      <3> SUFFICES ASSUME NEW i \in hit
                   PROVE  /\ jobs'[i].status = "ABORTED" /\ jobs'[i].file = jobs[i].file
                          /\ jobs'[i].eligible = jobs[i].eligible /\ jobs'[i].chosen = jobs[i].chosen
                          /\ jobs[i].status = "QUEUED"
        OBVIOUS
      <3>1. i \in 1..Len(jobs) /\ jobs[i].status = "QUEUED"
        OBVIOUS
      <3>2. jobs[i] \in Job
        BY <2>0, <3>1, ElementOfSeq
      <3>3. jobs'[i] = [jobs[i] EXCEPT !.status = "ABORTED"]
        BY <2>1
      <3> QED BY <3>1, <3>2, <3>3 DEF Job
    <2> HIDE DEF hit, new
    <2>3. ImprimerTypeOK'
      BY <2>1, <1>0, <1>2, EndsWell DEF IInv, ImprimerTypeOK
    <2>4. mode' = "pass" /\ cursor' = 1
      BY <1>0, <1>2 DEF EndOfCommand
    <2>5. BatchIdle' /\ PassedOver' /\ NothingLeftWaiting'
      BY <2>4 DEF BatchIdle, PassedOver, NothingLeftWaiting
    <2>6. \A i \in 1..Len(jobs) : \/ jobs'[i] = jobs[i]
                                  \/ jobs'[i].status = "ABORTED" /\ jobs[i].status = "QUEUED"
      BY <2>1, <2>2
    <2>7. OneJobPerPrinter'
      BY <1>2, <2>1, <2>6 DEF IInv, OneJobPerPrinter
    <2>8. NoOvertaking'
      BY <2>1, <2>2 DEF IInv, NoOvertaking
    <2> QED BY <2>3, <2>5, <2>7, <2>8 DEF IInv
  <1> QED BY <1>1, <1>2 DEF Cancel

LEMMA SwitchInv ==
  ASSUME IInv, NEW n \in Names, Enable(n) \/ Disable(n)
  PROVE  IInv'
  <1>1. PICK b \in BOOLEAN :
          printers' = [i \in 1..Len(printers) |->
                         IF printers[i].name = n THEN [printers[i] EXCEPT !.enabled = b] ELSE printers[i]]
    BY DEF Enable, Disable
  <1>2. mode = "prompt" /\ EndOfCommand /\ UNCHANGED <<types, convs, jobs>>
    BY DEF Enable, Disable
  <1>3. printers \in Seq(Printer) /\ Len(printers) <= MaxPrinters
    BY DEF IInv, ImprimerTypeOK
  <1>4. /\ Len(printers) \in Nat /\ Len(printers') = Len(printers) /\ printers' \in Seq(Printer)
        /\ \A p \in 1..Len(printers) : printers'[p].busy = printers[p].busy /\ printers'[p].type = printers[p].type
    <2> DEFINE new == [i \in 1..Len(printers) |->
                         IF printers[i].name = n THEN [printers[i] EXCEPT !.enabled = b] ELSE printers[i]]
    <2>1. \A p \in 1..Len(printers) : printers[p] \in Printer
      BY <1>3
    <2>2. \A p \in 1..Len(printers) : new[p] \in Printer /\ new[p].busy = printers[p].busy
                                      /\ new[p].type = printers[p].type
      BY <2>1 DEF Printer
    <2>3. new \in Seq(Printer) /\ Len(new) = Len(printers) /\ Len(printers) \in Nat
      BY <2>2, <1>3
    <2> QED BY <1>1, <2>2, <2>3
  <1>5. mode' = "pass" /\ cursor' = 1
    BY <1>2 DEF EndOfCommand
  <1>6. ImprimerTypeOK'
    BY <1>2, <1>3, <1>4, <1>5 DEF IInv, ImprimerTypeOK, Modes
  <1>7. BatchIdle' /\ PassedOver' /\ NothingLeftWaiting'
    BY <1>5 DEF BatchIdle, PassedOver, NothingLeftWaiting
  <1>8. OneJobPerPrinter' /\ NoOvertaking'
    BY <1>2, <1>4 DEF IInv, OneJobPerPrinter, NoOvertaking
  <1> QED BY <1>6, <1>7, <1>8 DEF IInv

(***************************************************************************)
(* The pass.                                                               *)
(***************************************************************************)
\* A printer that is chosen exists, is free for the job, and is now busy with it.
LEMMA StartInv ==
  ASSUME IInv, mode = "pass", cursor \in 1..Len(jobs), jobs[cursor].status = "QUEUED",
         NEW p \in FreeFor(cursor), Start(cursor, p), mode' \in {"pass", "undefined"},
         cursor' = cursor + 1, UNCHANGED <<types, convs>>
  PROVE  IInv'
  <1>0. jobs \in Seq(Job)
    BY DEF IInv, ImprimerTypeOK
  <1>1. /\ printers \in Seq(Printer) /\ Len(printers) \in Nat /\ Len(jobs) \in Nat
        /\ Len(printers) <= MaxPrinters /\ MaxPrinters \in Nat
    BY <1>0, LenProperties, ImprimerAssumption DEF IInv, ImprimerTypeOK
  <1>2. /\ p \in 1..Len(printers) /\ printers[p].type = TypeOf[jobs[cursor].file]
        /\ ~ printers[p].busy /\ Member(jobs[cursor].eligible, p)
    BY DEF FreeFor, Free
  <1>3. jobs[cursor] \in Job /\ printers[p] \in Printer
    BY <1>0, <1>1, <1>2, ElementOfSeq
  <1> DEFINE job == [jobs[cursor] EXCEPT !.status = "RUNNING", !.chosen = p]
             printer == [printers[p] EXCEPT !.busy = TRUE]
  <1>4. /\ job \in Job /\ job.status = "RUNNING" /\ job.chosen = p
        /\ job.file = jobs[cursor].file /\ job.eligible = jobs[cursor].eligible
    <2>1. p \in 0..MaxPrinters
      BY <1>1, <1>2
    <2> QED BY <1>3, <2>1 DEF Job, Status
  <1>5. printer \in Printer /\ printer.busy /\ printer.type = printers[p].type
    BY <1>3 DEF Printer
  <1>6. jobs' = [jobs EXCEPT ![cursor] = job] /\ printers' = [printers EXCEPT ![p] = printer]
    BY <1>0, <1>1 DEF Start
  <1> HIDE DEF job, printer
  <1>7. /\ jobs' \in Seq(Job) /\ Len(jobs') = Len(jobs) /\ jobs'[cursor] = job
        /\ \A i \in 1..Len(jobs) : i # cursor => jobs'[i] = jobs[i]
    BY <1>0, <1>4, <1>6, ExceptSeq
  <1>8. /\ printers' \in Seq(Printer) /\ Len(printers') = Len(printers) /\ printers'[p] = printer
        /\ \A q \in 1..Len(printers) : q # p => printers'[q] = printers[q]
    BY <1>1, <1>2, <1>5, <1>6, ExceptSeq
  <1>9. ImprimerTypeOK'
    BY <1>1, <1>7, <1>8 DEF IInv, ImprimerTypeOK, Modes
  <1>10. BatchIdle' /\ NothingLeftWaiting'
    BY DEF BatchIdle, NothingLeftWaiting
  <1>11. PassedOver'
    <2> SUFFICES ASSUME NEW i \in 1..Len(jobs), i < cursor + 1, jobs'[i].status = "QUEUED"
                 PROVE  FreeFor(i)' = {}
      BY <1>7 DEF PassedOver
    <2>1. i # cursor /\ i < cursor
      BY <1>1, <1>4, <1>7
    <2>2. jobs'[i] = jobs[i] /\ FreeFor(i) = {}
      BY <1>7, <2>1 DEF IInv, PassedOver
    <2> SUFFICES ASSUME NEW q \in 1..Len(printers), Free(i, q)'
                 PROVE  Free(i, q)
      BY <1>8, <2>2 DEF FreeFor
    <2>3. q # p
      BY <1>5, <1>8 DEF Free
    <2> QED BY <1>8, <2>2, <2>3 DEF Free
  <1>12. OneJobPerPrinter'
    <2>0. OneJobPerPrinter
      BY DEF IInv
    <2>1. \A i \in 1..Len(jobs) : jobs[i].status = "RUNNING" => jobs[i].chosen # p /\ i # cursor
      BY <1>2, <2>0 DEF OneJobPerPrinter
    <2>2. \A q \in 1..Len(printers) : printers'[q].busy <=>
            \E i \in 1..Len(jobs) : jobs'[i].status = "RUNNING" /\ jobs'[i].chosen = q
      <3>1. ASSUME NEW q \in 1..Len(printers), q # p
            PROVE  printers'[q].busy <=>
                     \E i \in 1..Len(jobs) : jobs'[i].status = "RUNNING" /\ jobs'[i].chosen = q
        BY <3>1, <1>4, <1>7, <1>8, <2>0, <2>1 DEF OneJobPerPrinter
      <3>2. printers'[p].busy /\ jobs'[cursor].status = "RUNNING" /\ jobs'[cursor].chosen = p
        BY <1>4, <1>5, <1>7, <1>8
      <3> QED BY <3>1, <3>2
    <2>3. \A i, k \in 1..Len(jobs) :
            jobs'[i].status = "RUNNING" /\ jobs'[k].status = "RUNNING" /\ jobs'[i].chosen = jobs'[k].chosen => i = k
      BY <1>4, <1>7, <2>0, <2>1 DEF OneJobPerPrinter
    <2>4. \A i \in 1..Len(jobs) : jobs'[i].status = "RUNNING" =>
            /\ jobs'[i].chosen \in 1..Len(printers)
            /\ printers'[jobs'[i].chosen].type = TypeOf[jobs'[i].file]
            /\ Member(jobs'[i].eligible, jobs'[i].chosen)
      <3> SUFFICES ASSUME NEW i \in 1..Len(jobs), jobs'[i].status = "RUNNING"
                   PROVE  /\ jobs'[i].chosen \in 1..Len(printers)
                          /\ printers'[jobs'[i].chosen].type = TypeOf[jobs'[i].file]
                          /\ Member(jobs'[i].eligible, jobs'[i].chosen)
        OBVIOUS
      <3>1. CASE i = cursor
        BY <3>1, <1>2, <1>4, <1>5, <1>7, <1>8
      <3>2. CASE i # cursor
        <4>1. jobs'[i] = jobs[i] /\ jobs[i].chosen # p
          BY <3>2, <1>7, <2>1
        <4>2. /\ jobs[i].chosen \in 1..Len(printers) /\ Member(jobs[i].eligible, jobs[i].chosen)
              /\ printers[jobs[i].chosen].type = TypeOf[jobs[i].file]
          BY <4>1, <2>0 DEF OneJobPerPrinter
        <4> QED BY <4>1, <4>2, <1>8
      <3> QED BY <3>1, <3>2
    <2> QED BY <1>7, <1>8, <2>2, <2>3, <2>4 DEF OneJobPerPrinter
  <1>13. NoOvertaking'
    <2> SUFFICES ASSUME NEW i \in 1..Len(jobs), NEW k \in 1..Len(jobs), i < k,
                        TypeOf[jobs'[i].file] = TypeOf[jobs'[k].file],
                        \A q \in 1..MaxPrinters : Member(jobs'[k].eligible, q) => Member(jobs'[i].eligible, q),
                        jobs'[k].status = "RUNNING"
                 PROVE  jobs'[i].status # "QUEUED"
      BY <1>7 DEF NoOvertaking
    <2>1. CASE i = cursor
      BY <2>1, <1>4, <1>7
    <2>2. CASE i # cursor /\ k # cursor
      BY <2>2, <1>7 DEF IInv, NoOvertaking
    <2>3. CASE i # cursor /\ k = cursor
      <3>1. jobs'[i] = jobs[i] /\ jobs'[k] = job /\ i < cursor
        BY <2>3, <1>7
      <3>2. TypeOf[jobs[i].file] = printers[p].type /\ Member(jobs[i].eligible, p)
        BY <3>1, <1>1, <1>2, <1>4
      <3>3. FreeFor(i) # {}
        BY <3>2, <1>2 DEF FreeFor, Free
      <3> QED BY <3>1, <3>3 DEF IInv, PassedOver
    <2> QED BY <2>1, <2>2, <2>3
  <1> QED BY <1>9, <1>10, <1>11, <1>12, <1>13 DEF IInv

LEMMA ScheduleInv ==
  ASSUME IInv, Schedule
  PROVE  IInv'
  <1>0. /\ mode = "pass" /\ cursor \in Nat \ {0} /\ cursor <= Len(jobs) /\ Len(jobs) \in Nat
        /\ printers \in Seq(Printer) /\ types' = types /\ convs' = convs /\ cursor' = cursor + 1
    BY LenProperties DEF Schedule, IInv, ImprimerTypeOK
  <1>1. CASE jobs[cursor].status = "QUEUED" /\ FreeFor(cursor) # {}
    <2>1. /\ Start(cursor, FirstOf(FreeFor(cursor))) /\ mode' \in {"pass", "undefined"}
      BY <1>0, <1>1 DEF Schedule
    <2>2. FirstOf(FreeFor(cursor)) \in FreeFor(cursor)
      <3>1. FreeFor(cursor) \subseteq Nat
        BY DEF FreeFor
      <3> QED BY <1>1, <3>1, LeastExists DEF FirstOf
    <2> QED BY <1>0, <1>1, <2>1, <2>2, StartInv
  <1>2. CASE ~ (jobs[cursor].status = "QUEUED" /\ FreeFor(cursor) # {})
    <2>1. UNCHANGED <<jobs, printers, mode>>
      BY <1>2 DEF Schedule
    <2>2. ImprimerTypeOK'
      BY <1>0, <2>1 DEF IInv, ImprimerTypeOK
    <2>3. PassedOver'
      <3> SUFFICES ASSUME NEW i \in 1..Len(jobs), i < cursor + 1, jobs[i].status = "QUEUED"
                   PROVE  FreeFor(i) = {}
        BY <1>0, <2>1 DEF PassedOver, FreeFor, Free
      <3>1. i < cursor \/ i = cursor
        BY <1>0
      <3> QED BY <1>0, <1>2, <3>1 DEF IInv, PassedOver
    <2>4. BatchIdle' /\ NothingLeftWaiting'
      BY <1>0, <2>1 DEF BatchIdle, NothingLeftWaiting
    <2>5. OneJobPerPrinter' /\ NoOvertaking'
      BY <2>1 DEF IInv, OneJobPerPrinter, NoOvertaking
    <2> QED BY <2>2, <2>3, <2>4, <2>5 DEF IInv
  <1> QED BY <1>1, <1>2

\* The pass is over: the cursor has left every job behind.
LEMMA EndPassInv ==
  ASSUME IInv, EndPass
  PROVE  IInv'
  <1>1. mode = "pass" /\ cursor > Len(jobs) /\ mode' = "prompt" /\ UNCHANGED <<types, convs, printers, jobs, cursor>>
    BY DEF EndPass
  <1>2. ImprimerTypeOK'
    BY <1>1 DEF IInv, ImprimerTypeOK, Modes
  <1>3. BatchIdle' /\ PassedOver'
    BY <1>1 DEF BatchIdle, PassedOver
  <1>4. NothingLeftWaiting'
    <2>1. \A i \in 1..Len(jobs) : i < cursor
      BY <1>1, LenProperties DEF IInv, ImprimerTypeOK
    <2> QED BY <1>1, <2>1 DEF IInv, PassedOver, NothingLeftWaiting, FreeFor, Free
  <1>5. OneJobPerPrinter' /\ NoOvertaking'
    BY <1>1 DEF IInv, OneJobPerPrinter, NoOvertaking
  <1> QED BY <1>2, <1>3, <1>4, <1>5 DEF IInv

\* Leaving the file shows the prompt without a pass: no printer is enabled yet.
LEMMA PauseResumeInv ==
  ASSUME IInv, PauseResume
  PROVE  IInv'
  <1>1. /\ UNCHANGED <<types, convs, printers, jobs, cursor>>
        /\ (mode = "batch" /\ mode' = "prompt") \/ (mode = "prompt" /\ mode' = "exited")
    BY DEF PauseResume, Reading, Break
  <1>2. CASE mode = "prompt" /\ mode' = "exited"
    BY <1>1, <1>2, SameTables DEF IInv, ImprimerTypeOK, Modes
  <1>3. CASE mode = "batch" /\ mode' = "prompt"
    <2>1. ImprimerTypeOK'
      BY <1>1, <1>3 DEF IInv, ImprimerTypeOK, Modes
    <2>2. BatchIdle' /\ PassedOver'
      BY <1>3 DEF BatchIdle, PassedOver
    <2>3. NothingLeftWaiting'
      BY <1>1, <1>3 DEF IInv, BatchIdle, NothingLeftWaiting, FreeFor, Free
    <2>4. OneJobPerPrinter' /\ NoOvertaking'
      BY <1>1 DEF IInv, OneJobPerPrinter, NoOvertaking
    <2> QED BY <2>1, <2>2, <2>3, <2>4 DEF IInv
  <1> QED BY <1>1, <1>2, <1>3

(***************************************************************************)
(* The theorems.                                                           *)
(***************************************************************************)
LEMMA StepInv == IInv /\ [Next]_vars => IInv'
  <1> SUFFICES ASSUME IInv, [Next]_vars
               PROVE  IInv'
    OBVIOUS
  <1>1. ASSUME NEW t \in Types, DeclareType(t)
        PROVE  IInv'
    <2>1. CASE OutOfBounds
      BY <2>1, OutOfBoundsInv
    <2>2. CASE types' = types \cup {t} /\ EndOfCommand /\ UNCHANGED <<convs, printers, jobs>>
      BY <1>1, <2>2, EndsWell, SameTables DEF DeclareType, IInv, ImprimerTypeOK
    <2> QED BY <1>1, <2>1, <2>2 DEF DeclareType
  <1>2. ASSUME NEW n \in Names, NEW t \in Types, DeclarePrinter(n, t)
        PROVE  IInv'
    BY <1>2, DeclarePrinterInv
  <1>3. ASSUME NEW c \in Conversions, DeclareConversion(c)
        PROVE  IInv'
    <2>1. CASE OutOfBounds
      BY <2>1, OutOfBoundsInv
    <2>2. CASE /\ Continue \/ EndOfCommand
               /\ convs' = convs \/ convs' = convs \cup {c}
               /\ UNCHANGED <<types, printers, jobs>>
      <3>1. Reading /\ ImprimerTypeOK
        BY <1>3 DEF DeclareConversion, IInv
      <3>2. types' \subseteq Types /\ convs' \subseteq Conversions
        BY <2>2, <3>1 DEF ImprimerTypeOK
      <3> QED BY <2>2, <3>1, <3>2, EndsWell, SameTables
    <2> QED BY <1>3, <2>1, <2>2 DEF DeclareConversion
  <1>4. ASSUME NEW f \in Files, NEW k \in 0..MaxArgs, NEW names \in [1..k -> Names], PrintJob(f, names)
        PROVE  IInv'
    <2>1. k \in Nat
      BY ImprimerAssumption
    <2>2. names \in Seq(Names)
      BY <2>1, SeqDef
    <2> QED BY <1>4, <2>2, PrintInv
  <1>5. ASSUME NEW f \in Files, Cancel(f)
        PROVE  IInv'
    BY <1>5, CancelInv
  <1>6. ASSUME NEW n \in Names, Enable(n) \/ Disable(n)
        PROVE  IInv'
    BY <1>6, SwitchInv
  <1>7. CASE Report
    BY <1>7, EndsWell, SameTables DEF Report, IInv, ImprimerTypeOK
  <1>8. CASE PauseResume
    BY <1>8, PauseResumeInv
  <1>9. CASE Quit
    BY <1>9, SameTables DEF Quit, IInv, ImprimerTypeOK, Modes
  <1>10. CASE Schedule
    BY <1>10, ScheduleInv
  <1>11. CASE EndPass
    BY <1>11, EndPassInv
  <1>12. CASE UNCHANGED vars
    <2>1. UNCHANGED <<types, convs, printers, jobs, mode, cursor>>
      BY <1>12 DEF vars
    <2>2. ImprimerTypeOK' /\ BatchIdle' /\ PassedOver'
      BY <2>1 DEF IInv, ImprimerTypeOK, BatchIdle, PassedOver, FreeFor, Free
    <2>3. NothingLeftWaiting' /\ OneJobPerPrinter' /\ NoOvertaking'
      BY <2>1 DEF IInv, NothingLeftWaiting, FreeFor, Free, OneJobPerPrinter, NoOvertaking
    <2> QED BY <2>2, <2>3 DEF IInv
  <1> QED BY <1>1, <1>2, <1>3, <1>4, <1>5, <1>6, <1>7, <1>8, <1>9, <1>10, <1>11, <1>12 DEF Next

LEMMA AlwaysInv == Spec => []IInv
  BY InitInv, StepInv, PTL DEF Spec

\* The tables of main keep their types and their sizes, and the pass stays inside the job table:
\* past a table ends the run in "undefined", and no printer set needs more than MaxPrinters bits.
THEOREM SpoolerTyped == Spec => []ImprimerTypeOK
  <1>1. IInv => ImprimerTypeOK
    BY DEF IInv
  <1> QED BY <1>1, AlwaysInv, PTL

\* After any commands the printers marked busy and the jobs marked running match one to one.
THEOREM TablesAgree == Spec => []OneJobPerPrinter
  <1>1. IInv => OneJobPerPrinter
    BY DEF IInv
  <1> QED BY <1>1, AlwaysInv, PTL

\* No queued job has a free printer when the prompt is shown.
THEOREM NobodyWaits == Spec => []NothingLeftWaiting
  <1>1. IInv => NothingLeftWaiting
    BY DEF IInv
  <1> QED BY <1>1, AlwaysInv, PTL

\* Jobs for the same printers are started in the order of the print commands.
THEOREM OrderKept == Spec => []NoOvertaking
  <1>1. IInv => NoOvertaking
    BY DEF IInv
  <1> QED BY <1>1, AlwaysInv, PTL

\* cancel and the pass change the entries of queued jobs only.
THEOREM OthersKept == Spec => OnlyQueuedJobsChange
  <1>1. ASSUME IInv, [Next]_vars
        PROVE  [\A i \in 1..Len(jobs) : jobs[i].status # "QUEUED" => jobs'[i] = jobs[i]]_vars
    <2> SUFFICES ASSUME Next, NEW i \in 1..Len(jobs), jobs[i].status # "QUEUED"
                 PROVE  jobs'[i] = jobs[i]
      BY <1>1
    <2>0. jobs \in Seq(Job)
      BY <1>1 DEF IInv, ImprimerTypeOK
    <2>1. ASSUME NEW f \in Files, NEW names, PrintJob(f, names)
          PROVE  jobs'[i] = jobs[i]
      <3>1. CASE UNCHANGED jobs
        BY <3>1
      <3>2. CASE jobs' = Append(jobs, NewJob(f, names))
        BY <3>2, <2>0
      <3> QED BY <2>1, <3>1, <3>2 DEF PrintJob, OutOfBounds
    <2>2. ASSUME NEW f \in Files, Cancel(f)
          PROVE  jobs'[i] = jobs[i]
      BY <2>2 DEF Cancel, OutOfBounds
    <2>3. CASE Schedule
      <3>1. cursor \in 1..Len(jobs)
        BY <1>1, <2>3, <2>0, LenProperties DEF Schedule, IInv, ImprimerTypeOK
      <3>2. CASE UNCHANGED jobs
        BY <3>2
      <3>3. CASE jobs[cursor].status = "QUEUED" /\ Start(cursor, FirstOf(FreeFor(cursor)))
        BY <3>1, <3>3, <2>0 DEF Start
      <3> QED BY <2>3, <3>2, <3>3 DEF Schedule
    <2>4. CASE UNCHANGED jobs
      BY <2>4
    <2> QED BY <2>1, <2>2, <2>3, <2>4
            DEF Next, DeclareType, DeclarePrinter, DeclareConversion, Enable, Disable, Report, PauseResume,
                Quit, EndPass, Break, OutOfBounds
  <1> QED BY <1>1, AlwaysInv, PTL DEF Spec, OnlyQueuedJobsChange
=============================================================================
