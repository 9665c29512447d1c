-------------------------- MODULE XactoServerProofs --------------------------
(* Proofs about the registry of clients and the server around it, for      *)
(* every number of threads and slots.                                      *)
(* The registry, alone (Spec): its types, that no thread misses its slot,  *)
(* and that creg_wait_for_empty returns on an empty buffer although it     *)
(* scans it without mutex.  The argument: a registration holds lock from   *)
(* its first step to its last, so once the closer has taken lock no thread *)
(* is inside one and none will be; from then on a slot found empty stays   *)
(* empty.                                                                  *)
(* The server (ServerSpec): a step of it is a step of the registry, or     *)
(* leaves it alone, or comes after creg_fini(); so the invariants of the   *)
(* registry hold in the server.  A thread creates its transaction after it *)
(* has registered and ends it before it unregisters; when the closer is    *)
(* through, the buffer is empty, so no thread is registered with a valid   *)
(* descriptor.                                                             *)
EXTENDS XactoServer, FiniteSetTheorems, TLAPS

-----------------------------------------------------------------------------
(* The registry: types *)

LEMMA SlotFacts ==
  /\ 0 \in Slot /\ NSlots - 1 \in Slot
  /\ \A s \in Slot : s # NSlots - 1 => s + 1 \in Slot
  BY RegistryAssumption DEF Slot

LEMMA InitTypeOK == Init => TypeOK
  <1> SUFFICES ASSUME Init
               PROVE  TypeOK
    OBVIOUS
  <1>1. \A s \in Sem : (CASE s = "slots" -> NSlots [] s = "items" -> 0 [] OTHER -> 1) \in Nat
    BY RegistryAssumption DEF Sem
  <1>2. sem \in [Sem -> Nat]
    BY <1>1 DEF Init
  <1> QED BY <1>2, SlotFacts DEF Init, TypeOK, CloserPC

LEMMA WaitsTypeOK ==
  ASSUME TypeOK, NEW t \in Thread, NEW s \in Sem, NEW from,
         NEW to \in {"in", "out"} \cup RegisterPC \cup UnregisterPC,
         Waits(t, s, from, to) \/ Posts(t, s, from, to)
  PROVE  TypeOK'
  <1>1. sem' \in [Sem -> Nat]
    <2>1. sem[s] \in Nat
      BY DEF TypeOK
    <2>2. CASE Waits(t, s, from, to)
      BY <2>1, <2>2 DEF TypeOK, Waits, Wait
    <2>3. CASE Posts(t, s, from, to)
      BY <2>1, <2>3 DEF TypeOK, Posts, Post
    <2> QED BY <2>2, <2>3
  <1>2. /\ pc' = [pc EXCEPT ![t] = to]
        /\ UNCHANGED <<fdbuf, arg, member, mpc, scan, flag, shut>>
    BY DEF Waits, Posts, Goto, closer
  <1> QED BY <1>1, <1>2 DEF TypeOK

LEMMA NextTypeOK == TypeOK /\ [Next]_regVars => TypeOK'
  <1> SUFFICES ASSUME TypeOK, [Next]_regVars
               PROVE  TypeOK'
    OBVIOUS
  <1> USE DEF Goto, closer
  <1>1. ASSUME NEW t \in Thread, Call(t)
        PROVE  TypeOK'
    <2>1. ASSUME NEW fd \in Fd \cup {NoFd}, CallRegister(t, fd)
          PROVE  TypeOK'
      BY <2>1 DEF CallRegister, TypeOK, RegisterPC
    <2>2. CASE CallUnregister(t)
      BY <2>2 DEF CallUnregister, TypeOK, UnregisterPC
    <2>3. ASSUME NEW fd \in Fd, CallStrayUnregister(t, fd)
          PROVE  TypeOK'
      BY <2>3 DEF CallStrayUnregister, TypeOK, UnregisterPC
    <2> QED BY <1>1, <2>1, <2>2, <2>3 DEF Call
  <1>2. ASSUME NEW t \in Thread, Register(t)
        PROVE  TypeOK'
    <2>1. CASE RegStore(t)
      BY <2>1 DEF RegStore, StoreIn, TypeOK, RegisterPC
    <2>2. CASE ~RegStore(t)
      BY <1>2, <2>2, WaitsTypeOK DEF Register, RegLock, RegSlots, Sem, RegisterPC
    <2> QED BY <2>1, <2>2
  <1>3. ASSUME NEW t \in Thread, Unregister(t)
        PROVE  TypeOK'
    <2>1. CASE UnregClear(t)
      BY <2>1 DEF UnregClear, TypeOK, UnregisterPC
    <2>2. CASE UnregMiss(t)
      BY <2>2 DEF UnregMiss, TypeOK, UnregisterPC
    <2>3. CASE ~UnregClear(t) /\ ~UnregMiss(t)
      BY <1>3, <2>3, WaitsTypeOK DEF Unregister, UnregPostSlots, Sem, UnregisterPC
    <2> QED BY <2>1, <2>2, <2>3
  <1>4. CASE Shutdown
    <2>1. sem' \in [Sem -> Nat]
      BY <1>4 DEF Shutdown, ShutPost, Wait, Post, TypeOK, Sem
    <2>2. shut' \in SUBSET Fd
      BY <1>4 DEF Shutdown, ShutPost, TypeOK, SlotsWith
    <2> QED BY <1>4, <2>1, <2>2 DEF Shutdown, ShutPost, CloserGoto, TypeOK, CloserPC
  <1>5. CASE WaitLock
    <2>1. sem' \in [Sem -> Nat]
      BY <1>5 DEF WaitLock, Wait, TypeOK, Sem
    <2> QED BY <1>5, <2>1, SlotFacts DEF WaitLock, CloserGoto, TypeOK, CloserPC
  <1>6. CASE WaitScan
    <2>1. scan' \in Slot
      BY <1>6, SlotFacts DEF WaitScan, ScanUpTo, TypeOK
    <2>2. flag' \in BOOLEAN /\ mpc' \in CloserPC
      BY <1>6 DEF WaitScan, ScanUpTo, ScanFlag, TypeOK, CloserPC
    <2> QED BY <1>6, <2>1, <2>2 DEF WaitScan, ScanUpTo, TypeOK
  <1>7. CASE Fini
    BY <1>7 DEF Fini, CloserGoto, TypeOK, CloserPC
  <1>8. CASE UNCHANGED regVars
    BY <1>8 DEF regVars, TypeOK
  <1> QED
    BY <1>1, <1>2, <1>3, <1>4, <1>5, <1>6, <1>7, <1>8 DEF Next, Close, Finalized

(* Every variable keeps its type; sem[s] \in Nat says that no semaphore    *)
(* goes below zero, scan \in Slot that the scan of creg_wait_for_empty     *)
(* stays inside the buffer.                                                *)
THEOREM TypesOK == Spec => []TypeOK
  <1> QED BY InitTypeOK, NextTypeOK, PTL DEF Spec

-----------------------------------------------------------------------------
(* The closer and lock *)

(* Where a thread holds lock, and where the closer does.                   *)
HoldsLock(t) == pc[t] \in {"reg_slots", "reg_mutex", "reg_store",
                           "reg_post_mutex", "reg_post_items", "reg_post_lock"}
CloserHolds == mpc \in {"wait_scan", "returned", "finalized"}

(* lock is a mutual exclusion between registrations and the closer.        *)
LockInv ==
  /\ sem["lock"] \in {0, 1}
  /\ CloserHolds => sem["lock"] = 0
  /\ \A t \in Thread : HoldsLock(t) => sem["lock"] = 0 /\ ~CloserHolds
  /\ \A t, u \in Thread : HoldsLock(t) /\ HoldsLock(u) => t = u

(* The slots that the scan has passed without setting flag are empty; when *)
(* it is over, all of them are.                                            *)
ScanInv ==
  /\ (mpc = "wait_scan" /\ ~flag) => \A s \in 0 .. scan - 1 : fdbuf[s] = NoFd
  /\ mpc \in {"returned", "finalized"} => \A s \in Slot : fdbuf[s] = NoFd

IInv == TypeOK /\ LockInv /\ ScanInv

LEMMA InitIInv == Init => IInv
  <1> SUFFICES ASSUME Init
               PROVE  IInv
    OBVIOUS
  <1>1. sem["lock"] = 1
    BY DEF Init, Sem
  <1>2. LockInv
    BY <1>1 DEF Init, LockInv, CloserHolds, HoldsLock
  <1>3. ScanInv
    BY DEF Init, ScanInv
  <1> QED BY <1>2, <1>3, InitTypeOK DEF IInv

(* A step that leaves lock, and who holds it, as they are.                 *)
LEMMA LockKept ==
  ASSUME LockInv, sem'["lock"] = sem["lock"], CloserHolds' = CloserHolds,
         \A t \in Thread : HoldsLock(t)' => HoldsLock(t)
  PROVE  LockInv'
  BY DEF LockInv

LEMMA NextLockInv == TypeOK /\ LockInv /\ [Next]_regVars => LockInv'
  <1> SUFFICES ASSUME TypeOK, LockInv, [Next]_regVars
               PROVE  LockInv'
    OBVIOUS
  <1> USE DEF Goto, closer
  <1>1. ASSUME NEW t \in Thread, Call(t)
        PROVE  LockInv'
    <2>1. sem' = sem /\ mpc' = mpc
      BY <1>1 DEF Call, CallRegister, CallUnregister, CallStrayUnregister
    <2>2. \A u \in Thread : HoldsLock(u)' => HoldsLock(u)
      BY <1>1 DEF Call, CallRegister, CallUnregister, CallStrayUnregister, HoldsLock, TypeOK
    <2> QED BY <2>1, <2>2, LockKept DEF CloserHolds
  <1>2. ASSUME NEW t \in Thread, RegLock(t)
        PROVE  LockInv'
    <2>1. /\ sem["lock"] = 1 /\ sem'["lock"] = 0
          /\ mpc' = mpc
          /\ pc' = [pc EXCEPT ![t] = "reg_slots"]
      BY <1>2 DEF RegLock, Waits, Wait, LockInv, TypeOK, Sem
    <2>2. \A u \in Thread : HoldsLock(u)' => u = t
      BY <2>1 DEF LockInv, HoldsLock, TypeOK
    <2> QED BY <2>1, <2>2 DEF LockInv, CloserHolds
  <1>3. ASSUME NEW t \in Thread, Posts(t, "lock", "reg_post_lock", "in")
        PROVE  LockInv'
    <2>1. HoldsLock(t)
      BY <1>3 DEF Posts, HoldsLock
    <2>2. /\ sem["lock"] = 0 /\ sem'["lock"] = 1
          /\ mpc' = mpc /\ ~CloserHolds
          /\ pc' = [pc EXCEPT ![t] = "in"]
      BY <1>3, <2>1 DEF Posts, Post, LockInv, TypeOK, Sem
    <2>3. \A u \in Thread : ~HoldsLock(u)'
      BY <2>1, <2>2 DEF LockInv, HoldsLock, TypeOK
    <2> QED BY <2>2, <2>3 DEF LockInv, CloserHolds
  <1>4. ASSUME NEW t \in Thread, Register(t), ~RegLock(t),
               ~Posts(t, "lock", "reg_post_lock", "in")
        PROVE  LockInv'
    <2>1. sem'["lock"] = sem["lock"] /\ mpc' = mpc
      BY <1>4 DEF Register, RegSlots, RegStore, StoreIn, Waits, Posts, Wait, Post, TypeOK, Sem
    <2>2. \A u \in Thread : HoldsLock(u)' => HoldsLock(u)
      BY <1>4 DEF Register, RegSlots, RegStore, StoreIn, Waits, Posts, HoldsLock, TypeOK
    <2> QED BY <2>1, <2>2, LockKept DEF CloserHolds
  <1>5. ASSUME NEW t \in Thread, Unregister(t)
        PROVE  LockInv'
    <2> USE DEF Unregister, UnregPostSlots, UnregClear, UnregMiss, Waits, Posts
    <2>1. sem'["lock"] = sem["lock"] /\ mpc' = mpc
      BY <1>5 DEF Wait, Post, TypeOK, Sem
    <2>2. \A u \in Thread : HoldsLock(u)' => HoldsLock(u)
      BY <1>5 DEF HoldsLock, TypeOK
    <2> QED BY <2>1, <2>2, LockKept DEF CloserHolds
  <1>6. CASE Shutdown
    <2>1. sem'["lock"] = sem["lock"] /\ pc' = pc /\ CloserHolds' = CloserHolds
      BY <1>6 DEF Shutdown, ShutPost, CloserGoto, CloserHolds, Wait, Post, TypeOK, Sem
    <2> QED BY <2>1, LockKept DEF HoldsLock
  <1>7. CASE WaitLock
    <2>1. sem["lock"] = 1 /\ sem'["lock"] = 0 /\ pc' = pc
      BY <1>7 DEF WaitLock, Wait, LockInv, TypeOK, Sem
    <2> QED BY <2>1 DEF LockInv, HoldsLock
  <1>8. CASE WaitScan \/ Fini
    <2>1. sem' = sem /\ pc' = pc /\ CloserHolds' = CloserHolds
      BY <1>8 DEF WaitScan, ScanUpTo, Fini, CloserGoto, CloserHolds
    <2> QED BY <2>1, LockKept DEF HoldsLock
  <1>9. CASE UNCHANGED regVars
    BY <1>9 DEF regVars, LockInv, HoldsLock, CloserHolds
  <1> QED
    BY <1>1, <1>2, <1>3, <1>4, <1>5, <1>6, <1>7, <1>8, <1>9
       DEF Next, Close, Finalized, Register

(* While the closer holds lock a step only empties slots.                  *)
LEMMA StepOnlyShrinks ==
  ASSUME TypeOK, LockInv, [Next]_regVars, CloserHolds
  PROVE  OnlyShrinks
  <1> SUFFICES ASSUME NEW s \in Slot
               PROVE  fdbuf'[s] = fdbuf[s] \/ fdbuf'[s] = NoFd
    BY DEF OnlyShrinks
  <1> USE DEF closer
  <1>1. \A t \in Thread : ~RegStore(t)
    BY DEF LockInv, HoldsLock, RegStore, StoreIn, Goto
  <1>2. ASSUME NEW t \in Thread, UnregClear(t)
        PROVE  fdbuf'[s] = fdbuf[s] \/ fdbuf'[s] = NoFd
    BY <1>2 DEF UnregClear, TypeOK
  <1>3. ASSUME NEW t \in Thread, Call(t) \/ Register(t) \/ (Unregister(t) /\ ~UnregClear(t))
        PROVE  fdbuf' = fdbuf
    BY <1>1, <1>3 DEF Call, CallRegister, CallUnregister, CallStrayUnregister, Register,
       RegLock, RegSlots, Unregister, UnregPostSlots, UnregMiss, Waits, Posts
  <1>4. CASE Close \/ UNCHANGED regVars
    BY <1>4 DEF Close, Shutdown, ShutPost, WaitLock, WaitScan, ScanUpTo, Fini, regVars
  <1> QED BY <1>2, <1>3, <1>4 DEF Next, Finalized

LEMMA NextScanInv == IInv /\ [Next]_regVars => ScanInv'
  <1> SUFFICES ASSUME TypeOK, LockInv, ScanInv, [Next]_regVars
               PROVE  ScanInv'
    BY DEF IInv
  <1>1. CASE WaitLock
    BY <1>1 DEF WaitLock, CloserGoto, ScanInv
  <1>2. CASE WaitScan
    <2> USE <1>2 DEF WaitScan, ScanUpTo
    <2>1. fdbuf' = fdbuf /\ mpc = "wait_scan" /\ scan \in 0 .. NSlots - 1 /\ flag \in BOOLEAN
      BY DEF TypeOK, Slot
    <2>2. ~ScanFlag => \A s \in 0 .. scan : fdbuf[s] = NoFd
      <3> SUFFICES ASSUME ~ScanFlag, NEW s \in 0 .. scan
                   PROVE  fdbuf[s] = NoFd
        OBVIOUS
      <3>1. CASE s = scan
        BY <3>1 DEF ScanFlag
      <3>2. CASE s # scan
        <4>1. scan # 0 /\ s \in 0 .. scan - 1
          BY <2>1, <3>2
        <4>2. ~flag
          BY <4>1 DEF ScanFlag
        <4> QED BY <2>1, <4>1, <4>2 DEF ScanInv
      <3> QED BY <3>1, <3>2
    <2>3. CASE scan # NSlots - 1
      <3>1. mpc' = "wait_scan" /\ scan' = scan + 1 /\ flag' = ScanFlag
        BY <2>1, <2>3
      <3>2. 0 .. scan' - 1 = 0 .. scan
        BY <2>1, <3>1
      <3> QED BY <2>1, <2>2, <3>1, <3>2 DEF ScanInv
    <2>4. CASE scan = NSlots - 1 /\ ScanFlag
      BY <2>1, <2>4 DEF ScanInv
    <2>5. CASE scan = NSlots - 1 /\ ~ScanFlag
      BY <2>1, <2>2, <2>5 DEF ScanInv, Slot
    <2> QED BY <2>3, <2>4, <2>5
  <1>3. CASE ~WaitLock /\ ~WaitScan
    <2>1. CASE CloserHolds
      <3>1. OnlyShrinks
        BY <2>1, StepOnlyShrinks
      <3>2. flag' = flag /\ scan' = scan /\ CloserHolds' /\ (mpc' = mpc \/ Fini)
        BY <1>3, <2>1 DEF CloserHolds, Next, Close, Finalized, Call, CallRegister, CallUnregister,
           CallStrayUnregister, Register, RegLock, RegSlots, RegStore, StoreIn, Unregister,
           UnregPostSlots, UnregClear, UnregMiss, Waits, Posts, closer, Shutdown, ShutPost,
           CloserGoto, Fini, regVars
      <3>3. 0 .. scan - 1 \subseteq Slot
        BY RegistryAssumption DEF TypeOK, Slot
      <3>4. CASE mpc' = mpc
        BY <3>1, <3>2, <3>3, <3>4 DEF ScanInv, OnlyShrinks
      <3>5. CASE Fini
        BY <3>1, <3>5 DEF Fini, CloserGoto, ScanInv
      <3> QED BY <3>2, <3>4, <3>5
    <2>2. CASE ~CloserHolds
      <3>1. ~CloserHolds'
        BY <1>3, <2>2 DEF CloserHolds, Next, Close, Finalized, Call, CallRegister, CallUnregister,
           CallStrayUnregister, Register, RegLock, RegSlots, RegStore, StoreIn, Unregister,
           UnregPostSlots, UnregClear, UnregMiss, Waits, Posts, closer, Shutdown, ShutPost,
           CloserGoto, Fini, regVars
      <3> QED BY <3>1 DEF ScanInv, CloserHolds
    <2> QED BY <2>1, <2>2
  <1> QED BY <1>1, <1>2, <1>3

LEMMA NextIInv == IInv /\ [Next]_regVars => IInv'
  BY NextTypeOK, NextLockInv, NextScanInv DEF IInv

LEMMA InvariantHolds == Spec => []IInv
  <1> QED BY InitIInv, NextIInv, PTL DEF Spec

(* Whatever the threads do, creg_wait_for_empty returns only on an empty   *)
(* buffer, and the buffer is still empty when creg_fini frees it.          *)
THEOREM ReturnsEmpty == Spec => []WaitReturnsEmpty
  <1>1. IInv => WaitReturnsEmpty
    BY DEF IInv, ScanInv, WaitReturnsEmpty, SlotsWith
  <1> QED BY <1>1, InvariantHolds, PTL

(* From the moment creg_wait_for_empty holds lock until it is over, no     *)
(* step of any thread puts a descriptor into the buffer.                   *)
THEOREM StaysClosed == Spec => ClosedStaysClosed
  <1>1. IInv /\ [Next]_regVars => [(mpc \in {"wait_scan", "returned"}) => OnlyShrinks]_regVars
    BY StepOnlyShrinks DEF IInv, CloserHolds
  <1> QED BY <1>1, InvariantHolds, PTL DEF Spec, ClosedStaysClosed

-----------------------------------------------------------------------------
(* What the registry holds: each registered descriptor is in exactly one   *)
(* slot, a registration finds a free slot, an unregistration its           *)
(* descriptor, and the semaphores count what they stand for.  The argument *)
(* counts: a token of slots that is not in the semaphore is held by a      *)
(* thread (SlotHolder), and the slots that are not empty are at most those *)
(* of the registered threads, so whoever holds a token and has stored      *)
(* nothing has a slot left.  No step of the argument uses mutex, which     *)
(* only makes the loops single steps.                                      *)

(* A registered thread has left the loop of creg_register and not yet that *)
(* of creg_unregister; any other thread in creg_unregister is a stray one. *)
MemberPC == {"reg_post_mutex", "reg_post_items", "reg_post_lock", "in",
             "unreg_items", "unreg_mutex", "unreg_find"}
Placed ==
  /\ \A t \in member : pc[t] \in MemberPC
  /\ \A t \in Thread \ member : pc[t] \in MemberPC =>
       pc[t] \in {"unreg_items", "unreg_mutex", "unreg_find"} /\ arg[t] # NoFd

(* An open connection is the business of one thread.                       *)
OwnFd == \A t, u \in Thread :
  pc[t] # "out" /\ pc[u] # "out" /\ arg[t] = arg[u] /\ arg[t] # NoFd => t = u

(* The threads that have taken a token of slots and not given it back, and *)
(* those whose descriptor occupies a slot.                                 *)
SlotHolder == {t \in Thread : t \in member \/ pc[t] \in
                 {"reg_mutex", "reg_store", "unreg_post_mutex", "unreg_post_slots"}}
Occupant == {t \in Thread : t \in member /\ arg[t] # NoFd}

(* The threads that have posted their token of items, and those that have  *)
(* taken one and neither removed a descriptor nor given it back.           *)
ItemPoster == {t \in Thread : t \in member /\ pc[t] \notin {"reg_post_mutex", "reg_post_items"}}
ItemTaker == {t \in Thread : pc[t] \in {"unreg_mutex", "unreg_find", "miss_post_items"}}

Counted ==
  /\ sem["slots"] + Cardinality(SlotHolder) = NSlots
  /\ Cardinality(SlotsWith(NoFd)) + Cardinality(Occupant) = NSlots
  /\ sem["items"] + Cardinality(ItemTaker) = Cardinality(ItemPoster)

CInv == TypeOK /\ Placed /\ OwnFd /\ RegisteredOnce /\ Counted

-----------------------------------------------------------------------------
(* Counting *)

LEMMA OneMore ==
  ASSUME NEW S, IsFiniteSet(S), NEW x, x \notin S
  PROVE  Cardinality(S) \in Nat /\ Cardinality(S \cup {x}) = Cardinality(S) + 1
  BY FS_AddElement, FS_CardinalityType

LEMMA OneLess ==
  ASSUME NEW S, IsFiniteSet(S), NEW x \in S
  PROVE  Cardinality(S) \in Nat /\ Cardinality(S \ {x}) = Cardinality(S) - 1
  BY FS_RemoveElement, FS_CardinalityType

LEMMA AllFinite ==
  /\ IsFiniteSet(SlotHolder) /\ IsFiniteSet(Occupant)
  /\ IsFiniteSet(ItemPoster) /\ IsFiniteSet(ItemTaker)
  /\ IsFiniteSet(Slot) /\ Cardinality(Slot) = NSlots
  /\ \A fd : IsFiniteSet(SlotsWith(fd))
  <1>1. \A S : S \subseteq Thread => IsFiniteSet(S)
    BY RegistryAssumption, FS_Subset
  <1>2. IsFiniteSet(Slot) /\ Cardinality(Slot) = NSlots
    <2>1. NSlots - 1 \in Int /\ 0 \in Int /\ ~ (0 > NSlots - 1)
      BY RegistryAssumption
    <2> QED BY <2>1, FS_Interval, RegistryAssumption DEF Slot
  <1>3. \A fd : SlotsWith(fd) \in SUBSET Slot
    BY DEF SlotsWith
  <1>4. \A fd : IsFiniteSet(SlotsWith(fd))
    BY <1>2, <1>3, FS_Subset
  <1>5. SlotHolder \subseteq Thread /\ Occupant \subseteq Thread /\ ItemPoster \subseteq Thread /\ ItemTaker \subseteq Thread
    BY DEF SlotHolder, Occupant, ItemPoster, ItemTaker
  <1> QED BY <1>1, <1>2, <1>4, <1>5

LEMMA InitCInv == Init => CInv
  <1> SUFFICES ASSUME Init
               PROVE  CInv
    OBVIOUS
  <1>1. Placed /\ OwnFd
    BY DEF Init, Placed, OwnFd, MemberPC
  <1>2. RegisteredOnce
    BY DEF Init, RegisteredOnce, SlotsWith
  <1>3. Counted
    <2>1. SlotHolder = {} /\ Occupant = {} /\ ItemPoster = {} /\ ItemTaker = {} /\ SlotsWith(NoFd) = Slot
      BY DEF Init, SlotHolder, Occupant, ItemPoster, ItemTaker, SlotsWith
    <2>2. sem["slots"] = NSlots /\ sem["items"] = 0
      BY DEF Init, Sem
    <2>3. Cardinality({}) = 0
      BY FS_EmptySet
    <2> QED BY <2>1, <2>2, <2>3, AllFinite, RegistryAssumption DEF Counted
  <1> QED BY <1>1, <1>2, <1>3, InitTypeOK DEF CInv

(* What a thread that holds a token, and stores nothing yet or any more,   *)
(* or stored the -1 of a failed accept(), may count on.                    *)
LEMMA SlotLeft ==
  ASSUME CInv, NEW t \in Thread, t \in SlotHolder, t \notin Occupant
  PROVE  SlotsWith(NoFd) # {}
  <1>1. Occupant \subseteq SlotHolder \ {t}
    BY DEF Occupant, SlotHolder
  <1>2. Cardinality(Occupant) <= Cardinality(SlotHolder) - 1
    <2>1. Cardinality(SlotHolder \ {t}) = Cardinality(SlotHolder) - 1 /\ IsFiniteSet(SlotHolder \ {t})
      BY AllFinite, OneLess, FS_RemoveElement
    <2> QED BY <1>1, <2>1, FS_Subset
  <1>3. /\ Cardinality(Occupant) \in Nat /\ Cardinality(SlotHolder) \in Nat
        /\ Cardinality(SlotsWith(NoFd)) \in Nat /\ sem["slots"] \in Nat /\ NSlots \in Nat
    BY AllFinite, FS_CardinalityType, RegistryAssumption DEF CInv, TypeOK, Sem
  <1>4. Cardinality(SlotsWith(NoFd)) # 0
    BY <1>2, <1>3 DEF CInv, Counted
  <1> QED BY <1>4, FS_EmptySet

LEMMA MemberFinds ==
  ASSUME CInv, NEW t \in member
  PROVE  SlotsWith(arg[t]) # {}
  <1>1. t \in Thread
    BY DEF CInv, TypeOK
  <1>2. CASE arg[t] = NoFd
    <2>1. t \in SlotHolder /\ t \notin Occupant
      BY <1>1, <1>2 DEF SlotHolder, Occupant
    <2> QED BY <1>1, <1>2, <2>1, SlotLeft
  <1>3. CASE arg[t] # NoFd
    BY <1>3 DEF CInv, RegisteredOnce
  <1> QED BY <1>2, <1>3

(* A stray unregistration finds nothing: the descriptor has no other user. *)
LEMMA StrayMisses ==
  ASSUME CInv, NEW t \in Thread \ member, pc[t] = "unreg_find"
  PROVE  SlotsWith(arg[t]) = {}
  <1>1. arg[t] # NoFd
    BY DEF CInv, Placed, MemberPC
  <1> SUFFICES ASSUME NEW s \in Slot, fdbuf[s] = arg[t]
               PROVE  FALSE
    BY DEF SlotsWith
  <1>2. PICK u \in member : arg[u] = fdbuf[s]
    BY <1>1 DEF CInv, RegisteredOnce, SlotsWith
  <1>3. pc[u] # "out" /\ u \in Thread
    BY DEF CInv, Placed, MemberPC, TypeOK
  <1> QED BY <1>1, <1>2, <1>3 DEF CInv, OwnFd

(* First picks a slot of the set it is given.                              *)
LEMMA FirstIn ==
  ASSUME NEW S, S \subseteq Slot, S # {}
  PROVE  First(S) \in S
  <1>1. IsWellFoundedOn(OpToRel(<, Nat), Nat)
    BY NatLessThanWellFounded
  <1>2. S \subseteq Nat
    BY RegistryAssumption DEF Slot
  <1>3. PICK p \in S : \A q \in S : ~ (<<q, p>> \in OpToRel(<, Nat))
    BY <1>1, <1>2, WFMin
  <1>4. \A q \in S : ~ (q < p)
    BY <1>2, <1>3 DEF OpToRel
  <1>5. \A q \in S : p <= q
    BY <1>2, <1>4
  <1> QED BY <1>5 DEF First

-----------------------------------------------------------------------------
(* Steps that move no token and no descriptor *)

LEMMA CountsKept ==
  ASSUME CInv, fdbuf' = fdbuf, member' = member, sem'["slots"] = sem["slots"], sem'["items"] = sem["items"],
         \A t \in member : arg'[t] = arg[t],
         SlotHolder' = SlotHolder, ItemPoster' = ItemPoster, ItemTaker' = ItemTaker
  PROVE  RegisteredOnce' /\ Counted'
  <1>1. Occupant' = Occupant
    BY DEF Occupant
  <1>2. \A fd : SlotsWith(fd)' = SlotsWith(fd)
    BY DEF SlotsWith
  <1>3. Counted'
    BY <1>1, <1>2 DEF CInv, Counted
  <1>4. RegisteredOnce'
    BY <1>2 DEF CInv, RegisteredOnce, SlotsWith
  <1> QED BY <1>3, <1>4

(* A step that only moves a thread on.                                     *)
LEMMA MovedOn ==
  ASSUME CInv, NEW t \in Thread, NEW to, pc' = [pc EXCEPT ![t] = to],
         UNCHANGED <<fdbuf, arg, member>>,
         sem'["slots"] = sem["slots"], sem'["items"] = sem["items"],
         t \in SlotHolder <=> (t \in member \/ to \in {"reg_mutex", "reg_store", "unreg_post_mutex", "unreg_post_slots"}),
         t \in ItemPoster <=> (t \in member /\ to \notin {"reg_post_mutex", "reg_post_items"}),
         t \in ItemTaker <=> to \in {"unreg_mutex", "unreg_find", "miss_post_items"}
  PROVE  RegisteredOnce' /\ Counted'
  <1> USE DEF CInv, TypeOK
  <1>1. SlotHolder' = SlotHolder
    BY DEF SlotHolder
  <1>2. ItemPoster' = ItemPoster
    BY DEF ItemPoster
  <1>3. ItemTaker' = ItemTaker
    BY DEF ItemTaker
  <1> QED BY <1>1, <1>2, <1>3, CountsKept

LEMMA CallCounts ==
  ASSUME CInv, NEW t \in Thread, Call(t)
  PROVE  RegisteredOnce' /\ Counted'
  <1> USE DEF Goto, closer
  <1>1. ASSUME NEW fd, CallRegister(t, fd) \/ CallStrayUnregister(t, fd)
        PROVE  RegisteredOnce' /\ Counted'
    <2>1. /\ pc[t] = "out" /\ pc' \in {[pc EXCEPT ![t] = "reg_lock"], [pc EXCEPT ![t] = "unreg_items"]}
          /\ arg' = [arg EXCEPT ![t] = fd] /\ UNCHANGED <<fdbuf, sem, member>>
      BY <1>1 DEF CallRegister, CallStrayUnregister
    <2>2. t \notin member
      BY <2>1 DEF CInv, Placed, MemberPC
    <2>3. /\ SlotHolder' = SlotHolder /\ ItemPoster' = ItemPoster /\ ItemTaker' = ItemTaker
      BY <2>1, <2>2 DEF CInv, TypeOK, SlotHolder, ItemPoster, ItemTaker
    <2>4. \A u \in member : arg'[u] = arg[u]
      BY <2>1, <2>2 DEF CInv, TypeOK
    <2> QED BY <2>1, <2>3, <2>4, CountsKept
  <1>2. CASE CallUnregister(t)
    BY <1>2, MovedOn DEF CallUnregister, CInv, Placed, MemberPC, SlotHolder, ItemPoster, ItemTaker
  <1> QED BY <1>1, <1>2 DEF Call

(* Semaphores other than slots and items.                                  *)
LEMMA OtherSemaphore ==
  ASSUME CInv, NEW t \in Thread, NEW s \in {"mutex", "lock"}, NEW from, NEW to,
         Waits(t, s, from, to) \/ Posts(t, s, from, to),
         t \in SlotHolder <=> (t \in member \/ to \in {"reg_mutex", "reg_store", "unreg_post_mutex", "unreg_post_slots"}),
         t \in ItemPoster <=> (t \in member /\ to \notin {"reg_post_mutex", "reg_post_items"}),
         t \in ItemTaker <=> to \in {"unreg_mutex", "unreg_find", "miss_post_items"}
  PROVE  RegisteredOnce' /\ Counted'
  <1>1. /\ pc' = [pc EXCEPT ![t] = to] /\ UNCHANGED <<fdbuf, arg, member>>
    BY DEF Waits, Posts, Goto
  <1>2. sem'["slots"] = sem["slots"] /\ sem'["items"] = sem["items"]
    BY DEF Waits, Posts, Wait, Post, CInv, TypeOK, Sem
  <1> QED BY <1>1, <1>2, MovedOn

-----------------------------------------------------------------------------
(* Steps that move a token *)

(* A step that moves thread t in and out of one of the counted sets.       *)
LEMMA TokenMoves ==
  ASSUME CInv, NEW t \in Thread, NEW s \in Sem, NEW from, NEW to,
         Waits(t, s, from, to) \/ Posts(t, s, from, to)
  PROVE  /\ pc[t] = from /\ pc'[t] = to /\ member' = member /\ arg' = arg /\ fdbuf' = fdbuf
         /\ \A u \in Thread : u # t => pc'[u] = pc[u]
         /\ sem'[s] = IF Waits(t, s, from, to) THEN sem[s] - 1 ELSE sem[s] + 1
         /\ \A r \in Sem : r # s => sem'[r] = sem[r]
         /\ Occupant' = Occupant /\ \A fd : SlotsWith(fd)' = SlotsWith(fd)
         /\ RegisteredOnce'
  <1>1. pc[t] = from /\ pc' = [pc EXCEPT ![t] = to] /\ UNCHANGED <<fdbuf, arg, member>>
    BY DEF Waits, Posts, Goto
  <1>2. /\ sem'[s] = IF Waits(t, s, from, to) THEN sem[s] - 1 ELSE sem[s] + 1
        /\ \A r \in Sem : r # s => sem'[r] = sem[r]
    <2>1. CASE Waits(t, s, from, to)
      BY <2>1 DEF Waits, Wait, CInv, TypeOK
    <2>2. CASE ~ Waits(t, s, from, to)
      BY <2>2 DEF Posts, Post, CInv, TypeOK
    <2> QED BY <2>1, <2>2
  <1>3. Occupant' = Occupant /\ \A fd : SlotsWith(fd)' = SlotsWith(fd)
    BY <1>1 DEF Occupant, SlotsWith
  <1>4. RegisteredOnce'
    BY <1>1, <1>3 DEF CInv, RegisteredOnce, SlotsWith
  <1> QED BY <1>1, <1>2, <1>3, <1>4 DEF CInv, TypeOK

(* registered threads and their tokens, one lemma for each semaphore       *)
(* operation that counts                                                   *)
LEMMA SlotsWaited ==
  ASSUME CInv, NEW t \in Thread, RegSlots(t)
  PROVE  RegisteredOnce' /\ Counted'
  <1>1. /\ pc[t] = "reg_slots" /\ pc'[t] = "reg_mutex" /\ member' = member
        /\ \A u \in Thread : u # t => pc'[u] = pc[u]
        /\ sem'["slots"] = sem["slots"] - 1 /\ sem'["items"] = sem["items"]
        /\ Occupant' = Occupant /\ \A fd : SlotsWith(fd)' = SlotsWith(fd)
        /\ RegisteredOnce'
    BY TokenMoves DEF RegSlots, Sem
  <1>2. t \notin member
    BY <1>1 DEF CInv, Placed, MemberPC
  <1>3. SlotHolder' = SlotHolder \cup {t} /\ t \notin SlotHolder
    BY <1>1, <1>2 DEF SlotHolder
  <1>4. ItemPoster' = ItemPoster /\ ItemTaker' = ItemTaker
    BY <1>1, <1>2 DEF ItemPoster, ItemTaker
  <1>5. Cardinality(SlotHolder) \in Nat /\ Cardinality(SlotHolder') = Cardinality(SlotHolder) + 1
    BY <1>3, AllFinite, OneMore
  <1>6. sem["slots"] \in Nat /\ NSlots \in Nat
    BY RegistryAssumption DEF CInv, TypeOK, Sem
  <1>7. sem'["slots"] + Cardinality(SlotHolder') = NSlots
    BY <1>1, <1>5, <1>6 DEF CInv, Counted
  <1> QED BY <1>1, <1>4, <1>7 DEF CInv, Counted

LEMMA SlotsPosted ==
  ASSUME CInv, NEW t \in Thread, UnregPostSlots(t)
  PROVE  RegisteredOnce' /\ Counted'
  <1>1. /\ pc[t] = "unreg_post_slots" /\ pc'[t] = "out" /\ member' = member
        /\ \A u \in Thread : u # t => pc'[u] = pc[u]
        /\ sem'["slots"] = sem["slots"] + 1 /\ sem'["items"] = sem["items"]
        /\ Occupant' = Occupant /\ \A fd : SlotsWith(fd)' = SlotsWith(fd)
        /\ RegisteredOnce'
    <2>1. ~ Waits(t, "slots", "unreg_post_slots", "out")
      BY DEF UnregPostSlots, Posts, Waits, Post, Wait, CInv, TypeOK, Sem
    <2> QED BY <2>1, TokenMoves DEF UnregPostSlots, Sem
  <1>2. t \notin member
    BY <1>1 DEF CInv, Placed, MemberPC
  <1>3. SlotHolder' = SlotHolder \ {t} /\ t \in SlotHolder
    BY <1>1, <1>2 DEF SlotHolder
  <1>4. ItemPoster' = ItemPoster /\ ItemTaker' = ItemTaker
    BY <1>1, <1>2 DEF ItemPoster, ItemTaker
  <1>5. Cardinality(SlotHolder) \in Nat /\ Cardinality(SlotHolder') = Cardinality(SlotHolder) - 1
    BY <1>3, AllFinite, OneLess
  <1>6. sem["slots"] \in Nat /\ NSlots \in Nat
    BY RegistryAssumption DEF CInv, TypeOK, Sem
  <1>7. sem'["slots"] + Cardinality(SlotHolder') = NSlots
    BY <1>1, <1>5, <1>6 DEF CInv, Counted
  <1> QED BY <1>1, <1>4, <1>7 DEF CInv, Counted

LEMMA ItemsPosted ==
  ASSUME CInv, NEW t \in Thread, Posts(t, "items", "reg_post_items", "reg_post_lock")
  PROVE  RegisteredOnce' /\ Counted'
  <1>1. /\ pc[t] = "reg_post_items" /\ pc'[t] = "reg_post_lock" /\ member' = member
        /\ \A u \in Thread : u # t => pc'[u] = pc[u]
        /\ sem'["slots"] = sem["slots"] /\ sem'["items"] = sem["items"] + 1
        /\ Occupant' = Occupant /\ \A fd : SlotsWith(fd)' = SlotsWith(fd)
        /\ RegisteredOnce'
    <2>1. ~ Waits(t, "items", "reg_post_items", "reg_post_lock")
      BY DEF Posts, Waits, Post, Wait, CInv, TypeOK, Sem
    <2> QED BY <2>1, TokenMoves DEF Sem
  <1>2. t \in member
    BY <1>1 DEF CInv, Placed, MemberPC
  <1>3. ItemPoster' = ItemPoster \cup {t} /\ t \notin ItemPoster
    BY <1>1, <1>2 DEF ItemPoster
  <1>4. SlotHolder' = SlotHolder /\ ItemTaker' = ItemTaker
    BY <1>1, <1>2 DEF SlotHolder, ItemTaker
  <1>5. Cardinality(ItemPoster) \in Nat /\ Cardinality(ItemPoster') = Cardinality(ItemPoster) + 1
    BY <1>3, AllFinite, OneMore
  <1>6. sem["items"] \in Nat /\ Cardinality(ItemTaker) \in Nat
    BY AllFinite, FS_CardinalityType DEF CInv, TypeOK, Sem
  <1>7. sem'["items"] + Cardinality(ItemTaker) = Cardinality(ItemPoster')
    BY <1>1, <1>5, <1>6 DEF CInv, Counted
  <1> QED BY <1>1, <1>4, <1>7 DEF CInv, Counted

LEMMA ItemsWaited ==
  ASSUME CInv, NEW t \in Thread, Waits(t, "items", "unreg_items", "unreg_mutex")
  PROVE  RegisteredOnce' /\ Counted'
  <1>1. /\ pc[t] = "unreg_items" /\ pc'[t] = "unreg_mutex" /\ member' = member
        /\ \A u \in Thread : u # t => pc'[u] = pc[u]
        /\ sem'["slots"] = sem["slots"] /\ sem'["items"] = sem["items"] - 1
        /\ Occupant' = Occupant /\ \A fd : SlotsWith(fd)' = SlotsWith(fd)
        /\ RegisteredOnce'
    BY TokenMoves DEF Sem
  <1>2. ItemTaker' = ItemTaker \cup {t} /\ t \notin ItemTaker
    BY <1>1 DEF ItemTaker
  <1>3. SlotHolder' = SlotHolder /\ ItemPoster' = ItemPoster
    BY <1>1 DEF SlotHolder, ItemPoster
  <1>4. Cardinality(ItemTaker) \in Nat /\ Cardinality(ItemTaker') = Cardinality(ItemTaker) + 1
    BY <1>2, AllFinite, OneMore
  <1>5. sem["items"] \in Nat /\ Cardinality(ItemPoster) \in Nat
    BY AllFinite, FS_CardinalityType DEF CInv, TypeOK, Sem
  <1>6. sem'["items"] + Cardinality(ItemTaker') = Cardinality(ItemPoster)
    BY <1>1, <1>4, <1>5 DEF CInv, Counted
  <1> QED BY <1>1, <1>3, <1>6 DEF CInv, Counted

LEMMA MissPosted ==
  ASSUME CInv, NEW t \in Thread, Posts(t, "items", "miss_post_items", "miss_post_mutex")
  PROVE  RegisteredOnce' /\ Counted'
  <1>1. /\ pc[t] = "miss_post_items" /\ pc'[t] = "miss_post_mutex" /\ member' = member
        /\ \A u \in Thread : u # t => pc'[u] = pc[u]
        /\ sem'["slots"] = sem["slots"] /\ sem'["items"] = sem["items"] + 1
        /\ Occupant' = Occupant /\ \A fd : SlotsWith(fd)' = SlotsWith(fd)
        /\ RegisteredOnce'
    <2>1. ~ Waits(t, "items", "miss_post_items", "miss_post_mutex")
      BY DEF Posts, Waits, Post, Wait, CInv, TypeOK, Sem
    <2> QED BY <2>1, TokenMoves DEF Sem
  <1>2. t \notin member
    BY <1>1 DEF CInv, Placed, MemberPC
  <1>3. ItemTaker' = ItemTaker \ {t} /\ t \in ItemTaker
    BY <1>1 DEF ItemTaker
  <1>4. SlotHolder' = SlotHolder /\ ItemPoster' = ItemPoster
    BY <1>1, <1>2 DEF SlotHolder, ItemPoster
  <1>5. Cardinality(ItemTaker) \in Nat /\ Cardinality(ItemTaker') = Cardinality(ItemTaker) - 1
    BY <1>3, AllFinite, OneLess
  <1>6. sem["items"] \in Nat /\ Cardinality(ItemPoster) \in Nat
    BY AllFinite, FS_CardinalityType DEF CInv, TypeOK, Sem
  <1>7. sem'["items"] + Cardinality(ItemTaker') = Cardinality(ItemPoster)
    BY <1>1, <1>5, <1>6 DEF CInv, Counted
  <1> QED BY <1>1, <1>4, <1>7 DEF CInv, Counted

-----------------------------------------------------------------------------
(* Steps that move a descriptor *)

LEMMA Stored ==
  ASSUME CInv, NEW t \in Thread, RegStore(t)
  PROVE  RegisteredOnce' /\ Counted'
  <1> USE DEF CInv, TypeOK
  <1>1. /\ pc[t] = "reg_store" /\ pc' = [pc EXCEPT ![t] = "reg_post_mutex"]
        /\ member' = member \cup {t} /\ arg' = arg /\ sem' = sem
    BY DEF RegStore, StoreIn, Goto
  <1>2. t \notin member /\ t \in SlotHolder /\ t \notin Occupant
    BY <1>1 DEF Placed, MemberPC, SlotHolder, Occupant
  <1> DEFINE f == First(SlotsWith(NoFd))
  <1>3. f \in Slot /\ fdbuf[f] = NoFd
    BY <1>2, SlotLeft, FirstIn DEF SlotsWith
  <1>4. fdbuf' = [fdbuf EXCEPT ![f] = arg[t]]
    BY <1>2, SlotLeft DEF RegStore, StoreIn
  <1> HIDE DEF f
  <1>5. SlotHolder' = SlotHolder /\ ItemPoster' = ItemPoster /\ ItemTaker' = ItemTaker
    BY <1>1, <1>2 DEF SlotHolder, ItemPoster, ItemTaker
  <1>6. CASE arg[t] = NoFd
    <2>1. fdbuf' = fdbuf
      BY <1>3, <1>4, <1>6
    <2>2. Occupant' = Occupant /\ \A fd : SlotsWith(fd)' = SlotsWith(fd)
      BY <1>1, <1>6, <2>1 DEF Occupant, SlotsWith
    <2>3. Counted'
      BY <1>1, <1>5, <2>2 DEF Counted
    <2>4. RegisteredOnce'
      BY <1>1, <1>6, <2>1, <2>2 DEF RegisteredOnce
    <2> QED BY <2>3, <2>4
  <1>7. CASE arg[t] # NoFd
    <2>1. SlotsWith(NoFd)' = SlotsWith(NoFd) \ {f} /\ f \in SlotsWith(NoFd)
      BY <1>3, <1>4, <1>7 DEF SlotsWith
    <2>2. Occupant' = Occupant \cup {t}
      BY <1>1, <1>7 DEF Occupant
    <2>3. \A u \in member : arg[u] # arg[t]
      BY <1>1, <1>2, <1>7 DEF OwnFd, Placed, MemberPC
    <2>4. SlotsWith(arg[t])' = {f}
      <3>1. SlotsWith(arg[t]) = {}
        BY <1>7, <2>3 DEF RegisteredOnce, SlotsWith
      <3> QED BY <1>1, <1>3, <1>4, <3>1 DEF SlotsWith
    <2>5. ASSUME NEW u \in member, arg[u] # NoFd
          PROVE  SlotsWith(arg[u])' = SlotsWith(arg[u])
      BY <1>1, <1>3, <1>4, <2>3, <2>5 DEF SlotsWith
    <2>6. RegisteredOnce'
      <3>1. ASSUME NEW u \in member', arg[u] # NoFd
            PROVE  \E s \in Slot : {r \in Slot : fdbuf'[r] = arg[u]} = {s}
        <4>1. CASE u = t
          BY <1>1, <1>3, <2>4, <4>1 DEF SlotsWith
        <4>2. CASE u # t
          <5>1. u \in member
            BY <1>1, <4>2
          <5> QED BY <1>1, <2>5, <3>1, <5>1 DEF RegisteredOnce, SlotsWith
        <4> QED BY <4>1, <4>2
      <3>2. \A s \in Slot \ SlotsWith(NoFd)' : \E u \in member' : arg'[u] = fdbuf'[s]
        BY <1>1, <1>3, <1>4, <2>1 DEF RegisteredOnce
      <3> QED BY <1>1, <3>1, <3>2 DEF RegisteredOnce, SlotsWith
    <2>7. /\ Cardinality(Occupant) \in Nat /\ Cardinality(Occupant') = Cardinality(Occupant) + 1
          /\ Cardinality(SlotsWith(NoFd)) \in Nat
          /\ Cardinality(SlotsWith(NoFd)') = Cardinality(SlotsWith(NoFd)) - 1
      BY <1>2, <2>1, <2>2, AllFinite, OneMore, OneLess
    <2>8. Cardinality(SlotsWith(NoFd)') + Cardinality(Occupant') = NSlots
      BY <2>7, RegistryAssumption DEF Counted
    <2> QED BY <1>1, <1>5, <2>6, <2>8 DEF Counted
  <1> QED BY <1>6, <1>7

LEMMA Cleared ==
  ASSUME CInv, NEW t \in Thread, UnregClear(t)
  PROVE  RegisteredOnce' /\ Counted' /\ t \in member
  <1> USE DEF CInv, TypeOK
  <1>1. /\ pc[t] = "unreg_find" /\ pc' = [pc EXCEPT ![t] = "unreg_post_mutex"]
        /\ member' = member \ {t} /\ arg' = arg /\ sem' = sem /\ SlotsWith(arg[t]) # {}
    BY DEF UnregClear, Goto
  <1>2. t \in member
    BY <1>1, StrayMisses
  <1> DEFINE f == First(SlotsWith(arg[t]))
  <1>3. f \in Slot /\ fdbuf[f] = arg[t]
    BY <1>1, FirstIn DEF SlotsWith
  <1>4. fdbuf' = [fdbuf EXCEPT ![f] = NoFd]
    BY DEF UnregClear
  <1> HIDE DEF f
  <1>5. /\ SlotHolder' = SlotHolder
        /\ ItemPoster' = ItemPoster \ {t} /\ t \in ItemPoster
        /\ ItemTaker' = ItemTaker \ {t} /\ t \in ItemTaker
    BY <1>1, <1>2 DEF SlotHolder, ItemPoster, ItemTaker
  <1>6. sem'["items"] + Cardinality(ItemTaker') = Cardinality(ItemPoster')
    <2>1. /\ Cardinality(ItemTaker) \in Nat /\ Cardinality(ItemTaker') = Cardinality(ItemTaker) - 1
          /\ Cardinality(ItemPoster) \in Nat /\ Cardinality(ItemPoster') = Cardinality(ItemPoster) - 1
      BY <1>5, AllFinite, OneLess
    <2>2. sem["items"] \in Nat
      BY DEF Sem
    <2> QED BY <1>1, <2>1, <2>2 DEF Counted
  <1>7. CASE arg[t] = NoFd
    <2>1. fdbuf' = fdbuf
      BY <1>3, <1>4, <1>7
    <2>2. Occupant' = Occupant /\ \A fd : SlotsWith(fd)' = SlotsWith(fd)
      BY <1>1, <1>7, <2>1 DEF Occupant, SlotsWith
    <2>3. Counted'
      BY <1>1, <1>5, <1>6, <2>2 DEF Counted
    <2>4. RegisteredOnce'
      BY <1>1, <1>7, <2>1, <2>2 DEF RegisteredOnce, SlotsWith
    <2> QED BY <1>2, <2>3, <2>4
  <1>8. CASE arg[t] # NoFd
    <2>1. SlotsWith(NoFd)' = SlotsWith(NoFd) \cup {f} /\ f \notin SlotsWith(NoFd)
      BY <1>3, <1>4, <1>8 DEF SlotsWith
    <2>2. Occupant' = Occupant \ {t} /\ t \in Occupant
      BY <1>1, <1>2, <1>8 DEF Occupant
    <2>3. \A u \in member : arg[u] = arg[t] => u = t
      BY <1>2, <1>8 DEF OwnFd, Placed, MemberPC
    <2>4. SlotsWith(arg[t]) = {f}
      BY <1>2, <1>3, <1>8 DEF RegisteredOnce, SlotsWith
    <2>5. ASSUME NEW u \in member', arg[u] # NoFd
          PROVE  SlotsWith(arg[u])' = SlotsWith(arg[u])
      BY <1>1, <1>3, <1>4, <2>3, <2>5 DEF SlotsWith
    <2>6. RegisteredOnce'
      <3>1. ASSUME NEW u \in member', arg[u] # NoFd
            PROVE  \E s \in Slot : {r \in Slot : fdbuf'[r] = arg[u]} = {s}
        <4>1. u \in member
          BY <1>1
        <4> QED BY <1>1, <2>5, <3>1, <4>1 DEF RegisteredOnce, SlotsWith
      <3>2. \A s \in Slot \ SlotsWith(NoFd)' : \E u \in member' : arg'[u] = fdbuf'[s]
        BY <1>1, <1>3, <1>4, <2>1, <2>4 DEF RegisteredOnce, SlotsWith
      <3> QED BY <1>1, <3>1, <3>2 DEF RegisteredOnce, SlotsWith
    <2>7. /\ Cardinality(Occupant) \in Nat /\ Cardinality(Occupant') = Cardinality(Occupant) - 1
          /\ Cardinality(SlotsWith(NoFd)) \in Nat
          /\ Cardinality(SlotsWith(NoFd)') = Cardinality(SlotsWith(NoFd)) + 1
      BY <2>1, <2>2, AllFinite, OneMore, OneLess
    <2>8. Cardinality(SlotsWith(NoFd)') + Cardinality(Occupant') = NSlots
      BY <2>7, RegistryAssumption DEF Counted
    <2> QED BY <1>1, <1>2, <1>5, <1>6, <2>6, <2>8 DEF Counted
  <1> QED BY <1>7, <1>8

-----------------------------------------------------------------------------
(* Where the threads are *)

(* A thread that is inside an operation stays the only one on its fd.      *)
LEMMA PlaceKept ==
  ASSUME CInv, NEW t \in Thread, NEW to, pc' = [pc EXCEPT ![t] = to],
         pc[t] # "out", arg' = arg,
         \A u \in Thread \ {t} : u \in member' <=> u \in member, member' \subseteq Thread,
         t \in member' => to \in MemberPC,
         t \notin member' => to \notin MemberPC \/ (pc[t] \in MemberPC /\ t \notin member
                                 /\ to \in {"unreg_items", "unreg_mutex", "unreg_find"})
  PROVE  Placed' /\ OwnFd'
  <1> USE DEF CInv, TypeOK
  <1>1. pc'[t] = to /\ \A u \in Thread : u # t => pc'[u] = pc[u]
    OBVIOUS
  <1>2. \A u \in member' : pc'[u] \in MemberPC
    BY <1>1 DEF Placed
  <1>3. \A u \in Thread \ member' : pc'[u] \in MemberPC =>
          pc'[u] \in {"unreg_items", "unreg_mutex", "unreg_find"} /\ arg[u] # NoFd
    BY <1>1 DEF Placed
  <1>4. Placed'
    BY <1>2, <1>3 DEF Placed, MemberPC
  <1>5. OwnFd'
    BY <1>1 DEF OwnFd
  <1> QED BY <1>4, <1>5

LEMMA CallPlace ==
  ASSUME CInv, NEW t \in Thread, Call(t)
  PROVE  Placed' /\ OwnFd'
  <1> USE DEF CInv, TypeOK
  <1>1. ASSUME NEW fd \in Fd \cup {NoFd}, NEW to, pc[t] = "out", pc' = [pc EXCEPT ![t] = to],
               arg' = [arg EXCEPT ![t] = fd], member' = member, fd = NoFd \/ ~InUse(fd),
               to = "reg_lock" \/ (to = "unreg_items" /\ fd \in Fd)
        PROVE  Placed' /\ OwnFd'
    <2>1. t \notin member
      BY <1>1 DEF Placed, MemberPC
    <2>2. /\ pc'[t] = to /\ arg'[t] = fd
          /\ \A u \in Thread : u # t => pc'[u] = pc[u] /\ arg'[u] = arg[u]
      BY <1>1
    <2>3. \A u \in member' : pc'[u] \in MemberPC
      BY <1>1, <2>1, <2>2 DEF Placed
    <2>4. \A u \in Thread \ member' : pc'[u] \in MemberPC =>
            pc'[u] \in {"unreg_items", "unreg_mutex", "unreg_find"} /\ arg'[u] # NoFd
      BY <1>1, <2>2, RegistryAssumption DEF Placed, MemberPC
    <2>5. OwnFd'
      BY <1>1, <2>2 DEF OwnFd, InUse
    <2> QED BY <2>3, <2>4, <2>5 DEF Placed, MemberPC
  <1>2. ASSUME NEW fd \in Fd \cup {NoFd}, CallRegister(t, fd)
        PROVE  Placed' /\ OwnFd'
    BY <1>1, <1>2 DEF CallRegister, Goto
  <1>3. ASSUME NEW fd \in Fd, CallStrayUnregister(t, fd)
        PROVE  Placed' /\ OwnFd'
    BY <1>1, <1>3 DEF CallStrayUnregister, Goto
  <1>4. CASE CallUnregister(t)
    <2>1. pc[t] = "in" /\ pc' = [pc EXCEPT ![t] = "unreg_items"] /\ arg' = arg /\ member' = member
      BY <1>4 DEF CallUnregister, Goto
    <2>2. t \in member
      BY <2>1 DEF Placed, MemberPC
    <2> QED BY <2>1, <2>2, PlaceKept DEF MemberPC
  <1> QED BY <1>2, <1>3, <1>4 DEF Call

-----------------------------------------------------------------------------
(* The invariant *)

LEMMA RegisterCInv ==
  ASSUME CInv, NEW t \in Thread, Register(t)
  PROVE  Placed' /\ OwnFd' /\ RegisteredOnce' /\ Counted'
  <1> USE DEF CInv, TypeOK
  <1>1. t \in member <=> pc[t] \in {"reg_post_mutex", "reg_post_items", "reg_post_lock"}
    <2>1. pc[t] \in RegisterPC
      BY DEF Register, RegLock, RegSlots, RegStore, StoreIn, Waits, Posts, Goto, RegisterPC
    <2> QED BY <2>1 DEF Placed, MemberPC, RegisterPC
  <1>2. Placed' /\ OwnFd'
    <2>1. CASE RegStore(t)
      <3>1. /\ pc[t] = "reg_store" /\ pc' = [pc EXCEPT ![t] = "reg_post_mutex"]
            /\ arg' = arg /\ member' = member \cup {t}
        BY <2>1 DEF RegStore, StoreIn, Goto
      <3> QED BY <3>1, PlaceKept DEF MemberPC
    <2>2. CASE ~ RegStore(t)
      <3>1. PICK to \in {"reg_slots", "reg_mutex", "reg_store", "reg_post_items", "reg_post_lock", "in"} :
              /\ pc' = [pc EXCEPT ![t] = to] /\ arg' = arg /\ member' = member /\ pc[t] # "out"
              /\ pc[t] \in {"reg_post_mutex", "reg_post_items", "reg_post_lock"}
                   <=> to \in {"reg_post_items", "reg_post_lock", "in"}
        BY <2>2 DEF Register, RegLock, RegSlots, Waits, Posts, Goto
      <3> QED BY <1>1, <3>1, PlaceKept DEF MemberPC
    <2> QED BY <2>1, <2>2
  <1>3. RegisteredOnce' /\ Counted'
    <2> USE DEF SlotHolder, ItemPoster, ItemTaker
    <2>1. CASE RegLock(t)
      <3>1. pc[t] = "reg_lock"
        BY <2>1 DEF RegLock, Waits, Goto
      <3> QED BY <1>1, <2>1, <3>1, OtherSemaphore DEF RegLock
    <2>2. CASE Waits(t, "mutex", "reg_mutex", "reg_store")
      <3>1. pc[t] = "reg_mutex"
        BY <2>2 DEF Waits, Goto
      <3> QED BY <1>1, <2>2, <3>1, OtherSemaphore
    <2>3. CASE Posts(t, "mutex", "reg_post_mutex", "reg_post_items")
      <3>1. pc[t] = "reg_post_mutex"
        BY <2>3 DEF Posts, Goto
      <3> QED BY <1>1, <2>3, <3>1, OtherSemaphore
    <2>4. CASE Posts(t, "lock", "reg_post_lock", "in")
      <3>1. pc[t] = "reg_post_lock"
        BY <2>4 DEF Posts, Goto
      <3> QED BY <1>1, <2>4, <3>1, OtherSemaphore
    <2> QED BY <2>1, <2>2, <2>3, <2>4, SlotsWaited, Stored, ItemsPosted DEF Register
  <1> QED BY <1>2, <1>3

LEMMA UnregisterCInv ==
  ASSUME CInv, NEW t \in Thread, Unregister(t)
  PROVE  Placed' /\ OwnFd' /\ RegisteredOnce' /\ Counted'
  <1> USE DEF CInv, TypeOK
  <1>1. CASE UnregClear(t)
    <2>1. /\ pc[t] = "unreg_find" /\ pc' = [pc EXCEPT ![t] = "unreg_post_mutex"]
          /\ arg' = arg /\ member' = member \ {t}
      BY <1>1 DEF UnregClear, Goto
    <2>2. Placed' /\ OwnFd'
      BY <2>1, PlaceKept DEF MemberPC
    <2> QED BY <1>1, <2>2, Cleared
  <1>2. CASE UnregMiss(t)
    <2>1. /\ pc[t] = "unreg_find" /\ pc' = [pc EXCEPT ![t] = "miss_post_items"]
          /\ arg' = arg /\ member' = member /\ SlotsWith(arg[t]) = {}
          /\ sem' = sem /\ fdbuf' = fdbuf
      BY <1>2 DEF UnregMiss, Goto
    <2>2. t \notin member
      BY <2>1, MemberFinds
    <2>3. Placed' /\ OwnFd'
      BY <2>1, <2>2, PlaceKept DEF MemberPC
    <2>4. RegisteredOnce' /\ Counted'
      BY <2>1, <2>2, MovedOn DEF SlotHolder, ItemPoster, ItemTaker
    <2> QED BY <2>3, <2>4
  <1>3. CASE Waits(t, "items", "unreg_items", "unreg_mutex")
    <2>1. pc[t] = "unreg_items" /\ pc' = [pc EXCEPT ![t] = "unreg_mutex"] /\ arg' = arg /\ member' = member
      BY <1>3 DEF Waits, Goto
    <2>2. Placed' /\ OwnFd'
      BY <2>1, PlaceKept DEF MemberPC
    <2> QED BY <1>3, <2>2, ItemsWaited
  <1>4. CASE Waits(t, "mutex", "unreg_mutex", "unreg_find")
    <2>1. pc[t] = "unreg_mutex" /\ pc' = [pc EXCEPT ![t] = "unreg_find"] /\ arg' = arg /\ member' = member
      BY <1>4 DEF Waits, Goto
    <2>2. Placed' /\ OwnFd'
      BY <2>1, PlaceKept DEF MemberPC
    <2>3. RegisteredOnce' /\ Counted'
      BY <1>4, <2>1, OtherSemaphore DEF SlotHolder, ItemPoster, ItemTaker
    <2> QED BY <2>2, <2>3
  <1>5. CASE Posts(t, "mutex", "unreg_post_mutex", "unreg_post_slots")
    <2>1. pc[t] = "unreg_post_mutex" /\ pc' = [pc EXCEPT ![t] = "unreg_post_slots"] /\ arg' = arg /\ member' = member
      BY <1>5 DEF Posts, Goto
    <2>2. t \notin member
      BY <2>1 DEF Placed, MemberPC
    <2>3. Placed' /\ OwnFd'
      BY <2>1, <2>2, PlaceKept DEF MemberPC
    <2>4. RegisteredOnce' /\ Counted'
      BY <1>5, <2>1, <2>2, OtherSemaphore DEF SlotHolder, ItemPoster, ItemTaker
    <2> QED BY <2>3, <2>4
  <1>6. CASE UnregPostSlots(t)
    <2>1. pc[t] = "unreg_post_slots" /\ pc' = [pc EXCEPT ![t] = "out"] /\ arg' = arg /\ member' = member
      BY <1>6 DEF UnregPostSlots, Posts, Goto
    <2>2. t \notin member
      BY <2>1 DEF Placed, MemberPC
    <2>3. Placed' /\ OwnFd'
      BY <2>1, <2>2, PlaceKept DEF MemberPC
    <2> QED BY <1>6, <2>3, SlotsPosted
  <1>7. CASE Posts(t, "items", "miss_post_items", "miss_post_mutex")
    <2>1. pc[t] = "miss_post_items" /\ pc' = [pc EXCEPT ![t] = "miss_post_mutex"] /\ arg' = arg /\ member' = member
      BY <1>7 DEF Posts, Goto
    <2>2. t \notin member
      BY <2>1 DEF Placed, MemberPC
    <2>3. Placed' /\ OwnFd'
      BY <2>1, <2>2, PlaceKept DEF MemberPC
    <2> QED BY <1>7, <2>3, MissPosted
  <1>8. CASE Posts(t, "mutex", "miss_post_mutex", "out")
    <2>1. pc[t] = "miss_post_mutex" /\ pc' = [pc EXCEPT ![t] = "out"] /\ arg' = arg /\ member' = member
      BY <1>8 DEF Posts, Goto
    <2>2. t \notin member
      BY <2>1 DEF Placed, MemberPC
    <2>3. Placed' /\ OwnFd'
      BY <2>1, <2>2, PlaceKept DEF MemberPC
    <2>4. RegisteredOnce' /\ Counted'
      BY <1>8, <2>1, <2>2, OtherSemaphore DEF SlotHolder, ItemPoster, ItemTaker
    <2> QED BY <2>3, <2>4
  <1> QED BY <1>1, <1>2, <1>3, <1>4, <1>5, <1>6, <1>7, <1>8 DEF Unregister

(* The closer moves no descriptor and neither slots nor items.             *)
LEMMA CloseCInv ==
  ASSUME CInv, Close \/ UNCHANGED regVars
  PROVE  Placed' /\ OwnFd' /\ RegisteredOnce' /\ Counted'
  <1>1. UNCHANGED <<fdbuf, pc, arg, member>> /\ sem'["slots"] = sem["slots"] /\ sem'["items"] = sem["items"]
    BY DEF Close, Shutdown, ShutPost, WaitLock, WaitScan, ScanUpTo, Fini, regVars, Wait, Post, CInv, TypeOK, Sem
  <1>2. Placed' /\ OwnFd'
    BY <1>1 DEF CInv, Placed, OwnFd
  <1>3. SlotHolder' = SlotHolder /\ ItemPoster' = ItemPoster /\ ItemTaker' = ItemTaker
    BY <1>1 DEF SlotHolder, ItemPoster, ItemTaker
  <1>4. RegisteredOnce' /\ Counted'
    BY <1>1, <1>3, CountsKept
  <1> QED BY <1>2, <1>4

LEMMA NextCInv == CInv /\ [Next]_regVars => CInv'
  <1> SUFFICES ASSUME CInv, [Next]_regVars
               PROVE  CInv'
    OBVIOUS
  <1>1. TypeOK'
    BY NextTypeOK DEF CInv
  <1>2. ASSUME NEW t \in Thread, Call(t) \/ Register(t) \/ Unregister(t)
        PROVE  Placed' /\ OwnFd' /\ RegisteredOnce' /\ Counted'
    BY <1>2, CallCounts, CallPlace, RegisterCInv, UnregisterCInv
  <1>3. Placed' /\ OwnFd' /\ RegisteredOnce' /\ Counted'
    BY <1>2, CloseCInv DEF Next, Finalized
  <1> QED BY <1>1, <1>3 DEF CInv

LEMMA CInvHolds == Spec => []CInv
  <1> QED BY InitCInv, NextCInv, PTL DEF Spec

-----------------------------------------------------------------------------
(* What it gives *)

(* The loop of creg_register, which cannot report failure, always finds an *)
(* empty slot: a thread that has waited on slots has one left for it.      *)
THEOREM FindsSlot == Spec => []RegisterFindsSlot
  <1>1. CInv => RegisterFindsSlot
    <2> SUFFICES ASSUME CInv, NEW t \in Thread, pc[t] = "reg_store"
                 PROVE  SlotsWith(NoFd) # {}
      BY DEF RegisterFindsSlot
    <2>1. t \in SlotHolder /\ t \notin Occupant
      BY DEF SlotHolder, Occupant, CInv, Placed, MemberPC
    <2> QED BY <2>1, SlotLeft
  <1> QED BY <1>1, CInvHolds, PTL

(* A registered thread that unregisters finds its descriptor: it never     *)
(* takes the path of creg_unregister for one that is not there.            *)
THEOREM FindsFd == Spec => []UnregisterFindsFd
  <1>1. CInv => UnregisterFindsFd
    BY MemberFinds DEF UnregisterFindsFd
  <1> QED BY <1>1, CInvHolds, PTL

(* Registrations do not overwrite one another and leave nothing behind:    *)
(* a registered descriptor is in one slot, an occupied slot has an owner.  *)
THEOREM OneSlotEach == Spec => []RegisteredOnce
  <1>1. CInv => RegisteredOnce
    BY DEF CInv
  <1> QED BY <1>1, CInvHolds, PTL

(* The tokens of slots are at most the empty slots, and an idle registry   *)
(* has all the tokens of slots back and none of items.                     *)
THEOREM TokensKept == Spec => []TokensConserved
  <1>1. CInv => TokensConserved
    <2> SUFFICES ASSUME CInv
                 PROVE  TokensConserved
      OBVIOUS
    <2>1. /\ Cardinality(Occupant) \in Nat /\ Cardinality(SlotHolder) \in Nat
          /\ Cardinality(SlotsWith(NoFd)) \in Nat /\ sem["slots"] \in Nat /\ NSlots \in Nat /\ sem["items"] \in Nat
      BY AllFinite, FS_CardinalityType, RegistryAssumption DEF CInv, TypeOK, Sem
    <2>2. Cardinality(Occupant) <= Cardinality(SlotHolder)
      <3>1. Occupant \subseteq SlotHolder
        BY DEF Occupant, SlotHolder
      <3> QED BY <3>1, AllFinite, FS_Subset
    <2>3. sem["slots"] <= Cardinality(SlotsWith(NoFd))
      BY <2>1, <2>2 DEF CInv, Counted
    <2>4. ASSUME \A t \in Thread : pc[t] = "out"
          PROVE  sem["slots"] = NSlots /\ sem["items"] = 0
      <3>1. member = {}
        BY <2>4 DEF CInv, TypeOK, Placed, MemberPC
      <3>2. SlotHolder = {} /\ ItemPoster = {} /\ ItemTaker = {}
        BY <2>4, <3>1 DEF SlotHolder, ItemPoster, ItemTaker
      <3> QED BY <2>1, <3>2, FS_EmptySet DEF CInv, Counted
    <2> QED BY <2>3, <2>4 DEF TokensConserved
  <1> QED BY <1>1, CInvHolds, PTL

-----------------------------------------------------------------------------
(* The server: its inductive invariant *)

(* A thread that serves its connection is registered.                      *)
LiveServed == \A t \in Thread : Serving(t) => pc[t] = "in"

(* The process gets past creg_fini() only through it.                      *)
FiniFirst == phase = "finalizing" => mpc = "finalized"

SInv == ServerTypeOK /\ IInv /\ CInv /\ LiveServed /\ FiniFirst

LEMMA InitSInv == ServerInit => SInv
  <1> SUFFICES ASSUME ServerInit
               PROVE  SInv
    OBVIOUS
  <1>1. IInv /\ CInv
    BY InitIInv, InitCInv DEF ServerInit
  <1>2. ServerTypeOK /\ LiveServed /\ FiniFirst
    BY <1>1 DEF ServerInit, ServerTypeOK, IInv, Phase, LiveServed, FiniFirst, Serving, InCall
  <1> QED BY <1>1, <1>2 DEF SInv

(* What a step of the server is to the registry.                           *)
LEMMA ServerSteps ==
  ASSUME [ServerNext]_vars
  PROVE  [Next]_regVars \/ (mpc = "finalized" /\ \E t \in Thread : Call(t))
  <1>1. CASE \E t \in Thread : \E fd \in Fd \cup {NoFd} : Accept(t, fd)
    BY <1>1 DEF Accept, Call, Next
  <1>2. CASE \E t \in Thread : InRegistry(t)
    BY <1>2 DEF InRegistry, Next
  <1>3. CASE \E t \in Thread : Leave(t)
    BY <1>3 DEF Leave, Call, Next
  <1>4. CASE Terminate
    <2>1. mpc # "finalized"
      BY <1>4 DEF Terminate, Close, Shutdown, ShutPost, WaitLock, WaitScan, ScanUpTo, Fini, CloserGoto
    <2> QED BY <1>4, <2>1 DEF Terminate, Next
  <1>5. CASE \E t \in Thread : TransCreate(t) \/ Request(t) \/ Return(t) \/ EndLoop(t) \/ Crash(t) \/ CloseFd(t)
    BY <1>5 DEF TransCreate, Request, Return, EndLoop, Move, Crash, CloseFd
  <1>6. CASE Boot \/ Sighup \/ TransFini \/ Exit \/ (\E fd \in Fd : HangUp(fd)) \/ Over \/ UNCHANGED vars
    BY <1>6 DEF Boot, Sighup, TransFini, Exit, HangUp, Over, vars
  <1> QED BY <1>1, <1>2, <1>3, <1>4, <1>5, <1>6 DEF ServerNext, Serve, Proceed, Leaves, Returns

(* A call made after creg_fini() leaves the invariants of the registry as  *)
(* they are.                                                               *)
LEMMA LateCall ==
  ASSUME IInv, CInv, NEW t \in Thread, Call(t)
  PROVE  IInv' /\ CInv'
  <1> USE DEF IInv
  <1>1. PICK to \in {"reg_lock", "unreg_items"} : pc' = [pc EXCEPT ![t] = to]
    BY DEF Call, CallRegister, CallUnregister, CallStrayUnregister, Goto
  <1>2. UNCHANGED <<fdbuf, sem, member, mpc, scan, flag>>
    BY DEF Call, CallRegister, CallUnregister, CallStrayUnregister, Goto, closer
  <1>3. arg' \in [Thread -> Fd \cup {NoFd}] /\ shut' \in SUBSET Fd
    BY DEF Call, CallRegister, CallUnregister, CallStrayUnregister, Goto, closer, TypeOK
  <1>4. TypeOK'
    BY <1>1, <1>2, <1>3 DEF TypeOK, RegisterPC, UnregisterPC
  <1>5. LockInv'
    <2>1. \A u \in Thread : HoldsLock(u)' => HoldsLock(u)
      BY <1>1 DEF HoldsLock, TypeOK
    <2> QED BY <1>2, <2>1, LockKept DEF CloserHolds
  <1>6. ScanInv'
    BY <1>2 DEF ScanInv
  <1> QED BY <1>4, <1>5, <1>6, CallCounts, CallPlace DEF CInv

LEMMA NextSInv == SInv /\ [ServerNext]_vars => SInv'
  <1> SUFFICES ASSUME SInv, [ServerNext]_vars
               PROVE  SInv'
    OBVIOUS
  <1> USE DEF SInv
  <1>1. IInv' /\ CInv'
    BY ServerSteps, LateCall, NextIInv, NextCInv
  <1>2. ServerTypeOK'
    <2>1. phase' \in Phase
      BY DEF ServerNext, vars, Boot, Accept, Sighup, Terminate, TransFini, Exit, InRegistry, TransCreate, Request, Return, Crash, EndLoop, Move,
             Leave, CloseFd, Serve, Proceed, Leaves, Returns, HangUp, Over, serverVars, ServerTypeOK, Phase
    <2>2. /\ at' \in [Thread -> {"none", "receive", "request", "commit", "abort", "ended"}]
          /\ committed' \in SUBSET Thread
      BY DEF ServerNext, vars, Boot, Accept, Sighup, Terminate, TransFini, Exit, InRegistry, TransCreate, Request, Return, Crash, EndLoop, Move,
             Leave, CloseFd, Serve, Proceed, Leaves, Returns, HangUp, Over, serverVars, ServerTypeOK
    <2>3. hup' \in SUBSET Fd
      BY DEF ServerNext, vars, Boot, Accept, Sighup, Terminate, TransFini, Exit, InRegistry, TransCreate, Request, Return, Crash, EndLoop, Move,
             Leave, CloseFd, Serve, Proceed, Leaves, Returns, HangUp, Over, serverVars, ServerTypeOK
    <2> QED BY <1>1, <2>1, <2>2, <2>3 DEF ServerTypeOK, IInv
  <1>3. LiveServed'
    <2> SUFFICES ASSUME NEW u \in Thread, Serving(u)'
                 PROVE  pc'[u] = "in"
      BY DEF LiveServed
    <2> USE DEF Serving, InCall
    <2> USE DEF ServerTypeOK, TypeOK
    <2>1. CASE \E t \in Thread : \E fd \in Fd \cup {NoFd} : Accept(t, fd)
      BY <2>1 DEF Accept, CallRegister, Goto, LiveServed
    <2>2. CASE \E t \in Thread : InRegistry(t)
      <3>1. PICK t \in Thread, to \in {"in", "out"} \cup RegisterPC \cup UnregisterPC :
              pc[t] # "in" /\ pc' = [pc EXCEPT ![t] = to] /\ at' = at
        BY <2>2 DEF InRegistry, Register, Unregister, RegLock, RegSlots, RegStore, StoreIn, UnregClear, UnregMiss,
                    UnregPostSlots, Waits, Posts, Goto, serverVars, RegisterPC, UnregisterPC
      <3> QED BY <3>1 DEF LiveServed
    <2>3. CASE \E t \in Thread : Leave(t)
      BY <2>3 DEF Leave, CallUnregister, Goto, LiveServed, serverVars
    <2>4. CASE Terminate
      <3>1. pc' = pc /\ at' = at
        BY <2>4 DEF Terminate, Close, Shutdown, ShutPost, WaitLock, WaitScan, ScanUpTo, Fini, serverVars
      <3> QED BY <3>1 DEF LiveServed
    <2>5. CASE \E t \in Thread : TransCreate(t) \/ Request(t) \/ Return(t) \/ EndLoop(t)
      <3>1. PICK t \in Thread, to \in {"receive", "request", "commit", "abort", "ended"} :
              pc[t] = "in" /\ pc' = pc /\ at' = [at EXCEPT ![t] = to]
        BY <2>5 DEF TransCreate, Request, Return, EndLoop, Move, regVars
      <3> QED BY <3>1 DEF LiveServed
    <2>7. CASE \E t \in Thread : Crash(t) \/ CloseFd(t)
      BY <2>7 DEF Crash, CloseFd, LiveServed, regVars
    <2>6. CASE Boot \/ Sighup \/ TransFini \/ Exit \/ (\E fd \in Fd : HangUp(fd)) \/ Over \/ UNCHANGED vars
      BY <2>6 DEF Boot, Sighup, TransFini, Exit, HangUp, Over, vars, regVars, LiveServed
    <2> QED BY <2>1, <2>2, <2>3, <2>4, <2>5, <2>6, <2>7 DEF ServerNext, Serve, Proceed, Leaves, Returns
  <1>4. FiniFirst'
    <2> SUFFICES ASSUME phase' = "finalizing"
                 PROVE  mpc' = "finalized"
      BY DEF FiniFirst
    <2>1. CASE TransFini
      BY <2>1 DEF TransFini, regVars
    <2>2. CASE ~ TransFini
      <3>1. phase = "finalizing"
        BY <2>2 DEF ServerNext, vars, Boot, Accept, Sighup, Terminate, Exit, InRegistry, TransCreate, Request, Return, Crash, EndLoop, Move,
                    Leave, CloseFd, Serve, Proceed, Leaves, Returns, HangUp, Over, serverVars
      <3>2. ~ Terminate
        BY <3>1 DEF Terminate
      <3>3. mpc' = mpc
        BY <2>2, <3>2 DEF ServerNext, vars, regVars, closer, Boot, Accept, Sighup, Exit, InRegistry, TransCreate, Request, Return, Crash, EndLoop, Move,
                    Leave, CloseFd, Serve, Proceed, Leaves, Returns, HangUp, Over, CallRegister, CallUnregister, Register, Unregister, RegLock, RegSlots,
                    RegStore, StoreIn, UnregClear, UnregMiss, UnregPostSlots, Waits, Posts
      <3> QED BY <3>1, <3>3 DEF FiniFirst
    <2> QED BY <2>1, <2>2
  <1> QED BY <1>1, <1>2, <1>3, <1>4 DEF SInv

LEMMA SInvHolds == ServerSpec => []SInv
  <1> QED BY InitSInv, NextSInv, PTL DEF ServerSpec

-----------------------------------------------------------------------------
(* What it gives *)

(* The server keeps its types and, with them, those of the registry.       *)
THEOREM ServerTypesOK == ServerSpec => []ServerTypeOK
  <1>1. SInv => ServerTypeOK
    BY DEF SInv
  <1> QED BY <1>1, SInvHolds, PTL

(* When trans_fini() frees the transactions, no thread with a valid        *)
(* descriptor is between its trans_create() and its trans_abort():         *)
(* terminate() waits for the registry to be empty, and each such thread is *)
(* registered, inside the calls that may never return too.                 *)
THEOREM NoneAtFini == ServerSpec => []NoTransactionAtFini
  <1>1. SInv => NoTransactionAtFini
    <2> SUFFICES ASSUME SInv, phase = "finalizing", NEW t \in Thread, Serving(t), arg[t] # NoFd
                 PROVE  FALSE
      BY DEF NoTransactionAtFini
    <2>1. t \in member
      BY DEF SInv, LiveServed, CInv, Placed, MemberPC
    <2>2. PICK s \in Slot : SlotsWith(arg[t]) = {s}
      BY <2>1 DEF SInv, CInv, RegisteredOnce
    <2>3. fdbuf[s] = NoFd
      BY DEF SInv, FiniFirst, IInv, ScanInv
    <2> QED BY <2>2, <2>3 DEF SlotsWith
  <1> QED BY <1>1, SInvHolds, PTL
=============================================================================
