--------------------------- MODULE ClientRegistry ---------------------------
(* The registry of connected clients, hw5/src/client_registry.c: a buffer  *)
(* of descriptors and four semaphores.  mutex guards the buffer, slots and *)
(* items count its free and used places, lock is held by a registration    *)
(* for its whole duration and, for good, by creg_wait_for_empty.           *)
(* A semaphore operation is a step of its own.  A loop that runs under     *)
(* mutex writes at most one slot and is one step; the scan of              *)
(* creg_wait_for_empty runs without mutex and is one step per slot.        *)
EXTENDS Integers, FiniteSets

CONSTANTS Thread,  \* the threads that register and unregister
          Fd,      \* the valid descriptors
          NoFd,    \* -1: an empty slot, and what a failed accept() returns
          NSlots   \* 1024 in the code

ASSUME RegistryAssumption ==
  /\ NSlots \in Nat \ {0}
  /\ NoFd \notin Fd
  /\ IsFiniteSet(Thread)

Slot == 0 .. NSlots - 1
Sem  == {"mutex", "slots", "items", "lock"}

VARIABLES
  fdbuf,     \* the buffer
  sem,       \* the values of the semaphores
  pc, arg,   \* where each thread is, and the fd of its current or last call
  member,    \* auxiliary: the threads whose registration is in the buffer
  mpc,       \* where the closer is: the one thread that calls
             \* creg_shutdown_all, creg_wait_for_empty and creg_fini
  scan, flag, \* the locals i and flag of creg_wait_for_empty
  shut       \* descriptors on which shutdown() has been called

closer  == <<mpc, scan, flag, shut>>
regVars == <<fdbuf, sem, pc, arg, member, mpc, scan, flag, shut>>

RegisterPC == {"reg_lock", "reg_slots", "reg_mutex", "reg_store",
               "reg_post_mutex", "reg_post_items", "reg_post_lock"}
UnregisterPC == {"unreg_items", "unreg_mutex", "unreg_find",
                 "unreg_post_mutex", "unreg_post_slots",
                 "miss_post_items", "miss_post_mutex"}
CloserPC == {"idle", "shut_scan", "shut_post", "wait_lock", "wait_scan",
             "returned", "finalized"}

TypeOK ==
  /\ fdbuf \in [Slot -> Fd \cup {NoFd}]
  /\ sem \in [Sem -> Nat]
  /\ pc \in [Thread -> {"out", "in"} \cup RegisterPC \cup UnregisterPC]
  /\ arg \in [Thread -> Fd \cup {NoFd}]
  /\ member \in SUBSET Thread
  /\ mpc \in CloserPC
  /\ scan \in Slot /\ flag \in BOOLEAN
  /\ shut \in SUBSET Fd

SlotsWith(fd) == {s \in Slot : fdbuf[s] = fd}
First(S) == CHOOSE s \in S : \A r \in S : s <= r

Goto(t, from, to) == pc[t] = from /\ pc' = [pc EXCEPT ![t] = to]
CloserGoto(from, to) == mpc = from /\ mpc' = to

(* sem_wait and sem_post *)
Wait(s) == sem[s] > 0 /\ sem' = [sem EXCEPT ![s] = @ - 1]
Post(s) == sem' = [sem EXCEPT ![s] = @ + 1]

Waits(t, s, from, to) ==
  Goto(t, from, to) /\ Wait(s) /\ UNCHANGED <<fdbuf, arg, member, closer>>
Posts(t, s, from, to) ==
  Goto(t, from, to) /\ Post(s) /\ UNCHANGED <<fdbuf, arg, member, closer>>

(* creg_init *)
Init ==
  /\ fdbuf = [s \in Slot |-> NoFd]
  /\ sem = [s \in Sem |-> CASE s = "slots" -> NSlots [] s = "items" -> 0 [] OTHER -> 1]
  /\ pc = [t \in Thread |-> "out"] /\ arg = [t \in Thread |-> NoFd]
  /\ member = {}
  /\ mpc = "idle" /\ scan = 0 /\ flag = FALSE /\ shut = {}

-----------------------------------------------------------------------------
(* Calls.  A valid descriptor names one open connection, so no two threads *)
(* work on the same one; any number may have been handed -1 by accept().   *)
InUse(fd) == \E t \in Thread : pc[t] # "out" /\ arg[t] = fd

CallRegister(t, fd) ==
  /\ fd = NoFd \/ ~InUse(fd)
  /\ Goto(t, "out", "reg_lock")
  /\ arg' = [arg EXCEPT ![t] = fd]
  /\ shut' = shut \ {fd}
  /\ UNCHANGED <<fdbuf, sem, member, mpc, scan, flag>>

CallUnregister(t) ==
  /\ Goto(t, "in", "unreg_items")
  /\ UNCHANGED <<fdbuf, sem, arg, member, closer>>

(* A call for a descriptor that is not registered (lines 62-66).           *)
CallStrayUnregister(t, fd) ==
  /\ ~InUse(fd)
  /\ Goto(t, "out", "unreg_items")
  /\ arg' = [arg EXCEPT ![t] = fd]
  /\ UNCHANGED <<fdbuf, sem, member, closer>>

Call(t) ==
  \/ \E fd \in Fd \cup {NoFd} : CallRegister(t, fd)
  \/ CallUnregister(t)
  \/ \E fd \in Fd : CallStrayUnregister(t, fd)

-----------------------------------------------------------------------------
(* creg_register *)

StoreIn(t, free) ==
  /\ Goto(t, "reg_store", "reg_post_mutex")
  /\ fdbuf' = IF free = {} THEN fdbuf ELSE [fdbuf EXCEPT ![First(free)] = arg[t]]
  /\ member' = member \cup {t}
  /\ UNCHANGED <<sem, arg, closer>>

(* Mutants: the loop bound is off by one; the loop overwrites slot 0.      *)
RegStoreShort(t) == StoreIn(t, SlotsWith(NoFd) \ {NSlots - 1})
RegStoreOver(t) == StoreIn(t, {0})

(* fd goes to the first slot that holds -1; with no such slot the loop     *)
(* falls through and the caller is not told.                               *)
RegStore(t) == StoreIn(t, SlotsWith(NoFd))

(* Mutants: a sem_wait is missing.                                         *)
RegLockSkipped(t) == Goto(t, "reg_lock", "reg_slots")
                     /\ UNCHANGED <<fdbuf, sem, arg, member, closer>>
RegSlotsSkipped(t) == Goto(t, "reg_slots", "reg_mutex")
                      /\ UNCHANGED <<fdbuf, sem, arg, member, closer>>

RegLock(t)  == Waits(t, "lock", "reg_lock", "reg_slots")
RegSlots(t) == Waits(t, "slots", "reg_slots", "reg_mutex")

Register(t) ==
  \/ RegLock(t)
  \/ RegSlots(t)
  \/ Waits(t, "mutex", "reg_mutex", "reg_store")
  \/ RegStore(t)
  \/ Posts(t, "mutex", "reg_post_mutex", "reg_post_items")
  \/ Posts(t, "items", "reg_post_items", "reg_post_lock")
  \/ Posts(t, "lock", "reg_post_lock", "in")

(* creg_unregister *)

UnregClear(t) ==
  /\ SlotsWith(arg[t]) # {}
  /\ Goto(t, "unreg_find", "unreg_post_mutex")
  /\ fdbuf' = [fdbuf EXCEPT ![First(SlotsWith(arg[t]))] = NoFd]
  /\ member' = member \ {t}
  /\ UNCHANGED <<sem, arg, closer>>

(* Mutant: a descriptor that is not found gives up its slot all the same.  *)
UnregMissSlot(t) ==
  /\ SlotsWith(arg[t]) = {}
  /\ Goto(t, "unreg_find", "unreg_post_mutex")
  /\ UNCHANGED <<fdbuf, sem, arg, member, closer>>

UnregMiss(t) ==
  /\ SlotsWith(arg[t]) = {}
  /\ Goto(t, "unreg_find", "miss_post_items")
  /\ UNCHANGED <<fdbuf, sem, arg, member, closer>>

(* Mutant: the wrong semaphore is posted.                                  *)
UnregPostItem(t)  == Posts(t, "items", "unreg_post_slots", "out")
UnregPostSlots(t) == Posts(t, "slots", "unreg_post_slots", "out")

Unregister(t) ==
  \/ Waits(t, "items", "unreg_items", "unreg_mutex")
  \/ Waits(t, "mutex", "unreg_mutex", "unreg_find")
  \/ UnregClear(t)
  \/ Posts(t, "mutex", "unreg_post_mutex", "unreg_post_slots")
  \/ UnregPostSlots(t)
  \/ UnregMiss(t)
  \/ Posts(t, "items", "miss_post_items", "miss_post_mutex")
  \/ Posts(t, "mutex", "miss_post_mutex", "out")

-----------------------------------------------------------------------------
(* creg_shutdown_all *)

(* Mutant: mutex is not posted.                                            *)
ShutKeep == /\ CloserGoto("shut_post", "wait_lock")
            /\ UNCHANGED <<fdbuf, sem, pc, arg, member, scan, flag, shut>>
ShutPost == /\ CloserGoto("shut_post", "wait_lock") /\ Post("mutex")
            /\ UNCHANGED <<fdbuf, pc, arg, member, scan, flag, shut>>

Shutdown ==
  \/ /\ CloserGoto("idle", "shut_scan") /\ Wait("mutex")
     /\ UNCHANGED <<fdbuf, pc, arg, member, scan, flag, shut>>
  \/ /\ CloserGoto("shut_scan", "shut_post")
     /\ shut' = shut \cup {fdbuf[s] : s \in Slot \ SlotsWith(NoFd)}
     /\ UNCHANGED <<fdbuf, sem, pc, arg, member, scan, flag>>
  \/ ShutPost

(* creg_wait_for_empty: lock is taken and never posted again.              *)
WaitLock ==
  /\ CloserGoto("wait_lock", "wait_scan") /\ Wait("lock")
  /\ scan' = 0 /\ flag' = FALSE
  /\ UNCHANGED <<fdbuf, pc, arg, member, shut>>

(* Mutant: flag keeps only what the current slot holds.                    *)
ScanFlagForgetful == fdbuf[scan] # NoFd

ScanFlag == (scan # 0 /\ flag) \/ fdbuf[scan] # NoFd

ScanUpTo(last) ==
  /\ mpc = "wait_scan"
  /\ flag' = ScanFlag
  /\ scan' = IF scan # last THEN scan + 1 ELSE IF ScanFlag THEN 0 ELSE scan
  /\ mpc' = IF scan = last /\ ~ScanFlag THEN "returned" ELSE mpc
  /\ UNCHANGED <<fdbuf, sem, pc, arg, member, shut>>

(* Mutant: the scan runs one slot past the end.                            *)
WaitScanOverrun == ScanUpTo(NSlots)

(* One iteration of its loop.                                              *)
WaitScan == ScanUpTo(NSlots - 1)

(* creg_fini frees the registry, and the model ends: what a thread still   *)
(* inside an operation does to freed memory is not modelled.               *)
Fini ==
  /\ CloserGoto("returned", "finalized")
  /\ UNCHANGED <<fdbuf, sem, pc, arg, member, scan, flag, shut>>

Close == Shutdown \/ WaitLock \/ WaitScan \/ Fini

Finalized == mpc = "finalized" /\ UNCHANGED regVars

Next ==
  \/ /\ mpc # "finalized"
     /\ (\E t \in Thread : Call(t) \/ Register(t) \/ Unregister(t)) \/ Close
  \/ Finalized

Spec == Init /\ [][Next]_regVars

-----------------------------------------------------------------------------
(* Properties *)

(* A thread that has passed slots and mutex finds an empty slot: the loop  *)
(* of creg_register (lines 39-44), which does not report failure, never    *)
(* drops a descriptor.                                                     *)
RegisterFindsSlot ==
  \A t \in Thread : pc[t] = "reg_store" => SlotsWith(NoFd) # {}

(* A registered thread that unregisters finds its descriptor, whoever took *)
(* its item: it never leaves by lines 62-66 with its slot still occupied.  *)
UnregisterFindsFd ==
  \A t \in member : pc[t] = "unreg_find" => SlotsWith(arg[t]) # {}

(* Every registered descriptor is in exactly one slot, and every occupied  *)
(* slot belongs to a registered thread: registrations do not overwrite one *)
(* another and leave nothing behind (lines 38-46 and 53-67).               *)
RegisteredOnce ==
  /\ \A t \in member : arg[t] # NoFd =>
       \E s \in Slot : SlotsWith(arg[t]) = {s}
  /\ \A s \in Slot \ SlotsWith(NoFd) : \E t \in member : arg[t] = fdbuf[s]

(* creg_wait_for_empty (lines 73-97) returns only when the buffer is empty, *)
(* although it reads the slots one by one without mutex, and the buffer    *)
(* stays empty until creg_fini frees it.                                   *)
WaitReturnsEmpty ==
  mpc \in {"returned", "finalized"} => SlotsWith(NoFd) = Slot

(* The slots semaphore (lines 37 and 68) never promises more than the      *)
(* buffer has, and an idle registry has all its tokens back.               *)
TokensConserved ==
  /\ sem["slots"] <= Cardinality(SlotsWith(NoFd))
  /\ (\A t \in Thread : pc[t] = "out") => sem["slots"] = NSlots /\ sem["items"] = 0

(* Once creg_wait_for_empty holds lock (line 74) no slot gains a           *)
(* descriptor: the set it waits on can only shrink.                        *)
OnlyShrinks == \A s \in Slot : fdbuf'[s] = fdbuf[s] \/ fdbuf'[s] = NoFd

ClosedStaysClosed ==
  [][(mpc \in {"wait_scan", "returned"}) => OnlyShrinks]_regVars

=============================================================================
