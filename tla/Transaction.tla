---------------------------- MODULE Transaction ----------------------------
(* The transaction manager, hw5/src/transaction.c, under concurrent        *)
(* service threads.  Thread t creates one transaction, also called t,      *)
(* works on it through the object store, and ends it with one trans_commit *)
(* or one trans_abort.  The store itself is a library (lib/xacto.a); of it *)
(* there is what the manager sees: calls made under the store's mutex.     *)
(* A critical section that writes one transaction and is not read while it *)
(* lasts is one step; the spin loop of trans_commit, each read of a->next  *)
(* by the scan of trans_abort, each write of trans_unref to the list, the  *)
(* two locks of trans_add_dependency and the unguarded accesses of         *)
(* trans_create are steps of their own.  The build is -O0: every access    *)
(* the source makes is made.                                               *)
EXTENDS Integers, Sequences, FiniteSets

CONSTANTS Tx,      \* the transactions and the threads that own them
          NoTx,    \* no transaction; also the list sentinel, trans_list
          MaxOps,  \* bound: store operations per transaction
          MaxDeps  \* bound: calls of trans_add_dependency per transaction

ASSUME TxAssumption == NoTx \notin Tx /\ MaxOps \in Nat /\ MaxDeps \in Nat

VARIABLES
  counter,     \* the next transaction ID
  tx,          \* the TRANSACTION objects, trans_list among them
  next, prev,  \* the list of all transactions
  th,          \* the threads: program counter and locals, reset out of scope
  map,         \* the owner of the store's mutex
  versions,    \* transactions that are the creator of a version in the store
  fate         \* "running"; "exited" by exit(-1); "undefined" once freed
               \* memory has been used, and nothing is modelled after that

vars == <<counter, tx, next, prev, th, map, versions, fate>>
list == <<next, prev>>

Status == {"PENDING", "COMMITTED", "ABORTED"}
Node == Tx \cup {NoTx}

CreatePC == {"create_read", "create_count", "create_link", "create_prev", "create_tail"}
StorePC  == {"store_enter", "store", "dep_lock", "dep_link", "store_ref", "store_drop",
             "store_purge", "store_unlock", "store_return"}
AbortPC  == {"abort_lock", "abort_scan", "abort_id", "abort_deps", "abort_search", "abort_call",
             "abort_next", "abort_spin", "abort_unlock", "abort_unref", "abort_unlink"}
CommitPC == {"commit_lock", "commit_scan", "commit_unref", "commit_unlink"}

(* refcnt is an unsigned: a negative value stands for the one it wraps to. *)
TransactionRecord ==
  [id : Nat, status : Status, refcnt : Int, depends : Seq(Tx), mutex : Node, freed : BOOLEAN]

PC == {"new", "idle", "done"} \cup CreatePC \cup StorePC \cup AbortPC \cup CommitPC
Frame == [tx : Node, cur : Node]
Local ==
  [pc : PC, stack : Seq(Frame), ret : {"done", "store_drop", "store_unlock"}, arg : Node,
   k : Nat, flag : BOOLEAN, met : SUBSET Tx, told : Status, ops : Nat]

(* A thread has frames exactly while it is inside trans_abort, and the     *)
(* dependency that trans_commit looks at is one of its own.                *)
TypeOK ==
  /\ counter \in Nat
  /\ tx \in [Node -> TransactionRecord]
  /\ next \in [Node -> Node] /\ prev \in [Node -> Node]
  /\ th \in [Tx -> Local]
  /\ \A t \in Tx : th[t].pc \in AbortPC <=> th[t].stack # << >>
  /\ \A t \in Tx : th[t].pc = "commit_scan" => th[t].k \in 1 .. Len(tx[t].depends)
  /\ map \in Node
  /\ versions \in SUBSET Tx
  /\ fate \in {"running", "exited", "undefined"}

IdleThread(at) == [pc |-> at, stack |-> << >>, ret |-> "done", arg |-> NoTx, k |-> 0,
                   flag |-> FALSE, met |-> {}, told |-> "PENDING", ops |-> 0]

(* trans_init, trans_list as sentinel: the first ID handed out is 1.       *)
Init ==
  /\ counter = 1
  /\ tx = [x \in Node |-> [id |-> 0, status |-> "PENDING", refcnt |-> 0,
                           depends |-> << >>, mutex |-> NoTx, freed |-> FALSE]]
  /\ next = [n \in Node |-> NoTx] /\ prev = [n \in Node |-> NoTx]
  /\ th = [t \in Tx |-> IdleThread("new")]
  /\ map = NoTx /\ versions = {} /\ fate = "running"

At(t, at) == fate = "running" /\ th[t].pc = at
Goto(t, to) == th' = [th EXCEPT ![t].pc = to]

Free(x) == tx[x].mutex = NoTx
DepSet(x) == {tx[x].depends[i] : i \in DOMAIN tx[x].depends}
Touch(S) == fate' = IF \E x \in S : tx[x].freed THEN "undefined" ELSE fate

-----------------------------------------------------------------------------
(* trans_create, lines 71-80.  The new transaction's own mutex is all it   *)
(* holds: counter and the list are not guarded.                            *)

CreateId(t) ==
  /\ At(t, "new")
  /\ tx' = [tx EXCEPT ![t].id = counter, ![t].mutex = t]
  /\ Goto(t, "create_read")
  /\ UNCHANGED <<counter, list, map, versions, fate>>

CreateRead(t) ==
  /\ At(t, "create_read")
  /\ th' = [th EXCEPT ![t].pc = "create_count", ![t].k = counter]
  /\ UNCHANGED <<counter, tx, list, map, versions, fate>>

CreateCount(t) ==
  /\ At(t, "create_count")
  /\ counter' = th[t].k + 1
  /\ tx' = [tx EXCEPT ![t].refcnt = 1]
  /\ th' = [th EXCEPT ![t].pc = "create_link", ![t].k = 0]
  /\ UNCHANGED <<list, map, versions, fate>>

CreateLink(t) ==
  /\ At(t, "create_link") /\ Touch({prev[NoTx]})
  /\ next' = [next EXCEPT ![t] = NoTx, ![prev[NoTx]] = t]
  /\ Goto(t, "create_prev")
  /\ UNCHANGED <<counter, tx, prev, map, versions>>

CreatePrev(t) ==
  /\ At(t, "create_prev")
  /\ prev' = [prev EXCEPT ![t] = prev[NoTx]]
  /\ Goto(t, "create_tail")
  /\ UNCHANGED <<counter, tx, next, map, versions, fate>>

CreateTail(t) ==
  /\ At(t, "create_tail")
  /\ prev' = [prev EXCEPT ![NoTx] = t]
  /\ tx' = [tx EXCEPT ![t].mutex = NoTx]
  /\ Goto(t, "idle")
  /\ UNCHANGED <<counter, next, map, versions, fate>>

Create(t) == CreateId(t) \/ CreateRead(t) \/ CreateCount(t)
             \/ CreateLink(t) \/ CreatePrev(t) \/ CreateTail(t)

-----------------------------------------------------------------------------
(* trans_ref and trans_unref.  The list is not guarded.                    *)

Ref(x) == Free(x) /\ Touch({x}) /\ tx' = [tx EXCEPT ![x].refcnt = @ + 1]

(* Lines 109-111 for the last reference, which leads to unlink, or line    *)
(* 128; after that the call returns.                                       *)
Unref(t, x, unlink, return) ==
  /\ Free(x)
  /\ \/ /\ tx[x].refcnt = 1 /\ Touch({x, prev[x]})
        /\ next' = [next EXCEPT ![prev[x]] = next[x]]
        /\ tx' = [tx EXCEPT ![x].mutex = t]
        /\ th' = unlink
     \/ /\ tx[x].refcnt # 1 /\ Touch({x})
        /\ tx' = [tx EXCEPT ![x].refcnt = @ - 1]
        /\ th' = return
        /\ UNCHANGED next
  /\ UNCHANGED prev

(* Lines 112-123.                                                          *)
Unlink(x) ==
  /\ Touch({x, next[x]})
  /\ prev' = [prev EXCEPT ![next[x]] = prev[x]]
  /\ tx' = [tx EXCEPT ![x].mutex = NoTx, ![x].freed = TRUE]
  /\ UNCHANGED next

-----------------------------------------------------------------------------
(* trans_abort.  A recursive call pushes a frame: the transaction being    *)
(* aborted and the node a of its scan of the list.                         *)

Top(t) == Head(th[t].stack)

(* The call itself, made by thread t for x; ret is where it returns to.    *)
CallAbort(t, x, ret) ==
  th' = [th EXCEPT ![t].pc = "abort_lock",
                   ![t].stack = <<[tx |-> x, cur |-> NoTx]>>, ![t].ret = ret]

AbortLock(t) ==
  /\ At(t, "abort_lock")
  /\ LET x == Top(t).tx IN
     /\ Free(x)
     /\ \/ /\ tx[x].status = "COMMITTED"
           /\ fate' = "exited"
           /\ UNCHANGED <<tx, th>>
        \/ /\ tx[x].status = "ABORTED" /\ Touch({x})
           /\ tx' = [tx EXCEPT ![x].mutex = t]
           /\ Goto(t, "abort_unlock")
        \/ /\ tx[x].status = "PENDING" /\ Touch({x})
           /\ tx' = [tx EXCEPT ![x].mutex = t, ![x].status = "ABORTED"]
           /\ Goto(t, "abort_scan")
  /\ UNCHANGED <<counter, list, map, versions>>

(* The scan, whose variable a is cur.  It reads a->next again at every     *)
(* use, and others change the list meanwhile.  Line 232.                   *)
AbortScan(t) ==
  /\ At(t, "abort_scan") /\ Touch({Top(t).cur})
  /\ Goto(t, IF next[Top(t).cur] = NoTx THEN "abort_unlock" ELSE "abort_id")
  /\ UNCHANGED <<counter, tx, list, map, versions>>

(* Line 233.  Transactions are compared by ID.                             *)
SameId(x, y) == tx[x].id = tx[y].id
Ahead(t) == next[Top(t).cur]

AbortId(t) ==
  /\ At(t, "abort_id") /\ Touch({Top(t).cur, Ahead(t)})
  /\ Goto(t, IF SameId(Ahead(t), Top(t).tx) THEN "abort_next" ELSE "abort_deps")
  /\ UNCHANGED <<counter, tx, list, map, versions>>

(* Line 237.                                                               *)
AbortDeps(t) ==
  /\ At(t, "abort_deps") /\ Touch({Top(t).cur, Ahead(t)})
  /\ Goto(t, IF tx[Ahead(t)].depends = << >> THEN "abort_next" ELSE "abort_search")
  /\ UNCHANGED <<counter, tx, list, map, versions>>

(* Lines 238-249, where a set that is empty now is a NULL pointer.  The    *)
(* inner loop tests the dependency after the first one and does not        *)
(* advance: a second dependency that does not match is tested for ever.    *)
AbortSearch(t) ==
  /\ At(t, "abort_search")
  /\ LET x == Top(t).tx
         deps == tx[Ahead(t)].depends
         looked == DOMAIN deps \cap 1 .. 2
         found == \E i \in looked : SameId(deps[i], x)
     IN  /\ IF deps = << >> THEN fate' = "undefined"
            ELSE Touch({Top(t).cur, Ahead(t)} \cup {deps[i] : i \in looked})
         /\ Goto(t, IF found THEN "abort_call" ELSE IF Len(deps) > 1 THEN "abort_spin" ELSE "abort_next")
  /\ UNCHANGED <<counter, tx, list, map, versions>>


(* Lines 240 and 246: trans_abort(a->next).                                *)
AbortCall(t) ==
  /\ At(t, "abort_call") /\ Touch({Top(t).cur})
  /\ th' = [th EXCEPT ![t].pc = "abort_lock", ![t].stack = <<[tx |-> Ahead(t), cur |-> NoTx]>> \o @]
  /\ UNCHANGED <<counter, tx, list, map, versions>>

(* a = a->next, lines 234, 241 and 251.                                    *)
AbortNext(t) ==
  /\ At(t, "abort_next") /\ Touch({Top(t).cur})
  /\ th' = [th EXCEPT ![t].pc = "abort_scan", ![t].stack[1].cur = next[@]]
  /\ UNCHANGED <<counter, tx, list, map, versions>>

AbortUnlock(t) ==
  /\ At(t, "abort_unlock")
  /\ tx' = [tx EXCEPT ![Top(t).tx].mutex = NoTx]
  /\ Goto(t, "abort_unref")
  /\ UNCHANGED <<counter, list, map, versions, fate>>

(* Mutant: the outermost call, too, goes back to a scan.                   *)
ReturnedNested(t) == [th EXCEPT ![t].pc = "abort_next", ![t].stack = Tail(@)]

(* Back to the caller's scan, or out of the outermost call.                *)
Returned(t) ==
  IF Len(th[t].stack) > 1 THEN [th EXCEPT ![t].pc = "abort_next", ![t].stack = Tail(@)]
  ELSE [th EXCEPT ![t].pc = th[t].ret, ![t].stack = << >>, ![t].ret = "done"]

AbortUnref(t) ==
  /\ At(t, "abort_unref")
  /\ Unref(t, Top(t).tx, [th EXCEPT ![t].pc = "abort_unlink"], Returned(t))
  /\ UNCHANGED <<counter, map, versions>>

AbortUnlink(t) ==
  /\ At(t, "abort_unlink") /\ Unlink(Top(t).tx) /\ th' = Returned(t)
  /\ UNCHANGED <<counter, map, versions>>

Abort(t) ==
  \/ AbortLock(t) \/ AbortScan(t) \/ AbortId(t) \/ AbortDeps(t) \/ AbortSearch(t) \/ AbortCall(t)
  \/ AbortNext(t) \/ AbortUnlock(t) \/ AbortUnref(t) \/ AbortUnlink(t)

-----------------------------------------------------------------------------
(* trans_commit.  Its mutex is held while it spins over the dependencies,  *)
(* whose status it reads without theirs.                                   *)

(* Mutant: a dependency that has not ended does not hold the commit back.  *)
FlagDropped(t, s) == th[t].flag
Flag(t, s) == th[t].flag \/ s # "COMMITTED"

(* Mutant: flag is not reset when the scan starts again.                   *)
NextFlagKept(last, f) == f
NextFlag(last, f) == ~last /\ f

CommitLock(t) ==
  /\ At(t, "commit_lock") /\ Free(t) /\ Touch({t})
  /\ IF tx[t].depends = << >>
     THEN /\ tx' = [tx EXCEPT ![t].status = "COMMITTED"]
          /\ Goto(t, "commit_unref")
     ELSE /\ tx' = [tx EXCEPT ![t].mutex = t]
          /\ th' = [th EXCEPT ![t].pc = "commit_scan", ![t].k = 1, ![t].flag = FALSE]
  /\ UNCHANGED <<counter, list, map, versions>>

(* The iteration that looks at dependency k.  A commit that fails returns  *)
(* without trans_unref.                                                    *)
CommitScan(t) ==
  /\ At(t, "commit_scan")
  /\ LET k == th[t].k
         d == tx[t].depends[k]
         s == tx[d].status
         last == k = Len(tx[t].depends)
     IN  /\ Touch({t, d})
         /\ \/ /\ s = "ABORTED"
               /\ tx' = [tx EXCEPT ![t].status = "ABORTED", ![t].mutex = NoTx]
               /\ th' = [th EXCEPT ![t].pc = "done", ![t].k = 0, ![t].flag = FALSE]
            \/ /\ s # "ABORTED" /\ last /\ ~Flag(t, s)
               /\ tx' = [tx EXCEPT ![t].status = "COMMITTED", ![t].mutex = NoTx]
               /\ th' = [th EXCEPT ![t].pc = "commit_unref", ![t].k = 0, ![t].flag = FALSE]
            \/ /\ s # "ABORTED" /\ (last => Flag(t, s))
               /\ th' = [th EXCEPT ![t].k = IF last THEN 1 ELSE k + 1,
                                   ![t].flag = NextFlag(last, Flag(t, s))]
               /\ UNCHANGED tx
  /\ UNCHANGED <<counter, list, map, versions>>

CommitUnref(t) ==
  /\ At(t, "commit_unref")
  /\ Unref(t, t, [th EXCEPT ![t].pc = "commit_unlink"], [th EXCEPT ![t].pc = "done"])
  /\ UNCHANGED <<counter, map, versions>>

CommitUnlink(t) ==
  /\ At(t, "commit_unlink") /\ Unlink(t) /\ Goto(t, "done")
  /\ UNCHANGED <<counter, map, versions>>

Commit(t) == CommitLock(t) \/ CommitScan(t) \/ CommitUnref(t) \/ CommitUnlink(t)

-----------------------------------------------------------------------------
(* The calls of the object store, on behalf of the transaction t, while it *)
(* holds its mutex.  An operation walks the versions of one key in the     *)
(* order of their creators' IDs; from the first aborted one on it removes  *)
(* them; then it creates a version for t and returns trans_get_status(t).  *)

StoreCall(t) ==
  /\ At(t, "idle") /\ th[t].ops < MaxOps
  /\ th' = [th EXCEPT ![t].pc = "store_enter", ![t].ops = @ + 1]
  /\ UNCHANGED <<counter, tx, list, map, versions, fate>>

StoreEnter(t) ==
  /\ At(t, "store_enter") /\ map = NoTx
  /\ map' = t
  /\ Goto(t, "store")
  /\ UNCHANGED <<counter, tx, list, versions, fate>>

InStore(t) == At(t, "store") \/ At(t, "store_purge")
Meets(t, d) == d \in versions /\ Free(d) /\ Touch({d})

(* t comes to depend on an older creator that is still pending.            *)
MeetPending(t, d) ==
  /\ At(t, "store") /\ Meets(t, d)
  /\ tx[d].status = "PENDING" /\ tx[d].id < tx[t].id
  /\ \A e \in th[t].met : tx[e].id < tx[d].id
  /\ Len(tx[t].depends) < MaxDeps
  /\ th' = [th EXCEPT ![t].pc = "dep_lock", ![t].arg = d, ![t].met = @ \cup {d}]
  /\ UNCHANGED <<counter, tx, list, map, versions>>

(* t is aborted if a younger one has been there.                           *)
MeetYounger(t, d) ==
  /\ InStore(t) /\ Meets(t, d)
  /\ tx[d].status # "ABORTED" /\ tx[d].id > tx[t].id
  /\ th' = [th EXCEPT ![t].pc = "store_ref", ![t].arg = t, ![t].ret = "store_unlock"]
  /\ UNCHANGED <<counter, tx, list, map, versions>>

(* A version whose creator v has aborted is removed, and so are the later  *)
(* ones of the same key, whose creators d depend on v.                     *)
MeetAborted(t, d) ==
  /\ InStore(t) /\ d \in versions
  /\ \E v \in {d} \cup DepSet(d) : Meets(t, v) /\ tx[v].status = "ABORTED"
  /\ th' = [th EXCEPT ![t].pc = "store_ref", ![t].arg = d, ![t].ret = "store_drop"]
  /\ UNCHANGED <<counter, tx, list, map, versions>>

(* trans_ref(arg), for the reference that trans_abort(arg) consumes.       *)
StoreRef(t) ==
  /\ At(t, "store_ref") /\ Ref(th[t].arg)
  /\ CallAbort(t, th[t].arg, th[t].ret)
  /\ UNCHANGED <<counter, list, map, versions>>

(* version_dispose (data.c lines 203-219) gives its reference up without   *)
(* trans_unref: at zero the creator is not freed.                          *)
StoreDrop(t) ==
  /\ At(t, "store_drop")
  /\ LET d == th[t].arg IN
     /\ Free(d) /\ Touch({d})
     /\ tx' = [tx EXCEPT ![d].refcnt = @ - 1]
     /\ versions' = versions \ {d}
  /\ Goto(t, "store_purge")
  /\ UNCHANGED <<counter, list, map>>

(* trans_add_dependency(t, arg)                                            *)
DepLock(t) ==
  /\ At(t, "dep_lock") /\ Free(t) /\ Touch({t})
  /\ tx' = [tx EXCEPT ![t].mutex = t]
  /\ Goto(t, "dep_link")
  /\ UNCHANGED <<counter, list, map, versions>>

DepLink(t) ==
  /\ At(t, "dep_link") /\ Free(th[t].arg) /\ Touch({th[t].arg})
  /\ tx' = [tx EXCEPT ![t].depends = <<th[t].arg>> \o @, ![t].mutex = NoTx,
                      ![th[t].arg].refcnt = @ + 1]
  /\ Goto(t, "store")
  /\ UNCHANGED <<counter, list, map, versions>>

(* version_create (data.c lines 167-194); a later operation replaces the   *)
(* version of t.                                                           *)
StoreCreate(t) ==
  /\ InStore(t) /\ Free(t) /\ Touch({t})
  /\ tx' = IF t \in versions THEN tx ELSE [tx EXCEPT ![t].refcnt = @ + 1]
  /\ versions' = versions \cup {t}
  /\ Goto(t, "store_unlock")
  /\ UNCHANGED <<counter, list, map>>

StoreUnlock(t) ==
  /\ At(t, "store_unlock")
  /\ map' = NoTx
  /\ th' = [th EXCEPT ![t].pc = "store_return", ![t].arg = NoTx, ![t].met = {}]
  /\ UNCHANGED <<counter, tx, list, versions, fate>>

StoreReturn(t) ==
  /\ At(t, "store_return") /\ Free(t) /\ Touch({t})
  /\ th' = [th EXCEPT ![t].pc = "idle", ![t].told = tx[t].status]
  /\ UNCHANGED <<counter, tx, list, map, versions>>

StoreOp(t) ==
  \/ StoreEnter(t) \/ StoreRef(t) \/ StoreDrop(t) \/ DepLock(t) \/ DepLink(t) \/ StoreCreate(t)
  \/ StoreUnlock(t) \/ StoreReturn(t)
  \/ \E d \in Tx : MeetPending(t, d) \/ MeetYounger(t, d) \/ MeetAborted(t, d)

-----------------------------------------------------------------------------
(* The caller.  It follows transaction.h: once an operation has returned   *)
(* TRANS_ABORTED it only gives the transaction up.                         *)
Operate(t) == th[t].told = "PENDING" /\ StoreCall(t)

TryCommit(t) ==
  /\ At(t, "idle") /\ th[t].told = "PENDING"
  /\ Goto(t, "commit_lock")
  /\ UNCHANGED <<counter, tx, list, map, versions, fate>>

GiveUp(t) ==
  /\ At(t, "idle") /\ CallAbort(t, t, "done")
  /\ UNCHANGED <<counter, tx, list, map, versions, fate>>

(* What thread t does inside a call.                                       *)
CallStep(t) == Create(t) \/ StoreOp(t) \/ Commit(t) \/ Abort(t)

Next == \E t \in Tx : Operate(t) \/ TryCommit(t) \/ GiveUp(t) \/ CallStep(t)

Spec == Init /\ [][Next]_vars

(* The state when all clients but the last have connected, one after the   *)
(* other, and none has sent a request; who is first does not matter.       *)
Arrival == CHOOSE f \in [1 .. Cardinality(Tx) -> Tx] : \A i, j \in DOMAIN f : i # j => f[i] # f[j]
Rank(x) == CHOOSE i \in DOMAIN Arrival : Arrival[i] = x
Connected == {x \in Tx : Rank(x) < Cardinality(Tx)}
NodeAt(i) == IF i \in DOMAIN Arrival /\ Arrival[i] \in Connected THEN Arrival[i] ELSE NoTx

StartedInit ==
  /\ counter = Cardinality(Tx)
  /\ tx = [x \in Node |-> [id |-> IF x \in Connected THEN Rank(x) ELSE 0, status |-> "PENDING",
                           refcnt |-> IF x \in Connected THEN 1 ELSE 0,
                           depends |-> << >>, mutex |-> NoTx, freed |-> FALSE]]
  /\ next = [n \in Node |-> IF n = NoTx THEN NodeAt(1)
                            ELSE IF n \in Connected THEN NodeAt(Rank(n) + 1) ELSE NoTx]
  /\ prev = [n \in Node |-> IF n = NoTx THEN NodeAt(Cardinality(Connected))
                            ELSE IF n \in Connected THEN NodeAt(Rank(n) - 1) ELSE NoTx]
  /\ th = [t \in Tx |-> IdleThread(IF t \in Connected THEN "idle" ELSE "new")]
  /\ map = NoTx /\ versions = {} /\ fate = "running"

StartedSpec == StartedInit /\ [][Next]_vars

(* Threads run: one that is inside a call takes its next step unless it is *)
(* blocked.  Nothing makes a client send its next request.                 *)
StartedFairSpec == StartedSpec /\ \A t \in Tx : WF_vars(CallStep(t))

-----------------------------------------------------------------------------
(* Properties *)

(* trans_commit sets COMMITTED only when every member of the dependency    *)
(* set is COMMITTED, although it reads their status without their mutex,   *)
(* one after the other, while other threads commit and abort them; and it  *)
(* stays so (transaction.h: "cannot commit until the transaction on which  *)
(* it depends has committed").                                             *)
CommittedDepsCommitted ==
  \A x \in Tx : tx[x].status = "COMMITTED" =>
    \A d \in DepSet(x) : tx[d].status = "COMMITTED"

(* When the scan of trans_abort for x has reached the end of the list,     *)
(* every transaction that depends on x has been aborted (transaction.c     *)
(* lines 214-216), although the list and the dependency sets are read      *)
(* without a lock.  The code breaks this once a transaction is unlinked    *)
(* under the scan.                                                         *)
Dependents(x) == {y \in Tx : x \in DepSet(y)}
ScanOver(t, x) == At(t, "abort_scan") /\ x = Top(t).tx /\ next[Top(t).cur] = NoTx

AbortReachesDependents ==
  \A t, x \in Tx : ScanOver(t, x) => \A y \in Dependents(x) : tx[y].status = "ABORTED"

(* No last reference has been given up so far.                             *)
Intact ==
  \A x \in Tx : ~tx[x].freed /\ th[x].pc \notin {"abort_unlink", "commit_unlink"}



(* trans_commit does not go on spinning when all that t depends on have    *)
(* ended for good, wherever in its passes over them it is (line 198).      *)
Decided(t) ==
  At(t, "commit_scan") /\ \A d \in DepSet(t) : tx[d].status # "PENDING"

CommitEnds == \A t \in Tx : []<>~Decided(t)

(* transaction.c line 222, trans_abort: "@return TRANS_ABORTED".           *)
AbortReturns ==
  \A t \in Tx : (th[t].pc \in AbortPC /\ th[t].ret = "done")
                  ~> (th[t].pc = "done" \/ fate # "running")

(* As long as no transaction has been unlinked, the dependency sets and    *)
(* the status of the transactions are those of TransactionSpec, which      *)
(* states what transaction.h promises of them.                             *)
Manager == INSTANCE TransactionSpec
             WITH status <- [x \in Tx |-> tx[x].status], depends <- [x \in Tx |-> DepSet(x)]

=============================================================================
