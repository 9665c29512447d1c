-------------------------- MODULE TransactionProofs --------------------------
(* Proofs about the transaction manager, for every set of transactions and *)
(* every bound: its types, and that a committed transaction depends only   *)
(* on committed ones, although creations overlap and the list that they    *)
(* and trans_unref write is not guarded.  Every step but four leaves       *)
(* status and dependencies alone (Quiet); the four are the locking step of *)
(* trans_abort, the second one of trans_add_dependency, and the two of     *)
(* trans_commit before its trans_unref.                                    *)
EXTENDS Transaction, TLAPS

-----------------------------------------------------------------------------
(* Invariants *)

(* What the store hands to the calls it makes: in the middle of one, arg   *)
(* is a transaction, and ret is set only around a call of trans_abort.     *)
ArgOf(l) ==
  /\ l.pc \in {"dep_lock", "dep_link", "store_ref", "store_drop"} => l.arg \in Tx
  /\ l.ret # "done" => l.pc \in {"store_ref"} \cup AbortPC
  /\ l.ret = "store_drop" => l.arg \in Tx

ArgInv == \A t \in Tx : ArgOf(th[t])

Typed == TypeOK /\ ArgInv

(* What TypeOK and ArgInv say of one thread with locals l.                 *)
Own(l) == (l.pc \in AbortPC <=> l.stack # << >>) /\ ArgOf(l)

(* The types of everything but the threads.                                *)
SharedTyped ==
  /\ counter \in Nat
  /\ tx \in [Node -> TransactionRecord]
  /\ next \in [Node -> Node] /\ prev \in [Node -> Node]
  /\ map \in Node /\ versions \in SUBSET Tx
  /\ fate \in {"running", "exited", "undefined"}

(* A step of thread t that leaves status and dependencies alone.           *)
SameTx == \A u \in Tx : tx'[u].status = tx[u].status /\ tx'[u].depends = tx[u].depends
Quiet(t) ==
  /\ SameTx
  /\ \A u \in Tx \ {t} : th'[u] = th[u]
  /\ th'[t].pc # "commit_scan" /\ th[t].pc # "done"
  /\ th[t].pc \in {"commit_unref", "commit_unlink"} => th'[t].pc \in {"commit_unlink", "done"}

(* What makes a commit safe: a committed transaction is not touched again  *)
(* by the thread that owns it, and the dependencies that the current pass  *)
(* of its scan has left behind, flag not set, have committed.              *)
CommittedOver ==
  \A t \in Tx : tx[t].status = "COMMITTED" => th[t].pc \in {"commit_unref", "commit_unlink", "done"}

Scanned(t, l) ==
  l.pc = "commit_scan" /\ ~l.flag =>
    \A i \in 1 .. l.k - 1 : tx[tx[t].depends[i]].status = "COMMITTED"

CommitInv == CommittedOver /\ (\A t \in Tx : Scanned(t, th[t])) /\ CommittedDepsCommitted

IInv == Typed /\ CommitInv

(* The same where the threads in S are not bound by CommittedOver: they    *)
(* make no more calls in a transaction they have committed.                *)
CommitInvBut(S) ==
  /\ \A t \in Tx \ S : tx[t].status = "COMMITTED" => th[t].pc \in {"commit_unref", "commit_unlink", "done"}
  /\ \A t \in Tx : Scanned(t, th[t])
  /\ CommittedDepsCommitted

IInvBut(S) == Typed /\ CommitInvBut(S)

LEMMA InitTyped == Init => Typed
  <1> SUFFICES ASSUME Init
               PROVE  Typed
    OBVIOUS
  <1>1. TypeOK
    BY TxAssumption DEF Init, TypeOK, IdleThread, TransactionRecord, Local, Frame, PC, Status,
       Node, AbortPC, CreatePC, StorePC, CommitPC
  <1>2. ArgInv
    BY DEF Init, ArgInv, ArgOf, IdleThread
  <1> QED BY <1>1, <1>2 DEF Typed

-----------------------------------------------------------------------------
(* Frames *)

LEMMA CurTyped ==
  ASSUME NEW s \in Seq(Frame), s # << >>, NEW n \in Node
  PROVE  [s EXCEPT ![1].cur = n] \in Seq(Frame) /\ [s EXCEPT ![1].cur = n] # << >>
  <1>1. s[1] \in Frame /\ Len(s) \in Nat /\ 1 \in 1 .. Len(s)
    OBVIOUS
  <1>2. [s[1] EXCEPT !.cur = n] \in Frame
    BY <1>1 DEF Frame
  <1>3. [s EXCEPT ![1].cur = n] \in [1 .. Len(s) -> Frame]
    BY <1>1, <1>2
  <1> QED BY <1>1, <1>3

LEMMA TailTyped == ASSUME NEW s \in Seq(Frame), Len(s) > 1
                   PROVE  Tail(s) # << >>
  <1> DEFINE q == Tail(s)
  <1>1. Len(q) = Len(s) - 1 /\ Len(s) \in Nat /\ q \in Seq(Frame)
    OBVIOUS
  <1> HIDE DEF q
  <1>2. q # << >>
    BY <1>1
  <1> QED BY <1>2 DEF q

LEMMA TopTyped ==
  ASSUME Typed, NEW t \in Tx, th[t].pc \in AbortPC
  PROVE  Top(t).tx \in Node /\ Top(t).cur \in Node
  <1>1. th[t].stack \in Seq(Frame) /\ th[t].stack # << >>
    BY DEF Typed, TypeOK, Local
  <1>2. Head(th[t].stack) \in Frame
    BY <1>1
  <1> QED BY <1>2 DEF Top, Frame

-----------------------------------------------------------------------------
(* Steps *)

LEMMA Records == ASSUME Typed
                 PROVE  /\ \A t \in Tx : th[t] \in Local
                        /\ \A x \in Node : tx[x] \in TransactionRecord
                        /\ \A t \in Tx : Own(th[t])
                        /\ SharedTyped
                        /\ DOMAIN th = Tx /\ DOMAIN tx = Node /\ Tx \subseteq Node
  BY DEF Typed, TypeOK, ArgInv, Own, SharedTyped, Node

LEMMA ThLocal == ASSUME Typed, NEW t \in Tx
                 PROVE  th[t] \in Local
  BY DEF Typed, TypeOK

LEMMA TxRecord == ASSUME Typed
                  PROVE  /\ \A x \in Tx : x \in Node /\ tx[x] \in TransactionRecord
                         /\ \A x \in Node : tx[x] \in TransactionRecord
  BY DEF Typed, TypeOK, Node

LEMMA TouchTyped == ASSUME Typed, NEW S, Touch(S)
                    PROVE  fate' \in {"running", "exited", "undefined"}
  BY DEF Typed, TypeOK, Touch

(* A step that gives thread t, or transaction x, a new value.              *)
LEMMA ThUpdate ==
  ASSUME Typed, NEW t \in Tx, NEW l \in Local, th' = [th EXCEPT ![t] = l]
  PROVE  /\ th' \in [Tx -> Local]
         /\ \A u \in Tx \ {t} : th'[u] = th[u]
         /\ th'[t] = l
  BY DEF Typed, TypeOK

LEMMA TxUpdate ==
  ASSUME NEW f \in [Node -> TransactionRecord], NEW x \in Node, NEW r \in TransactionRecord,
         tx' = [f EXCEPT ![x] = r]
  PROVE  /\ tx' \in [Node -> TransactionRecord]
         /\ \A u \in Node \ {x} : tx'[u] = f[u]
         /\ tx'[x] = r
  OBVIOUS

LEMMA TxQuiet ==
  ASSUME Typed, NEW x \in Node, NEW r \in TransactionRecord, tx' = [tx EXCEPT ![x] = r],
         r.status = tx[x].status, r.depends = tx[x].depends
  PROVE  tx' \in [Node -> TransactionRecord] /\ SameTx
  BY Records, TxUpdate DEF SharedTyped, SameTx

(* A step of thread t leaves the others, and their dependencies.           *)
LEMMA StepTyped ==
  ASSUME Typed, NEW t \in Tx, SharedTyped',
         NEW l \in Local, th' = [th EXCEPT ![t] = l], Own(l),
         l.pc = "commit_scan" => l.k \in 1 .. Len(tx'[t].depends),
         \A u \in Tx \ {t} : tx'[u].depends = tx[u].depends
  PROVE  Typed'
  <1>1. th' \in [Tx -> Local] /\ (\A u \in Tx \ {t} : th'[u] = th[u]) /\ th'[t] = l
    BY ThUpdate
  <1>2. \A u \in Tx : Own(th'[u])
    BY <1>1, Records
  <1>3. \A u \in Tx : th'[u].pc = "commit_scan" => th'[u].k \in 1 .. Len(tx'[u].depends)
    BY <1>1 DEF Typed, TypeOK
  <1> QED BY <1>1, <1>2, <1>3 DEF Typed, TypeOK, ArgInv, Own, SharedTyped

LEMMA StepQuiet ==
  ASSUME Typed, NEW t \in Tx, SharedTyped', SameTx,
         NEW l \in Local, th' = [th EXCEPT ![t] = l], Own(l), l.pc # "commit_scan",
         th[t].pc # "done", th[t].pc \in {"commit_unref", "commit_unlink"} => l.pc \in {"commit_unlink", "done"}
  PROVE  Typed' /\ Quiet(t)
  BY StepTyped, ThUpdate DEF Quiet, SameTx

(* From one place outside trans_abort to another.                          *)
Calm == {"idle", "done", "store_enter", "store", "store_purge", "store_unlock", "store_return",
         "commit_lock", "commit_unref", "commit_unlink"} \cup CreatePC

LEMMA CalmOwn ==
  ASSUME Typed, NEW t \in Tx, NEW l \in Local, l.pc \in Calm,
         th[t].pc \notin AbortPC \cup {"store_ref"},
         l.stack = th[t].stack, l.ret = th[t].ret
  PROVE  Own(l) /\ l.pc # "commit_scan"
  BY Records DEF Own, ArgOf, Calm, AbortPC, CreatePC

LEMMA GotoTyped ==
  ASSUME Typed, NEW t \in Tx, NEW to \in PC, Goto(t, to)
  PROVE  \E l \in Local : /\ th' = [th EXCEPT ![t] = l]
                          /\ l.pc = to /\ l.stack = th[t].stack /\ l.ret = th[t].ret
                          /\ l.arg = th[t].arg /\ l.k = th[t].k
  <1> DEFINE l == [th[t] EXCEPT !.pc = to]
  <1>1. l \in Local /\ l.pc = to /\ l.stack = th[t].stack /\ l.ret = th[t].ret
        /\ l.arg = th[t].arg /\ l.k = th[t].k
    BY ThLocal DEF Local
  <1>2. th' = [th EXCEPT ![t] = l]
    BY DEF Goto
  <1> HIDE DEF l
  <1> QED BY <1>1, <1>2

LEMMA GotoCalm ==
  ASSUME Typed, NEW t \in Tx, SharedTyped', SameTx, NEW to \in Calm, Goto(t, to),
         th[t].pc \notin AbortPC \cup {"store_ref", "done"},
         th[t].pc \in {"commit_unref", "commit_unlink"} => to \in {"commit_unlink", "done"}
  PROVE  Typed' /\ Quiet(t)
  <1>1. to \in PC
    BY DEF Calm, PC, CreatePC, StorePC, CommitPC
  <1>2. PICK l \in Local : /\ th' = [th EXCEPT ![t] = l]
                           /\ l.pc = to /\ l.stack = th[t].stack /\ l.ret = th[t].ret
    BY <1>1, GotoTyped
  <1>3. Own(l) /\ l.pc # "commit_scan"
    BY <1>2, CalmOwn
  <1> QED BY <1>2, <1>3, StepQuiet

(* trans_ref and trans_unref.                                              *)
LEMMA RefTyped == ASSUME Typed, NEW x \in Node, Ref(x)
                  PROVE  tx' \in [Node -> TransactionRecord] /\ SameTx
  <1> DEFINE r == [tx[x] EXCEPT !.refcnt = tx[x].refcnt + 1]
  <1>1. tx[x] \in TransactionRecord
    BY TxRecord
  <1>2. r \in TransactionRecord /\ r.status = tx[x].status /\ r.depends = tx[x].depends
    BY <1>1 DEF TransactionRecord
  <1>3. tx' = [tx EXCEPT ![x] = r]
    BY DEF Ref
  <1> HIDE DEF r
  <1> QED BY <1>2, <1>3, TxQuiet

LEMMA DropTyped ==
  ASSUME Typed, NEW x \in Node, tx' = [tx EXCEPT ![x].refcnt = @ - 1]
  PROVE  tx' \in [Node -> TransactionRecord] /\ SameTx
  <1> DEFINE r == [tx[x] EXCEPT !.refcnt = tx[x].refcnt - 1]
  <1>1. tx[x].refcnt - 1 \in Int
    BY Records DEF TransactionRecord
  <1>2. r \in TransactionRecord /\ r.status = tx[x].status /\ r.depends = tx[x].depends
    BY <1>1, TxRecord DEF TransactionRecord
  <1>3. tx' = [tx EXCEPT ![x] = r]
    OBVIOUS
  <1> HIDE DEF r
  <1> QED BY <1>2, <1>3, TxQuiet

LEMMA UnrefTyped ==
  ASSUME Typed, NEW t \in Tx, NEW x \in Node, NEW unlink, NEW return, Unref(t, x, unlink, return)
  PROVE  /\ tx' \in [Node -> TransactionRecord] /\ SameTx
         /\ next' \in [Node -> Node] /\ prev' \in [Node -> Node]
         /\ fate' \in {"running", "exited", "undefined"}
         /\ th' = unlink \/ th' = return
  <1>1. prev' = prev /\ (th' = unlink \/ th' = return) /\ SharedTyped
    BY Records DEF Unref
  <1>2. CASE tx[x].refcnt = 1
    <2> DEFINE r == [tx[x] EXCEPT !.mutex = t]
    <2>1. r \in TransactionRecord /\ r.status = tx[x].status /\ r.depends = tx[x].depends
      BY TxRecord DEF TransactionRecord
    <2>2. tx' = [tx EXCEPT ![x] = r]
      BY <1>2 DEF Unref
    <2> HIDE DEF r
    <2>3. tx' \in [Node -> TransactionRecord] /\ SameTx
      BY <2>1, <2>2, TxQuiet
    <2>4. next' \in [Node -> Node]
      BY <1>1, <1>2 DEF Unref, SharedTyped
    <2>5. fate' \in {"running", "exited", "undefined"}
      BY <1>2, TouchTyped DEF Unref
    <2> QED BY <1>1, <2>3, <2>4, <2>5 DEF SharedTyped
  <1>3. CASE tx[x].refcnt # 1
    <2>1. tx' \in [Node -> TransactionRecord] /\ SameTx
      BY <1>3, DropTyped DEF Unref
    <2>2. next' = next /\ fate' \in {"running", "exited", "undefined"}
      BY <1>3, TouchTyped DEF Unref
    <2> QED BY <1>1, <2>1, <2>2 DEF SharedTyped
  <1> QED BY <1>2, <1>3

LEMMA UnlinkTyped ==
  ASSUME Typed, NEW x \in Node, Unlink(x)
  PROVE  /\ tx' \in [Node -> TransactionRecord] /\ SameTx
         /\ next' \in [Node -> Node] /\ prev' \in [Node -> Node]
         /\ fate' \in {"running", "exited", "undefined"}
  <1> DEFINE r == [tx[x] EXCEPT !.mutex = NoTx, !.freed = TRUE]
  <1>1. r \in TransactionRecord /\ r.status = tx[x].status /\ r.depends = tx[x].depends
    <2>1. tx[x] \in TransactionRecord /\ NoTx \in Node
      BY TxRecord DEF Node
    <2> QED BY <2>1 DEF TransactionRecord
  <1>2. tx' = [tx EXCEPT ![x] = r]
    BY DEF Unlink
  <1> HIDE DEF r
  <1>3. tx' \in [Node -> TransactionRecord] /\ SameTx
    BY <1>1, <1>2, TxQuiet
  <1>4. next' \in [Node -> Node] /\ prev' \in [Node -> Node]
    BY Records DEF Unlink, SharedTyped
  <1> QED BY <1>3, <1>4, TouchTyped DEF Unlink

-----------------------------------------------------------------------------
(* trans_create *)

LEMMA CreateQuiet == ASSUME Typed, NEW t \in Tx, Create(t)
                     PROVE  Typed' /\ Quiet(t)
  <1>1. CASE CreateId(t)
    <2> DEFINE r == [tx[t] EXCEPT !.id = counter, !.mutex = t]
    <2>1. r \in TransactionRecord /\ r.status = tx[t].status /\ r.depends = tx[t].depends
      <3>1. tx[t] \in TransactionRecord /\ t \in Node /\ counter \in Nat
        BY TxRecord, Records DEF SharedTyped
      <3> QED BY <3>1 DEF TransactionRecord
    <2>2. tx' = [tx EXCEPT ![t] = r]
      BY <1>1 DEF CreateId
    <2> HIDE DEF r
    <2>3. tx' \in [Node -> TransactionRecord] /\ SameTx
      BY <2>1, <2>2, TxQuiet, TxRecord
    <2>4. SharedTyped'
      BY <1>1, <2>3, Records DEF CreateId, list, SharedTyped
    <2> QED BY <1>1, <2>3, <2>4, GotoCalm DEF CreateId, At, Calm, AbortPC, CreatePC
  <1>2. CASE CreateRead(t)
    <2> DEFINE l == [th[t] EXCEPT !.pc = "create_count", !.k = counter]
    <2>1. l \in Local /\ l.pc = "create_count" /\ l.stack = th[t].stack /\ l.ret = th[t].ret
      <3>1. "create_count" \in PC
        BY DEF PC, CreatePC
      <3>2. th[t] \in Local /\ counter \in Nat
        BY Records DEF SharedTyped
      <3> QED BY <3>1, <3>2 DEF Local
    <2>2. th' = [th EXCEPT ![t] = l]
      BY <1>2 DEF CreateRead
    <2> HIDE DEF l
    <2>3. SharedTyped' /\ SameTx
      BY <1>2, Records DEF CreateRead, list, SharedTyped, SameTx
    <2>4. Own(l) /\ l.pc # "commit_scan"
      BY <1>2, <2>1, CalmOwn DEF CreateRead, At, Calm, AbortPC, CreatePC
    <2> QED BY <1>2, <2>1, <2>2, <2>3, <2>4, StepQuiet DEF CreateRead, At
  <1>3. CASE CreateCount(t)
    <2> DEFINE l == [th[t] EXCEPT !.pc = "create_link", !.k = 0]
               r == [tx[t] EXCEPT !.refcnt = 1]
    <2>1. r \in TransactionRecord /\ r.status = tx[t].status /\ r.depends = tx[t].depends
      BY TxRecord DEF TransactionRecord
    <2>2. tx' = [tx EXCEPT ![t] = r]
      BY <1>3 DEF CreateCount
    <2>3. l \in Local /\ l.pc = "create_link" /\ l.stack = th[t].stack /\ l.ret = th[t].ret
      <3>1. "create_link" \in PC
        BY DEF PC, CreatePC
      <3>2. th[t] \in Local
        BY Records
      <3> QED BY <3>1, <3>2 DEF Local
    <2>4. th' = [th EXCEPT ![t] = l]
      BY <1>3 DEF CreateCount
    <2>5. counter' \in Nat
      BY <1>3, Records DEF CreateCount, Local
    <2> HIDE DEF l, r
    <2>6. tx' \in [Node -> TransactionRecord] /\ SameTx
      BY <2>1, <2>2, TxQuiet, TxRecord
    <2>7. SharedTyped'
      BY <1>3, <2>5, <2>6, Records DEF CreateCount, list, SharedTyped
    <2>8. Own(l) /\ l.pc # "commit_scan"
      BY <1>3, <2>3, CalmOwn DEF CreateCount, At, Calm, AbortPC, CreatePC
    <2> QED BY <1>3, <2>3, <2>4, <2>6, <2>7, <2>8, StepQuiet DEF CreateCount, At
  <1>4. CASE CreateLink(t)
    <2>1. SharedTyped' /\ SameTx
      BY <1>4, Records, TouchTyped DEF CreateLink, SharedTyped, Node, SameTx
    <2> QED BY <1>4, <2>1, GotoCalm DEF CreateLink, At, Calm, AbortPC, CreatePC
  <1>5. CASE CreatePrev(t)
    <2>1. SharedTyped' /\ SameTx
      BY <1>5, Records DEF CreatePrev, SharedTyped, Node, SameTx
    <2> QED BY <1>5, <2>1, GotoCalm DEF CreatePrev, At, Calm, AbortPC, CreatePC
  <1>6. CASE CreateTail(t)
    <2> DEFINE r == [tx[t] EXCEPT !.mutex = NoTx]
    <2>1. r \in TransactionRecord /\ r.status = tx[t].status /\ r.depends = tx[t].depends
      BY TxRecord DEF TransactionRecord, Node
    <2>2. tx' = [tx EXCEPT ![t] = r]
      BY <1>6 DEF CreateTail
    <2> HIDE DEF r
    <2>3. tx' \in [Node -> TransactionRecord] /\ SameTx
      BY <2>1, <2>2, TxQuiet, TxRecord
    <2>4. SharedTyped'
      BY <1>6, <2>3, Records DEF CreateTail, SharedTyped, Node
    <2> QED BY <1>6, <2>3, <2>4, GotoCalm DEF CreateTail, At, Calm, AbortPC, CreatePC
  <1> QED BY <1>1, <1>2, <1>3, <1>4, <1>5, <1>6 DEF Create

-----------------------------------------------------------------------------
(* trans_abort *)

(* From one place inside trans_abort to another.                           *)
LEMMA GotoAbort ==
  ASSUME Typed, NEW t \in Tx, SharedTyped', NEW to \in AbortPC, Goto(t, to), th[t].pc \in AbortPC,
         \A u \in Tx \ {t} : tx'[u].depends = tx[u].depends
  PROVE  /\ Typed'
         /\ SameTx => Quiet(t)
  <1>1. to \in PC
    BY DEF PC
  <1>2. PICK l \in Local : /\ th' = [th EXCEPT ![t] = l]
                           /\ l.pc = to /\ l.stack = th[t].stack /\ l.ret = th[t].ret
                           /\ l.arg = th[t].arg
    BY <1>1, GotoTyped
  <1>3. Own(l) /\ l.pc # "commit_scan"
    BY <1>2, Records DEF Own, ArgOf, AbortPC
  <1>4. th[t].pc # "done" /\ th[t].pc \notin {"commit_unref", "commit_unlink"}
    BY DEF AbortPC
  <1>5. Typed'
    BY <1>2, <1>3, StepTyped
  <1>6. SameTx => Quiet(t)
    BY <1>2, <1>3, <1>4, StepQuiet
  <1> QED BY <1>5, <1>6

(* A new stack, inside trans_abort.                                        *)
LEMMA StackQuiet ==
  ASSUME Typed, NEW t \in Tx, SharedTyped', SameTx, th[t].pc \in AbortPC,
         NEW to \in AbortPC, NEW s \in Seq(Frame), s # << >>,
         th' = [th EXCEPT ![t].pc = to, ![t].stack = s]
  PROVE  Typed' /\ Quiet(t)
  <1> DEFINE l == [th[t] EXCEPT !.pc = to, !.stack = s]
  <1>1. /\ l \in Local /\ l.pc = to /\ l.stack = s
        /\ l.ret = th[t].ret /\ l.arg = th[t].arg
    <2>1. to \in PC
      BY DEF PC
    <2>2. th[t] \in Local
      BY Records
    <2> QED BY <2>1, <2>2 DEF Local
  <1>2. th' = [th EXCEPT ![t] = l]
    OBVIOUS
  <1> HIDE DEF l
  <1>3. Own(l) /\ l.pc # "commit_scan"
    BY <1>1, Records DEF Own, ArgOf, AbortPC
  <1> QED BY <1>1, <1>2, <1>3, StepQuiet DEF AbortPC

LEMMA AbortScanQuiet ==
  ASSUME Typed, NEW t \in Tx, AbortScan(t) \/ AbortId(t) \/ AbortDeps(t) \/ AbortSearch(t)
  PROVE  Typed' /\ Quiet(t)
  <1>1. th[t].pc \in AbortPC /\ UNCHANGED <<counter, tx, list, map, versions>>
    BY DEF AbortScan, AbortId, AbortDeps, AbortSearch, At, AbortPC
  <1>2. fate' \in {"running", "exited", "undefined"}
    <2>1. CASE fate' = "undefined"
      BY <2>1
    <2>2. CASE fate' # "undefined"
      BY <2>2, TouchTyped DEF AbortScan, AbortId, AbortDeps, AbortSearch
    <2> QED BY <2>1, <2>2
  <1>3. SharedTyped' /\ SameTx
    BY <1>1, <1>2, Records DEF list, SharedTyped, SameTx
  <1>4. \E to \in AbortPC : Goto(t, to)
    BY DEF AbortScan, AbortId, AbortDeps, AbortSearch, AbortPC
  <1> QED BY <1>1, <1>3, <1>4, GotoAbort DEF SameTx

LEMMA AbortCallQuiet == ASSUME Typed, NEW t \in Tx, AbortCall(t)
                        PROVE  Typed' /\ Quiet(t)
  <1> DEFINE n == Ahead(t)
             s == th[t].stack
             q == <<[tx |-> n, cur |-> NoTx]>> \o s
  <1>1. th[t].pc \in AbortPC
    BY DEF AbortCall, At, AbortPC
  <1>2. n \in Node /\ s \in Seq(Frame)
    BY <1>1, TopTyped, Records DEF Ahead, SharedTyped, Local
  <1>3. SharedTyped' /\ SameTx
    BY Records, TouchTyped DEF AbortCall, list, SharedTyped, SameTx
  <1> HIDE DEF n
  <1>4. <<[tx |-> n, cur |-> NoTx]>> \in Seq(Frame)
    BY <1>2 DEF Frame, Node
  <1>5. q \in Seq(Frame) /\ q # << >>
    BY <1>2, <1>4
  <1>6. th' = [th EXCEPT ![t].pc = "abort_lock", ![t].stack = q]
    BY DEF AbortCall, n
  <1> HIDE DEF q
  <1> QED BY <1>1, <1>3, <1>5, <1>6, StackQuiet DEF AbortPC

LEMMA AbortUnlockQuiet == ASSUME Typed, NEW t \in Tx, AbortUnlock(t)
                          PROVE  Typed' /\ Quiet(t)
  <1> DEFINE x == Top(t).tx
             r == [tx[x] EXCEPT !.mutex = NoTx]
  <1>1. th[t].pc \in AbortPC
    BY DEF AbortUnlock, At, AbortPC
  <1>2. x \in Node
    BY <1>1, TopTyped
  <1>3. r \in TransactionRecord /\ r.status = tx[x].status /\ r.depends = tx[x].depends
    BY <1>2, TxRecord DEF TransactionRecord, Node
  <1>4. tx' = [tx EXCEPT ![x] = r]
    BY DEF AbortUnlock
  <1> HIDE DEF r
  <1>5. tx' \in [Node -> TransactionRecord] /\ SameTx
    BY <1>2, <1>3, <1>4, TxQuiet
  <1>6. SharedTyped'
    BY <1>5, Records DEF AbortUnlock, list, SharedTyped
  <1> QED BY <1>1, <1>5, <1>6, GotoAbort DEF AbortUnlock, AbortPC, SameTx

(* The return of a call of trans_abort.                                    *)
LEMMA ReturnQuiet ==
  ASSUME Typed, NEW t \in Tx, SharedTyped', SameTx, th[t].pc \in AbortPC, th' = Returned(t)
  PROVE  Typed' /\ Quiet(t)
  <1> DEFINE s == th[t].stack
             q == Tail(th[t].stack)
  <1>1. s \in Seq(Frame) /\ s # << >> /\ Len(s) \in Nat /\ q \in Seq(Frame)
    BY Records DEF Local, Own
  <1>2. CASE Len(s) > 1
    <2>1. th' = [th EXCEPT ![t].pc = "abort_next", ![t].stack = q]
      BY <1>2 DEF Returned
    <2>2. q # << >>
      BY <1>1, <1>2, TailTyped
    <2> HIDE DEF q
    <2> QED BY <1>1, <2>1, <2>2, StackQuiet DEF AbortPC
  <1>3. CASE ~(Len(s) > 1)
    <2> DEFINE l == [th[t] EXCEPT !.pc = th[t].ret, !.stack = << >>, !.ret = "done"]
    <2>1. th[t] \in Local /\ th[t].ret \in {"done", "store_drop", "store_unlock"}
      BY Records DEF Local
    <2>2. th[t].ret \in PC /\ th[t].ret \notin AbortPC
      BY <2>1 DEF PC, StorePC, AbortPC, CommitPC, CreatePC
    <2>3. /\ l \in Local /\ l.pc = th[t].ret /\ l.stack = << >>
          /\ l.ret = "done" /\ l.arg = th[t].arg
      <3>1. << >> \in Seq(Frame)
        OBVIOUS
      <3> QED BY <2>1, <2>2, <3>1 DEF Local
    <2>4. th' = [th EXCEPT ![t] = l]
      BY <1>3 DEF Returned
    <2> HIDE DEF l
    <2>5. Own(l) /\ l.pc # "commit_scan"
      BY <2>1, <2>2, <2>3, Records DEF Own, ArgOf
    <2> QED BY <2>3, <2>4, <2>5, StepQuiet DEF AbortPC
  <1> QED BY <1>2, <1>3

LEMMA AbortUnrefQuiet == ASSUME Typed, NEW t \in Tx, AbortUnref(t)
                         PROVE  Typed' /\ Quiet(t)
  <1>1. th[t].pc \in AbortPC /\ Top(t).tx \in Node
    BY TopTyped DEF AbortUnref, At, AbortPC
  <1>2. /\ tx' \in [Node -> TransactionRecord] /\ SameTx
        /\ next' \in [Node -> Node] /\ prev' \in [Node -> Node]
        /\ fate' \in {"running", "exited", "undefined"}
        /\ th' = [th EXCEPT ![t].pc = "abort_unlink"] \/ th' = Returned(t)
    BY <1>1, UnrefTyped DEF AbortUnref
  <1>3. SharedTyped'
    BY <1>2, Records DEF AbortUnref, SharedTyped
  <1>4. CASE Goto(t, "abort_unlink")
    BY <1>1, <1>2, <1>3, <1>4, GotoAbort DEF AbortPC, SameTx
  <1>5. CASE th' = Returned(t)
    BY <1>1, <1>2, <1>3, <1>5, ReturnQuiet
  <1> QED BY <1>2, <1>4, <1>5 DEF Goto

LEMMA AbortUnlinkQuiet == ASSUME Typed, NEW t \in Tx, AbortUnlink(t)
                          PROVE  Typed' /\ Quiet(t)
  <1>1. th[t].pc \in AbortPC /\ Top(t).tx \in Node
    BY TopTyped DEF AbortUnlink, At, AbortPC
  <1>2. SharedTyped' /\ SameTx
    BY <1>1, UnlinkTyped, Records DEF AbortUnlink, SharedTyped
  <1> QED BY <1>1, <1>2, ReturnQuiet DEF AbortUnlink

LEMMA AbortNextQuiet == ASSUME Typed, NEW t \in Tx, AbortNext(t)
                        PROVE  Typed' /\ Quiet(t)
  <1> DEFINE s == th[t].stack
             n == next[s[1].cur]
             q == [s EXCEPT ![1].cur = n]
  <1>1. th[t].pc \in AbortPC
    BY DEF AbortNext, At, AbortPC
  <1>2. s \in Seq(Frame) /\ s # << >>
    BY <1>1, Records DEF Local, Own
  <1>3. s[1] \in Frame
    BY <1>2
  <1>4. n \in Node
    BY <1>3, Records DEF SharedTyped, Frame
  <1>5. q \in Seq(Frame) /\ q # << >>
    BY <1>2, <1>4, CurTyped
  <1>6. th' = [th EXCEPT ![t].pc = "abort_scan", ![t].stack = q]
    BY DEF AbortNext
  <1>7. SharedTyped' /\ SameTx
    BY Records, TouchTyped DEF AbortNext, list, SharedTyped, SameTx
  <1> HIDE DEF q
  <1> QED BY <1>1, <1>5, <1>6, <1>7, StackQuiet DEF AbortPC

(* The call of trans_abort.                                                *)
LEMMA CallQuiet ==
  ASSUME Typed, NEW t \in Tx, NEW x \in Tx, NEW ret \in {"done", "store_drop", "store_unlock"},
         CallAbort(t, x, ret), SharedTyped', SameTx,
         th[t].pc \in {"idle", "store_ref"}, ret = "store_drop" => th[t].arg \in Tx
  PROVE  Typed' /\ Quiet(t)
  <1> DEFINE s == <<[tx |-> x, cur |-> NoTx]>>
             l == [th[t] EXCEPT !.pc = "abort_lock", !.stack = s, !.ret = ret]
  <1>1. s \in Seq(Frame) /\ s # << >>
    BY DEF Frame, Node
  <1>2. th' = [th EXCEPT ![t] = l]
    BY DEF CallAbort
  <1>3. "abort_lock" \in PC /\ "abort_lock" \in AbortPC /\ th[t] \in Local
    BY ThLocal DEF PC, AbortPC
  <1> HIDE DEF s
  <1>4. /\ l \in Local /\ l.pc = "abort_lock" /\ l.stack = s
        /\ l.ret = ret /\ l.arg = th[t].arg
    BY <1>1, <1>3 DEF Local
  <1> HIDE DEF l
  <1>5. Own(l) /\ l.pc # "commit_scan"
    BY <1>1, <1>3, <1>4 DEF Own, ArgOf
  <1> QED BY <1>2, <1>4, <1>5, StepQuiet

-----------------------------------------------------------------------------
(* The calls of the object store *)

(* Outside trans_abort and the calls that need arg, ret is not set.        *)
LEMMA Unset == ASSUME Typed, NEW t \in Tx, th[t].pc \notin AbortPC \cup {"store_ref"}
               PROVE  th[t].stack = << >> /\ th[t].ret = "done"
  BY Records DEF Own, ArgOf

LEMMA StoreCallQuiet == ASSUME Typed, NEW t \in Tx, StoreCall(t)
                        PROVE  Typed' /\ Quiet(t)
  <1> DEFINE n == th[t].ops + 1
             l == [th[t] EXCEPT !.pc = "store_enter", !.ops = n]
  <1>1. th[t] \in Local /\ n \in Nat /\ "store_enter" \in PC /\ th[t].pc = "idle"
    BY ThLocal DEF StoreCall, At, PC, StorePC, Local
  <1> HIDE DEF n
  <1>2. l \in Local /\ l.pc = "store_enter" /\ l.stack = th[t].stack /\ l.ret = th[t].ret
    BY <1>1 DEF Local
  <1>3. th' = [th EXCEPT ![t] = l]
    BY DEF StoreCall, n
  <1> HIDE DEF l
  <1>4. Own(l) /\ l.pc # "commit_scan"
    BY <1>1, <1>2, CalmOwn DEF Calm, AbortPC
  <1>5. SharedTyped' /\ SameTx
    BY Records DEF StoreCall, list, SharedTyped, SameTx
  <1> QED BY <1>1, <1>2, <1>3, <1>4, <1>5, StepQuiet

LEMMA StoreEnterQuiet == ASSUME Typed, NEW t \in Tx, StoreEnter(t)
                         PROVE  Typed' /\ Quiet(t)
  <1>1. SharedTyped' /\ SameTx
    BY Records DEF StoreEnter, list, SharedTyped, SameTx
  <1> QED BY <1>1, GotoCalm DEF StoreEnter, At, Calm, AbortPC

LEMMA MeetQuiet ==
  ASSUME Typed, NEW t \in Tx, NEW d \in Tx,
         MeetPending(t, d) \/ MeetYounger(t, d) \/ MeetAborted(t, d)
  PROVE  Typed' /\ Quiet(t)
  <1>1. /\ th[t] \in Local /\ th[t].pc \in {"store", "store_purge"}
        /\ "dep_lock" \in PC /\ "store_ref" \in PC
    BY ThLocal DEF MeetPending, MeetYounger, MeetAborted, InStore, At, PC, StorePC
  <1>2. th[t].stack = << >> /\ th[t].ret = "done"
    BY <1>1, Unset DEF AbortPC
  <1>3. fate' \in {"running", "exited", "undefined"}
    BY TouchTyped DEF MeetPending, MeetYounger, MeetAborted, Meets
  <1>4. SharedTyped' /\ SameTx
    BY <1>3, Records DEF MeetPending, MeetYounger, MeetAborted, list, SharedTyped, SameTx
  <1>5. CASE MeetPending(t, d)
    <2> DEFINE l == [th[t] EXCEPT !.pc = "dep_lock", !.arg = d, !.met = th[t].met \cup {d}]
    <2>1. l \in Local /\ l.pc = "dep_lock" /\ l.stack = << >> /\ l.ret = "done" /\ l.arg = d
      BY <1>1, <1>2 DEF Local, Node
    <2>2. th' = [th EXCEPT ![t] = l]
      BY <1>5 DEF MeetPending
    <2> HIDE DEF l
    <2>3. Own(l) /\ l.pc # "commit_scan"
      BY <2>1 DEF Own, ArgOf, AbortPC
    <2> QED BY <1>1, <1>4, <2>1, <2>2, <2>3, StepQuiet
  <1>6. ASSUME NEW a \in Tx, NEW ret \in {"store_drop", "store_unlock"},
               th' = [th EXCEPT ![t].pc = "store_ref", ![t].arg = a, ![t].ret = ret]
        PROVE  Typed' /\ Quiet(t)
    <2> DEFINE l == [th[t] EXCEPT !.pc = "store_ref", !.arg = a, !.ret = ret]
    <2>1. l \in Local /\ l.pc = "store_ref" /\ l.stack = << >> /\ l.ret = ret /\ l.arg = a
      BY <1>1, <1>2 DEF Local, Node
    <2>2. th' = [th EXCEPT ![t] = l]
      BY <1>6
    <2> HIDE DEF l
    <2>3. Own(l) /\ l.pc # "commit_scan"
      BY <2>1 DEF Own, ArgOf, AbortPC
    <2> QED BY <1>1, <1>4, <2>1, <2>2, <2>3, StepQuiet
  <1> QED BY <1>5, <1>6 DEF MeetYounger, MeetAborted

LEMMA StoreRefQuiet == ASSUME Typed, NEW t \in Tx, StoreRef(t)
                       PROVE  Typed' /\ Quiet(t)
  <1>1. th[t].pc = "store_ref" /\ th[t].arg \in Tx
    BY Records DEF StoreRef, At, Own, ArgOf
  <1>2. th[t].ret \in {"done", "store_drop", "store_unlock"}
    BY ThLocal DEF Local
  <1>3. tx' \in [Node -> TransactionRecord] /\ SameTx
    BY <1>1, RefTyped, TxRecord DEF StoreRef
  <1>4. fate' \in {"running", "exited", "undefined"}
    BY TouchTyped DEF StoreRef, Ref
  <1>5. SharedTyped'
    BY <1>3, <1>4, Records DEF StoreRef, list, SharedTyped
  <1> QED BY <1>1, <1>2, <1>3, <1>5, CallQuiet DEF StoreRef

LEMMA StoreDropQuiet == ASSUME Typed, NEW t \in Tx, StoreDrop(t)
                        PROVE  Typed' /\ Quiet(t)
  <1>1. th[t].pc = "store_drop" /\ th[t].arg \in Tx
    BY Records DEF StoreDrop, At, Own, ArgOf
  <1>2. tx' \in [Node -> TransactionRecord] /\ SameTx
    BY <1>1, DropTyped, TxRecord DEF StoreDrop
  <1>3. fate' \in {"running", "exited", "undefined"}
    BY TouchTyped DEF StoreDrop
  <1>4. SharedTyped'
    BY <1>2, <1>3, Records DEF StoreDrop, list, SharedTyped
  <1> QED BY <1>1, <1>2, <1>4, GotoCalm DEF StoreDrop, Calm, AbortPC

LEMMA DepLockQuiet == ASSUME Typed, NEW t \in Tx, DepLock(t)
                      PROVE  Typed' /\ Quiet(t)
  <1> DEFINE r == [tx[t] EXCEPT !.mutex = t]
  <1>1. r \in TransactionRecord /\ r.status = tx[t].status /\ r.depends = tx[t].depends
    BY TxRecord DEF TransactionRecord, Node
  <1>2. tx' = [tx EXCEPT ![t] = r]
    BY DEF DepLock
  <1> HIDE DEF r
  <1>3. tx' \in [Node -> TransactionRecord] /\ SameTx
    BY <1>1, <1>2, TxQuiet, TxRecord
  <1>4. fate' \in {"running", "exited", "undefined"}
    BY TouchTyped DEF DepLock
  <1>5. SharedTyped'
    BY <1>3, <1>4, Records DEF DepLock, list, SharedTyped
  <1>6. th[t].pc = "dep_lock" /\ th[t].arg \in Tx /\ "dep_link" \in PC
    BY Records DEF DepLock, At, Own, ArgOf, PC, StorePC
  <1>7. th[t].stack = << >> /\ th[t].ret = "done"
    BY <1>6, Unset DEF AbortPC
  <1>8. PICK l \in Local : /\ th' = [th EXCEPT ![t] = l]
                           /\ l.pc = "dep_link" /\ l.stack = th[t].stack /\ l.ret = th[t].ret
                           /\ l.arg = th[t].arg
    BY <1>6, GotoTyped DEF DepLock
  <1>9. Own(l) /\ l.pc # "commit_scan"
    BY <1>6, <1>7, <1>8 DEF Own, ArgOf, AbortPC
  <1> QED BY <1>3, <1>5, <1>6, <1>8, <1>9, StepQuiet

LEMMA StoreCreateQuiet == ASSUME Typed, NEW t \in Tx, StoreCreate(t)
                          PROVE  Typed' /\ Quiet(t)
  <1>1. th[t].pc \in {"store", "store_purge"}
    BY DEF StoreCreate, InStore, At
  <1>2. tx' \in [Node -> TransactionRecord] /\ SameTx
    <2>1. CASE t \in versions
      BY <2>1, Records DEF StoreCreate, SharedTyped, SameTx
    <2>2. CASE t \notin versions
      <3> DEFINE r == [tx[t] EXCEPT !.refcnt = tx[t].refcnt + 1]
      <3>1. r \in TransactionRecord /\ r.status = tx[t].status /\ r.depends = tx[t].depends
        BY TxRecord DEF TransactionRecord
      <3>2. tx' = [tx EXCEPT ![t] = r]
        BY <2>2 DEF StoreCreate
      <3> HIDE DEF r
      <3> QED BY <3>1, <3>2, TxQuiet, TxRecord
    <2> QED BY <2>1, <2>2
  <1>3. fate' \in {"running", "exited", "undefined"}
    BY TouchTyped DEF StoreCreate
  <1>4. SharedTyped'
    BY <1>2, <1>3, Records DEF StoreCreate, list, SharedTyped
  <1> QED BY <1>1, <1>2, <1>4, GotoCalm DEF StoreCreate, Calm, AbortPC

LEMMA StoreUnlockQuiet == ASSUME Typed, NEW t \in Tx, StoreUnlock(t)
                          PROVE  Typed' /\ Quiet(t)
  <1> DEFINE l == [th[t] EXCEPT !.pc = "store_return", !.arg = NoTx, !.met = {}]
  <1>1. th[t] \in Local /\ "store_return" \in PC /\ th[t].pc = "store_unlock"
    BY ThLocal DEF StoreUnlock, At, PC, StorePC
  <1>2. l \in Local /\ l.pc = "store_return" /\ l.stack = th[t].stack /\ l.ret = th[t].ret
    BY <1>1 DEF Local, Node
  <1>3. th' = [th EXCEPT ![t] = l]
    BY DEF StoreUnlock
  <1> HIDE DEF l
  <1>4. Own(l) /\ l.pc # "commit_scan"
    BY <1>1, <1>2, CalmOwn DEF Calm, AbortPC
  <1>5. SharedTyped' /\ SameTx
    BY Records DEF StoreUnlock, list, SharedTyped, SameTx, Node
  <1> QED BY <1>1, <1>2, <1>3, <1>4, <1>5, StepQuiet

LEMMA StoreReturnQuiet == ASSUME Typed, NEW t \in Tx, StoreReturn(t)
                          PROVE  Typed' /\ Quiet(t)
  <1> DEFINE l == [th[t] EXCEPT !.pc = "idle", !.told = tx[t].status]
  <1>1. /\ th[t] \in Local /\ "idle" \in PC /\ th[t].pc = "store_return"
        /\ tx[t].status \in Status
    BY ThLocal, TxRecord DEF StoreReturn, At, PC, StorePC, TransactionRecord
  <1>2. l \in Local /\ l.pc = "idle" /\ l.stack = th[t].stack /\ l.ret = th[t].ret
    BY <1>1 DEF Local
  <1>3. th' = [th EXCEPT ![t] = l]
    BY DEF StoreReturn
  <1> HIDE DEF l
  <1>4. Own(l) /\ l.pc # "commit_scan"
    BY <1>1, <1>2, CalmOwn DEF Calm, AbortPC
  <1>5. fate' \in {"running", "exited", "undefined"}
    BY TouchTyped DEF StoreReturn
  <1>6. SharedTyped' /\ SameTx
    BY <1>5, Records DEF StoreReturn, list, SharedTyped, SameTx
  <1> QED BY <1>1, <1>2, <1>3, <1>4, <1>6, StepQuiet

-----------------------------------------------------------------------------
(* The caller, and trans_unref at the end of trans_commit.                 *)

LEMMA TryCommitQuiet == ASSUME Typed, NEW t \in Tx, TryCommit(t)
                        PROVE  Typed' /\ Quiet(t)
  <1>1. SharedTyped' /\ SameTx
    BY Records DEF TryCommit, list, SharedTyped, SameTx
  <1> QED BY <1>1, GotoCalm DEF TryCommit, At, Calm, AbortPC

LEMMA GiveUpQuiet == ASSUME Typed, NEW t \in Tx, GiveUp(t)
                     PROVE  Typed' /\ Quiet(t)
  <1>1. SharedTyped' /\ SameTx
    BY Records DEF GiveUp, list, SharedTyped, SameTx
  <1> QED BY <1>1, CallQuiet DEF GiveUp, At

LEMMA CommitUnrefQuiet == ASSUME Typed, NEW t \in Tx, CommitUnref(t) \/ CommitUnlink(t)
                          PROVE  Typed' /\ Quiet(t)
  <1>1. t \in Node /\ th[t].pc \in {"commit_unref", "commit_unlink"}
    BY DEF CommitUnref, CommitUnlink, At, Node
  <1>2. \E to \in {"commit_unlink", "done"} : Goto(t, to)
    BY <1>1, UnrefTyped DEF CommitUnref, CommitUnlink, Goto
  <1>3. /\ tx' \in [Node -> TransactionRecord] /\ SameTx
        /\ next' \in [Node -> Node] /\ prev' \in [Node -> Node]
        /\ fate' \in {"running", "exited", "undefined"}
    BY <1>1, UnrefTyped, UnlinkTyped DEF CommitUnref, CommitUnlink
  <1>4. SharedTyped'
    BY <1>3, Records DEF CommitUnref, CommitUnlink, SharedTyped
  <1> QED BY <1>1, <1>2, <1>3, <1>4, GotoCalm DEF Calm, AbortPC

-----------------------------------------------------------------------------
(* What keeps CommitInv: a step that leaves status and dependencies alone, *)
(* one that aborts a transaction, one that commits t, one that makes t     *)
(* depend on another transaction.                                          *)

Others(t) == \A u \in Tx \ {t} : th'[u] = th[u]

(* The dependencies of a transaction are transactions.                     *)
LEMMA DependsTx == ASSUME Typed, NEW u \in Tx, NEW i \in 1 .. Len(tx[u].depends)
                   PROVE  tx[u].depends[i] \in Tx
  BY TxRecord DEF TransactionRecord

(* So are those that a scan has left behind.                               *)
LEMMA ScanRange == ASSUME Typed, NEW u \in Tx, th[u].pc = "commit_scan",
                          NEW i \in 1 .. th[u].k - 1
                   PROVE  i \in 1 .. Len(tx[u].depends) /\ tx[u].depends[i] \in Tx
  <1>1. th[u].k \in 1 .. Len(tx[u].depends) /\ Len(tx[u].depends) \in Nat
    BY TxRecord DEF Typed, TypeOK, TransactionRecord
  <1>2. i \in 1 .. Len(tx[u].depends)
    BY <1>1
  <1> QED BY <1>2, DependsTx

LEMMA DepSetTx == ASSUME Typed, NEW u \in Tx, NEW d \in DepSet(u)
                  PROVE  d \in Tx
  <1>1. PICK i \in DOMAIN tx[u].depends : d = tx[u].depends[i]
    BY DEF DepSet
  <1>2. i \in 1 .. Len(tx[u].depends)
    BY TxRecord DEF TransactionRecord
  <1> QED BY <1>1, <1>2, DependsTx

LEMMA KeptBySame ==
  ASSUME NEW S, IInvBut(S), NEW t \in Tx \ S, Typed', SameTx, Others(t), Scanned(t, th'[t]),
         tx[t].status = "COMMITTED" => th'[t].pc \in {"commit_unref", "commit_unlink", "done"}
  PROVE  CommitInvBut(S)'
  <1>1. (\A u \in Tx \ S : tx[u].status = "COMMITTED" => th[u].pc \in {"commit_unref", "commit_unlink", "done"})'
    BY DEF IInvBut, CommitInvBut, SameTx, Others
  <1>2. ASSUME NEW u \in Tx
        PROVE  Scanned(u, th[u])'
    <2> SUFFICES ASSUME th'[u].pc = "commit_scan", ~th'[u].flag, NEW i \in 1 .. th'[u].k - 1
                 PROVE  tx'[tx'[u].depends[i]].status = "COMMITTED"
      BY DEF Scanned
    <2>1. tx'[u].depends[i] \in Tx /\ tx'[u].depends = tx[u].depends
      <3>1. th'[u].k \in 1 .. Len(tx'[u].depends)
        BY DEF Typed, TypeOK
      <3>2. tx'[u] \in TransactionRecord
        BY DEF Typed, TypeOK, Node
      <3>3. i \in 1 .. Len(tx'[u].depends)
        BY <3>1, <3>2 DEF TransactionRecord
      <3> QED BY <3>2, <3>3 DEF TransactionRecord, SameTx
    <2>2. Scanned(u, th'[u])
      BY DEF IInvBut, CommitInvBut, Others
    <2>3. tx[tx[u].depends[i]].status = "COMMITTED"
      BY <2>2 DEF Scanned
    <2> QED BY <2>1, <2>3 DEF SameTx
  <1>3. CommittedDepsCommitted'
    <2> SUFFICES ASSUME NEW u \in Tx, tx'[u].status = "COMMITTED", NEW d \in DepSet(u)'
                 PROVE  tx'[d].status = "COMMITTED"
      BY DEF CommittedDepsCommitted
    <2>1. tx[u].status = "COMMITTED" /\ d \in DepSet(u)
      BY DEF SameTx, DepSet
    <2>2. tx[d].status = "COMMITTED" /\ d \in Tx
      BY <2>1, DepSetTx DEF IInvBut, CommitInvBut, CommittedDepsCommitted
    <2> QED BY <2>2 DEF SameTx
  <1> QED BY <1>1, <1>2, <1>3 DEF CommitInvBut

LEMMA KeptByQuiet == ASSUME NEW S, IInvBut(S), NEW t \in Tx \ S, Typed', Quiet(t)
                     PROVE  CommitInvBut(S)'
  <1>1. tx[t].status = "COMMITTED" => th'[t].pc \in {"commit_unref", "commit_unlink", "done"}
    BY DEF IInvBut, CommitInvBut, Quiet
  <1>2. Scanned(t, th'[t])
    BY DEF Scanned, Quiet
  <1> QED BY <1>1, <1>2, KeptBySame DEF Quiet, Others

(* x, which has not committed, is aborted, or is pending again.            *)
LEMMA KeptByAbort ==
  ASSUME NEW S, IInvBut(S), NEW t \in Tx \ S, NEW x \in Node, Others(t), th'[t].pc # "commit_scan",
         tx[t].status # "COMMITTED", tx[x].status # "COMMITTED", tx'[x].status # "COMMITTED",
         \A u \in Tx : tx'[u].depends = tx[u].depends,
         \A u \in Tx \ {x} : tx'[u].status = tx[u].status
  PROVE  CommitInvBut(S)'
  <1>1. \A u \in Tx : tx[u].status = "COMMITTED" <=> tx'[u].status = "COMMITTED"
    OBVIOUS
  <1>2. (\A u \in Tx \ S : tx[u].status = "COMMITTED" => th[u].pc \in {"commit_unref", "commit_unlink", "done"})'
    BY <1>1 DEF IInvBut, CommitInvBut, Others
  <1>3. ASSUME NEW u \in Tx
        PROVE  Scanned(u, th[u])'
    <2> SUFFICES ASSUME th'[u].pc = "commit_scan", ~th'[u].flag, NEW i \in 1 .. th'[u].k - 1
                 PROVE  tx'[tx'[u].depends[i]].status = "COMMITTED"
      BY DEF Scanned
    <2>1. th'[u] = th[u]
      BY DEF Others
    <2>2. tx[tx[u].depends[i]].status = "COMMITTED" /\ tx[u].depends[i] \in Tx
      BY <2>1, ScanRange DEF IInvBut, CommitInvBut, Scanned
    <2> QED BY <1>1, <2>2
  <1>4. CommittedDepsCommitted'
    <2> SUFFICES ASSUME NEW u \in Tx, tx'[u].status = "COMMITTED", NEW d \in DepSet(u)'
                 PROVE  tx'[d].status = "COMMITTED"
      BY DEF CommittedDepsCommitted
    <2>1. tx[u].status = "COMMITTED" /\ d \in DepSet(u)
      BY <1>1 DEF DepSet
    <2>2. tx[d].status = "COMMITTED" /\ d \in Tx
      BY <2>1, DepSetTx DEF IInvBut, CommitInvBut, CommittedDepsCommitted
    <2> QED BY <1>1, <2>2
  <1> QED BY <1>2, <1>3, <1>4 DEF CommitInvBut

(* t commits, after every transaction it depends on.                       *)
LEMMA KeptByCommit ==
  ASSUME NEW S, IInvBut(S), NEW t \in Tx \ S, Others(t), th'[t].pc = "commit_unref",
         tx'[t].status = "COMMITTED", \A d \in DepSet(t) : tx[d].status = "COMMITTED",
         \A u \in Tx : tx'[u].depends = tx[u].depends,
         \A u \in Tx \ {t} : tx'[u].status = tx[u].status
  PROVE  CommitInvBut(S)'
  <1>1. \A u \in Tx : tx[u].status = "COMMITTED" => tx'[u].status = "COMMITTED"
    OBVIOUS
  <1>2. (\A u \in Tx \ S : tx[u].status = "COMMITTED" => th[u].pc \in {"commit_unref", "commit_unlink", "done"})'
    BY DEF IInvBut, CommitInvBut, Others
  <1>3. ASSUME NEW u \in Tx
        PROVE  Scanned(u, th[u])'
    <2> SUFFICES ASSUME th'[u].pc = "commit_scan", ~th'[u].flag, NEW i \in 1 .. th'[u].k - 1
                 PROVE  tx'[tx'[u].depends[i]].status = "COMMITTED"
      BY DEF Scanned
    <2>1. th'[u] = th[u]
      BY DEF Others
    <2>2. tx[tx[u].depends[i]].status = "COMMITTED" /\ tx[u].depends[i] \in Tx
      BY <2>1, ScanRange DEF IInvBut, CommitInvBut, Scanned
    <2> QED BY <1>1, <2>2
  <1>4. CommittedDepsCommitted'
    <2> SUFFICES ASSUME NEW u \in Tx, tx'[u].status = "COMMITTED", NEW d \in DepSet(u)'
                 PROVE  tx'[d].status = "COMMITTED"
      BY DEF CommittedDepsCommitted
    <2>1. d \in DepSet(u) /\ d \in Tx
      BY DepSetTx DEF DepSet, IInvBut
    <2>2. tx[d].status = "COMMITTED"
      BY <2>1 DEF IInvBut, CommitInvBut, CommittedDepsCommitted
    <2> QED BY <1>1, <2>1, <2>2
  <1> QED BY <1>2, <1>3, <1>4 DEF CommitInvBut

(* t, which has not committed, comes to depend on another transaction.     *)
LEMMA KeptByDepend ==
  ASSUME NEW S, IInvBut(S), NEW t \in Tx \ S, Others(t), th'[t].pc # "commit_scan",
         tx[t].status # "COMMITTED",
         \A u \in Tx : tx'[u].status = tx[u].status,
         \A u \in Tx \ {t} : tx'[u].depends = tx[u].depends
  PROVE  CommitInvBut(S)'
  <1>1. (\A u \in Tx \ S : tx[u].status = "COMMITTED" => th[u].pc \in {"commit_unref", "commit_unlink", "done"})'
    BY DEF IInvBut, CommitInvBut, Others
  <1>2. ASSUME NEW u \in Tx
        PROVE  Scanned(u, th[u])'
    <2> SUFFICES ASSUME th'[u].pc = "commit_scan", ~th'[u].flag, NEW i \in 1 .. th'[u].k - 1
                 PROVE  tx'[tx'[u].depends[i]].status = "COMMITTED"
      BY DEF Scanned
    <2>1. u # t /\ th'[u] = th[u] /\ tx'[u].depends = tx[u].depends
      BY DEF Others
    <2>2. tx[tx[u].depends[i]].status = "COMMITTED" /\ tx[u].depends[i] \in Tx
      BY <2>1, ScanRange DEF IInvBut, CommitInvBut, Scanned
    <2> QED BY <2>1, <2>2
  <1>3. CommittedDepsCommitted'
    <2> SUFFICES ASSUME NEW u \in Tx, tx'[u].status = "COMMITTED", NEW d \in DepSet(u)'
                 PROVE  tx'[d].status = "COMMITTED"
      BY DEF CommittedDepsCommitted
    <2>1. tx[u].status = "COMMITTED" /\ u # t /\ d \in DepSet(u)
      BY DEF DepSet
    <2>2. tx[d].status = "COMMITTED" /\ d \in Tx
      BY <2>1, DepSetTx DEF IInvBut, CommitInvBut, CommittedDepsCommitted
    <2> QED BY <2>2
  <1> QED BY <1>1, <1>2, <1>3 DEF CommitInvBut

-----------------------------------------------------------------------------
(* The four steps that change status or dependencies.                      *)

LEMMA AbortLockKeeps == ASSUME NEW S, IInvBut(S), NEW t \in Tx \ S, AbortLock(t)
                        PROVE  IInvBut(S)'
  <1> DEFINE x == Top(t).tx
  <1>1. Typed /\ th[t].pc = "abort_lock" /\ th[t].pc \in AbortPC
    BY DEF IInvBut, AbortLock, At, AbortPC
  <1>2. x \in Node
    BY <1>1, TopTyped
  <1>3. tx[t].status # "COMMITTED"
    BY <1>1 DEF IInvBut, CommitInvBut
  <1> HIDE DEF x
  <1>4. UNCHANGED <<counter, list, map, versions>>
    BY DEF AbortLock
  <1>5. CASE fate' = "exited" /\ UNCHANGED <<tx, th>>
    <2>1. Typed'
      BY <1>1, <1>4, <1>5 DEF Typed, TypeOK, ArgInv, list
    <2>2. CommitInvBut(S)'
      BY <1>5 DEF IInvBut, CommitInvBut, Scanned, CommittedDepsCommitted, DepSet
    <2> QED BY <2>1, <2>2 DEF IInvBut
  <1>6. CASE /\ Touch({x})
             /\ tx' = [tx EXCEPT ![x].mutex = t]
             /\ Goto(t, "abort_unlock")
    <2> DEFINE r == [tx[x] EXCEPT !.mutex = t]
    <2>1. r \in TransactionRecord /\ r.status = tx[x].status /\ r.depends = tx[x].depends
      BY <1>1, <1>2, TxRecord DEF TransactionRecord, Node
    <2>2. tx' = [tx EXCEPT ![x] = r]
      BY <1>6
    <2> HIDE DEF r
    <2>3. tx' \in [Node -> TransactionRecord] /\ SameTx
      BY <1>1, <1>2, <2>1, <2>2, TxQuiet
    <2>4. SharedTyped'
      BY <1>1, <1>4, <1>6, <2>3, Records, TouchTyped DEF list, SharedTyped
    <2>5. Typed' /\ Quiet(t)
      BY <1>1, <1>6, <2>3, <2>4, GotoAbort DEF AbortPC, SameTx
    <2> QED BY <2>5, KeptByQuiet DEF IInvBut
  <1>7. CASE /\ tx[x].status = "PENDING" /\ Touch({x})
             /\ tx' = [tx EXCEPT ![x].mutex = t, ![x].status = "ABORTED"]
             /\ Goto(t, "abort_scan")
    <2> DEFINE r == [tx[x] EXCEPT !.mutex = t, !.status = "ABORTED"]
    <2>1. tx[x] \in TransactionRecord /\ t \in Node /\ "ABORTED" \in Status
      BY <1>1, <1>2, TxRecord DEF Node, Status
    <2>2. r \in TransactionRecord /\ r.status = "ABORTED" /\ r.depends = tx[x].depends
      BY <2>1 DEF TransactionRecord
    <2>3. tx' = [tx EXCEPT ![x] = r]
      BY <1>7
    <2> HIDE DEF r
    <2>4. /\ tx' \in [Node -> TransactionRecord]
          /\ \A u \in Tx : tx'[u].depends = tx[u].depends
          /\ \A u \in Tx \ {x} : tx'[u].status = tx[u].status
          /\ tx'[x].status = "ABORTED"
      BY <1>1, <1>2, <2>2, <2>3, Records, TxUpdate DEF SharedTyped
    <2>5. SharedTyped'
      BY <1>1, <1>4, <1>7, <2>4, Records, TouchTyped DEF list, SharedTyped
    <2>6. Typed'
      BY <1>1, <1>7, <2>4, <2>5, GotoAbort DEF AbortPC
    <2>7. Others(t) /\ th'[t].pc # "commit_scan"
      BY <1>1, <1>7 DEF Goto, Others, Typed, TypeOK, Local
    <2> QED BY <1>2, <1>3, <1>7, <2>4, <2>6, <2>7, KeptByAbort DEF IInvBut
  <1> QED BY <1>5, <1>6, <1>7 DEF AbortLock, x

LEMMA DepLinkKeeps == ASSUME NEW S, IInvBut(S), NEW t \in Tx \ S, DepLink(t)
                      PROVE  IInvBut(S)'
  <1> DEFINE a == th[t].arg
             r == [tx[t] EXCEPT !.depends = <<a>> \o tx[t].depends, !.mutex = NoTx]
             f == [tx EXCEPT ![t] = r]
             q == [f[a] EXCEPT !.refcnt = f[a].refcnt + 1]
  <1>1. Typed /\ th[t].pc = "dep_link" /\ a \in Tx
    BY Records DEF IInvBut, DepLink, At, Own, ArgOf
  <1>2. tx[t].status # "COMMITTED"
    BY <1>1 DEF IInvBut, CommitInvBut
  <1>3. tx' = [f EXCEPT ![a] = q]
    BY <1>1 DEF DepLink
  <1>4. r \in TransactionRecord /\ r.status = tx[t].status
    <2>1. tx[t] \in TransactionRecord /\ <<a>> \o tx[t].depends \in Seq(Tx) /\ NoTx \in Node
      BY <1>1, TxRecord DEF TransactionRecord, Node
    <2> QED BY <2>1 DEF TransactionRecord
  <1> HIDE DEF r
  <1>5. /\ f \in [Node -> TransactionRecord]
        /\ \A u \in Tx : f[u].status = tx[u].status
        /\ \A u \in Tx \ {t} : f[u].depends = tx[u].depends
    BY <1>1, <1>4, Records DEF SharedTyped
  <1> HIDE DEF f
  <1>6. q \in TransactionRecord /\ q.status = f[a].status /\ q.depends = f[a].depends
    <2>1. f[a] \in TransactionRecord
      BY <1>1, <1>5, TxRecord
    <2> HIDE DEF a
    <2> QED BY <2>1 DEF TransactionRecord
  <1> HIDE DEF q
  <1>7. /\ tx' \in [Node -> TransactionRecord]
        /\ \A u \in Tx : tx'[u].status = tx[u].status
        /\ \A u \in Tx \ {t} : tx'[u].depends = tx[u].depends
    BY <1>1, <1>3, <1>5, <1>6, TxRecord, TxUpdate
  <1>8. SharedTyped'
    BY <1>1, <1>7, Records, TouchTyped DEF DepLink, list, SharedTyped
  <1>9. PICK l \in Local : /\ th' = [th EXCEPT ![t] = l]
                           /\ l.pc = "store" /\ l.stack = th[t].stack /\ l.ret = th[t].ret
    <2>1. "store" \in PC
      BY DEF PC, StorePC
    <2>2. Goto(t, "store")
      BY DEF DepLink
    <2> QED BY <1>1, <2>1, <2>2, GotoTyped
  <1>10. Own(l) /\ l.pc # "commit_scan"
    BY <1>1, <1>9, CalmOwn DEF Calm, AbortPC
  <1>11. Typed'
    BY <1>1, <1>7, <1>8, <1>9, <1>10, StepTyped
  <1>12. Others(t) /\ th'[t].pc # "commit_scan"
    BY <1>1, <1>9, <1>10, ThUpdate DEF Others
  <1> QED BY <1>2, <1>7, <1>11, <1>12, KeptByDepend DEF IInvBut

LEMMA CommitLockKeeps == ASSUME NEW S, IInvBut(S), NEW t \in Tx \ S, CommitLock(t)
                         PROVE  IInvBut(S)'
  <1>1. /\ Typed /\ th[t].pc = "commit_lock" /\ th[t] \in Local /\ tx[t] \in TransactionRecord
        /\ tx \in [Node -> TransactionRecord]
    BY ThLocal, TxRecord, Records DEF IInvBut, CommitLock, At, SharedTyped
  <1>2. fate' \in {"running", "exited", "undefined"}
    BY <1>1, TouchTyped DEF CommitLock
  <1>3. tx[t].status # "COMMITTED"
    BY <1>1 DEF IInvBut, CommitInvBut
  <1>4. CASE tx[t].depends = << >>
    <2> DEFINE r == [tx[t] EXCEPT !.status = "COMMITTED"]
    <2>1. r \in TransactionRecord /\ r.status = "COMMITTED" /\ r.depends = tx[t].depends
      BY <1>1 DEF TransactionRecord, Status
    <2>2. tx' = [tx EXCEPT ![t] = r] /\ Goto(t, "commit_unref")
      BY <1>4 DEF CommitLock
    <2> HIDE DEF r
    <2>3. /\ tx' \in [Node -> TransactionRecord]
          /\ \A u \in Tx : tx'[u].depends = tx[u].depends
          /\ \A u \in Tx \ {t} : tx'[u].status = tx[u].status
          /\ tx'[t].status = "COMMITTED"
      BY <1>1, <2>1, <2>2, TxRecord, TxUpdate
    <2>4. SharedTyped'
      BY <1>1, <1>2, <2>3, Records DEF CommitLock, list, SharedTyped
    <2>5. PICK l \in Local : /\ th' = [th EXCEPT ![t] = l]
                             /\ l.pc = "commit_unref"
                             /\ l.stack = th[t].stack /\ l.ret = th[t].ret
      BY <1>1, <2>2, GotoTyped DEF PC, CommitPC
    <2>6. Own(l) /\ l.pc # "commit_scan"
      BY <1>1, <2>5, CalmOwn DEF Calm, AbortPC
    <2>7. Typed'
      BY <1>1, <2>3, <2>4, <2>5, <2>6, StepTyped
    <2>8. Others(t) /\ th'[t].pc = "commit_unref"
      BY <1>1, <2>5, ThUpdate DEF Others
    <2>9. \A d \in DepSet(t) : tx[d].status = "COMMITTED"
      BY <1>4 DEF DepSet
    <2> QED BY <2>3, <2>7, <2>8, <2>9, KeptByCommit DEF IInvBut
  <1>5. CASE tx[t].depends # << >>
    <2> DEFINE r == [tx[t] EXCEPT !.mutex = t]
               l == [th[t] EXCEPT !.pc = "commit_scan", !.k = 1, !.flag = FALSE]
    <2>1. r \in TransactionRecord /\ r.status = tx[t].status /\ r.depends = tx[t].depends
      BY <1>1 DEF TransactionRecord, Node
    <2>2. tx' = [tx EXCEPT ![t] = r] /\ th' = [th EXCEPT ![t] = l]
      BY <1>5 DEF CommitLock
    <2>3. /\ l \in Local /\ l.pc = "commit_scan" /\ l.stack = th[t].stack
          /\ l.ret = th[t].ret /\ l.k = 1
      <3>1. "commit_scan" \in PC
        BY DEF PC, CommitPC
      <3> QED BY <1>1, <3>1 DEF Local
    <2> HIDE DEF l, r
    <2>4. tx' \in [Node -> TransactionRecord] /\ SameTx
      BY <1>1, <2>1, <2>2, TxQuiet, TxRecord
    <2>5. SharedTyped'
      BY <1>1, <1>2, <2>4, Records DEF CommitLock, list, SharedTyped
    <2>6. Own(l)
      BY <1>1, <2>3, Unset DEF Own, ArgOf, AbortPC
    <2>7. l.k \in 1 .. Len(tx'[t].depends)
      <3>1. Len(tx[t].depends) \in Nat /\ Len(tx[t].depends) # 0
        BY <1>1, <1>5 DEF TransactionRecord
      <3> QED BY <2>3, <2>4, <3>1 DEF SameTx
    <2>8. Typed'
      BY <1>1, <2>2, <2>3, <2>4, <2>5, <2>6, <2>7, StepTyped DEF SameTx
    <2>9. Others(t) /\ th'[t] = l
      BY <1>1, <2>2, <2>3, ThUpdate DEF Others
    <2>10. Scanned(t, th'[t])
      BY <2>3, <2>9 DEF Scanned
    <2> QED BY <1>3, <2>4, <2>8, <2>9, <2>10, KeptBySame DEF IInvBut
  <1> QED BY <1>4, <1>5

LEMMA CommitScanKeeps == ASSUME NEW S, IInvBut(S), NEW t \in Tx \ S, CommitScan(t)
                         PROVE  IInvBut(S)'
  <1> DEFINE k == th[t].k
             d == tx[t].depends[k]
             s == tx[d].status
             last == k = Len(tx[t].depends)
  <1>1. /\ Typed /\ th[t].pc = "commit_scan" /\ th[t] \in Local /\ tx[t] \in TransactionRecord
        /\ tx \in [Node -> TransactionRecord]
    BY ThLocal, TxRecord, Records DEF IInvBut, CommitScan, At, SharedTyped
  <1>2. fate' \in {"running", "exited", "undefined"}
    BY <1>1, TouchTyped DEF CommitScan
  <1>3. tx[t].status # "COMMITTED"
    BY <1>1 DEF IInvBut, CommitInvBut
  <1>4. k \in 1 .. Len(tx[t].depends) /\ Len(tx[t].depends) \in Nat /\ d \in Tx
    <2>1. k \in 1 .. Len(tx[t].depends)
      <3>1. \A u \in Tx : th[u].pc = "commit_scan" => th[u].k \in 1 .. Len(tx[u].depends)
        BY <1>1 DEF Typed, TypeOK
      <3> QED BY <1>1, <3>1
    <2>2. Len(tx[t].depends) \in Nat
      BY <1>1 DEF TransactionRecord
    <2>3. d \in Tx
      BY <1>1, <2>1, DependsTx
    <2> QED BY <2>1, <2>2, <2>3
  <1>5. Scanned(t, th[t])
    BY DEF IInvBut, CommitInvBut
  <1>6. th[t].stack = << >> /\ th[t].ret = "done"
    BY <1>1, Unset DEF AbortPC
  <1>7. UNCHANGED <<counter, next, prev, map, versions>>
    BY DEF CommitScan, list
  (* The scan ends, with status v: the two outcomes share their types. *)
  <1>8. ASSUME NEW v \in Status, NEW at \in {"done", "commit_unref"},
               tx' = [tx EXCEPT ![t].status = v, ![t].mutex = NoTx],
               th' = [th EXCEPT ![t].pc = at, ![t].k = 0, ![t].flag = FALSE]
        PROVE  /\ Typed' /\ Others(t) /\ th'[t].pc = at
               /\ \A u \in Tx : tx'[u].depends = tx[u].depends
               /\ \A u \in Tx \ {t} : tx'[u].status = tx[u].status
               /\ tx'[t].status = v
    <2> DEFINE r == [tx[t] EXCEPT !.status = v, !.mutex = NoTx]
               l == [th[t] EXCEPT !.pc = at, !.k = 0, !.flag = FALSE]
    <2>1. r \in TransactionRecord /\ r.status = v /\ r.depends = tx[t].depends
      BY <1>1 DEF TransactionRecord, Node
    <2>2. tx' = [tx EXCEPT ![t] = r] /\ th' = [th EXCEPT ![t] = l]
      BY <1>8
    <2>3. l \in Local /\ l.pc = at /\ l.stack = th[t].stack /\ l.ret = th[t].ret
      <3>1. at \in PC
        BY DEF PC, CommitPC
      <3> QED BY <1>1, <3>1 DEF Local
    <2> HIDE DEF l, r
    <2>4. /\ tx' \in [Node -> TransactionRecord]
          /\ \A u \in Tx : tx'[u].depends = tx[u].depends
          /\ \A u \in Tx \ {t} : tx'[u].status = tx[u].status
          /\ tx'[t].status = v
      BY <1>1, <2>1, <2>2, TxRecord, TxUpdate
    <2>5. SharedTyped'
      BY <1>1, <1>2, <1>7, <2>4, Records DEF SharedTyped
    <2>6. Own(l) /\ l.pc # "commit_scan"
      BY <1>1, <2>3, CalmOwn DEF Calm, AbortPC
    <2>7. Typed'
      BY <1>1, <2>2, <2>3, <2>4, <2>5, <2>6, StepTyped
    <2>8. Others(t) /\ th'[t].pc = at
      BY <1>1, <2>2, <2>3, ThUpdate DEF Others
    <2> QED BY <2>4, <2>7, <2>8
  <1>9. CASE /\ s = "ABORTED"
             /\ tx' = [tx EXCEPT ![t].status = "ABORTED", ![t].mutex = NoTx]
             /\ th' = [th EXCEPT ![t].pc = "done", ![t].k = 0, ![t].flag = FALSE]
    <2>1. "ABORTED" \in Status
      BY DEF Status
    <2>2. /\ Typed' /\ Others(t) /\ th'[t].pc = "done"
          /\ \A u \in Tx : tx'[u].depends = tx[u].depends
          /\ \A u \in Tx \ {t} : tx'[u].status = tx[u].status
          /\ tx'[t].status = "ABORTED"
      BY <1>8, <1>9, <2>1
    <2> QED BY <1>3, <2>2, TxRecord, KeptByAbort DEF IInvBut
  <1>10. CASE /\ s # "ABORTED" /\ last /\ ~Flag(t, s)
              /\ tx' = [tx EXCEPT ![t].status = "COMMITTED", ![t].mutex = NoTx]
              /\ th' = [th EXCEPT ![t].pc = "commit_unref", ![t].k = 0, ![t].flag = FALSE]
    <2>1. "COMMITTED" \in Status
      BY DEF Status
    <2>2. /\ Typed' /\ Others(t) /\ th'[t].pc = "commit_unref"
          /\ \A u \in Tx : tx'[u].depends = tx[u].depends
          /\ \A u \in Tx \ {t} : tx'[u].status = tx[u].status
          /\ tx'[t].status = "COMMITTED"
      BY <1>8, <1>10, <2>1
    <2>3. ~th[t].flag /\ s = "COMMITTED"
      BY <1>10 DEF Flag
    <2>4. ASSUME NEW e \in DepSet(t)
          PROVE  tx[e].status = "COMMITTED"
      <3>1. PICK i \in 1 .. Len(tx[t].depends) : e = tx[t].depends[i]
        <4>1. DOMAIN tx[t].depends = 1 .. Len(tx[t].depends)
          BY <1>1 DEF TransactionRecord
        <4>2. \E i \in DOMAIN tx[t].depends : e = tx[t].depends[i]
          BY DEF DepSet
        <4> QED BY <4>1, <4>2, Zenon
      <3>2. CASE i = k
        <4>1. e = d
          BY <3>1, <3>2, Zenon
        <4> QED BY <2>3, <4>1, Zenon
      <3>3. CASE i # k
        <4>1. i \in 1 .. k - 1
          BY <1>4, <1>10, <3>1, <3>3
        <4> QED BY <1>1, <1>5, <2>3, <3>1, <4>1 DEF Scanned
      <3> QED BY <3>2, <3>3
    <2> QED BY <2>2, <2>4, KeptByCommit DEF IInvBut
  <1>11. CASE /\ s # "ABORTED" /\ (last => Flag(t, s))
              /\ th' = [th EXCEPT ![t].k = IF last THEN 1 ELSE k + 1,
                                  ![t].flag = NextFlag(last, Flag(t, s))]
              /\ UNCHANGED tx
    <2> DEFINE n == IF last THEN 1 ELSE k + 1
               f == NextFlag(last, Flag(t, s))
               l == [th[t] EXCEPT !.k = n, !.flag = f]
    <2>1. n \in 1 .. Len(tx[t].depends) /\ n \in Nat
      BY <1>4
    <2>2. f \in BOOLEAN
      BY <1>1 DEF NextFlag, Flag, Local
    <2>3. th' = [th EXCEPT ![t] = l]
      BY <1>11
    <2>4. ASSUME ~f, NEW i \in 1 .. n - 1
          PROVE  tx[tx[t].depends[i]].status = "COMMITTED"
      <3>1. ~last /\ n = k + 1
        <4>1. last => n = 1
          OBVIOUS
        <4>2. n # 1
          BY <2>1, <2>4
        <4> QED BY <4>1, <4>2
      <3>2. ~th[t].flag /\ s = "COMMITTED"
        BY <2>4, <3>1 DEF NextFlag, Flag
      <3>3. CASE i = k
        BY <3>2, <3>3
      <3>4. CASE i # k
        <4>1. i \in 1 .. k - 1
          BY <1>4, <3>1, <3>4
        <4> QED BY <1>1, <1>5, <3>2, <4>1 DEF Scanned
      <3> QED BY <3>3, <3>4
    <2> HIDE DEF n, f
    <2>5. /\ l \in Local /\ l.pc = th[t].pc /\ l.stack = th[t].stack
          /\ l.ret = th[t].ret /\ l.k = n /\ l.flag = f
      BY <1>1, <2>1, <2>2 DEF Local
    <2> HIDE DEF l
    <2>6. SharedTyped' /\ SameTx
      BY <1>1, <1>2, <1>7, <1>11, Records DEF SharedTyped, SameTx
    <2>7. Own(l)
      BY <1>1, <1>6, <2>5 DEF Own, ArgOf, AbortPC
    <2>8. Typed'
      BY <1>1, <1>11, <2>1, <2>3, <2>5, <2>6, <2>7, StepTyped
    <2>9. Others(t) /\ th'[t] = l
      BY <1>1, <2>3, <2>5, ThUpdate DEF Others
    <2>10. Scanned(t, th'[t])
      BY <2>4, <2>5, <2>9 DEF Scanned
    <2> QED BY <1>3, <2>6, <2>8, <2>9, <2>10, KeptBySame DEF IInvBut
  <1> QED BY <1>9, <1>10, <1>11 DEF CommitScan

-----------------------------------------------------------------------------
(* Every step *)

LEMMA StutterKeeps == ASSUME IInv, UNCHANGED vars
                      PROVE  IInv'
  <1>1. Typed'
    BY DEF IInv, Typed, TypeOK, ArgInv, vars
  <1>2. CommitInv'
    BY DEF IInv, CommitInv, CommittedOver, Scanned, CommittedDepsCommitted, DepSet, vars
  <1> QED BY <1>1, <1>2 DEF IInv

(* The calls of the manager, made by a thread that is not in S.            *)
LEMMA CallsKeep ==
  ASSUME NEW S, IInvBut(S), NEW t \in Tx \ S, StoreCall(t) \/ CallStep(t)
  PROVE  IInvBut(S)'
  <1>1. Typed
    BY DEF IInvBut
  <1>2. (Typed' /\ Quiet(t)) => IInvBut(S)'
    BY KeptByQuiet DEF IInvBut
  <1>3. CASE StoreCall(t) \/ Create(t)
    BY <1>1, <1>2, <1>3, StoreCallQuiet, CreateQuiet
  <1>4. CASE StoreOp(t)
    <2>1. CASE DepLink(t)
      BY <2>1, DepLinkKeeps
    <2>2. CASE StoreEnter(t) \/ StoreRef(t) \/ StoreDrop(t) \/ DepLock(t)
      BY <1>1, <1>2, <2>2, StoreEnterQuiet, StoreRefQuiet, StoreDropQuiet, DepLockQuiet
    <2>3. CASE StoreCreate(t) \/ StoreUnlock(t) \/ StoreReturn(t)
      BY <1>1, <1>2, <2>3, StoreCreateQuiet, StoreUnlockQuiet, StoreReturnQuiet
    <2>4. CASE \E d \in Tx : MeetPending(t, d) \/ MeetYounger(t, d) \/ MeetAborted(t, d)
      BY <1>1, <1>2, <2>4, MeetQuiet
    <2> QED BY <1>4, <2>1, <2>2, <2>3, <2>4 DEF StoreOp
  <1>5. CASE Commit(t)
    BY <1>1, <1>2, <1>5, CommitLockKeeps, CommitScanKeeps, CommitUnrefQuiet DEF Commit
  <1>6. CASE Abort(t)
    <2>1. CASE AbortLock(t)
      BY <2>1, AbortLockKeeps
    <2>2. CASE AbortScan(t) \/ AbortId(t) \/ AbortDeps(t) \/ AbortSearch(t) \/ AbortCall(t)
      BY <1>1, <1>2, <2>2, AbortScanQuiet, AbortCallQuiet
    <2>3. CASE AbortNext(t) \/ AbortUnlock(t) \/ AbortUnref(t) \/ AbortUnlink(t)
      BY <1>1, <1>2, <2>3, AbortNextQuiet, AbortUnlockQuiet, AbortUnrefQuiet, AbortUnlinkQuiet
    <2> QED BY <1>6, <2>1, <2>2, <2>3 DEF Abort
  <1> QED BY <1>3, <1>4, <1>5, <1>6 DEF CallStep

LEMMA NobodyBut == (IInv <=> IInvBut({})) /\ (IInv <=> IInvBut({}))'
  BY DEF IInv, CommitInv, CommittedOver, IInvBut, CommitInvBut

LEMMA QuietKept == ASSUME IInv, NEW t \in Tx, Typed', Quiet(t)
                    PROVE  IInv'
  <1>1. t \in Tx \ {}
    OBVIOUS
  <1>2. IInvBut({})'
    BY <1>1, NobodyBut, KeptByQuiet DEF IInvBut
  <1> QED BY <1>2, NobodyBut

LEMMA StepKeeps == ASSUME IInv, [Next]_vars
                   PROVE  IInv'
  <1>1. Typed
    BY DEF IInv
  <1>2. ASSUME NEW t \in Tx, TryCommit(t) \/ GiveUp(t)
        PROVE  IInv'
    BY <1>1, <1>2, TryCommitQuiet, GiveUpQuiet, QuietKept
  <1>3. ASSUME NEW t \in Tx, StoreCall(t) \/ CallStep(t)
        PROVE  IInv'
    <2>1. t \in Tx \ {}
      OBVIOUS
    <2>2. IInvBut({})'
      BY <1>3, <2>1, NobodyBut, CallsKeep
    <2> QED BY <2>2, NobodyBut
  <1> QED BY <1>2, <1>3, StutterKeeps DEF Next, Operate

LEMMA InitKeeps == Init => IInv
  <1> SUFFICES ASSUME Init
               PROVE  IInv
    OBVIOUS
  <1>1. \A x \in Tx : tx[x].status = "PENDING" /\ th[x].pc = "new"
    BY DEF Init, IdleThread, Node
  <1>2. CommitInv
    BY <1>1 DEF CommitInv, CommittedOver, Scanned, CommittedDepsCommitted
  <1> QED BY <1>2, InitTyped DEF IInv

LEMMA Inductive == Spec => []IInv
  <1>1. IInv /\ [Next]_vars => IInv'
    BY StepKeeps
  <1> QED BY InitKeeps, <1>1, PTL DEF Spec

-----------------------------------------------------------------------------
(* The transaction manager keeps its types, whether or not trans_create is *)
(* entered by several threads at a time: a thread has frames exactly while *)
(* it is inside trans_abort, and the loop of trans_commit (lines 178-199)  *)
(* stays within the dependency set of its transaction.                     *)
THEOREM TypesOK == Spec => []TypeOK
  <1>1. IInv => TypeOK
    BY DEF IInv, Typed
  <1> QED BY <1>1, Inductive, PTL

(* A committed transaction depends on committed ones only, for any number  *)
(* of threads and operations and any interleaving of trans_commit with the *)
(* commits and aborts of the transactions it waits for.                    *)
THEOREM CommitsConsistent == Spec => []CommittedDepsCommitted
  <1>1. IInv => CommittedDepsCommitted
    BY DEF IInv, CommitInv
  <1> QED BY <1>1, Inductive, PTL

=============================================================================
