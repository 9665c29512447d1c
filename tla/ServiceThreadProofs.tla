------------------------- MODULE ServiceThreadProofs -------------------------
(* Proofs about the service thread of server.c as the caller of the        *)
(* transaction manager, for every set of threads and every bound:          *)
(* its types, and that a committed transaction depends only on committed   *)
(* ones, if clients send nothing after a COMMIT.  The thread writes the    *)
(* status it was told over the status of its transaction, without the      *)
(* mutex, so that an aborted transaction can become pending again, and     *)
(* commit.  The rule survives because the value written back is never      *)
(* COMMITTED and never takes the place of COMMITTED.                       *)
EXTENDS ServiceThread, TransactionProofs

(* A thread with a result to write back has left the manager, and so has   *)
(* one that has had its COMMIT; the status an operation returned is not    *)
(* COMMITTED.                                                              *)
Outside(t) == th[t].pc \in {"idle", "done"}

Replies ==
  /\ reply \in SUBSET Tx /\ committed \in SUBSET Tx
  /\ \A t \in reply : t \notin committed /\ Outside(t)
  /\ \A t \in committed : Outside(t)

Told == \A t \in Tx : th[t].told # "COMMITTED"

SInv == IInvBut(committed) /\ Replies /\ Told

LEMMA ServiceStart == ServiceInit => SInv
  <1> SUFFICES ASSUME ServiceInit
               PROVE  SInv
    OBVIOUS
  <1>1. Init /\ reply = {} /\ committed = {}
    BY DEF ServiceInit
  <1>2. IInvBut({})
    BY <1>1, InitKeeps, NobodyBut
  <1>3. \A t \in Tx : th[t].told = "PENDING"
    BY <1>1 DEF Init, IdleThread
  <1> QED BY <1>1, <1>2, <1>3 DEF SInv, Replies, Told

-----------------------------------------------------------------------------
(* Calls of the manager                                                    *)

Call(t) == StoreCall(t) \/ CallStep(t)

LEMMA Working == ASSUME NEW t \in Tx, CallStep(t)
                 PROVE  ~Outside(t)
  <1>1. CASE StoreOp(t)
    BY <1>1 DEF StoreOp, StoreEnter, StoreRef, StoreDrop, DepLock, DepLink, StoreCreate, StoreUnlock, StoreReturn,
       MeetPending, MeetYounger, MeetAborted, InStore, At, Outside
  <1>2. CASE Commit(t)
    BY <1>2 DEF Commit, CommitLock, CommitScan, CommitUnref, CommitUnlink, At, Outside
  <1>3. CASE Abort(t)
    BY <1>3 DEF Abort, AbortLock, AbortScan, AbortId, AbortDeps, AbortSearch, AbortCall, AbortNext,
       AbortUnlock, AbortUnref, AbortUnlink, At, Outside
  <1>4. CASE Create(t)
    BY <1>4 DEF Create, CreateId, CreateRead, CreateCount, CreateLink, CreatePrev, CreateTail, At, Outside
  <1> QED BY <1>1, <1>2, <1>3, <1>4 DEF CallStep

(* A call changes the locals of its own thread, and of these only          *)
(* StoreReturn the status it was told.                                     *)
OwnStep(t) == Others(t) /\ (th'[t].told = th[t].told \/ StoreReturn(t))

LEMMA CreateOwn == ASSUME Typed, NEW t \in Tx, Create(t)
                   PROVE  OwnStep(t)
  <1>1. DOMAIN th = Tx /\ th[t] \in Local
    BY Records
  <1>2. CASE CreateRead(t)
    BY <1>1, <1>2 DEF CreateRead, OwnStep, Others, Local
  <1>3. CASE CreateCount(t)
    BY <1>1, <1>3 DEF CreateCount, OwnStep, Others, Local
  <1>4. CASE CreateId(t) \/ CreateLink(t) \/ CreatePrev(t) \/ CreateTail(t)
    BY <1>1, <1>4 DEF CreateId, CreateLink, CreatePrev, CreateTail, Goto, OwnStep, Others, Local
  <1> QED BY <1>2, <1>3, <1>4 DEF Create

LEMMA StoreOwn == ASSUME Typed, NEW t \in Tx, StoreCall(t) \/ StoreOp(t)
                  PROVE  OwnStep(t)
  <1>1. DOMAIN th = Tx /\ th[t] \in Local
    BY Records
  <1>2. CASE StoreCall(t)
    BY <1>1, <1>2 DEF StoreCall, OwnStep, Others, Local
  <1>3. CASE StoreRef(t)
    BY <1>1, <1>3 DEF StoreRef, CallAbort, OwnStep, Others, Local
  <1>4. CASE StoreEnter(t) \/ StoreDrop(t) \/ DepLock(t) \/ DepLink(t) \/ StoreCreate(t)
    BY <1>1, <1>4 DEF StoreEnter, StoreDrop, DepLock, DepLink, StoreCreate, Goto, OwnStep, Others, Local
  <1>5. CASE StoreUnlock(t)
    BY <1>1, <1>5 DEF StoreUnlock, OwnStep, Others, Local
  <1>6. CASE StoreReturn(t)
    <2>1. th' = [th EXCEPT ![t] = [th[t] EXCEPT !.pc = "idle", !.told = tx[t].status]]
      BY <1>6 DEF StoreReturn
    <2> QED BY <1>1, <1>6, <2>1 DEF OwnStep, Others
  <1>7. ASSUME NEW d \in Tx, MeetPending(t, d) \/ MeetYounger(t, d) \/ MeetAborted(t, d)
        PROVE  OwnStep(t)
    BY <1>1, <1>7 DEF MeetPending, MeetYounger, MeetAborted, OwnStep, Others, Local
  <1> QED BY <1>2, <1>3, <1>4, <1>5, <1>6, <1>7 DEF StoreOp

LEMMA CommitOwn == ASSUME Typed, NEW t \in Tx, Commit(t)
                   PROVE  OwnStep(t)
  <1>1. DOMAIN th = Tx /\ th[t] \in Local
    BY Records
  <1>2. CASE CommitLock(t)
    BY <1>1, <1>2 DEF CommitLock, Goto, OwnStep, Others, Local
  <1>3. CASE CommitScan(t)
    <2>1. CASE th' = [th EXCEPT ![t].pc = "done", ![t].k = 0, ![t].flag = FALSE]
      BY <1>1, <2>1 DEF OwnStep, Others, Local
    <2>2. CASE th' = [th EXCEPT ![t].pc = "commit_unref", ![t].k = 0, ![t].flag = FALSE]
      BY <1>1, <2>2 DEF OwnStep, Others, Local
    <2>3. ASSUME NEW k, NEW flag, th' = [th EXCEPT ![t].k = k, ![t].flag = flag]
          PROVE  OwnStep(t)
      BY <1>1, <2>3 DEF OwnStep, Others, Local
    <2>4. \/ th' = [th EXCEPT ![t].pc = "done", ![t].k = 0, ![t].flag = FALSE]
          \/ th' = [th EXCEPT ![t].pc = "commit_unref", ![t].k = 0, ![t].flag = FALSE]
          \/ th' = [th EXCEPT ![t].k = IF th[t].k = Len(tx[t].depends) THEN 1 ELSE th[t].k + 1,
                             ![t].flag = NextFlag(th[t].k = Len(tx[t].depends),
                                                  Flag(t, tx[tx[t].depends[th[t].k]].status))]
      BY <1>3 DEF CommitScan
    <2> QED BY <2>1, <2>2, <2>3, <2>4
  <1>4. CASE CommitUnref(t) \/ CommitUnlink(t)
    BY <1>1, <1>4 DEF CommitUnref, Unref, CommitUnlink, Goto, OwnStep, Others, Local
  <1> QED BY <1>2, <1>3, <1>4 DEF Commit

LEMMA ReturnOwn == ASSUME Typed, NEW t \in Tx, th' = Returned(t)
                   PROVE  OwnStep(t)
  BY Records DEF Returned, OwnStep, Others, Local

LEMMA AbortOwn == ASSUME Typed, NEW t \in Tx, Abort(t)
                  PROVE  OwnStep(t)
  <1>1. DOMAIN th = Tx /\ th[t] \in Local
    BY Records
  <1>2. CASE AbortLock(t) \/ AbortUnlock(t)
    BY <1>1, <1>2 DEF AbortLock, AbortUnlock, Goto, OwnStep, Others, Local
  <1>3. CASE AbortScan(t) \/ AbortId(t) \/ AbortDeps(t) \/ AbortSearch(t)
    <2>1. \E to : Goto(t, to)
      BY <1>3 DEF AbortScan, AbortId, AbortDeps, AbortSearch
    <2> QED BY <1>1, <2>1 DEF Goto, OwnStep, Others, Local
  <1>4. CASE AbortCall(t) \/ AbortNext(t)
    BY <1>1, <1>4 DEF AbortCall, AbortNext, OwnStep, Others, Local
  <1>5. CASE AbortUnref(t) \/ AbortUnlink(t)
    <2>1. th' = [th EXCEPT ![t].pc = "abort_unlink"] \/ th' = Returned(t)
      BY <1>5 DEF AbortUnref, Unref, AbortUnlink
    <2> QED BY <1>1, <2>1, ReturnOwn DEF OwnStep, Others, Local
  <1> QED BY <1>2, <1>3, <1>4, <1>5 DEF Abort

LEMMA CallServes ==
  ASSUME SInv, NEW t \in Tx, t \notin committed, committed' = committed, Call(t)
  PROVE  IInvBut(committed)' /\ Told' /\ Others(t)
  <1>1. Typed /\ OwnStep(t)
    BY CreateOwn, StoreOwn, CommitOwn, AbortOwn DEF SInv, IInvBut, Call, CallStep
  <1>2. PICK c : c = committed
    OBVIOUS
  <1>3. IInvBut(c)'
    BY <1>2, CallsKeep DEF SInv, Call
  <1>4. IInvBut(committed)'
    BY <1>2, <1>3 DEF IInvBut, CommitInvBut
  <1>5. th'[t].told # "COMMITTED"
    <2>1. CASE StoreReturn(t)
      <3>1. th[t].pc = "store_return" /\ th[t] \in Local /\ DOMAIN th = Tx
        BY <1>1, <2>1, Records DEF StoreReturn, At
      <3>2. tx[t].status # "COMMITTED"
        BY <3>1 DEF SInv, IInvBut, CommitInvBut
      <3>3. th' = [th EXCEPT ![t] = [th[t] EXCEPT !.pc = "idle", !.told = tx[t].status]]
        BY <2>1 DEF StoreReturn
      <3> QED BY <3>1, <3>2, <3>3 DEF Local
    <2>2. CASE th'[t].told = th[t].told
      BY <2>2 DEF SInv, Told
    <2> QED BY <1>1, <2>1, <2>2 DEF OwnStep
  <1> QED BY <1>1, <1>4, <1>5 DEF SInv, Told, OwnStep, Others

-----------------------------------------------------------------------------
(* The steps of the service thread                                         *)

LEMMA GetPutServes == ASSUME SInv, ~AfterCommit, NEW t \in Tx, GetPut(t)
                      PROVE  SInv'
  <1>1. /\ t \notin committed /\ t \notin reply /\ StoreCall(t)
        /\ committed' = committed /\ reply' = reply
    BY DEF GetPut, Receives, Reading, svcVars
  <1>2. IInvBut(committed)' /\ Told' /\ Others(t)
    BY <1>1, CallServes DEF Call
  <1> QED BY <1>1, <1>2 DEF SInv, Replies, Others, Outside

LEMMA InsideServes == ASSUME SInv, NEW t \in Tx, Inside(t)
                      PROVE  SInv'
  <1>1. /\ CallStep(t)
        /\ committed' = committed
        /\ reply' = reply \/ (reply' = reply \cup {t} /\ Outside(t)')
    BY DEF Inside, Outside
  <1>2. t \notin committed /\ t \notin reply
    BY <1>1, Working DEF SInv, Replies
  <1>3. IInvBut(committed)' /\ Told' /\ Others(t)
    BY <1>1, <1>2, CallServes DEF Call
  <1>4. \A u \in Tx \ {t} : Outside(u)' <=> Outside(u)
    BY <1>3 DEF Others, Outside
  <1>5. Replies'
    BY <1>1, <1>2, <1>4 DEF SInv, Replies
  <1> QED BY <1>3, <1>5 DEF SInv

(* The thread of a transaction goes to a place outside the manager, or     *)
(* begins to commit or abort it, and changes no transaction.               *)
LEMMA CommitPktServes == ASSUME SInv, ~AfterCommit, NEW t \in Tx, CommitPkt(t)
                         PROVE  SInv'
  <1>1. /\ Typed /\ t \notin committed /\ t \notin reply /\ Goto(t, "commit_lock")
        /\ th[t].pc = "idle" /\ UNCHANGED <<counter, tx, list, map, versions, fate, reply, committed>>
    BY DEF SInv, IInvBut, CommitPkt, Receives, Reading, At
  <1>2. SharedTyped' /\ SameTx
    BY <1>1, Records DEF list, SharedTyped, SameTx
  <1>3. Typed' /\ Quiet(t)
    BY <1>1, <1>2, GotoCalm DEF Calm, AbortPC
  <1>4. PICK c : c = committed
    OBVIOUS
  <1>5. CommitInvBut(c)'
    BY <1>1, <1>3, <1>4, KeptByQuiet DEF SInv
  <1>6. Others(t) /\ th'[t].told = th[t].told
    BY <1>1, Records DEF Goto, Others, Local
  <1>7. IInvBut(committed)'
    BY <1>1, <1>3, <1>4, <1>5 DEF IInvBut, CommitInvBut
  <1>8. Replies'
    BY <1>1, <1>6 DEF SInv, Replies, Others, Outside
  <1> QED BY <1>6, <1>7, <1>8 DEF SInv, Told, Others

LEMMA DisconnectServes == ASSUME SInv, NEW t \in Tx, Disconnect(t)
                          PROVE  SInv'
  <1>1. /\ Typed /\ t \notin reply /\ th[t].pc = "idle" /\ At(t, "idle")
        /\ UNCHANGED <<counter, tx, list, map, versions, fate, reply, committed>>
    BY DEF SInv, IInvBut, Disconnect, Reading, At
  <1>2. SharedTyped' /\ SameTx
    BY <1>1, Records DEF list, SharedTyped, SameTx
  <1>3. PICK c : c = committed
    OBVIOUS
  <1>4. CASE t \in committed
    <2>1. Goto(t, "done")
      BY <1>4 DEF Disconnect
    <2>2. Typed' /\ Others(t) /\ th'[t].pc = "done" /\ th'[t].told = th[t].told
      <3>1. Typed'
        BY <1>1, <1>2, <2>1, GotoCalm DEF Calm, AbortPC
      <3>2. Others(t) /\ th'[t].pc = "done" /\ th'[t].told = th[t].told
        BY <1>1, <2>1, Records DEF Goto, Others, Local
      <3> QED BY <3>1, <3>2
    <2>3. CommitInvBut(committed)'
      BY <1>1, <1>4, <2>2 DEF SInv, IInvBut, CommitInvBut, Scanned, CommittedDepsCommitted, DepSet, Others
    <2> QED BY <1>1, <1>4, <2>2, <2>3 DEF SInv, IInvBut, Replies, Told, Others, Outside
  <1>5. CASE t \notin committed
    <2>1. GiveUp(t) /\ CallAbort(t, t, "done")
      BY <1>1, <1>5 DEF Disconnect, GiveUp
    <2>2. Typed' /\ Quiet(t)
      BY <1>1, <2>1, GiveUpQuiet
    <2>3. CommitInvBut(c)'
      BY <1>3, <1>5, <2>2, KeptByQuiet DEF SInv
    <2>4. IInvBut(committed)'
      BY <1>1, <1>3, <2>2, <2>3 DEF IInvBut, CommitInvBut
    <2>5. Others(t) /\ th'[t].told = th[t].told
      BY <1>1, <2>1, Records DEF CallAbort, Others, Local
    <2>6. Replies'
      BY <1>1, <1>5, <2>5 DEF SInv, Replies, Others, Outside
    <2> QED BY <2>4, <2>5, <2>6 DEF SInv, Told, Others
  <1> QED BY <1>4, <1>5

(* The status a transaction has is replaced by the one its thread was      *)
(* told: neither is COMMITTED.                                             *)
LEMMA WriteStatusServes == ASSUME SInv, NEW t \in Tx, WriteStatus(t)
                           PROVE  SInv'
  <1>1. /\ Typed /\ t \in reply /\ t \notin committed /\ th[t].pc = "idle"
        /\ th[t].told # "COMMITTED" /\ tx[t].status # "COMMITTED"
        /\ UNCHANGED <<counter, list, th, map, versions, committed>> /\ reply' = reply \ {t}
    BY DEF SInv, IInvBut, CommitInvBut, Replies, Told, WriteStatus, At
  <1>2. PICK c : c = committed
    OBVIOUS
  <1> DEFINE r == [tx[t] EXCEPT !.status = th[t].told]
  <1>3. r \in TransactionRecord /\ r.status = th[t].told /\ r.depends = tx[t].depends
    <2>1. th[t].told \in Status /\ tx[t] \in TransactionRecord
      BY <1>1, ThLocal, TxRecord DEF Local
    <2> QED BY <2>1 DEF TransactionRecord
  <1>4. tx' = [tx EXCEPT ![t] = r]
    BY DEF WriteStatus
  <1> HIDE DEF r
  <1>5. /\ tx' \in [Node -> TransactionRecord] /\ tx'[t].status # "COMMITTED"
        /\ \A u \in Tx : tx'[u].depends = tx[u].depends
        /\ \A u \in Tx \ {t} : tx'[u].status = tx[u].status
    BY <1>1, <1>3, <1>4, Records, TxRecord, TxUpdate DEF SharedTyped
  <1>6. fate' \in {"running", "exited", "undefined"}
    BY <1>1, TouchTyped DEF WriteStatus
  <1>7. Typed'
    BY <1>1, <1>5, <1>6 DEF Typed, TypeOK, ArgInv, list
  <1>8. CommitInvBut(c)'
    BY <1>1, <1>2, <1>5, TxRecord, KeptByAbort DEF SInv, Others
  <1>9. IInvBut(committed)'
    BY <1>1, <1>2, <1>7, <1>8 DEF IInvBut, CommitInvBut
  <1> QED BY <1>1, <1>9 DEF SInv, Replies, Told, Outside

(* isCommit is set, and from then on the thread leaves its transaction     *)
(* alone.                                                                  *)
LEMMA WriteCommitServes == ASSUME SInv, NEW t \in Tx, WriteCommit(t)
                           PROVE  SInv'
  <1>1. /\ Typed /\ th[t].pc = "done" /\ Goto(t, "idle")
        /\ UNCHANGED <<counter, tx, list, map, versions>>
        /\ reply' = reply \ {t} /\ committed' = committed \cup {t}
    BY DEF SInv, IInvBut, WriteCommit, At
  <1>2. PICK l \in Local : /\ th' = [th EXCEPT ![t] = l]
                           /\ l.pc = "idle" /\ l.stack = th[t].stack /\ l.ret = th[t].ret
    BY <1>1, GotoTyped DEF PC
  <1>3. Own(l) /\ l.pc # "commit_scan"
    BY <1>1, <1>2, CalmOwn DEF Calm, AbortPC
  <1>4. SharedTyped'
    BY <1>1, Records, TouchTyped DEF list, SharedTyped, WriteCommit
  <1>5. Typed'
    BY <1>1, <1>2, <1>3, <1>4, StepTyped
  <1>6. Others(t) /\ th'[t].pc = "idle" /\ th'[t].told = th[t].told
    BY <1>1, Records DEF Goto, Others, Local
  <1>7. CommitInvBut(committed)'
    BY <1>1, <1>6 DEF SInv, IInvBut, CommitInvBut, Scanned, CommittedDepsCommitted, DepSet, Others
  <1>8. Replies'
    BY <1>1, <1>6 DEF SInv, Replies, Others, Outside
  <1> QED BY <1>5, <1>6, <1>7, <1>8 DEF SInv, IInvBut, Told, Others

LEMMA ServeKeeps == ASSUME SInv, ~AfterCommit, [ServiceNext]_allVars
                    PROVE  SInv'
  <1>1. CASE UNCHANGED allVars
    <2>1. Typed' /\ Told'
      BY <1>1 DEF SInv, IInvBut, Told, Typed, TypeOK, ArgInv, allVars, vars
    <2>2. CommitInvBut(committed)'
      BY <1>1 DEF SInv, IInvBut, CommitInvBut, Scanned, CommittedDepsCommitted, DepSet, allVars, vars
    <2>3. Replies'
      BY <1>1 DEF SInv, Replies, Outside, allVars, vars
    <2> QED BY <2>1, <2>2, <2>3 DEF SInv, IInvBut
  <1>2. ASSUME NEW t \in Tx, Serve(t)
        PROVE  SInv'
    BY <1>2, GetPutServes, CommitPktServes, InsideServes, WriteStatusServes, WriteCommitServes,
       DisconnectServes DEF Serve
  <1> QED BY <1>1, <1>2 DEF ServiceNext

LEMMA ServiceInductive == ASSUME ~AfterCommit
                          PROVE  ServiceSpec => []SInv
  <1>1. ServiceInit => SInv
    BY ServiceStart
  <1>2. SInv /\ [ServiceNext]_allVars => SInv'
    BY ServeKeeps
  <1> QED BY <1>1, <1>2, PTL DEF ServiceSpec

-----------------------------------------------------------------------------
(* The service thread keeps the types of the manager although it writes    *)
(* into transactions behind its back (server.c lines 31, 66 and 80), if    *)
(* clients send nothing after a COMMIT.                                    *)
THEOREM ServiceTyped == ASSUME ~AfterCommit
                        PROVE  ServiceSpec => []ServiceTypeOK
  <1>1. SInv => ServiceTypeOK
    BY DEF SInv, IInvBut, Typed, Replies, ServiceTypeOK
  <1> QED BY <1>1, ServiceInductive, PTL

(* A committed transaction depends on committed ones only, for any number  *)
(* of service threads and requests, although an aborted transaction can    *)
(* become pending again and commit: no thread takes COMMITTED back, and a  *)
(* dependency that has committed stays committed.                          *)
THEOREM ServiceConsistent == ASSUME ~AfterCommit
                             PROVE  ServiceSpec => []CommittedDepsCommitted
  <1>1. SInv => CommittedDepsCommitted
    BY DEF SInv, IInvBut, CommitInvBut
  <1> QED BY <1>1, ServiceInductive, PTL

=============================================================================
