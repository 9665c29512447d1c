--------------------------- MODULE ServiceThread ---------------------------
(* The loop of a service thread, xacto_client_service in                   *)
(* hw5/src/server.c, as the caller of the transaction manager.  It writes  *)
(* the result of every call back into the transaction without its mutex,   *)
(* looks at no status before it serves the next request, and goes on after *)
(* a COMMIT.                                                               *)
EXTENDS Transaction

CONSTANT AfterCommit  \* whether clients send requests after a COMMIT

ASSUME ServiceAssumption == AfterCommit \in BOOLEAN

VARIABLES
  reply,      \* the threads that have a result to write back
  committed   \* isCommit of each thread

svcVars == <<reply, committed>>
allVars == <<vars, reply, committed>>

ServiceTypeOK ==
  TypeOK /\ reply \in SUBSET Tx /\ committed \in SUBSET Tx

ServiceInit == Init /\ reply = {} /\ committed = {}

Reading(t) == At(t, "idle") /\ t \notin reply
Receives(t) == Reading(t) /\ (AfterCommit \/ t \notin committed)

(* XACTO_GET_PKT and XACTO_PUT_PKT                                         *)
GetPut(t) == Receives(t) /\ StoreCall(t) /\ UNCHANGED svcVars

(* XACTO_COMMIT_PKT                                                        *)
CommitPkt(t) ==
  /\ Receives(t)
  /\ Goto(t, "commit_lock")
  /\ UNCHANGED <<counter, tx, list, map, versions, fate, reply, committed>>

Inside(t) ==
  /\ CallStep(t)
  /\ reply' = IF th[t].pc \in {"store_return"} \cup CommitPC /\ th'[t].pc \in {"idle", "done"}
              THEN reply \cup {t} ELSE reply
  /\ UNCHANGED committed

(* trans->status = store_get(...), lines 31 and 66                         *)
WriteStatus(t) ==
  /\ At(t, "idle") /\ t \in reply /\ Touch({t})
  /\ tx' = [tx EXCEPT ![t].status = th[t].told]
  /\ reply' = reply \ {t}
  /\ UNCHANGED <<counter, list, th, map, versions, committed>>

(* trans->status = trans_commit(trans), line 80: the value is the one      *)
(* trans_commit has stored, but the thread's reference is gone.  Then the  *)
(* loop goes on.                                                           *)
WriteCommit(t) ==
  /\ At(t, "done") /\ t \in reply /\ Touch({t})
  /\ Goto(t, "idle")
  /\ reply' = reply \ {t} /\ committed' = committed \cup {t}
  /\ UNCHANGED <<counter, tx, list, map, versions>>

(* The connection ends: trans_abort unless isCommit is set (lines 98-100). *)
Disconnect(t) ==
  /\ Reading(t)
  /\ IF t \in committed THEN Goto(t, "done") ELSE CallAbort(t, t, "done")
  /\ UNCHANGED <<counter, tx, list, map, versions, fate, reply, committed>>

Serve(t) ==
  GetPut(t) \/ CommitPkt(t) \/ Inside(t) \/ WriteStatus(t) \/ WriteCommit(t) \/ Disconnect(t)

ServiceNext == \E t \in Tx : Serve(t)

ServiceSpec == ServiceInit /\ [][ServiceNext]_allVars

(* Threads run; nothing makes a client send its next request or leave.     *)
ServiceFairSpec == ServiceSpec /\ \A t \in Tx : WF_allVars(Inside(t))

-----------------------------------------------------------------------------
(* Properties *)

(* transaction.h, trans_get_status: TRANS_COMMITTED or TRANS_ABORTED "is    *)
(* the stable final status of the transaction".  The manager writes it     *)
(* under the mutex and the thread over it without, COMMIT looks at no      *)
(* status, and requests after a COMMIT are served.                         *)
StatusFinal ==
  [][\A x \in Tx : tx[x].status # "PENDING" => tx'[x].status = tx[x].status]_allVars

=============================================================================
