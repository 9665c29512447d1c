---------------------------- MODULE XactoServer ----------------------------
(* The life of the Xacto server around the client registry: main() and     *)
(* terminate() of hw5/src/main.c, and a service thread of                  *)
(* hw5/src/server.c from its creation to close().  What happens inside the *)
(* transaction manager and the store is in modules Transaction and         *)
(* ServiceThread; here a thread enters a call of theirs and comes back, if *)
(* the call returns.                                                       *)
(* The main thread is the closer of ClientRegistry: SIGHUP is delivered to *)
(* it, and terminate() runs inside the handler and never returns, so no    *)
(* connection is accepted after it.  A second SIGHUP is not modelled.      *)
EXTENDS ClientRegistry

VARIABLES
  phase,      \* where the process is
  at,         \* where each service thread is between its two registry calls
  committed,  \* the threads whose isCommit is set
  hup         \* descriptors whose client has hung up

serverVars == <<phase, at, committed, hup>>
vars == <<regVars, phase, at, committed, hup>>

Phase == {"booting", "running", "terminating", "finalizing", "exited", "crashed"}

(* Inside a call that works on the transaction: store_get or store_put,    *)
(* trans_commit, trans_abort.  A thread that serves its connection is in   *)
(* one of these or receives the next request.                              *)
InCall(t) == at[t] \in {"request", "commit", "abort"}
Serving(t) == at[t] = "receive" \/ InCall(t)

ServerTypeOK ==
  /\ TypeOK
  /\ phase \in Phase
  /\ at \in [Thread -> {"none", "receive", "request", "commit", "abort", "ended"}]
  /\ committed \in SUBSET Thread
  /\ hup \in SUBSET Fd

(* sigaction() comes first; the registry does not exist yet.               *)
ServerInit ==
  /\ Init
  /\ phase = "booting"
  /\ at = [t \in Thread |-> "none"]
  /\ committed = {} /\ hup = {}

Alive == phase \notin {"exited", "crashed"}

-----------------------------------------------------------------------------
(* The main thread *)

Boot == phase = "booting" /\ phase' = "running" /\ UNCHANGED <<regVars, at, committed, hup>>

(* A descriptor stays in use until the service thread closes it, after it  *)
(* has unregistered.                                                       *)
Open(fd) == \E t \in Thread : (pc[t] # "out" \/ at[t] # "none") /\ arg[t] = fd

(* accept() and pthread_create(): the thread is about to register the      *)
(* descriptor, or the -1 of an accept() that failed: it is not checked.    *)
Accept(t, fd) ==
  /\ phase = "running" /\ at[t] = "none"
  /\ fd = NoFd \/ ~Open(fd)
  /\ CallRegister(t, fd)
  /\ hup' = hup \ {fd}
  /\ UNCHANGED <<phase, at, committed>>

(* handle_signal() calls terminate(), which dereferences client_registry.  *)
Sighup ==
  /\ phase \in {"booting", "running"}
  /\ phase' = IF phase = "booting" THEN "crashed" ELSE "terminating"
  /\ UNCHANGED <<regVars, at, committed, hup>>

Terminate == phase = "terminating" /\ Close /\ UNCHANGED serverVars

(* trans_fini(), store_fini(); then exit(), which ends every thread.       *)
TransFini ==
  /\ phase = "terminating" /\ mpc = "finalized"
  /\ phase' = "finalizing"
  /\ UNCHANGED <<regVars, at, committed, hup>>

Exit == phase = "finalizing" /\ phase' = "exited" /\ UNCHANGED <<regVars, at, committed, hup>>

-----------------------------------------------------------------------------
(* A service thread *)

InRegistry(t) == mpc # "finalized" /\ (Register(t) \/ Unregister(t)) /\ UNCHANGED serverVars

Move(t, from, to) ==
  /\ pc[t] = "in" /\ at[t] = from
  /\ at' = [at EXCEPT ![t] = to]
  /\ UNCHANGED <<regVars, phase, hup>>

TransCreate(t) == Move(t, "none", "receive") /\ UNCHANGED committed

(* A request has been received: GET and PUT call the store, COMMIT calls   *)
(* trans_commit.  What was sent before the connection ended is still read. *)
Request(t) ==
  /\ arg[t] # NoFd
  /\ Move(t, "receive", "request") \/ Move(t, "receive", "commit")
  /\ UNCHANGED committed

(* The call returns.                                                       *)
Return(t) ==
  \/ Move(t, "request", "receive") /\ UNCHANGED committed
  \/ Move(t, "commit", "receive") /\ committed' = committed \cup {t}
  \/ Move(t, "abort", "ended") /\ UNCHANGED committed

(* The call ends the process, by the exit(-1) of trans_abort; or the       *)
(* thread has come back from it and writes its reply where nobody listens: *)
(* SIGPIPE keeps its default action.                                       *)
Crash(t) ==
  /\ at[t] \in {"request", "abort"} \/ (at[t] = "commit" /\ arg[t] \in shut \cup hup)
  /\ phase' = "crashed"
  /\ UNCHANGED <<regVars, at, committed, hup>>

(* The receive loop is left only when receiving fails; trans_abort() is    *)
(* called unless isCommit is set.                                          *)
RecvFails(t) == arg[t] \in shut \cup hup \cup {NoFd}

EndLoop(t) ==
  /\ RecvFails(t)
  /\ Move(t, "receive", IF t \in committed THEN "ended" ELSE "abort")
  /\ UNCHANGED committed

(* Mutant: the thread unregisters before it ends its transaction.          *)
LeaveEarly(t) == at[t] # "none" /\ CallUnregister(t) /\ UNCHANGED serverVars

Leave(t) == at[t] = "ended" /\ CallUnregister(t) /\ UNCHANGED serverVars

CloseFd(t) ==
  /\ pc[t] = "out" /\ at[t] = "ended"
  /\ at' = [at EXCEPT ![t] = "none"]
  /\ committed' = committed \ {t} /\ hup' = hup \ {arg[t]}
  /\ UNCHANGED <<regVars, phase>>

(* What a thread does by itself, and what it does with its client and in   *)
(* the transaction manager.                                                *)
Proceed(t) == Alive /\ (InRegistry(t) \/ TransCreate(t) \/ Leave(t) \/ CloseFd(t))
Leaves(t) == Alive /\ EndLoop(t)
Returns(t) == Alive /\ Return(t)

Serve(t) == Proceed(t) \/ Leaves(t) \/ Returns(t) \/ (Alive /\ (Request(t) \/ Crash(t)))

(* The client of an open connection goes away.                             *)
HangUp(fd) ==
  /\ Alive /\ Open(fd) /\ fd \notin hup
  /\ hup' = hup \cup {fd}
  /\ UNCHANGED <<regVars, phase, at, committed>>

Over == ~Alive /\ UNCHANGED vars

ServerNext ==
  \/ Boot \/ Sighup \/ Terminate \/ TransFini \/ Exit
  \/ \E t \in Thread : Serve(t) \/ \E fd \in Fd \cup {NoFd} : Accept(t, fd)
  \/ \E fd \in Fd : HangUp(fd)
  \/ Over

ServerSpec == ServerInit /\ [][ServerNext]_vars

(* Threads run.  A descriptor that has been shut down, or whose client is  *)
(* gone, has finitely many requests left to read.  Nothing obliges a       *)
(* client to hang up or to send, SIGHUP to come, or a call of the          *)
(* transaction manager to return.                                          *)
Fairness ==
  /\ WF_vars(Boot) /\ WF_vars(Terminate) /\ WF_vars(TransFini) /\ WF_vars(Exit)
  /\ \A t \in Thread : WF_vars(Proceed(t)) /\ SF_vars(Leaves(t))

FairSpec == ServerSpec /\ Fairness

-----------------------------------------------------------------------------
(* Properties *)

(* When trans_fini() frees the transactions (main.c line 122), no thread   *)
(* with a valid descriptor is between its trans_create() and its           *)
(* trans_abort(): these come after creg_register() and before              *)
(* creg_unregister().                                                      *)
NoTransactionAtFini ==
  phase = "finalizing" =>
    \A t \in Thread : Serving(t) => arg[t] = NoFd

(* If the calls of the transaction manager return, a thread whose          *)
(* registered descriptor creg_shutdown_all() has shut down leaves the      *)
(* registry, whatever its client does, while the process lives.            *)
CallsReturn == \A t \in Thread : WF_vars(Returns(t))
ShutDownThreadsLeave ==
  CallsReturn =>
    \A t \in Thread : (t \in member /\ arg[t] \in shut) ~> (t \notin member \/ ~Alive)

(* If these calls return and every client hangs up in the end, SIGHUP ends *)
(* the process: no order of registering, unregistering and waiting, on a   *)
(* full registry either, hangs it.                                         *)
ClientsLeave == \A fd \in Fd : WF_vars(HangUp(fd))
SighupEnds == CallsReturn /\ ClientsLeave => ((phase = "terminating") ~> ~Alive)

=============================================================================
