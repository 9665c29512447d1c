-------------------------- MODULE TransactionSpec --------------------------
(* What hw5/include/transaction.h promises of transactions, apart from     *)
(* threads, locks, lists and references: a transaction is pending until it *)
(* commits or aborts, that status is final, and it commits only after      *)
(* everything it depends on has committed.                                 *)
CONSTANT Tx

VARIABLES status, depends

vars == <<status, depends>>

TypeOK ==
  /\ status \in [Tx -> {"PENDING", "COMMITTED", "ABORTED"}]
  /\ depends \in [Tx -> SUBSET Tx]

Init == status = [t \in Tx |-> "PENDING"] /\ depends = [t \in Tx |-> {}]

(* An aborted transaction may still be inside an operation that adds one.  *)
AddDependency(t, d) ==
  /\ status[t] # "COMMITTED" /\ d # t
  /\ depends' = [depends EXCEPT ![t] = @ \cup {d}]
  /\ UNCHANGED status

Commit(t) ==
  /\ status[t] = "PENDING"
  /\ \A d \in depends[t] : status[d] = "COMMITTED"
  /\ status' = [status EXCEPT ![t] = "COMMITTED"]
  /\ UNCHANGED depends

Abort(t) ==
  /\ status[t] = "PENDING"
  /\ status' = [status EXCEPT ![t] = "ABORTED"]
  /\ UNCHANGED depends

Next == \E t \in Tx : Commit(t) \/ Abort(t) \/ \E d \in Tx : AddDependency(t, d)

Spec == Init /\ [][Next]_vars

(* No committed transaction depends on one that has not committed          *)
(* (transaction.h, on dependencies).                                       *)
Consistent ==
  \A t \in Tx : status[t] = "COMMITTED" => \A d \in depends[t] : status[d] = "COMMITTED"

(* A final status is stable (transaction.h, trans_get_status).             *)
FinalStatusStable ==
  [][\A t \in Tx : status[t] # "PENDING" => status'[t] = status[t]]_vars

=============================================================================
