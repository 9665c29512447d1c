\* Three clients, one operation each; the last has yet to connect.
SPECIFICATION StartedSpec
CONSTANTS
  Tx = {x1, x2, x3}
  NoTx = NoTx
  MaxOps = 1
  MaxDeps = 2
CHECK_DEADLOCK FALSE
INVARIANTS
  TypeOK
  CommittedDepsCommitted
  
  
 
