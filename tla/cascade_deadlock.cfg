\* trans_abort against trans_add_dependency on the same two transactions.
SPECIFICATION StartedFairSpec
CONSTANTS
  Tx = {x1, x2}
  NoTx = NoTx
  MaxOps = 2
  MaxDeps = 2
CHECK_DEADLOCK FALSE
PROPERTY AbortReturns
