\* A commit unlinks its transaction under the scan of trans_abort.
SPECIFICATION StartedSpec
CONSTANTS
  Tx = {x1, x2, x3}
  NoTx = NoTx
  MaxOps = 1
  MaxDeps = 2
CHECK_DEADLOCK FALSE
INVARIANT AbortReachesDependents
