\* Service threads from trans_create on; their clients send nothing after COMMIT.
SPECIFICATION ServiceFairSpec
CONSTANTS
  Tx = {x1, x2}
  NoTx = NoTx
  MaxOps = 2
  MaxDeps = 2
  AfterCommit = FALSE
CHECK_DEADLOCK FALSE
INVARIANTS
  ServiceTypeOK
  CommittedDepsCommitted
PROPERTY CommitEnds
