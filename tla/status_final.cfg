\* Clients that go on, after an abort and after a COMMIT.
SPECIFICATION ServiceSpec
CONSTANTS
  Tx = {x1, x2}
  NoTx = NoTx
  MaxOps = 2
  MaxDeps = 1
  AfterCommit = TRUE
CHECK_DEADLOCK FALSE
PROPERTY StatusFinal
