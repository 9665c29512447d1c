\* Three threads compete for two slots.
SPECIFICATION Spec
CONSTANTS
  Thread = {t1, t2, t3}
  Fd = {f1, f2, f3}
  NoFd = NoFd
  NSlots = 2
SYMMETRY Symmetry
INVARIANTS
  TypeOK
  RegisterFindsSlot
  UnregisterFindsFd
  RegisteredOnce
  WaitReturnsEmpty
  TokensConserved
PROPERTY ClosedStaysClosed
