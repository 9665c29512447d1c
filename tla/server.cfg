\* Two service threads on a registry of one slot, from the start to the exit.
SPECIFICATION FairSpec
CONSTANTS
  Thread = {t1, t2}
  Fd = {f1, f2}
  NoFd = NoFd
  NSlots = 1
INVARIANTS
  ServerTypeOK
  NoTransactionAtFini
PROPERTIES
  ShutDownThreadsLeave
  SighupEnds
