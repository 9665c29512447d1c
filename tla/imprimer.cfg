CONSTANTS
  Types = {"pdf", "txt", "ps"}
  Names = {p, q, r}
  Files = {"a.txt", "a.pdf"}
  TypeOf <- MCTypeOf
  Conversions <- MCConversions
  MaxPrinters = 2
  MaxJobs = 3
  MaxTypes = 2
  MaxConf = 1
  MaxArgs = 2
SYMMETRY MCSymmetry
SPECIFICATION Spec
INVARIANTS ImprimerTypeOK OneJobPerPrinter NothingLeftWaiting NoOvertaking
PROPERTY OnlyQueuedJobsChange
CHECK_DEADLOCK FALSE
