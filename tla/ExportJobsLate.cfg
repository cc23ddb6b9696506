CONSTANTS
  e1 = e1
  h1 = h1
  rd = rd
  NoJob = NoJob
  Reconciler = Reconciler
  Exports <- MCExports
  HostJobs <- MCNone
  Readers <- MCReaders
  Wishes <- MCDefault
  MaxFaults = 0
SPECIFICATION Spec
PROPERTIES FinishedStaysIndexed
CHECK_DEADLOCK FALSE
