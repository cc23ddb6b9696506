CONSTANTS
  e1 = e1
  h1 = h1
  rd = rd
  NoJob = NoJob
  Reconciler = Reconciler
  Exports <- MCExports
  HostJobs <- MCNone
  Readers <- MCReaders
  Wishes <- MCWithOrWithoutIndex
  MaxFaults = 1
SPECIFICATION LiveSpec
PROPERTIES  ExportIsFinalized
CHECK_DEADLOCK FALSE
