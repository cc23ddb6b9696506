CONSTANTS
  e1 = e1
  h1 = h1
  rd = rd
  NoJob = NoJob
  Reconciler = Reconciler
  Exports <- MCExports
  HostJobs <- MCHostJobs
  Readers <- MCNone
  Wishes <- MCWishes
  MaxFaults = 1
SPECIFICATION Spec
 
PROPERTIES HostJobsEndOnce
CHECK_DEADLOCK FALSE
