CONSTANTS
  j1 = j1
  j2 = j2
  NoJob = NoJob
  NoMode = NoMode
  NotSampled = NotSampled
  Jobs <- MCJobs
  Modes <- MCOneMode
  DumpStages <- MCDumpStages
  NoneStage <- MCNoneStage
  StageSteps = 1
SPECIFICATION LiveSpec
INVARIANTS TypeOK  OutcomeMatchesDisk ArtifactIsOwnDump
PROPERTIES ProgressIsMonotonic JobMovesForward 
CHECK_DEADLOCK FALSE
