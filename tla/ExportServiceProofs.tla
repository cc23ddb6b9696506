------------------------- MODULE ExportServiceProofs -------------------------
(***************************************************************************)
(* Proofs about ExportService for any number of jobs and modes, any stages *)
(* of the dump and any resolution of its progress.                         *)
(***************************************************************************)
EXTENDS ExportService, TLAPS

\* The inductive invariant behind the properties above: what the worker's
\* position says of the status, of the mutex and of the files.
BeforePublish == {"queued", "generating", "dumping", "dumped", "finalizing",
                  "hashed", "copied", "described", "failing"}

WorkerAgreesWithStatus ==
  /\ running <=> workJob \in Jobs
  /\ worker = "queued" => status.state \in {"queued", "exporting"}
  /\ worker \in {"generating", "dumping", "dumped"} => status.state = "exporting"
  /\ worker \in {"finalizing", "hashed", "copied", "described", "moved"}
       => status.state = "finalizing"
  /\ worker = "failing" => status.state \in {"exporting", "finalizing"}
  /\ ~Unlocked => running /\ status.state \in {"queued", "exporting"}
  /\ status.job = NoJob <=> status.state = "idle"

WorkerAgreesWithDisk ==
  /\ worker \in BeforePublish => disk[workJob] # "published"
  /\ worker = "moved" => disk[workJob] = "published"
  /\ \A j \in Jobs : jobMode[j] = NoMode => disk[j] = "none"
  /\ status.job \in Jobs => jobMode[status.job] # NoMode

DumpIsOwn ==
  workJob \in Jobs \ disturbed =>
    /\ worker \in {"dumped", "finalizing", "hashed"} => dumpFile = workJob
    /\ worker \in {"hashed", "copied", "described"} => hash[workJob] = workJob
    /\ worker \in {"copied", "described"} => content[workJob] = workJob

ProgressFitsState ==
  /\ status.state = "idle" => status.progress = 0
  /\ status.state \in {"idle", "queued", "exporting"} => status.progress <= Fraction(90)
  /\ status.progress <= Fraction(100)
  /\ status.state = "finalizing" => status.progress = Fraction(92)

IInv ==
  /\ TypeOK /\ StatusTellsWhatRuns /\ OutcomeMatchesDisk /\ ArtifactIsOwnDump
  /\ WorkerAgreesWithStatus /\ WorkerAgreesWithDisk /\ DumpIsOwn /\ ProgressFitsState

-----------------------------------------------------------------------------
\* The cap of 0.90 in overall_export_progress: whatever stage and progress the
\* two atomics show, and however torn the pair is, the sum stays below it.
LEMMA ProgressIsCapped ==
  ASSUME NEW s \in Int, NEW p \in 0..StageSteps
  PROVE  /\ OverallProgress(s, p) \in Nat
         /\ OverallProgress(s, p) <= Fraction(90)
PROOF
<1>1. StageSteps \in Nat BY ConstantsOK
<1>2. Clamp(s) \in 0..9 BY DEF Clamp
<1>3. \A c \in 0..9 : c * StageSteps + p \in Nat /\ c * StageSteps + p <= 10 * StageSteps
  BY <1>1
<1> QED BY <1>1, <1>2, <1>3 DEF OverallProgress, Fraction

StatusRecords == [job : Jobs \cup {NoJob}, mode : Modes \cup {NoMode},
                  state : States, progress : Nat]

\* update() leaves job_ref and mode alone and keeps m_status well-formed.
LEMMA UpdatedStatus ==
  ASSUME status \in StatusRecords, NEW state \in States, NEW progress \in Nat,
         status' = [status EXCEPT !.state = state, !.progress = progress]
  PROVE  /\ status' \in StatusRecords
         /\ status'.job = status.job /\ status'.mode = status.mode
         /\ status'.state = state /\ status'.progress = progress
PROOF
<1> QED BY DEF StatusRecords

\* The marks of progress the worker sets are numbers.
LEMMA FractionsAreNumbers ==
  Fraction(90) \in Nat /\ Fraction(92) \in Nat /\ Fraction(100) \in Nat
PROOF
<1> QED BY ConstantsOK DEF Fraction

\* The status of a service that has not run a job is well-formed.
LEMMA NoStatusTyped == NoStatus \in StatusRecords /\ 0 \in 0..StageSteps
PROOF
<1>1. "idle" \in States BY DEF States
<1> QED BY <1>1, ConstantsOK DEF NoStatus, StatusRecords

\* The initial state satisfies the invariant.
LEMMA InitIInv == Init => IInv
PROOF
<1> SUFFICES ASSUME Init PROVE IInv OBVIOUS
<1> USE ConstantsOK DEF Init, NoStatus
<1>1. TypeOK
  <2>1. status \in StatusRecords BY NoStatusTyped
  <2>2. worker \in Workers /\ disk \in [Jobs -> Places] BY DEF Workers, Places
  <2> QED BY <2>1, <2>2, NoStatusTyped DEF TypeOK, StatusRecords
<1>2. StatusTellsWhatRuns BY DEF StatusTellsWhatRuns, Finished
<1>3. OutcomeMatchesDisk BY DEF OutcomeMatchesDisk
<1>4. ArtifactIsOwnDump BY DEF ArtifactIsOwnDump
<1>5. WorkerAgreesWithStatus BY DEF WorkerAgreesWithStatus, Unlocked
<1>6. WorkerAgreesWithDisk BY DEF WorkerAgreesWithDisk, BeforePublish
<1>7. DumpIsOwn BY DEF DumpIsOwn
<1>8. ProgressFitsState BY DEF ProgressFitsState, Fraction
<1> QED BY <1>1, <1>2, <1>3, <1>4, <1>5, <1>6, <1>7, <1>8 DEF IInv

\* OfferReusable keeps the inductive invariant.
LEMMA OfferReusableStep ==
  ASSUME IInv, NEW m \in Modes, OfferReusable(m)
  PROVE  IInv'
PROOF
<1> USE ConstantsOK DEF IInv, OfferReusable, serviceVars, dumpVars, artifactVars
<1>1. TypeOK'
  BY SMT DEF TypeOK, States, Workers, Places, Fraction,
             WorkerAgreesWithStatus, StatusTellsWhatRuns
<1>2. StatusTellsWhatRuns' BY SMT DEF StatusTellsWhatRuns, Finished
<1>3. OutcomeMatchesDisk'
  BY SMT DEF OutcomeMatchesDisk, WorkerAgreesWithStatus, WorkerAgreesWithDisk,
             BeforePublish, TypeOK, StatusTellsWhatRuns, Finished
<1>4. ArtifactIsOwnDump'
  BY SMT DEF ArtifactIsOwnDump, DumpIsOwn, WorkerAgreesWithStatus,
             StatusTellsWhatRuns, TypeOK
<1>5. WorkerAgreesWithStatus'
  BY SMT DEF WorkerAgreesWithStatus, Unlocked, StatusTellsWhatRuns, Finished, TypeOK
<1>6. WorkerAgreesWithDisk'
  BY SMT DEF WorkerAgreesWithDisk, BeforePublish, WorkerAgreesWithStatus,
             StatusTellsWhatRuns, TypeOK
<1>7. DumpIsOwn'
  BY SMT DEF DumpIsOwn, WorkerAgreesWithStatus, StatusTellsWhatRuns, TypeOK
<1>8. ProgressFitsState'
  BY SMT DEF ProgressFitsState, Fraction, WorkerAgreesWithStatus, TypeOK
<1> QED BY <1>1, <1>2, <1>3, <1>4, <1>5, <1>6, <1>7, <1>8 DEF IInv

\* Ask keeps the inductive invariant.
LEMMA AskStep ==
  ASSUME IInv, NEW m \in Modes, Ask(m)
  PROVE  IInv'
PROOF
<1> USE ConstantsOK DEF IInv, Ask, serviceVars, dumpVars, artifactVars
<1>1. TypeOK'
  BY SMT DEF TypeOK, States, Workers, Places, Fraction,
             WorkerAgreesWithStatus, StatusTellsWhatRuns
<1>2. StatusTellsWhatRuns' BY SMT DEF StatusTellsWhatRuns, Finished
<1>3. OutcomeMatchesDisk'
  BY SMT DEF OutcomeMatchesDisk, WorkerAgreesWithStatus, WorkerAgreesWithDisk,
             BeforePublish, TypeOK, StatusTellsWhatRuns, Finished
<1>4. ArtifactIsOwnDump'
  BY SMT DEF ArtifactIsOwnDump, DumpIsOwn, WorkerAgreesWithStatus,
             StatusTellsWhatRuns, TypeOK
<1>5. WorkerAgreesWithStatus'
  BY SMT DEF WorkerAgreesWithStatus, Unlocked, StatusTellsWhatRuns, Finished, TypeOK
<1>6. WorkerAgreesWithDisk'
  BY SMT DEF WorkerAgreesWithDisk, BeforePublish, WorkerAgreesWithStatus,
             StatusTellsWhatRuns, TypeOK
<1>7. DumpIsOwn'
  BY SMT DEF DumpIsOwn, WorkerAgreesWithStatus, StatusTellsWhatRuns, TypeOK
<1>8. ProgressFitsState'
  BY SMT DEF ProgressFitsState, Fraction, WorkerAgreesWithStatus, TypeOK
<1> QED BY <1>1, <1>2, <1>3, <1>4, <1>5, <1>6, <1>7, <1>8 DEF IInv

\* Launch keeps the inductive invariant.
LEMMA LaunchStep ==
  ASSUME IInv, NEW j \in Jobs, Launch(j)
  PROVE  IInv'
PROOF
<1> USE ConstantsOK DEF IInv, Launch, Unlocked, dumpVars, artifactVars
<1>1. TypeOK'
  BY SMT DEF TypeOK, States, Workers, Places, Fraction,
             WorkerAgreesWithStatus, StatusTellsWhatRuns
<1>2. StatusTellsWhatRuns' BY SMT DEF StatusTellsWhatRuns, Finished
<1>3. OutcomeMatchesDisk'
  BY SMT DEF OutcomeMatchesDisk, WorkerAgreesWithStatus, WorkerAgreesWithDisk,
             BeforePublish, TypeOK, StatusTellsWhatRuns, Finished
<1>4. ArtifactIsOwnDump'
  BY SMT DEF ArtifactIsOwnDump, DumpIsOwn, WorkerAgreesWithStatus,
             StatusTellsWhatRuns, TypeOK
<1>5. WorkerAgreesWithStatus'
  BY SMT DEF WorkerAgreesWithStatus, Unlocked, StatusTellsWhatRuns, Finished, TypeOK
<1>6. WorkerAgreesWithDisk'
  BY SMT DEF WorkerAgreesWithDisk, BeforePublish, WorkerAgreesWithStatus,
             StatusTellsWhatRuns, TypeOK
<1>7. DumpIsOwn'
  BY SMT DEF DumpIsOwn, WorkerAgreesWithStatus, StatusTellsWhatRuns, TypeOK
<1>8. ProgressFitsState'
  BY SMT DEF ProgressFitsState, Fraction, WorkerAgreesWithStatus, TypeOK
<1> QED BY <1>1, <1>2, <1>3, <1>4, <1>5, <1>6, <1>7, <1>8 DEF IInv

\* AnswerRunning keeps the inductive invariant.
LEMMA AnswerRunningStep ==
  ASSUME IInv, AnswerRunning
  PROVE  IInv'
PROOF
<1> USE ConstantsOK DEF IInv, AnswerRunning, Unlocked, serviceVars, dumpVars, artifactVars
<1>1. TypeOK'
  BY SMT DEF TypeOK, States, Workers, Places, Fraction,
             WorkerAgreesWithStatus, StatusTellsWhatRuns
<1>2. StatusTellsWhatRuns' BY SMT DEF StatusTellsWhatRuns, Finished
<1>3. OutcomeMatchesDisk'
  BY SMT DEF OutcomeMatchesDisk, WorkerAgreesWithStatus, WorkerAgreesWithDisk,
             BeforePublish, TypeOK, StatusTellsWhatRuns, Finished
<1>4. ArtifactIsOwnDump'
  BY SMT DEF ArtifactIsOwnDump, DumpIsOwn, WorkerAgreesWithStatus,
             StatusTellsWhatRuns, TypeOK
<1>5. WorkerAgreesWithStatus'
  BY SMT DEF WorkerAgreesWithStatus, Unlocked, StatusTellsWhatRuns, Finished, TypeOK
<1>6. WorkerAgreesWithDisk'
  BY SMT DEF WorkerAgreesWithDisk, BeforePublish, WorkerAgreesWithStatus,
             StatusTellsWhatRuns, TypeOK
<1>7. DumpIsOwn'
  BY SMT DEF DumpIsOwn, WorkerAgreesWithStatus, StatusTellsWhatRuns, TypeOK
<1>8. ProgressFitsState'
  BY SMT DEF ProgressFitsState, Fraction, WorkerAgreesWithStatus, TypeOK
<1> QED BY <1>1, <1>2, <1>3, <1>4, <1>5, <1>6, <1>7, <1>8 DEF IInv

\* PollBegin keeps the inductive invariant.
LEMMA PollBeginStep ==
  ASSUME IInv, PollBegin
  PROVE  IInv'
PROOF
<1> USE ConstantsOK DEF IInv, PollBegin, Unlocked, serviceVars, dumpVars, artifactVars
<1>1. TypeOK'
  BY SMT DEF TypeOK, States, Workers, Places, Fraction,
             WorkerAgreesWithStatus, StatusTellsWhatRuns
<1>2. StatusTellsWhatRuns' BY SMT DEF StatusTellsWhatRuns, Finished
<1>3. OutcomeMatchesDisk'
  BY SMT DEF OutcomeMatchesDisk, WorkerAgreesWithStatus, WorkerAgreesWithDisk,
             BeforePublish, TypeOK, StatusTellsWhatRuns, Finished
<1>4. ArtifactIsOwnDump'
  BY SMT DEF ArtifactIsOwnDump, DumpIsOwn, WorkerAgreesWithStatus,
             StatusTellsWhatRuns, TypeOK
<1>5. WorkerAgreesWithStatus'
  BY SMT DEF WorkerAgreesWithStatus, Unlocked, StatusTellsWhatRuns, Finished, TypeOK
<1>6. WorkerAgreesWithDisk'
  BY SMT DEF WorkerAgreesWithDisk, BeforePublish, WorkerAgreesWithStatus,
             StatusTellsWhatRuns, TypeOK
<1>7. DumpIsOwn'
  BY SMT DEF DumpIsOwn, WorkerAgreesWithStatus, StatusTellsWhatRuns, TypeOK
<1>8. ProgressFitsState'
  BY SMT DEF ProgressFitsState, Fraction, WorkerAgreesWithStatus, TypeOK
<1> QED BY <1>1, <1>2, <1>3, <1>4, <1>5, <1>6, <1>7, <1>8 DEF IInv

\* What a poll does to m_status: the state becomes exporting and the progress,
\* still under the cap, does not go back.
LEMMA PollEffect ==
  ASSUME IInv, PollEnd
  PROVE  /\ running /\ status.state \in {"queued", "exporting"}
         /\ status' \in StatusRecords /\ status'.job = status.job
         /\ status'.state = "exporting"
         /\ status'.progress >= status.progress
         /\ status'.progress <= Fraction(90)
PROOF
<1> USE ConstantsOK DEF IInv, PollEnd
<1> DEFINE weighted == OverallProgress(sampled, dumpProgress)
           top == IF weighted > status.progress THEN weighted ELSE status.progress
<1>1. /\ sampled \in Int /\ dumpProgress \in 0..StageSteps
      /\ status \in StatusRecords /\ status.progress \in Nat
      /\ running /\ status.state \in {"queued", "exporting"}
  BY DEF TypeOK, StatusRecords, WorkerAgreesWithStatus, Unlocked
<1>2. weighted \in Nat /\ weighted <= Fraction(90)
  BY <1>1, ProgressIsCapped
<1> HIDE DEF weighted
<1>3. top \in Nat /\ top <= Fraction(90) /\ top >= status.progress
  BY <1>1, <1>2, FractionsAreNumbers DEF ProgressFitsState
<1>4. status' = [status EXCEPT !.state = "exporting", !.progress = top]
  BY DEF weighted
<1> HIDE DEF top
<1>5. /\ status' \in StatusRecords /\ status'.job = status.job
      /\ status'.state = "exporting" /\ status'.progress = top
  BY <1>1, <1>3, <1>4, UpdatedStatus DEF States
<1> QED BY <1>1, <1>3, <1>5

\* PollEnd keeps the inductive invariant.
LEMMA PollEndStep ==
  ASSUME IInv, PollEnd
  PROVE  IInv'
PROOF
<1> USE ConstantsOK DEF IInv, PollEnd, Unlocked, dumpVars, artifactVars
<1>a. status' \in StatusRecords /\ UNCHANGED <<running, worker, workJob>>
  BY PollEffect
<1>1. TypeOK'
  BY <1>a DEF TypeOK, StatusRecords
<1>2. StatusTellsWhatRuns'
  BY <1>a, PollEffect DEF StatusTellsWhatRuns, Finished
<1>3. OutcomeMatchesDisk'
  BY SMT DEF OutcomeMatchesDisk, WorkerAgreesWithStatus, WorkerAgreesWithDisk,
             BeforePublish, TypeOK, StatusTellsWhatRuns, Finished
<1>4. ArtifactIsOwnDump'
  BY SMT DEF ArtifactIsOwnDump, DumpIsOwn, WorkerAgreesWithStatus,
             StatusTellsWhatRuns, TypeOK
<1>5. WorkerAgreesWithStatus'
  BY SMT DEF WorkerAgreesWithStatus, Unlocked, StatusTellsWhatRuns, Finished, TypeOK
<1>6. WorkerAgreesWithDisk'
  BY SMT DEF WorkerAgreesWithDisk, BeforePublish, WorkerAgreesWithStatus,
             StatusTellsWhatRuns, TypeOK
<1>7. DumpIsOwn'
  BY SMT DEF DumpIsOwn, WorkerAgreesWithStatus, StatusTellsWhatRuns, TypeOK
<1>8. ProgressFitsState'
  <2>1. status'.progress \in Nat BY <1>a DEF StatusRecords
  <2>2. Fraction(90) <= Fraction(100) BY ConstantsOK DEF Fraction
  <2> QED BY <2>1, <2>2, PollEffect, FractionsAreNumbers DEF ProgressFitsState
<1> QED BY <1>1, <1>2, <1>3, <1>4, <1>5, <1>6, <1>7, <1>8 DEF IInv

\* DumpAdvances keeps the inductive invariant.
LEMMA DumpAdvancesStep ==
  ASSUME IInv, DumpAdvances
  PROVE  IInv'
PROOF
<1> USE ConstantsOK DEF IInv, DumpAdvances, serviceVars, artifactVars
<1>1. TypeOK'
  BY SMT DEF TypeOK, States, Workers, Places, Fraction,
             WorkerAgreesWithStatus, StatusTellsWhatRuns
<1>2. StatusTellsWhatRuns' BY SMT DEF StatusTellsWhatRuns, Finished
<1>3. OutcomeMatchesDisk'
  BY SMT DEF OutcomeMatchesDisk, WorkerAgreesWithStatus, WorkerAgreesWithDisk,
             BeforePublish, TypeOK, StatusTellsWhatRuns, Finished
<1>4. ArtifactIsOwnDump'
  BY SMT DEF ArtifactIsOwnDump, DumpIsOwn, WorkerAgreesWithStatus,
             StatusTellsWhatRuns, TypeOK
<1>5. WorkerAgreesWithStatus'
  BY SMT DEF WorkerAgreesWithStatus, Unlocked, StatusTellsWhatRuns, Finished, TypeOK
<1>6. WorkerAgreesWithDisk'
  BY SMT DEF WorkerAgreesWithDisk, BeforePublish, WorkerAgreesWithStatus,
             StatusTellsWhatRuns, TypeOK
<1>7. DumpIsOwn'
  BY SMT DEF DumpIsOwn, WorkerAgreesWithStatus, StatusTellsWhatRuns, TypeOK
<1>8. ProgressFitsState'
  BY SMT DEF ProgressFitsState, Fraction, WorkerAgreesWithStatus, TypeOK
<1> QED BY <1>1, <1>2, <1>3, <1>4, <1>5, <1>6, <1>7, <1>8 DEF IInv

\* UiDumpBegins keeps the inductive invariant.
LEMMA UiDumpBeginsStep ==
  ASSUME IInv, UiDumpBegins
  PROVE  IInv'
PROOF
<1> USE ConstantsOK DEF IInv, UiDumpBegins, BeginDump, serviceVars, artifactVars
<1>1. TypeOK'
  BY SMT DEF TypeOK, States, Workers, Places, Fraction,
             WorkerAgreesWithStatus, StatusTellsWhatRuns
<1>2. StatusTellsWhatRuns' BY SMT DEF StatusTellsWhatRuns, Finished
<1>3. OutcomeMatchesDisk'
  BY SMT DEF OutcomeMatchesDisk, WorkerAgreesWithStatus, WorkerAgreesWithDisk,
             BeforePublish, TypeOK, StatusTellsWhatRuns, Finished
<1>4. ArtifactIsOwnDump'
  BY SMT DEF ArtifactIsOwnDump, DumpIsOwn, WorkerAgreesWithStatus,
             StatusTellsWhatRuns, TypeOK
<1>5. WorkerAgreesWithStatus'
  BY SMT DEF WorkerAgreesWithStatus, Unlocked, StatusTellsWhatRuns, Finished, TypeOK
<1>6. WorkerAgreesWithDisk'
  BY SMT DEF WorkerAgreesWithDisk, BeforePublish, WorkerAgreesWithStatus,
             StatusTellsWhatRuns, TypeOK
<1>7. DumpIsOwn'
  BY SMT DEF DumpIsOwn, WorkerAgreesWithStatus, StatusTellsWhatRuns, TypeOK
<1>8. ProgressFitsState'
  BY SMT DEF ProgressFitsState, Fraction, WorkerAgreesWithStatus, TypeOK
<1> QED BY <1>1, <1>2, <1>3, <1>4, <1>5, <1>6, <1>7, <1>8 DEF IInv

\* UiDumpWrites keeps the inductive invariant.
LEMMA UiDumpWritesStep ==
  ASSUME IInv, UiDumpWrites
  PROVE  IInv'
PROOF
<1> USE ConstantsOK DEF IInv, UiDumpWrites, serviceVars, artifactVars
<1>1. TypeOK'
  BY SMT DEF TypeOK, States, Workers, Places, Fraction,
             WorkerAgreesWithStatus, StatusTellsWhatRuns
<1>2. StatusTellsWhatRuns' BY SMT DEF StatusTellsWhatRuns, Finished
<1>3. OutcomeMatchesDisk'
  BY SMT DEF OutcomeMatchesDisk, WorkerAgreesWithStatus, WorkerAgreesWithDisk,
             BeforePublish, TypeOK, StatusTellsWhatRuns, Finished
<1>4. ArtifactIsOwnDump'
  BY SMT DEF ArtifactIsOwnDump, DumpIsOwn, WorkerAgreesWithStatus,
             StatusTellsWhatRuns, TypeOK
<1>5. WorkerAgreesWithStatus'
  BY SMT DEF WorkerAgreesWithStatus, Unlocked, StatusTellsWhatRuns, Finished, TypeOK
<1>6. WorkerAgreesWithDisk'
  BY SMT DEF WorkerAgreesWithDisk, BeforePublish, WorkerAgreesWithStatus,
             StatusTellsWhatRuns, TypeOK
<1>7. DumpIsOwn'
  BY SMT DEF DumpIsOwn, WorkerAgreesWithStatus, StatusTellsWhatRuns, TypeOK
<1>8. ProgressFitsState'
  BY SMT DEF ProgressFitsState, Fraction, WorkerAgreesWithStatus, TypeOK
<1> QED BY <1>1, <1>2, <1>3, <1>4, <1>5, <1>6, <1>7, <1>8 DEF IInv

\* UiDumpEnds keeps the inductive invariant.
LEMMA UiDumpEndsStep ==
  ASSUME IInv, UiDumpEnds
  PROVE  IInv'
PROOF
<1> USE ConstantsOK DEF IInv, UiDumpEnds, EndDump, serviceVars, artifactVars
<1>1. TypeOK'
  BY SMT DEF TypeOK, States, Workers, Places, Fraction,
             WorkerAgreesWithStatus, StatusTellsWhatRuns
<1>2. StatusTellsWhatRuns' BY SMT DEF StatusTellsWhatRuns, Finished
<1>3. OutcomeMatchesDisk'
  BY SMT DEF OutcomeMatchesDisk, WorkerAgreesWithStatus, WorkerAgreesWithDisk,
             BeforePublish, TypeOK, StatusTellsWhatRuns, Finished
<1>4. ArtifactIsOwnDump'
  BY SMT DEF ArtifactIsOwnDump, DumpIsOwn, WorkerAgreesWithStatus,
             StatusTellsWhatRuns, TypeOK
<1>5. WorkerAgreesWithStatus'
  BY SMT DEF WorkerAgreesWithStatus, Unlocked, StatusTellsWhatRuns, Finished, TypeOK
<1>6. WorkerAgreesWithDisk'
  BY SMT DEF WorkerAgreesWithDisk, BeforePublish, WorkerAgreesWithStatus,
             StatusTellsWhatRuns, TypeOK
<1>7. DumpIsOwn'
  BY SMT DEF DumpIsOwn, WorkerAgreesWithStatus, StatusTellsWhatRuns, TypeOK
<1>8. ProgressFitsState'
  BY SMT DEF ProgressFitsState, Fraction, WorkerAgreesWithStatus, TypeOK
<1> QED BY <1>1, <1>2, <1>3, <1>4, <1>5, <1>6, <1>7, <1>8 DEF IInv

\* Begin keeps the inductive invariant.
LEMMA BeginStep ==
  ASSUME IInv, Begin
  PROVE  IInv'
PROOF
<1> USE ConstantsOK DEF IInv, Begin, Update, Unlocked, WorkerGoes, dumpVars, artifactVars
<1>1. TypeOK'
  <2>1. status \in StatusRecords /\ status.progress \in Nat
    BY DEF TypeOK, StatusRecords
  <2>2. status' = [status EXCEPT !.state = "exporting", !.progress = status.progress]
    BY DEF Update
  <2>3. status' \in StatusRecords
    BY <2>1, <2>2, UpdatedStatus, FractionsAreNumbers DEF States
  <2> QED BY <2>3 DEF TypeOK, StatusRecords, Workers
<1>2. StatusTellsWhatRuns' BY SMT DEF StatusTellsWhatRuns, Finished
<1>3. OutcomeMatchesDisk'
  BY SMT DEF OutcomeMatchesDisk, WorkerAgreesWithStatus, WorkerAgreesWithDisk,
             BeforePublish, TypeOK, StatusTellsWhatRuns, Finished
<1>4. ArtifactIsOwnDump'
  BY SMT DEF ArtifactIsOwnDump, DumpIsOwn, WorkerAgreesWithStatus,
             StatusTellsWhatRuns, TypeOK
<1>5. WorkerAgreesWithStatus'
  BY SMT DEF WorkerAgreesWithStatus, Unlocked, StatusTellsWhatRuns, Finished, TypeOK
<1>6. WorkerAgreesWithDisk'
  BY SMT DEF WorkerAgreesWithDisk, BeforePublish, WorkerAgreesWithStatus,
             StatusTellsWhatRuns, TypeOK
<1>7. DumpIsOwn'
  BY SMT DEF DumpIsOwn, WorkerAgreesWithStatus, StatusTellsWhatRuns, TypeOK
<1>8. ProgressFitsState'
  BY SMT DEF ProgressFitsState, Fraction, WorkerAgreesWithStatus, TypeOK
<1> QED BY <1>1, <1>2, <1>3, <1>4, <1>5, <1>6, <1>7, <1>8 DEF IInv

\* Generate keeps the inductive invariant.
LEMMA GenerateStep ==
  ASSUME IInv, Generate
  PROVE  IInv'
PROOF
<1> USE ConstantsOK DEF IInv, Generate, WorkerGoes, BeginDump, serviceVars, artifactVars
<1>1. TypeOK'
  BY SMT DEF TypeOK, States, Workers, Places, Fraction,
             WorkerAgreesWithStatus, StatusTellsWhatRuns
<1>2. StatusTellsWhatRuns' BY SMT DEF StatusTellsWhatRuns, Finished
<1>3. OutcomeMatchesDisk'
  BY SMT DEF OutcomeMatchesDisk, WorkerAgreesWithStatus, WorkerAgreesWithDisk,
             BeforePublish, TypeOK, StatusTellsWhatRuns, Finished
<1>4. ArtifactIsOwnDump'
  BY SMT DEF ArtifactIsOwnDump, DumpIsOwn, WorkerAgreesWithStatus,
             StatusTellsWhatRuns, TypeOK
<1>5. WorkerAgreesWithStatus'
  BY SMT DEF WorkerAgreesWithStatus, Unlocked, StatusTellsWhatRuns, Finished, TypeOK
<1>6. WorkerAgreesWithDisk'
  BY SMT DEF WorkerAgreesWithDisk, BeforePublish, WorkerAgreesWithStatus,
             StatusTellsWhatRuns, TypeOK
<1>7. DumpIsOwn'
  BY SMT DEF DumpIsOwn, WorkerAgreesWithStatus, StatusTellsWhatRuns, TypeOK
<1>8. ProgressFitsState'
  BY SMT DEF ProgressFitsState, Fraction, WorkerAgreesWithStatus, TypeOK
<1> QED BY <1>1, <1>2, <1>3, <1>4, <1>5, <1>6, <1>7, <1>8 DEF IInv

\* GenerateRefused keeps the inductive invariant.
LEMMA GenerateRefusedStep ==
  ASSUME IInv, GenerateRefused
  PROVE  IInv'
PROOF
<1> USE ConstantsOK DEF IInv, GenerateRefused, WorkerGoes, serviceVars, dumpVars, artifactVars
<1>1. TypeOK'
  BY SMT DEF TypeOK, States, Workers, Places, Fraction,
             WorkerAgreesWithStatus, StatusTellsWhatRuns
<1>2. StatusTellsWhatRuns' BY SMT DEF StatusTellsWhatRuns, Finished
<1>3. OutcomeMatchesDisk'
  BY SMT DEF OutcomeMatchesDisk, WorkerAgreesWithStatus, WorkerAgreesWithDisk,
             BeforePublish, TypeOK, StatusTellsWhatRuns, Finished
<1>4. ArtifactIsOwnDump'
  BY SMT DEF ArtifactIsOwnDump, DumpIsOwn, WorkerAgreesWithStatus,
             StatusTellsWhatRuns, TypeOK
<1>5. WorkerAgreesWithStatus'
  BY SMT DEF WorkerAgreesWithStatus, Unlocked, StatusTellsWhatRuns, Finished, TypeOK
<1>6. WorkerAgreesWithDisk'
  BY SMT DEF WorkerAgreesWithDisk, BeforePublish, WorkerAgreesWithStatus,
             StatusTellsWhatRuns, TypeOK
<1>7. DumpIsOwn'
  BY SMT DEF DumpIsOwn, WorkerAgreesWithStatus, StatusTellsWhatRuns, TypeOK
<1>8. ProgressFitsState'
  BY SMT DEF ProgressFitsState, Fraction, WorkerAgreesWithStatus, TypeOK
<1> QED BY <1>1, <1>2, <1>3, <1>4, <1>5, <1>6, <1>7, <1>8 DEF IInv

\* Generated keeps the inductive invariant.
LEMMA GeneratedStep ==
  ASSUME IInv, Generated
  PROVE  IInv'
PROOF
<1> USE ConstantsOK DEF IInv, Generated, WorkerGoes, EndDump, serviceVars, artifactVars
<1>1. TypeOK'
  BY SMT DEF TypeOK, States, Workers, Places, Fraction,
             WorkerAgreesWithStatus, StatusTellsWhatRuns
<1>2. StatusTellsWhatRuns' BY SMT DEF StatusTellsWhatRuns, Finished
<1>3. OutcomeMatchesDisk'
  BY SMT DEF OutcomeMatchesDisk, WorkerAgreesWithStatus, WorkerAgreesWithDisk,
             BeforePublish, TypeOK, StatusTellsWhatRuns, Finished
<1>4. ArtifactIsOwnDump'
  BY SMT DEF ArtifactIsOwnDump, DumpIsOwn, WorkerAgreesWithStatus,
             StatusTellsWhatRuns, TypeOK
<1>5. WorkerAgreesWithStatus'
  BY SMT DEF WorkerAgreesWithStatus, Unlocked, StatusTellsWhatRuns, Finished, TypeOK
<1>6. WorkerAgreesWithDisk'
  BY SMT DEF WorkerAgreesWithDisk, BeforePublish, WorkerAgreesWithStatus,
             StatusTellsWhatRuns, TypeOK
<1>7. DumpIsOwn'
  BY SMT DEF DumpIsOwn, WorkerAgreesWithStatus, StatusTellsWhatRuns, TypeOK
<1>8. ProgressFitsState'
  BY SMT DEF ProgressFitsState, Fraction, WorkerAgreesWithStatus, TypeOK
<1> QED BY <1>1, <1>2, <1>3, <1>4, <1>5, <1>6, <1>7, <1>8 DEF IInv

\* GenerateThrows keeps the inductive invariant.
LEMMA GenerateThrowsStep ==
  ASSUME IInv, GenerateThrows
  PROVE  IInv'
PROOF
<1> USE ConstantsOK DEF IInv, GenerateThrows, WorkerGoes, EndDump, serviceVars, artifactVars
<1>1. TypeOK'
  BY SMT DEF TypeOK, States, Workers, Places, Fraction,
             WorkerAgreesWithStatus, StatusTellsWhatRuns
<1>2. StatusTellsWhatRuns' BY SMT DEF StatusTellsWhatRuns, Finished
<1>3. OutcomeMatchesDisk'
  BY SMT DEF OutcomeMatchesDisk, WorkerAgreesWithStatus, WorkerAgreesWithDisk,
             BeforePublish, TypeOK, StatusTellsWhatRuns, Finished
<1>4. ArtifactIsOwnDump'
  BY SMT DEF ArtifactIsOwnDump, DumpIsOwn, WorkerAgreesWithStatus,
             StatusTellsWhatRuns, TypeOK
<1>5. WorkerAgreesWithStatus'
  BY SMT DEF WorkerAgreesWithStatus, Unlocked, StatusTellsWhatRuns, Finished, TypeOK
<1>6. WorkerAgreesWithDisk'
  BY SMT DEF WorkerAgreesWithDisk, BeforePublish, WorkerAgreesWithStatus,
             StatusTellsWhatRuns, TypeOK
<1>7. DumpIsOwn'
  BY SMT DEF DumpIsOwn, WorkerAgreesWithStatus, StatusTellsWhatRuns, TypeOK
<1>8. ProgressFitsState'
  BY SMT DEF ProgressFitsState, Fraction, WorkerAgreesWithStatus, TypeOK
<1> QED BY <1>1, <1>2, <1>3, <1>4, <1>5, <1>6, <1>7, <1>8 DEF IInv

\* Finalize keeps the inductive invariant.
LEMMA FinalizeStep ==
  ASSUME IInv, Finalize
  PROVE  IInv'
PROOF
<1> USE ConstantsOK DEF IInv, Finalize, Update, Unlocked, WorkerGoes, dumpVars, artifactVars
<1>1. TypeOK'
  <2>1. status \in StatusRecords /\ status.progress \in Nat
    BY DEF TypeOK, StatusRecords
  <2>2. status' = [status EXCEPT !.state = "finalizing", !.progress = Fraction(92)]
    BY DEF Update
  <2>3. status' \in StatusRecords
    BY <2>1, <2>2, UpdatedStatus, FractionsAreNumbers DEF States
  <2> QED BY <2>3 DEF TypeOK, StatusRecords, Workers
<1>2. StatusTellsWhatRuns' BY SMT DEF StatusTellsWhatRuns, Finished
<1>3. OutcomeMatchesDisk'
  BY SMT DEF OutcomeMatchesDisk, WorkerAgreesWithStatus, WorkerAgreesWithDisk,
             BeforePublish, TypeOK, StatusTellsWhatRuns, Finished
<1>4. ArtifactIsOwnDump'
  BY SMT DEF ArtifactIsOwnDump, DumpIsOwn, WorkerAgreesWithStatus,
             StatusTellsWhatRuns, TypeOK
<1>5. WorkerAgreesWithStatus'
  BY SMT DEF WorkerAgreesWithStatus, Unlocked, StatusTellsWhatRuns, Finished, TypeOK
<1>6. WorkerAgreesWithDisk'
  BY SMT DEF WorkerAgreesWithDisk, BeforePublish, WorkerAgreesWithStatus,
             StatusTellsWhatRuns, TypeOK
<1>7. DumpIsOwn'
  BY SMT DEF DumpIsOwn, WorkerAgreesWithStatus, StatusTellsWhatRuns, TypeOK
<1>8. ProgressFitsState'
  BY SMT DEF ProgressFitsState, Fraction, WorkerAgreesWithStatus, TypeOK
<1> QED BY <1>1, <1>2, <1>3, <1>4, <1>5, <1>6, <1>7, <1>8 DEF IInv

\* HashDump keeps the inductive invariant.
LEMMA HashDumpStep ==
  ASSUME IInv, HashDump
  PROVE  IInv'
PROOF
<1> USE ConstantsOK DEF IInv, HashDump, WorkerGoes, serviceVars, dumpVars
<1>1. TypeOK'
  BY SMT DEF TypeOK, States, Workers, Places, Fraction,
             WorkerAgreesWithStatus, StatusTellsWhatRuns
<1>2. StatusTellsWhatRuns' BY SMT DEF StatusTellsWhatRuns, Finished
<1>3. OutcomeMatchesDisk'
  BY SMT DEF OutcomeMatchesDisk, WorkerAgreesWithStatus, WorkerAgreesWithDisk,
             BeforePublish, TypeOK, StatusTellsWhatRuns, Finished
<1>4. ArtifactIsOwnDump'
  BY SMT DEF ArtifactIsOwnDump, DumpIsOwn, WorkerAgreesWithStatus,
             StatusTellsWhatRuns, TypeOK
<1>5. WorkerAgreesWithStatus'
  BY SMT DEF WorkerAgreesWithStatus, Unlocked, StatusTellsWhatRuns, Finished, TypeOK
<1>6. WorkerAgreesWithDisk'
  BY SMT DEF WorkerAgreesWithDisk, BeforePublish, WorkerAgreesWithStatus,
             StatusTellsWhatRuns, TypeOK
<1>7. DumpIsOwn'
  BY SMT DEF DumpIsOwn, WorkerAgreesWithStatus, StatusTellsWhatRuns, TypeOK
<1>8. ProgressFitsState'
  BY SMT DEF ProgressFitsState, Fraction, WorkerAgreesWithStatus, TypeOK
<1> QED BY <1>1, <1>2, <1>3, <1>4, <1>5, <1>6, <1>7, <1>8 DEF IInv

\* CopyDump keeps the inductive invariant.
LEMMA CopyDumpStep ==
  ASSUME IInv, CopyDump
  PROVE  IInv'
PROOF
<1> USE ConstantsOK DEF IInv, CopyDump, WorkerGoes, serviceVars, dumpVars
<1>1. TypeOK'
  BY SMT DEF TypeOK, States, Workers, Places, Fraction,
             WorkerAgreesWithStatus, StatusTellsWhatRuns
<1>2. StatusTellsWhatRuns' BY SMT DEF StatusTellsWhatRuns, Finished
<1>3. OutcomeMatchesDisk'
  BY SMT DEF OutcomeMatchesDisk, WorkerAgreesWithStatus, WorkerAgreesWithDisk,
             BeforePublish, TypeOK, StatusTellsWhatRuns, Finished
<1>4. ArtifactIsOwnDump'
  BY SMT DEF ArtifactIsOwnDump, DumpIsOwn, WorkerAgreesWithStatus,
             StatusTellsWhatRuns, TypeOK
<1>5. WorkerAgreesWithStatus'
  BY SMT DEF WorkerAgreesWithStatus, Unlocked, StatusTellsWhatRuns, Finished, TypeOK
<1>6. WorkerAgreesWithDisk'
  BY SMT DEF WorkerAgreesWithDisk, BeforePublish, WorkerAgreesWithStatus,
             StatusTellsWhatRuns, TypeOK
<1>7. DumpIsOwn'
  BY SMT DEF DumpIsOwn, WorkerAgreesWithStatus, StatusTellsWhatRuns, TypeOK
<1>8. ProgressFitsState'
  BY SMT DEF ProgressFitsState, Fraction, WorkerAgreesWithStatus, TypeOK
<1> QED BY <1>1, <1>2, <1>3, <1>4, <1>5, <1>6, <1>7, <1>8 DEF IInv

\* WriteManifest keeps the inductive invariant.
LEMMA WriteManifestStep ==
  ASSUME IInv, WriteManifest
  PROVE  IInv'
PROOF
<1> USE ConstantsOK DEF IInv, WriteManifest, WorkerGoes, serviceVars, dumpVars
<1>1. TypeOK'
  BY SMT DEF TypeOK, States, Workers, Places, Fraction,
             WorkerAgreesWithStatus, StatusTellsWhatRuns
<1>2. StatusTellsWhatRuns' BY SMT DEF StatusTellsWhatRuns, Finished
<1>3. OutcomeMatchesDisk'
  BY SMT DEF OutcomeMatchesDisk, WorkerAgreesWithStatus, WorkerAgreesWithDisk,
             BeforePublish, TypeOK, StatusTellsWhatRuns, Finished
<1>4. ArtifactIsOwnDump'
  BY SMT DEF ArtifactIsOwnDump, DumpIsOwn, WorkerAgreesWithStatus,
             StatusTellsWhatRuns, TypeOK
<1>5. WorkerAgreesWithStatus'
  BY SMT DEF WorkerAgreesWithStatus, Unlocked, StatusTellsWhatRuns, Finished, TypeOK
<1>6. WorkerAgreesWithDisk'
  BY SMT DEF WorkerAgreesWithDisk, BeforePublish, WorkerAgreesWithStatus,
             StatusTellsWhatRuns, TypeOK
<1>7. DumpIsOwn'
  BY SMT DEF DumpIsOwn, WorkerAgreesWithStatus, StatusTellsWhatRuns, TypeOK
<1>8. ProgressFitsState'
  BY SMT DEF ProgressFitsState, Fraction, WorkerAgreesWithStatus, TypeOK
<1> QED BY <1>1, <1>2, <1>3, <1>4, <1>5, <1>6, <1>7, <1>8 DEF IInv

\* Publish keeps the inductive invariant.
LEMMA PublishStep ==
  ASSUME IInv, Publish
  PROVE  IInv'
PROOF
<1> USE ConstantsOK DEF IInv, Publish, WorkerGoes, serviceVars, dumpVars
<1>1. TypeOK'
  BY SMT DEF TypeOK, States, Workers, Places, Fraction,
             WorkerAgreesWithStatus, StatusTellsWhatRuns
<1>2. StatusTellsWhatRuns' BY SMT DEF StatusTellsWhatRuns, Finished
<1>3. OutcomeMatchesDisk'
  BY SMT DEF OutcomeMatchesDisk, WorkerAgreesWithStatus, WorkerAgreesWithDisk,
             BeforePublish, TypeOK, StatusTellsWhatRuns, Finished
<1>4. ArtifactIsOwnDump'
  BY SMT DEF ArtifactIsOwnDump, DumpIsOwn, WorkerAgreesWithStatus,
             StatusTellsWhatRuns, TypeOK
<1>5. WorkerAgreesWithStatus'
  BY SMT DEF WorkerAgreesWithStatus, Unlocked, StatusTellsWhatRuns, Finished, TypeOK
<1>6. WorkerAgreesWithDisk'
  BY SMT DEF WorkerAgreesWithDisk, BeforePublish, WorkerAgreesWithStatus,
             StatusTellsWhatRuns, TypeOK
<1>7. DumpIsOwn'
  BY SMT DEF DumpIsOwn, WorkerAgreesWithStatus, StatusTellsWhatRuns, TypeOK
<1>8. ProgressFitsState'
  BY SMT DEF ProgressFitsState, Fraction, WorkerAgreesWithStatus, TypeOK
<1> QED BY <1>1, <1>2, <1>3, <1>4, <1>5, <1>6, <1>7, <1>8 DEF IInv

\* Complete keeps the inductive invariant.
LEMMA CompleteStep ==
  ASSUME IInv, Complete
  PROVE  IInv'
PROOF
<1> USE ConstantsOK DEF IInv, Complete, Update, Unlocked, WorkerGoes, dumpVars, artifactVars
<1>1. TypeOK'
  <2>1. status \in StatusRecords /\ status.progress \in Nat
    BY DEF TypeOK, StatusRecords
  <2>2. status' = [status EXCEPT !.state = "completed", !.progress = Fraction(100)]
    BY DEF Update
  <2>3. status' \in StatusRecords
    BY <2>1, <2>2, UpdatedStatus, FractionsAreNumbers DEF States
  <2> QED BY <2>3 DEF TypeOK, StatusRecords, Workers
<1>2. StatusTellsWhatRuns' BY SMT DEF StatusTellsWhatRuns, Finished
<1>3. OutcomeMatchesDisk'
  BY SMT DEF OutcomeMatchesDisk, WorkerAgreesWithStatus, WorkerAgreesWithDisk,
             BeforePublish, TypeOK, StatusTellsWhatRuns, Finished
<1>4. ArtifactIsOwnDump'
  BY SMT DEF ArtifactIsOwnDump, DumpIsOwn, WorkerAgreesWithStatus,
             StatusTellsWhatRuns, TypeOK
<1>5. WorkerAgreesWithStatus'
  BY SMT DEF WorkerAgreesWithStatus, Unlocked, StatusTellsWhatRuns, Finished, TypeOK
<1>6. WorkerAgreesWithDisk'
  BY SMT DEF WorkerAgreesWithDisk, BeforePublish, WorkerAgreesWithStatus,
             StatusTellsWhatRuns, TypeOK
<1>7. DumpIsOwn'
  BY SMT DEF DumpIsOwn, WorkerAgreesWithStatus, StatusTellsWhatRuns, TypeOK
<1>8. ProgressFitsState'
  BY SMT DEF ProgressFitsState, Fraction, WorkerAgreesWithStatus, TypeOK
<1> QED BY <1>1, <1>2, <1>3, <1>4, <1>5, <1>6, <1>7, <1>8 DEF IInv

\* Abort keeps the inductive invariant.
LEMMA AbortStep ==
  ASSUME IInv, Abort
  PROVE  IInv'
PROOF
<1> USE ConstantsOK DEF IInv, Abort, WorkerGoes, serviceVars, dumpVars
<1>1. TypeOK'
  BY SMT DEF TypeOK, States, Workers, Places, Fraction,
             WorkerAgreesWithStatus, StatusTellsWhatRuns
<1>2. StatusTellsWhatRuns' BY SMT DEF StatusTellsWhatRuns, Finished
<1>3. OutcomeMatchesDisk'
  BY SMT DEF OutcomeMatchesDisk, WorkerAgreesWithStatus, WorkerAgreesWithDisk,
             BeforePublish, TypeOK, StatusTellsWhatRuns, Finished
<1>4. ArtifactIsOwnDump'
  BY SMT DEF ArtifactIsOwnDump, DumpIsOwn, WorkerAgreesWithStatus,
             StatusTellsWhatRuns, TypeOK
<1>5. WorkerAgreesWithStatus'
  BY SMT DEF WorkerAgreesWithStatus, Unlocked, StatusTellsWhatRuns, Finished, TypeOK
<1>6. WorkerAgreesWithDisk'
  BY SMT DEF WorkerAgreesWithDisk, BeforePublish, WorkerAgreesWithStatus,
             StatusTellsWhatRuns, TypeOK
<1>7. DumpIsOwn'
  BY SMT DEF DumpIsOwn, WorkerAgreesWithStatus, StatusTellsWhatRuns, TypeOK
<1>8. ProgressFitsState'
  BY SMT DEF ProgressFitsState, Fraction, WorkerAgreesWithStatus, TypeOK
<1> QED BY <1>1, <1>2, <1>3, <1>4, <1>5, <1>6, <1>7, <1>8 DEF IInv

\* Fail keeps the inductive invariant.
LEMMA FailStep ==
  ASSUME IInv, Fail
  PROVE  IInv'
PROOF
<1> USE ConstantsOK DEF IInv, Fail, Update, Unlocked, WorkerGoes, dumpVars, artifactVars
<1>1. TypeOK'
  <2>1. status \in StatusRecords /\ status.progress \in Nat
    BY DEF TypeOK, StatusRecords
  <2>2. status' = [status EXCEPT !.state = "failed", !.progress = status.progress]
    BY DEF Update
  <2>3. status' \in StatusRecords
    BY <2>1, <2>2, UpdatedStatus, FractionsAreNumbers DEF States
  <2> QED BY <2>3 DEF TypeOK, StatusRecords, Workers
<1>2. StatusTellsWhatRuns' BY SMT DEF StatusTellsWhatRuns, Finished
<1>3. OutcomeMatchesDisk'
  BY SMT DEF OutcomeMatchesDisk, WorkerAgreesWithStatus, WorkerAgreesWithDisk,
             BeforePublish, TypeOK, StatusTellsWhatRuns, Finished
<1>4. ArtifactIsOwnDump'
  BY SMT DEF ArtifactIsOwnDump, DumpIsOwn, WorkerAgreesWithStatus,
             StatusTellsWhatRuns, TypeOK
<1>5. WorkerAgreesWithStatus'
  BY SMT DEF WorkerAgreesWithStatus, Unlocked, StatusTellsWhatRuns, Finished, TypeOK
<1>6. WorkerAgreesWithDisk'
  BY SMT DEF WorkerAgreesWithDisk, BeforePublish, WorkerAgreesWithStatus,
             StatusTellsWhatRuns, TypeOK
<1>7. DumpIsOwn'
  BY SMT DEF DumpIsOwn, WorkerAgreesWithStatus, StatusTellsWhatRuns, TypeOK
<1>8. ProgressFitsState'
  BY SMT DEF ProgressFitsState, Fraction, WorkerAgreesWithStatus, TypeOK
<1> QED BY <1>1, <1>2, <1>3, <1>4, <1>5, <1>6, <1>7, <1>8 DEF IInv

\* Leave keeps the inductive invariant.
LEMMA LeaveStep ==
  ASSUME IInv, Leave
  PROVE  IInv'
PROOF
<1> USE ConstantsOK DEF IInv, Leave, Unlocked, WorkerGoes, dumpVars, artifactVars
<1>1. TypeOK'
  BY SMT DEF TypeOK, States, Workers, Places, Fraction,
             WorkerAgreesWithStatus, StatusTellsWhatRuns
<1>2. StatusTellsWhatRuns' BY SMT DEF StatusTellsWhatRuns, Finished
<1>3. OutcomeMatchesDisk'
  BY SMT DEF OutcomeMatchesDisk, WorkerAgreesWithStatus, WorkerAgreesWithDisk,
             BeforePublish, TypeOK, StatusTellsWhatRuns, Finished
<1>4. ArtifactIsOwnDump'
  BY SMT DEF ArtifactIsOwnDump, DumpIsOwn, WorkerAgreesWithStatus,
             StatusTellsWhatRuns, TypeOK
<1>5. WorkerAgreesWithStatus'
  BY SMT DEF WorkerAgreesWithStatus, Unlocked, StatusTellsWhatRuns, Finished, TypeOK
<1>6. WorkerAgreesWithDisk'
  BY SMT DEF WorkerAgreesWithDisk, BeforePublish, WorkerAgreesWithStatus,
             StatusTellsWhatRuns, TypeOK
<1>7. DumpIsOwn'
  BY SMT DEF DumpIsOwn, WorkerAgreesWithStatus, StatusTellsWhatRuns, TypeOK
<1>8. ProgressFitsState'
  BY SMT DEF ProgressFitsState, Fraction, WorkerAgreesWithStatus, TypeOK
<1> QED BY <1>1, <1>2, <1>3, <1>4, <1>5, <1>6, <1>7, <1>8 DEF IInv

\* Restart keeps the inductive invariant.
LEMMA RestartStep ==
  ASSUME IInv, Restart
  PROVE  IInv'
PROOF
<1> USE ConstantsOK DEF IInv, Restart, artifactVars, NoStatus
<1>1. TypeOK'
  <2>1. status' \in StatusRecords BY NoStatusTyped
  <2>2. worker' \in Workers BY DEF Workers
  <2> QED BY <2>1, <2>2, NoStatusTyped DEF TypeOK, StatusRecords
<1>2. StatusTellsWhatRuns' BY SMT DEF StatusTellsWhatRuns, Finished
<1>3. OutcomeMatchesDisk'
  BY SMT DEF OutcomeMatchesDisk, WorkerAgreesWithStatus, WorkerAgreesWithDisk,
             BeforePublish, TypeOK, StatusTellsWhatRuns, Finished
<1>4. ArtifactIsOwnDump'
  BY SMT DEF ArtifactIsOwnDump, DumpIsOwn, WorkerAgreesWithStatus,
             StatusTellsWhatRuns, TypeOK
<1>5. WorkerAgreesWithStatus'
  BY SMT DEF WorkerAgreesWithStatus, Unlocked, StatusTellsWhatRuns, Finished, TypeOK
<1>6. WorkerAgreesWithDisk'
  BY SMT DEF WorkerAgreesWithDisk, BeforePublish, WorkerAgreesWithStatus,
             StatusTellsWhatRuns, TypeOK
<1>7. DumpIsOwn'
  BY SMT DEF DumpIsOwn, WorkerAgreesWithStatus, StatusTellsWhatRuns, TypeOK
<1>8. ProgressFitsState'
  BY SMT DEF ProgressFitsState, Fraction, WorkerAgreesWithStatus, TypeOK
<1> QED BY <1>1, <1>2, <1>3, <1>4, <1>5, <1>6, <1>7, <1>8 DEF IInv

\* One step, or a stutter, keeps the inductive invariant.
LEMMA NextIInv == IInv /\ [Next]_vars => IInv'
PROOF
<1> SUFFICES ASSUME IInv, [Next]_vars PROVE IInv' OBVIOUS
<1>1. CASE GameThread
  BY <1>1, OfferReusableStep, AskStep, AnswerRunningStep, LaunchStep DEF GameThread
<1>2. CASE PipeThread
  BY <1>2, PollBeginStep, PollEndStep DEF PipeThread
<1>3. CASE Dumping
  BY <1>3, DumpAdvancesStep, UiDumpBeginsStep, UiDumpWritesStep, UiDumpEndsStep DEF Dumping
<1>4. CASE Work
  BY <1>4, BeginStep, GenerateStep, GenerateRefusedStep, GeneratedStep,
     GenerateThrowsStep, FinalizeStep, HashDumpStep, CopyDumpStep, WriteManifestStep,
     PublishStep, CompleteStep, AbortStep, FailStep, LeaveStep DEF Work
<1>5. CASE Restart
  BY <1>5, RestartStep
<1>6. CASE UNCHANGED vars
  <2> USE <1>6 DEF IInv, vars, serviceVars, dumpVars, artifactVars
  <2>1. TypeOK' /\ StatusTellsWhatRuns' /\ OutcomeMatchesDisk' /\ ArtifactIsOwnDump'
    BY DEF TypeOK, StatusTellsWhatRuns, OutcomeMatchesDisk, ArtifactIsOwnDump
  <2>2. WorkerAgreesWithStatus' /\ WorkerAgreesWithDisk' /\ DumpIsOwn' /\ ProgressFitsState'
    BY DEF WorkerAgreesWithStatus, WorkerAgreesWithDisk, DumpIsOwn, ProgressFitsState, Unlocked
  <2> QED BY <2>1, <2>2
<1> QED BY <1>1, <1>2, <1>3, <1>4, <1>5, <1>6 DEF Next

\* The inductive invariant holds of every behaviour of the service.
THEOREM Invariance == Spec => []IInv
PROOF
<1> QED BY InitIInv, NextIInv, PTL DEF Spec

\* Every variable keeps its type.
THEOREM TypeCorrect == Spec => []TypeOK
PROOF
<1>1. IInv => TypeOK BY DEF IInv
<1> QED BY <1>1, Invariance, PTL

\* m_status is the running worker's, and never left active without a worker.
THEOREM StatusIsTruthful == Spec => []StatusTellsWhatRuns
PROOF
<1>1. IInv => StatusTellsWhatRuns BY DEF IInv
<1> QED BY <1>1, Invariance, PTL

\* Completed jobs have published their artifacts, failed ones have not.
THEOREM OutcomesMatchDisk == Spec => []OutcomeMatchesDisk
PROOF
<1>1. IInv => OutcomeMatchesDisk BY DEF IInv
<1> QED BY <1>1, Invariance, PTL

\* Only a dump made by the user interface in between can get into an artifact.
THEOREM ArtifactsAreOwnDumps == Spec => []ArtifactIsOwnDump
PROOF
<1>1. IInv => ArtifactIsOwnDump BY DEF IInv
<1> QED BY <1>1, Invariance, PTL

\* The steps that leave m_status alone; Restart and Launch replace it whole.
LEMMA QuietSteps ==
  ASSUME \/ \E m \in Modes : OfferReusable(m) \/ Ask(m)
         \/ AnswerRunning \/ PollBegin
         \/ Dumping \/ Generate \/ GenerateRefused \/ Generated \/ GenerateThrows
         \/ HashDump \/ CopyDump \/ WriteManifest \/ Publish \/ Abort \/ Leave
  PROVE  UNCHANGED status
PROOF
<1> USE DEF serviceVars
<1>1. CASE \/ \E m \in Modes : OfferReusable(m) \/ Ask(m)
           \/ AnswerRunning \/ PollBegin \/ Leave
  BY <1>1 DEF OfferReusable, Ask, AnswerRunning, PollBegin, Leave
<1>2. CASE Dumping
  BY <1>2 DEF Dumping, DumpAdvances, UiDumpBegins, UiDumpWrites, UiDumpEnds
<1>3. CASE Generate \/ GenerateRefused \/ Generated \/ GenerateThrows
  BY <1>3 DEF Generate, GenerateRefused, Generated, GenerateThrows
<1>4. CASE HashDump \/ CopyDump \/ WriteManifest \/ Publish \/ Abort
  BY <1>4 DEF HashDump, CopyDump, WriteManifest, Publish, Abort
<1> QED BY <1>1, <1>2, <1>3, <1>4

\* What one step does to m_status: nothing, a new job, a restart, a poll, or an
\* update of the worker that moves the state on.
Advances ==
  status'.job = status.job =>
    /\ status'.progress >= status.progress
    /\ Rank(status'.state) >= Rank(status.state)
    /\ status.state \in Finished => status' = status

\* Every step moves the job forward.
LEMMA StepAdvances ==
  ASSUME IInv, Next
  PROVE  Advances
PROOF
<1> USE DEF IInv
<1>0. /\ status \in StatusRecords /\ status.progress \in Nat /\ status.state \in States
      /\ Rank(status.state) \in Nat
  BY DEF TypeOK, StatusRecords, States, Rank, Finished
<1>1. CASE UNCHANGED status
  BY <1>0, <1>1 DEF Advances
<1>2. ASSUME NEW j \in Jobs, Launch(j) PROVE Advances
  <2>1. jobMode[j] = NoMode /\ status'.job = j /\ ~running BY <1>2 DEF Launch
  <2>2. status.job # j
    BY <2>1 DEF WorkerAgreesWithDisk, StatusTellsWhatRuns
  <2> QED BY <2>1, <2>2 DEF Advances
<1>3. CASE PollEnd
  <2>1. Rank(status'.state) = 2 /\ Rank(status.state) \in {1, 2} /\ status.state \notin Finished
    BY <1>3, PollEffect DEF Rank, Finished
  <2> QED BY <1>3, <2>1, PollEffect DEF Advances
<1>4. CASE Begin
  <2>1. /\ status' = [status EXCEPT !.state = "exporting", !.progress = status.progress]
        /\ status.state \in {"queued", "exporting"}
    BY <1>4 DEF Begin, Update, WorkerGoes, WorkerAgreesWithStatus
  <2>2. status'.state = "exporting" /\ status'.progress = status.progress
    BY <1>0, <2>1, UpdatedStatus DEF States
  <2> QED BY <1>0, <2>1, <2>2 DEF Advances, Rank, Finished
<1>5. CASE Finalize
  <2>1. /\ status' = [status EXCEPT !.state = "finalizing", !.progress = Fraction(92)]
        /\ status.state = "exporting"
    BY <1>5 DEF Finalize, Update, WorkerGoes, WorkerAgreesWithStatus
  <2>2. status'.state = "finalizing" /\ status'.progress = Fraction(92)
    BY <1>0, <2>1, UpdatedStatus, FractionsAreNumbers DEF States
  <2>3. status'.progress >= status.progress
    BY <1>0, <2>1, <2>2, ConstantsOK DEF ProgressFitsState, Fraction
  <2> QED BY <2>1, <2>2, <2>3 DEF Advances, Rank, Finished
<1>6. CASE Complete
  <2>1. /\ status' = [status EXCEPT !.state = "completed", !.progress = Fraction(100)]
        /\ status.state = "finalizing"
    BY <1>6 DEF Complete, Update, WorkerGoes, WorkerAgreesWithStatus
  <2>2. status'.state = "completed" /\ status'.progress = Fraction(100)
    BY <1>0, <2>1, UpdatedStatus, FractionsAreNumbers DEF States
  <2>3. status'.progress >= status.progress
    BY <1>0, <2>2 DEF ProgressFitsState
  <2> QED BY <2>1, <2>2, <2>3 DEF Advances, Rank, Finished
<1>7. CASE Fail
  <2>1. /\ status' = [status EXCEPT !.state = "failed", !.progress = status.progress]
        /\ status.state \in {"exporting", "finalizing"}
    BY <1>7 DEF Fail, Update, WorkerGoes, WorkerAgreesWithStatus
  <2>2. status'.state = "failed" /\ status'.progress = status.progress
    BY <1>0, <2>1, UpdatedStatus DEF States
  <2> QED BY <1>0, <2>1, <2>2 DEF Advances, Rank, Finished
<1>8. CASE Restart
  <2>1. status'.job = NoJob /\ status'.state = "idle" /\ status'.progress = 0
    BY <1>8 DEF Restart, NoStatus
  <2>2. CASE status.state = "idle"
    BY <2>1, <2>2, NoStatusTyped DEF Advances, Rank, Finished, ProgressFitsState
  <2>3. CASE status.state # "idle"
    BY <2>1, <2>3 DEF Advances, WorkerAgreesWithStatus
  <2> QED BY <2>2, <2>3
<1>9. CASE GameThread
  BY <1>1, <1>2, <1>9, QuietSteps DEF GameThread
<1>10. CASE PipeThread \/ Dumping
  BY <1>1, <1>3, <1>10, QuietSteps DEF PipeThread
<1>11. CASE Work
  BY <1>1, <1>4, <1>5, <1>6, <1>7, <1>11, QuietSteps DEF Work
<1> QED BY <1>8, <1>9, <1>10, <1>11 DEF Next

\* The weighted progress of a job never goes back.
THEOREM ProgressNeverGoesBack == Spec => ProgressIsMonotonic
PROOF
<1>1. IInv /\ [Next]_vars => [status'.job = status.job => status'.progress >= status.progress]_vars
  BY StepAdvances DEF Advances
<1> QED BY <1>1, Invariance, PTL DEF Spec, ProgressIsMonotonic

\* A job only moves forward, and a finished one not at all.
THEOREM JobsMoveForward == Spec => JobMovesForward
PROOF
<1>1. IInv /\ [Next]_vars =>
        [status'.job = status.job =>
           /\ Rank(status'.state) >= Rank(status.state)
           /\ status.state \in Finished => status' = status]_vars
  BY StepAdvances DEF Advances
<1> QED BY <1>1, Invariance, PTL DEF Spec, JobMovesForward
=============================================================================
