---------------------------- MODULE ExportService ----------------------------
(***************************************************************************)
(* The Generate SDK export service that is compiled into REFramework       *)
(* (reframework/export_service/ExportServiceV1.cpp).                       *)
(*                                                                         *)
(* Four threads meet here.  The game thread starts jobs (start), the pipe  *)
(* thread polls them (status), a worker thread per job produces the dump   *)
(* and packages it (run), and REFramework's own user interface may produce *)
(* a dump of its own through the same ObjectExplorer::generate_sdk, whose  *)
(* wrapper is installed by apply_compatible_adapter.ps1.  They share       *)
(* m_status and m_running under m_mutex, the dump flag, stage and progress *)
(* (atomics), the file il2cpp_dump.json and the snapshot directory.        *)
(*                                                                         *)
(* The snapshot directory is the one of a single game and fingerprint      *)
(* (`base' in start): artifacts of other builds are never looked at.       *)
(***************************************************************************)
EXTENDS Integers

CONSTANTS Jobs,        \* what random_id may return
          NoJob,
          Modes,       \* json_only, sdk_and_json
          NoMode,
          DumpStages,  \* values of SdkDumpStage while a dump is running
          NoneStage,   \* SdkDumpStage::NONE as an int
          NotSampled,
          StageSteps   \* resolution of the progress within a stage

ASSUME ConstantsOK ==
  /\ NoJob \notin Jobs
  /\ NoMode \notin Modes
  /\ DumpStages \subseteq Int
  /\ NoneStage \in Int
  /\ NotSampled \notin Int
  /\ StageSteps \in Nat

VARIABLES
  running,      \* m_running
  status,       \* m_status: the fields job_ref, mode, state, overall_progress
  sampled,      \* stage status() has read, holding m_mutex; NotSampled if free
  asked,        \* mode of the request start() is handling
  worker,       \* where run() stands
  workJob,      \* its argument job_ref
  dumper,       \* who has set m_dumping_sdk
  dumpStage,    \* m_sdk_dump_stage
  dumpProgress, \* m_sdk_dump_progress
  dumpFile,     \* whose dump il2cpp_dump.json holds
  disk,         \* the directory of a job under `base'
  \* history
  jobMode,      \* mode of a job, also in its manifest
  hash,         \* whose dump artifact_sha256 of a job was computed from
  content,      \* whose dump was copied into its directory
  disturbed,    \* jobs whose dump the user interface replaced too early
  offered       \* artifacts start() has answered as reusable, and where

serviceVars  == <<running, status>>
dumpVars     == <<dumper, dumpStage, dumpProgress, dumpFile>>
artifactVars == <<disk, hash, content>>
vars == <<serviceVars, sampled, asked, worker, workJob,
          dumpVars, artifactVars, jobMode, disturbed, offered>>

States    == {"idle", "queued", "exporting", "finalizing", "completed", "failed"}
Finished  == {"completed", "failed"}
Workers   == {"none", "queued", "generating", "dumping", "dumped", "finalizing",
              "hashed", "copied", "described", "moved", "failing", "leaving"}
Places    == {"none", "partial", "described", "published"}
Foreign   == "foreign"  \* a dump made by the user interface
NoDump    == "none"

\* Progress is counted in units of 1 / (100 * StageSteps), so that the 0.90,
\* 0.92 and 1.0 of the code are whole numbers.
Fraction(percent) == percent * StageSteps
Clamp(s) == IF s < 0 THEN 0 ELSE IF s > 9 THEN 9 ELSE s
OverallProgress(s, p) == 9 * (Clamp(s) * StageSteps + p)

NoStatus == [job |-> NoJob, mode |-> NoMode, state |-> "idle", progress |-> 0]

Init ==
  /\ running = FALSE
  /\ status = NoStatus
  /\ sampled = NotSampled
  /\ asked = NoMode
  /\ worker = "none" /\ workJob = NoJob
  /\ dumper = NoDump /\ dumpStage = NoneStage /\ dumpProgress = 0
  /\ dumpFile = NoDump
  /\ disk = [j \in Jobs |-> "none"]
  /\ jobMode = [j \in Jobs |-> NoMode]
  /\ hash = [j \in Jobs |-> NoDump]
  /\ content = [j \in Jobs |-> NoDump]
  /\ disturbed = {}
  /\ offered = {}

Unlocked == sampled = NotSampled

\* Seeded fault: the values replace m_status instead of being merged into it.
UpdateWhole(state, progress) ==
  /\ Unlocked
  /\ status' = [state |-> state, progress |-> progress]

\* update(): merges values into m_status under the mutex.
Update(state, progress) ==
  /\ Unlocked
  /\ status' = [status EXCEPT !.state = state, !.progress = progress]

-----------------------------------------------------------------------------
(* The game thread: run_generate_sdk.                                      *)

\* find_reusable: the first directory with a fitting manifest and a dump.
Reusable(d, m) == jobMode[d] = m /\ disk[d] \in {"described", "published"}

OfferReusable(m) ==
  /\ asked = NoMode
  /\ \E d \in Jobs : Reusable(d, m) /\ offered' = offered \cup {<<d, disk[d]>>}
  /\ UNCHANGED <<serviceVars, sampled, asked, worker, workJob,
                 dumpVars, artifactVars, jobMode, disturbed>>

\* Nothing to reuse, or the caller forces an export.  (Bound: requests stop
\* when Jobs is used up.)
Ask(m) ==
  /\ asked = NoMode
  /\ \E j \in Jobs : jobMode[j] = NoMode
  /\ \E policy \in {"reuse_if_fresh", "force"} :
       policy = "reuse_if_fresh" => \A d \in Jobs : ~Reusable(d, m)
  /\ asked' = m
  /\ UNCHANGED <<serviceVars, sampled, worker, workJob,
                 dumpVars, artifactVars, jobMode, disturbed, offered>>

\* m_running: the status of the job of that mode, or EXPORT_ALREADY_RUNNING.
AnswerRunning ==
  /\ asked # NoMode /\ Unlocked /\ running
  /\ asked' = NoMode
  /\ UNCHANGED <<serviceVars, sampled, worker, workJob,
                 dumpVars, artifactVars, jobMode, disturbed, offered>>

\* The previous worker has been joined.
Launch(j) ==
  /\ asked # NoMode /\ Unlocked /\ ~running /\ worker = "none"
  /\ jobMode[j] = NoMode
  /\ running' = TRUE
  /\ status' = [job |-> j, mode |-> asked, state |-> "queued", progress |-> 0]
  /\ jobMode' = [jobMode EXCEPT ![j] = asked]
  /\ worker' = "queued" /\ workJob' = j
  /\ asked' = NoMode
  /\ UNCHANGED <<sampled, dumpVars, artifactVars, disturbed, offered>>

GameThread ==
  \/ \E m \in Modes : OfferReusable(m) \/ Ask(m)
  \/ AnswerRunning
  \/ \E j \in Jobs : Launch(j)

-----------------------------------------------------------------------------
(* The pipe thread: get_export_status.  It holds m_mutex while it reads    *)
(* the two atomics, one after the other; the dump does not stop for it.    *)

\* Seeded fault: only m_running is looked at.
PollBeginAnyState ==
  /\ Unlocked
  /\ running
  /\ sampled' = dumpStage
  /\ UNCHANGED <<serviceVars, asked, worker, workJob,
                 dumpVars, artifactVars, jobMode, disturbed, offered>>

PollBegin ==
  /\ Unlocked
  /\ running /\ status.state \in {"queued", "exporting"}
  /\ sampled' = dumpStage
  /\ UNCHANGED <<serviceVars, asked, worker, workJob,
                 dumpVars, artifactVars, jobMode, disturbed, offered>>

\* Seeded fault: the previous progress is not taken into account.
PollEndUnweighted ==
  /\ ~Unlocked
  /\ status' = [status EXCEPT !.state = "exporting",
                              !.progress = OverallProgress(sampled, dumpProgress)]
  /\ sampled' = NotSampled
  /\ UNCHANGED <<running, asked, worker, workJob,
                 dumpVars, artifactVars, jobMode, disturbed, offered>>

PollEnd ==
  /\ ~Unlocked
  /\ LET weighted == OverallProgress(sampled, dumpProgress) IN
       status' = [status EXCEPT
         !.state = "exporting",
         !.progress = IF weighted > @ THEN weighted ELSE @]
  /\ sampled' = NotSampled
  /\ UNCHANGED <<running, asked, worker, workJob,
                 dumpVars, artifactVars, jobMode, disturbed, offered>>

PipeThread == PollBegin \/ PollEnd

-----------------------------------------------------------------------------
(* ObjectExplorer::generate_sdk, entered by the worker or by the user      *)
(* interface: whoever sets m_dumping_sdk first produces the dump.          *)

BeginDump(who) ==
  /\ dumper = NoDump
  /\ dumper' = who /\ dumpStage' = 0 /\ dumpProgress' = 0
  /\ UNCHANGED dumpFile

\* Stage NONE again; the progress keeps its last value.
EndDump(file) ==
  /\ dumper' = NoDump /\ dumpStage' = NoneStage
  /\ dumpFile' = file
  /\ UNCHANGED dumpProgress

\* generate_sdk_impl reports where it is.
DumpAdvances ==
  /\ dumper # NoDump
  /\ dumpStage' \in DumpStages
  /\ dumpProgress' \in 0..StageSteps
  /\ UNCHANGED <<serviceVars, sampled, asked, worker, workJob, dumper, dumpFile,
                 artifactVars, jobMode, disturbed, offered>>

UiDumpBegins ==
  /\ BeginDump("ui")
  /\ UNCHANGED <<serviceVars, sampled, asked, worker, workJob,
                 artifactVars, jobMode, disturbed, offered>>

\* The file may be overwritten at any moment of the dump.
UiDumpWrites ==
  /\ dumper = "ui"
  /\ dumpFile' = Foreign
  /\ disturbed' = IF worker \in {"dumped", "finalizing", "hashed"}
                     THEN disturbed \cup {workJob} ELSE disturbed
  /\ UNCHANGED <<serviceVars, sampled, asked, worker, workJob, dumper, dumpStage,
                 dumpProgress, artifactVars, jobMode, offered>>

UiDumpEnds ==
  /\ dumper = "ui"
  /\ EndDump(dumpFile)
  /\ UNCHANGED <<serviceVars, sampled, asked, worker, workJob,
                 artifactVars, jobMode, disturbed, offered>>

Dumping == DumpAdvances \/ UiDumpBegins \/ UiDumpWrites \/ UiDumpEnds

-----------------------------------------------------------------------------
(* The worker thread: run().                                               *)

WorkerGoes(from, to) == worker = from /\ worker' = to

Begin ==
  /\ WorkerGoes("queued", "generating")
  /\ Update("exporting", status.progress)
  /\ UNCHANGED <<running, sampled, asked, workJob,
                 dumpVars, artifactVars, jobMode, disturbed, offered>>

Generate ==
  /\ WorkerGoes("generating", "dumping")
  /\ BeginDump("worker")
  /\ UNCHANGED <<serviceVars, sampled, asked, workJob,
                 artifactVars, jobMode, disturbed, offered>>

\* Seeded fault: the worker returns early instead of throwing.
GenerateRefusedQuietly ==
  /\ WorkerGoes("generating", "leaving")
  /\ dumper # NoDump
  /\ UNCHANGED <<serviceVars, sampled, asked, workJob,
                 dumpVars, artifactVars, jobMode, disturbed, offered>>

\* Seeded fault: the result of generate_sdk is not checked.
GenerateRefusedUnchecked ==
  /\ WorkerGoes("generating", "dumped")
  /\ dumper # NoDump
  /\ UNCHANGED <<serviceVars, sampled, asked, workJob,
                 dumpVars, artifactVars, jobMode, disturbed, offered>>

\* generate_sdk returns false: EXPORT_ALREADY_RUNNING.
GenerateRefused ==
  /\ WorkerGoes("generating", "failing")
  /\ dumper # NoDump
  /\ UNCHANGED <<serviceVars, sampled, asked, workJob,
                 dumpVars, artifactVars, jobMode, disturbed, offered>>

Generated ==
  /\ WorkerGoes("dumping", "dumped")
  /\ EndDump(workJob)
  /\ UNCHANGED <<serviceVars, sampled, asked, workJob,
                 artifactVars, jobMode, disturbed, offered>>

\* The wrapper resets flag and stage, and rethrows.
GenerateThrows ==
  /\ WorkerGoes("dumping", "failing")
  /\ \E file \in {dumpFile, workJob} : EndDump(file)
  /\ UNCHANGED <<serviceVars, sampled, asked, workJob,
                 artifactVars, jobMode, disturbed, offered>>

Finalize ==
  /\ WorkerGoes("dumped", "finalizing")
  /\ Update("finalizing", Fraction(92))
  /\ UNCHANGED <<running, sampled, asked, workJob,
                 dumpVars, artifactVars, jobMode, disturbed, offered>>

\* validate_dump and sha256_file read il2cpp_dump.json in place.
HashDump ==
  /\ WorkerGoes("finalizing", "hashed")
  /\ hash' = [hash EXCEPT ![workJob] = dumpFile]
  /\ UNCHANGED <<serviceVars, sampled, asked, workJob,
                 dumpVars, disk, content, jobMode, disturbed, offered>>

\* The .partial directory, the dump and, if asked for, sdk_ida.
CopyDump ==
  /\ WorkerGoes("hashed", "copied")
  /\ disk' = [disk EXCEPT ![workJob] = "partial"]
  /\ content' = [content EXCEPT ![workJob] = dumpFile]
  /\ UNCHANGED <<serviceVars, sampled, asked, workJob,
                 dumpVars, hash, jobMode, disturbed, offered>>

WriteManifest ==
  /\ WorkerGoes("copied", "described")
  /\ disk' = [disk EXCEPT ![workJob] = "described"]
  /\ UNCHANGED <<serviceVars, sampled, asked, workJob,
                 dumpVars, hash, content, jobMode, disturbed, offered>>

\* coverage.json, import-report.json, then the rename.
Publish ==
  /\ WorkerGoes("described", "moved")
  /\ disk' = [disk EXCEPT ![workJob] = "published"]
  /\ UNCHANGED <<serviceVars, sampled, asked, workJob,
                 dumpVars, hash, content, jobMode, disturbed, offered>>

\* Seeded fault: the job is reported completed before the rename.
CompleteBeforeRename ==
  /\ WorkerGoes("described", "leaving")
  /\ Update("completed", Fraction(100))
  /\ UNCHANGED <<running, sampled, asked, workJob,
                 dumpVars, artifactVars, jobMode, disturbed, offered>>

Complete ==
  /\ WorkerGoes("moved", "leaving")
  /\ Update("completed", Fraction(100))
  /\ UNCHANGED <<running, sampled, asked, workJob,
                 dumpVars, artifactVars, jobMode, disturbed, offered>>

\* Any file operation throws; errors of remove_all are ignored, so that the
\* directory may survive it, whole or in part.
Abort ==
  /\ \/ WorkerGoes("finalizing", "failing") /\ UNCHANGED disk
     \/ /\ \E w \in {"hashed", "copied", "described"} : WorkerGoes(w, "failing")
        /\ \E left \in {"none", "partial", disk[workJob]} :
             disk' = [disk EXCEPT ![workJob] = left]
  /\ UNCHANGED <<serviceVars, sampled, asked, workJob,
                 dumpVars, hash, content, jobMode, disturbed, offered>>

Fail ==
  /\ WorkerGoes("failing", "leaving")
  /\ Update("failed", status.progress)
  /\ UNCHANGED <<running, sampled, asked, workJob,
                 dumpVars, artifactVars, jobMode, disturbed, offered>>

\* Seeded fault: m_running is cleared at the end of the try block only.
LeaveOnSuccess ==
  /\ WorkerGoes("leaving", "none")
  /\ Unlocked
  /\ running' = (status.state = "failed")
  /\ workJob' = NoJob
  /\ UNCHANGED <<status, sampled, asked,
                 dumpVars, artifactVars, jobMode, disturbed, offered>>

\* m_running is cleared under the mutex, in a step of its own.
Leave ==
  /\ WorkerGoes("leaving", "none")
  /\ Unlocked
  /\ running' = FALSE
  /\ workJob' = NoJob
  /\ UNCHANGED <<status, sampled, asked,
                 dumpVars, artifactVars, jobMode, disturbed, offered>>

Work ==
  \/ Begin \/ Generate \/ GenerateRefused \/ Generated \/ GenerateThrows
  \/ Finalize \/ HashDump \/ CopyDump \/ WriteManifest \/ Publish
  \/ Complete \/ Abort \/ Fail \/ Leave

-----------------------------------------------------------------------------
\* The game ends, in order or not, and is started again: only files remain.
Restart ==
  /\ running' = FALSE /\ status' = NoStatus /\ sampled' = NotSampled
  /\ asked' = NoMode /\ worker' = "none" /\ workJob' = NoJob
  /\ dumper' = NoDump /\ dumpStage' = NoneStage /\ dumpProgress' = 0
  /\ UNCHANGED <<dumpFile, artifactVars, jobMode, disturbed, offered>>

Next == GameThread \/ PipeThread \/ Dumping \/ Work \/ Restart

Spec == Init /\ [][Next]_vars

\* The worker runs, generate_sdk returns, and the pipe thread leaves the mutex
\* free most of the time: a worker that keeps finding it free gets it.
LiveSpec == Spec /\ SF_vars(Work) /\ WF_vars(PollEnd)

-----------------------------------------------------------------------------
(* Properties.                                                             *)

\* Type invariant.
TypeOK ==
  /\ running \in BOOLEAN
  /\ status \in [job : Jobs \cup {NoJob}, mode : Modes \cup {NoMode},
                 state : States, progress : Nat]
  /\ sampled \in Int \cup {NotSampled}
  /\ asked \in Modes \cup {NoMode}
  /\ worker \in Workers
  /\ workJob \in Jobs \cup {NoJob}
  /\ dumper \in {NoDump, "worker", "ui"}
  /\ dumpStage \in Int
  /\ dumpProgress \in 0..StageSteps
  /\ disk \in [Jobs -> Places]
  /\ jobMode \in [Jobs -> Modes \cup {NoMode}]
  /\ dumpFile \in Jobs \cup {NoDump, Foreign}
  /\ hash \in [Jobs -> Jobs \cup {NoDump, Foreign}]
  /\ content \in [Jobs -> Jobs \cup {NoDump, Foreign}]
  /\ disturbed \subseteq Jobs
  /\ offered \subseteq Jobs \X Places

\* What a poll reports agrees with what runs: while a worker runs m_status is
\* its own, and finished only in the instant before m_running is cleared; no
\* job is reported active for ever after its worker is gone.
StatusTellsWhatRuns ==
  /\ running <=> worker # "none"
  /\ running => /\ status.job = workJob
                /\ status.state \in Finished <=> worker = "leaving"
  /\ ~running => status.state \in Finished \cup {"idle"}

\* A completed job has its artifacts under their final name, whatever the game
\* thread, polls and other jobs do meanwhile; a failed one has published nothing.
OutcomeMatchesDisk ==
  /\ status.state = "completed" => disk[status.job] = "published"
  /\ status.state = "failed" => disk[status.job] # "published"

\* il2cpp_dump.json is one file for all dumps: unless the user interface dumps
\* in between, a published artifact holds the dump its own job made, and its
\* artifact_sha256 was computed from it.
ArtifactIsOwnDump ==
  \A j \in Jobs :
    (disk[j] = "published" /\ j \notin disturbed) => (hash[j] = j /\ content[j] = j)

\* overall_progress_kind says "weighted_monotonic": the progress of a job does
\* not go back, however polls fall between the stages of the dump, the reset of
\* the stage at its end and the updates of the worker.
ProgressIsMonotonic ==
  [][status'.job = status.job => status'.progress >= status.progress]_vars

Rank(state) == CASE state = "idle" -> 0
                 [] state = "queued" -> 1
                 [] state = "exporting" -> 2
                 [] state = "finalizing" -> 3
                 [] state \in Finished -> 4

\* A job only moves forward, and once it is finished its status is settled: no
\* late poll turns it back into a running one.
JobMovesForward ==
  [][status'.job = status.job =>
       /\ Rank(status'.state) >= Rank(status.state)
       /\ status.state \in Finished => status' = status]_vars

\* Every job comes to an end, also those whose dump is refused or whose files
\* cannot be written: the next request is not turned away for ever.
JobEnds == \A j \in Jobs : (running /\ status.job = j) ~> ~(running /\ status.job = j)

\* What start() answers as reusable can be imported from where it says it is:
\* a "temporary directory" (ExportServiceV1.cpp:507) is not an answer.
ReusableIsThere == \A o \in offered : disk[o[1]] = o[2]
=============================================================================
