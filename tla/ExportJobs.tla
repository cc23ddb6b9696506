----------------------------- MODULE ExportJobs -----------------------------
(***************************************************************************)
(* The host's bookkeeping of Generate SDK jobs                             *)
(* (reframework_mcp/jobs/export.py, ExportJobCoordinator).                 *)
(*                                                                         *)
(* A row of the table export_jobs outlives the process.  Coroutines of one *)
(* event loop move it on: a watcher per job, the reconciliation done by    *)
(* runtime_status, readers of the resource metadata/exports/{job_ref} and  *)
(* a finalizer per job.  Between two awaits a coroutine is atomic; at an   *)
(* await others run, and the answer of the game to one of them may arrive  *)
(* after the answer to a later question.  The row is read before the await *)
(* in `refresh' and written after it.                                      *)
(*                                                                         *)
(* The game is what ExportService shows of itself: one current job, whose  *)
(* status is forgotten when another job starts or the game ends.  The task *)
(* dictionaries are taken as exact: the removal of a finished task's entry *)
(* by its done-callback is not a step of its own.                          *)
(***************************************************************************)
EXTENDS Naturals, Sequences

CONSTANTS Exports,     \* jobs of the export service
          HostJobs,    \* jobs export:host:... that index a reused artifact
          NoJob,
          Wishes,      \* the flags callers of run_generate_sdk use
          Readers,     \* readers of the resource metadata/exports/{job_ref}
          Reconciler,  \* reconcile_pending_once
          MaxFaults    \* bound on lost answers, refused files, ends of a process

Jobs    == Exports \cup HostJobs
Callers == Jobs \cup Readers \cup {Reconciler}   \* a job stands for its watcher

ASSUME ConstantsOK ==
  /\ NoJob \notin Jobs
  /\ Exports \cap HostJobs = {}
  /\ Reconciler \notin Jobs \cup Readers /\ Readers \cap Jobs = {}
  /\ Wishes \subseteq [index : BOOLEAN, activate : BOOLEAN]
  /\ MaxFaults \in Nat

VARIABLES
  gameJob,    \* the job m_status of the export service is about
  gameState,  \* its state
  gameBusy,   \* m_running
  published,  \* jobs whose artifact is on disk
  starting,   \* answer to run_generate_sdk on its way to register
  row,        \* table export_jobs
  order,      \* its job_refs by created_at
  artifact,   \* the export whose artifact a job indexes
  call,       \* get_export_status calls: who asks about which job
  pending,    \* rows reconcile_pending_once has still to visit
  finalizer,  \* where _finalize_host_job of a job stands
  snapshots,  \* exports imported completely
  active,     \* the active snapshot
  faults

gameVars == <<gameJob, gameState, gameBusy, published>>
dbVars   == <<row, order, artifact>>
taskVars == <<starting, call, pending, finalizer>>
metaVars == <<snapshots, active>>
vars == <<gameVars, dbVars, taskVars, metaVars, faults>>

BridgeStates == {"active", "completed", "failed"}
Terminal     == {"completed", "failed", "reused", "host_failed"}
HostStates   == {"indexing", "activating"}
RowStates    == {"none", "active"} \cup Terminal \cup HostStates
Phases       == {"none", "ready", "sent", "answered"}
FinalizerPcs == {"none", "scheduled", "importing", "imported", "activating", "activated"}

NoRow    == [state |-> "none", index |-> FALSE, activate |-> FALSE,
             snapshot |-> FALSE, indexed |-> FALSE, activated |-> FALSE]
Quiet    == [phase |-> "none", job |-> NoJob, answer |-> "none"]
NoWish   == [index |-> FALSE, activate |-> FALSE]
NoAnswer == [job |-> NoJob, answer |-> "none", wish |-> NoWish]

Init ==
  /\ gameJob = NoJob /\ gameState = "idle" /\ gameBusy = FALSE
  /\ published = {}
  /\ starting = NoAnswer
  /\ row = [j \in Jobs |-> NoRow]
  /\ order = <<>>
  /\ artifact = [j \in Jobs |-> IF j \in Exports THEN j ELSE NoJob]
  /\ call = [c \in Callers |-> Quiet]
  /\ pending = <<>>
  /\ finalizer = [j \in Jobs |-> "none"]
  /\ snapshots = {}
  /\ active = NoJob
  /\ faults = 0

\* A fault of the environment; they are bounded so that progress can be stated.
Fault == faults < MaxFaults /\ faults' = faults + 1

-----------------------------------------------------------------------------
(* The game.                                                               *)

\* run_generate_sdk reaches the export service: a new job, or the running one.
StartInGame ==
  /\ starting = NoAnswer
  /\ \E w \in Wishes, j \in Exports :
       /\ starting' = [job |-> j, wish |-> w,
                       answer |-> IF gameBusy THEN gameState ELSE "active"]
       /\ \/ gameBusy /\ j = gameJob /\ UNCHANGED gameVars
          \/ /\ ~gameBusy /\ j # gameJob /\ row[j] = NoRow /\ j \notin published
             /\ gameJob' = j /\ gameState' = "active" /\ gameBusy' = TRUE
             /\ UNCHANGED published
  /\ UNCHANGED <<dbVars, call, pending, finalizer, metaVars, faults>>

GameFinishes ==
  /\ gameBusy /\ gameState = "active"
  /\ \/ gameState' = "completed" /\ published' = published \cup {gameJob}
     \/ gameState' = "failed" /\ UNCHANGED published
  /\ UNCHANGED <<gameJob, gameBusy, dbVars, taskVars, metaVars, faults>>

\* m_running is cleared after the status has become final.
GameLeaves ==
  /\ gameBusy /\ gameState # "active"
  /\ gameBusy' = FALSE
  /\ UNCHANGED <<gameJob, gameState, published, dbVars, taskVars, metaVars, faults>>

GameEnds ==
  /\ gameJob # NoJob
  /\ Fault
  /\ gameJob' = NoJob /\ gameState' = "idle" /\ gameBusy' = FALSE
  /\ UNCHANGED <<published, dbVars, taskVars, metaVars>>


\* status(): only the current job is known.
StatusOf(j) == IF j = gameJob THEN gameState ELSE "error"

\* The bridge answers, in the order in which it gets round to the calls.
Answer(c) ==
  /\ call[c].phase = "sent"
  /\ call' = [call EXCEPT ![c].phase = "answered", ![c].answer = StatusOf(call[c].job)]
  /\ UNCHANGED <<gameVars, dbVars, starting, pending, finalizer, metaVars, faults>>

\* The deadline passes, or the pipe breaks.
LoseAnswer(c) ==
  /\ call[c].phase = "sent"
  /\ Fault
  /\ call' = [call EXCEPT ![c].phase = "answered", ![c].answer = "error"]
  /\ UNCHANGED <<gameVars, dbVars, starting, pending, finalizer, metaVars>>

LoseStart ==
  /\ starting # NoAnswer
  /\ Fault
  /\ starting' = NoAnswer
  /\ UNCHANGED <<gameVars, dbVars, call, pending, finalizer, metaVars>>

-----------------------------------------------------------------------------
(* Registration.                                                           *)

\* _ensure_watcher and _ensure_finalizer, applied to the tasks there are.
Watched(calls, j)   == IF calls[j].phase = "none"
                         THEN [calls EXCEPT ![j] = [Quiet EXCEPT !.phase = "ready", !.job = j]]
                         ELSE calls
EnsureFinalizer(j)  == finalizer' = IF finalizer[j] = "none"
                         THEN [finalizer EXCEPT ![j] = "scheduled"] ELSE finalizer

\* A row that exists keeps flags and snapshot_id; state and status are replaced.
Register ==
  /\ starting # NoAnswer
  /\ LET j == starting.job
         old == IF row[j] = NoRow
                  THEN [NoRow EXCEPT !.index = starting.wish.index,
                                     !.activate = starting.wish.activate]
                  ELSE row[j]
     IN  /\ row' = [row EXCEPT ![j] = [old EXCEPT !.state = starting.answer,
                                         !.indexed = FALSE, !.activated = FALSE]]
         /\ order' = IF row[j] = NoRow THEN Append(order, j) ELSE order
         /\ call' = Watched(call, j)
  /\ starting' = NoAnswer
  /\ UNCHANGED <<gameVars, artifact, pending, finalizer, metaVars, faults>>

\* The service answers "reused" and the snapshot is known: it is activated.
ReuseSnapshot(j) ==
  /\ j \in published \cap snapshots
  /\ active' = j
  /\ UNCHANGED <<gameVars, dbVars, taskVars, snapshots, faults>>

\* Otherwise a host job indexes the artifact.
ReuseArtifact(h, j) ==
  /\ j \in published \ snapshots /\ row[h] = NoRow
  /\ \E w \in Wishes :
       /\ w.index
       /\ row' = [row EXCEPT ![h] = [NoRow EXCEPT !.state = "indexing", !.index = TRUE,
                                                  !.activate = w.activate]]
  /\ order' = Append(order, h)
  /\ artifact' = [artifact EXCEPT ![h] = j]
  /\ EnsureFinalizer(h)
  /\ UNCHANGED <<gameVars, starting, call, pending, metaVars, faults>>

-----------------------------------------------------------------------------
(* refresh: read the row, ask the game, write the row.                     *)

\* A caller that found the row final, or in the hands of the host, is done.
Done(c) == call' = [call EXCEPT ![c] = Quiet]
Ask(c, j) == call' = [call EXCEPT ![c] = [phase |-> "sent", job |-> j, answer |-> "none"]]

RefreshBegins(c, j) ==
  \/ row[j].state \in Terminal /\ Done(c) /\ UNCHANGED finalizer
  \/ row[j].state \in HostStates /\ Done(c) /\ EnsureFinalizer(j)
  \/ row[j].state = "active" /\ Ask(c, j) /\ UNCHANGED finalizer

WatcherAsks(j) ==
  /\ call[j].phase = "ready"
  /\ RefreshBegins(j, j)
  /\ UNCHANGED <<gameVars, dbVars, starting, pending, metaVars, faults>>

ReaderAsks(c, j) ==
  /\ call[c] = Quiet
  /\ row[j] # NoRow
  /\ RefreshBegins(c, j)
  /\ UNCHANGED <<gameVars, dbVars, starting, pending, metaVars, faults>>

\* _persist_and_finalize, from the row as it is when the answer is handled.
Persisted(r, state) == [r EXCEPT !.state = state, !.indexed = FALSE, !.activated = FALSE]


\* Seeded fault: a failed export is not written to the table.
PersistNoFailure(j, answer) ==
  /\ IF answer = "completed" /\ row[j].index /\ ~row[j].snapshot
       THEN /\ row' = [row EXCEPT ![j] = Persisted(@, "indexing")]
            /\ EnsureFinalizer(j)
       ELSE /\ row' = [row EXCEPT ![j] = IF answer = "failed" THEN @ ELSE Persisted(@, answer)]
            /\ UNCHANGED finalizer
  /\ UNCHANGED faults

Persist(j, answer) ==
  IF answer = "completed" /\ row[j].index /\ ~row[j].snapshot
    THEN \/ /\ row' = [row EXCEPT ![j] = Persisted(@, "indexing")]
            /\ EnsureFinalizer(j)
            /\ UNCHANGED faults
         \/ /\ Fault   \* the artifact is not where the game says it is
            /\ row' = [row EXCEPT ![j] = Persisted(@, "host_failed")]
            /\ UNCHANGED finalizer
    ELSE /\ row' = [row EXCEPT ![j] = Persisted(@, answer)]
         /\ UNCHANGED <<finalizer, faults>>

\* A watcher goes on while the job is under way, and gives up on an error.
WatcherHears(j) ==
  /\ call[j].phase = "answered"
  /\ \/ call[j].answer = "error" /\ Done(j) /\ UNCHANGED <<row, finalizer, faults>>
     \/ /\ call[j].answer \in BridgeStates
        /\ Persist(j, call[j].answer)
        /\ IF call[j].answer = "active"
             THEN call' = [call EXCEPT ![j] = [Quiet EXCEPT !.phase = "ready", !.job = j]]
             ELSE Done(j)
  /\ UNCHANGED <<gameVars, order, artifact, starting, pending, metaVars>>

ReaderHears(c) ==
  /\ call[c].phase = "answered"
  /\ Done(c)
  /\ \/ call[c].answer = "error" /\ UNCHANGED <<row, finalizer, faults>>
     \/ /\ call[c].answer \in BridgeStates
        /\ Persist(call[c].job, call[c].answer)
  /\ UNCHANGED <<gameVars, order, artifact, starting, pending, metaVars>>

-----------------------------------------------------------------------------
(* reconcile_pending_once.                                                 *)

Unfinished(j) == row[j].state \notin Terminal

\* The rows are fetched at once, in the order of their creation and with the
\* state they have at that moment.
Fetched(j) == [job |-> j, host |-> row[j].state \in HostStates]

UnfinishedRows ==
  LET f[n \in 0..Len(order)] ==
        IF n = 0 THEN <<>>
        ELSE IF Unfinished(order[n]) THEN Append(f[n - 1], Fetched(order[n])) ELSE f[n - 1]
  IN f[Len(order)]

ReconcileBegins ==
  /\ pending = <<>> /\ call[Reconciler] = Quiet
  /\ pending' = UnfinishedRows
  /\ pending' # <<>>
  /\ UNCHANGED <<gameVars, dbVars, starting, call, finalizer, metaVars, faults>>

\* Seeded fault: rows in the hands of the host are passed over.
ReconcileAsksGameOnly ==
  /\ pending # <<>> /\ call[Reconciler] = Quiet
  /\ LET j == Head(pending).job IN
       \/ /\ Head(pending).host \/ row[j].state # "active"
          /\ pending' = Tail(pending)
          /\ UNCHANGED call
       \/ /\ ~Head(pending).host /\ row[j].state = "active"
          /\ Ask(Reconciler, j)
          /\ UNCHANGED pending
  /\ UNCHANGED <<gameVars, dbVars, starting, finalizer, metaVars, faults>>

\* The next row: schedule its finalizer, or refresh it.
ReconcileAsks ==
  /\ pending # <<>> /\ call[Reconciler] = Quiet
  /\ LET j == Head(pending).job IN
       \/ /\ Head(pending).host
          /\ EnsureFinalizer(j)
          /\ pending' = Tail(pending)
          /\ UNCHANGED call
       \/ /\ ~Head(pending).host /\ row[j].state = "active"
          /\ Ask(Reconciler, j)
          /\ UNCHANGED <<pending, finalizer>>
       \/ /\ ~Head(pending).host /\ row[j].state # "active"
          /\ IF row[j].state \in HostStates
               THEN EnsureFinalizer(j) ELSE UNCHANGED finalizer
          /\ pending' = Tail(pending)
          /\ call' = Watched(call, j)
  /\ UNCHANGED <<gameVars, dbVars, starting, metaVars, faults>>

\* An error ends the round; otherwise the row is written and watched.
ReconcileHears ==
  /\ call[Reconciler].phase = "answered"
  /\ LET j == call[Reconciler].job
         answer == call[Reconciler].answer IN
       \/ /\ answer = "error"
          /\ pending' = <<>>
          /\ Done(Reconciler)
          /\ UNCHANGED <<row, finalizer, faults>>
       \/ /\ answer \in BridgeStates
          /\ Persist(j, answer)
          /\ pending' = Tail(pending)
          /\ call' = Watched([call EXCEPT ![Reconciler] = Quiet], j)
  /\ UNCHANGED <<gameVars, order, artifact, starting, metaVars>>

-----------------------------------------------------------------------------
(* _finalize_host_job.  Import and activation run in a thread of their     *)
(* own, so that what they commit and what the coroutine writes next are    *)
(* separate steps.                                                         *)

FinalizerGoes(j, from, to) ==
  finalizer[j] = from /\ finalizer' = [finalizer EXCEPT ![j] = to]

\* Seeded fault: the state of the row is not looked at again.
FinalizerBeginsAlways(j) ==
  /\ FinalizerGoes(j, "scheduled", "importing")
  /\ UNCHANGED <<gameVars, dbVars, starting, call, pending, metaVars, faults>>

FinalizerBegins(j) ==
  /\ \/ row[j].state \in HostStates /\ FinalizerGoes(j, "scheduled", "importing")
     \/ row[j].state \notin HostStates /\ FinalizerGoes(j, "scheduled", "none")
  /\ UNCHANGED <<gameVars, dbVars, starting, call, pending, metaVars, faults>>

\* Seeded fault: the importer does not commit.
ImportCommitsNothing(j) ==
  /\ FinalizerGoes(j, "importing", "imported")
  /\ UNCHANGED <<gameVars, dbVars, starting, call, pending, metaVars, faults>>

ImportCommits(j) ==
  /\ FinalizerGoes(j, "importing", "imported")
  /\ snapshots' = snapshots \cup {artifact[j]}
  /\ UNCHANGED <<gameVars, dbVars, starting, call, pending, active, faults>>

\* The last statement of the coroutine: the whole row but its flags.
Write(j, state, snapshot, indexed, activated) ==
  row' = [row EXCEPT ![j] = [@ EXCEPT !.state = state, !.snapshot = snapshot,
                                      !.indexed = indexed, !.activated = activated]]

FinalState(j) == IF j \in HostJobs THEN "reused" ELSE "completed"


AfterImport(j) ==
  /\ \/ /\ row[j].activate
        /\ FinalizerGoes(j, "imported", "activating")
        /\ row' = [row EXCEPT ![j] = [@ EXCEPT !.state = "activating", !.indexed = TRUE,
                                               !.activated = FALSE]]
     \/ /\ ~row[j].activate
        /\ FinalizerGoes(j, "imported", "none")
        /\ Write(j, FinalState(j), TRUE, TRUE, FALSE)
  /\ UNCHANGED <<gameVars, order, artifact, starting, call, pending, metaVars, faults>>

ActivationCommits(j) ==
  /\ FinalizerGoes(j, "activating", "activated")
  /\ artifact[j] \in snapshots
  /\ active' = artifact[j]
  /\ UNCHANGED <<gameVars, dbVars, starting, call, pending, snapshots, faults>>

AfterActivation(j) ==
  /\ FinalizerGoes(j, "activated", "none")
  /\ Write(j, FinalState(j), TRUE, TRUE, TRUE)
  /\ UNCHANGED <<gameVars, order, artifact, starting, call, pending, metaVars, faults>>

\* Any exception; the status reported is the one read at the start.
FinalizerFails(j) ==
  /\ Fault
  /\ \E pc \in {"importing", "activating"} :
       /\ FinalizerGoes(j, pc, "none")
       /\ Write(j, "host_failed", pc = "activating", FALSE, FALSE)
  /\ UNCHANGED <<gameVars, order, artifact, starting, call, pending, metaVars>>

Finalize(j) ==
  \/ FinalizerBegins(j) \/ ImportCommits(j) \/ AfterImport(j)
  \/ ActivationCommits(j) \/ AfterActivation(j) \/ FinalizerFails(j)

-----------------------------------------------------------------------------
\* The host process ends and is started again: tables are all that is left.
HostEnds ==
  /\ Fault
  /\ starting' = NoAnswer
  /\ call' = [c \in Callers |-> Quiet]
  /\ pending' = <<>>
  /\ finalizer' = [j \in Jobs |-> "none"]
  /\ UNCHANGED <<gameVars, dbVars, metaVars>>

Game == StartInGame \/ GameFinishes \/ GameLeaves \/ GameEnds \/ LoseStart

Watch(j)  == WatcherAsks(j) \/ WatcherHears(j)
Read      == \E c \in Readers : ReaderHears(c) \/ \E j \in Jobs : ReaderAsks(c, j)
Reconcile == ReconcileBegins \/ ReconcileAsks \/ ReconcileHears
Reuse     == \E j \in Exports : ReuseSnapshot(j) \/ \E h \in HostJobs : ReuseArtifact(h, j)

Next ==
  \/ Game \/ Register \/ Reuse \/ Read \/ Reconcile \/ HostEnds
  \/ \E c \in Callers : Answer(c) \/ LoseAnswer(c)
  \/ \E j \in Jobs : Watch(j) \/ Finalize(j)

Spec == Init /\ [][Next]_vars

\* The event loop runs what is ready, import threads end, the game goes on with
\* its job and the pipe is served; runtime_status is called again and again (the
\* README makes it the first step of every session).
LiveSpec ==
  /\ Spec
  /\ WF_vars(GameFinishes) /\ WF_vars(GameLeaves) /\ WF_vars(Register)
  /\ WF_vars(ReconcileBegins) /\ WF_vars(ReconcileAsks) /\ WF_vars(ReconcileHears)
  /\ \A c \in Readers : WF_vars(ReaderHears(c))
  /\ \A c \in Callers : WF_vars(Answer(c))
  /\ \A j \in Jobs : WF_vars(Watch(j)) /\ WF_vars(Finalize(j))

-----------------------------------------------------------------------------
(* Properties.                                                             *)

RowType == [state : RowStates, index : BOOLEAN, activate : BOOLEAN,
            snapshot : BOOLEAN, indexed : BOOLEAN, activated : BOOLEAN]

\* Type invariant.
TypeOK ==
  /\ gameJob \in Exports \cup {NoJob}
  /\ gameState \in BridgeStates \cup {"idle"}
  /\ gameBusy \in BOOLEAN
  /\ published \subseteq Exports
  /\ starting \in [job : Exports \cup {NoJob}, wish : Wishes \cup {NoWish},
                   answer : BridgeStates \cup {"none"}]
  /\ row \in [Jobs -> RowType]
  /\ order \in Seq(Jobs)
  /\ artifact \in [Jobs -> Exports \cup {NoJob}]
  /\ call \in [Callers -> [phase : Phases, job : Jobs \cup {NoJob},
                           answer : BridgeStates \cup {"none", "error"}]]
  /\ pending \in Seq([job : Jobs, host : BOOLEAN])
  /\ finalizer \in [Jobs -> FinalizerPcs]
  /\ snapshots \subseteq Exports
  /\ active \in Exports \cup {NoJob}
  /\ faults \in 0..MaxFaults

\* What the table tells a client about a job's metadata is so, through crashes
\* between the commit of the import and the write of the row, and through rows
\* rewritten by late answers: an indexed or activated job has a complete
\* snapshot, and the active snapshot is a complete one.
MetadataClaimsHold ==
  /\ \A j \in Jobs :
       /\ row[j].indexed \/ row[j].snapshot => artifact[j] \in snapshots
       /\ row[j].activated => row[j].activate /\ artifact[j] \in snapshots
  /\ active # NoJob => active \in snapshots

\* Nothing is indexed but what the game has published in full.
OnlyPublishedIsIndexed == snapshots \subseteq published

\* A snapshot only becomes active at somebody's request: not through the job of
\* a caller who asked for an import alone.
ActivationIsAskedFor ==
  \A j \in Jobs : finalizer[j] \in {"activating", "activated"} => row[j].activate

\* What the table and the metadata tell of an export is true, and was wished.
TableIsTruthful ==
  TypeOK /\ MetadataClaimsHold /\ OnlyPublishedIsIndexed /\ ActivationIsAskedFor

\* The job the host makes to index a reused artifact ends once and for all, and
\* never as reused without its metadata.
HostJobsEndOnce ==
  [][\A h \in HostJobs :
       /\ row[h].state \in Terminal => row'[h] = row[h]
       /\ row'[h].state = "reused" => row'[h].indexed]_vars

InFlight(j) == starting.job = j \/ \E c \in Callers : call[c].job = j

\* Reconciliation ends at the first row the game does not know, so that such a
\* row keeps it from those behind it.
Blocked(j) ==
  \E k \in DOMAIN order : \E i \in 1..(k - 1) :
    order[k] = j /\ row[order[i]].state = "active" /\ order[i] # gameJob

\* Work the host has begun is finished, also after a restart in the middle of
\* it, unless an answer still on its way takes the job back or a row before it
\* blocks the reconciliation.
HostWorkResumes ==
  \A j \in Jobs :
    (row[j].state \in HostStates /\ ~InFlight(j))
      ~> (row[j].state \in Terminal \/ Blocked(j))

\* While the game remembers the job, its end reaches the table, unless a row
\* before it blocks the reconciliation.
ExportIsFinalized ==
  \A j \in Exports :
    (row[j].state \notin Terminal \cup {"none"} /\ gameJob = j)
      ~> (row[j].state \in Terminal \/ gameJob # j \/ Blocked(j))

\* tests/integration/test_export_jobs.py:110-113 expects a completed job to be
\* reported as indexed: once it has been it stays so, at least while nobody
\* registers the job anew.
FinishedStaysIndexed ==
  [][\A j \in Exports :
       (row[j].state = "completed" /\ row[j].indexed /\ starting.job # j)
         => (row'[j].state = "completed" /\ row'[j].indexed)]_vars
=============================================================================
