----------------------------- MODULE ProbeRuns -----------------------------
(* The probe service inside REFramework (reframework/probe_service) as the *)
(* bridge drives it (bridge/src/probe_adapter.cpp): Lua code runs in a     *)
(* script state of its own, at once ("oneshot") or over several frames     *)
(* ("windowed"); the service limits it, asks REFramework to destroy the    *)
(* state, counts down before it forgets the state's address, and keeps the *)
(* results of the latest runs.                                             *)
(*                                                                         *)
(* Commands and the tick run on the game thread, one after the other;      *)
(* callbacks of the scripts and the freeing of script states belong to     *)
(* REFramework and happen between any two of them.  A freed address may be *)
(* the address of the next state.                                          *)
EXTENDS Naturals, Sequences, FiniteSets, FiniteSetsExt

CONSTANTS Addresses,    \* addresses a Lua state can have
          None,         \* a null lua_State*
          MaxRuns,      \* kMaxRuns: results the service keeps
          FrameLimit,   \* max_frames of a run
          EventLimit,   \* max_events of a run
          CleanupTicks, \* ticks between a destroy request and forgetting the state
          MaxCreated    \* bound on the runs created in a behaviour

ASSUME ConstantsOK ==
    /\ None \notin Addresses
    /\ {MaxRuns, FrameLimit, EventLimit, CleanupTicks, MaxCreated} \subseteq Nat \ {0}

VARIABLES runs,     \* every ProbeRun ever created, in order of creation
          order,    \* g_order, and the domain of g_runs: runs by index
          byState,  \* g_by_state: address -> run, 0 when absent
          alive,    \* REFramework: the run whose state is at the address, or 0
          doomed,   \* REFramework: addresses it was asked to destroy
          again,    \* the adapter invokes run_lua_probe a second time, in this mode
          known,    \* runs whose ProbeRef reached the host
          closing   \* the bridge has shut the service down

vars == <<runs, order, byState, alive, doomed, again, known, closing>>

Modes == {"oneshot", "windowed"}
Ids == 1..Len(runs)

\* Compilation uses a one-shot run whose code is loaded and never called; the
\* mode "compile" tells it from the runs whose code may have left callbacks.
Run == [mode: Modes \cup {"compile"},
        state: {"created", "running", "compiled", "completed", "failed", "cancelled"},
        lua: Addresses \cup {None},
        requested: BOOLEAN,
        cleanup: 0..CleanupTicks,
        frames: 0..FrameLimit,
        events: 0..EventLimit,
        late: BOOLEAN]

TypeOK ==
    /\ runs \in Seq(Run) /\ Len(runs) <= MaxCreated
    /\ order \in Seq(Ids)
    /\ byState \in [Addresses -> 0..Len(runs)]
    /\ alive \in [Addresses -> 0..Len(runs)]
    /\ doomed \subseteq Addresses
    /\ again \in Modes \cup {"no"}
    /\ known \subseteq Ids
    /\ closing \in BOOLEAN

Init ==
    /\ runs = <<>> /\ order = <<>>
    /\ byState = [a \in Addresses |-> 0]
    /\ alive = [a \in Addresses |-> 0]
    /\ doomed = {} /\ again = "no" /\ known = {} /\ closing = FALSE

-----------------------------------------------------------------------------
(* Helpers of the service *)

\* Seeded fault: the state is handed over on every request.
MustDestroyAgain(run) == run.lua # None

\* Whether request_destroy hands the state of the run to REFramework.
MustDestroy(run) == run.lua # None /\ ~run.requested

\* The run after request_destroy.
Destroyed(run) ==
    IF MustDestroy(run)
    THEN [run EXCEPT !.requested = TRUE, !.cleanup = CleanupTicks]
    ELSE run

\* probe_emit called from a script state: the event goes to the run the state's
\* address is mapped to, unless that one is full.
Emitted(rs, target) ==
    IF target = 0 \/ rs[target].events >= EventLimit
    THEN rs
    ELSE [rs EXCEPT ![target].events = @ + 1]

\* create_run: a new state at a free address; emplace leaves an entry that is
\* still there for the address alone.
Created(mode, a) ==
    Append(runs, [mode |-> mode, state |-> "created", lua |-> a,
                  requested |-> FALSE, cleanup |-> 0, frames |-> 0,
                  events |-> 0, late |-> FALSE])

Mapped(a, r) == IF byState[a] = 0 THEN [byState EXCEPT ![a] = r] ELSE byState

CanCreate(a) == Len(runs) < MaxCreated /\ alive[a] = 0 /\ ~closing

Create(a) ==
    /\ order' = Append(order, Len(runs) + 1)
    /\ byState' = Mapped(a, Len(runs) + 1)
    /\ alive' = [alive EXCEPT ![a] = Len(runs) + 1]

-----------------------------------------------------------------------------
(* Commands, on the game thread *)

\* create_run, in either call of the adapter, when installing the API throws.
InstallFails(a) ==
    /\ CanCreate(a) /\ Create(a)
    /\ LET r == Len(runs) + 1
       IN  runs' = [Created("compile", a) EXCEPT ![r] = Destroyed(@)]
    /\ doomed' = doomed \cup {a}
    /\ again' = "no"
    /\ UNCHANGED <<known, closing>>

\* compile_lua_probe.
Compile(a) ==
    /\ again = "no" /\ CanCreate(a)
    /\ Create(a)
    /\ LET r == Len(runs) + 1
       IN  \E outcome \in {"compiled", "failed"} :
             runs' = [Created("compile", a) EXCEPT ![r] = Destroyed([@ EXCEPT !.state = outcome])]
    /\ doomed' = doomed \cup {a}
    /\ UNCHANGED <<again, known, closing>>

\* run_lua_probe.  The code may emit; it ends normally ("ok"), with an error of
\* its own ("error") or of the instruction hook ("limited"), or it catches the
\* error of the hook, which has by then marked the run as failed ("caught").
Execute(mode, a) ==
    LET r == Len(runs) + 1
        target == Mapped(a, r)[a]
    IN  /\ CanCreate(a) /\ Create(a)
        /\ \E outcome \in {"ok", "error", "limited", "caught"}, emits \in BOOLEAN :
             LET started == [Created(mode, a) EXCEPT ![r].state = "running", ![r].frames = 1]
                 told == IF emits THEN Emitted(started, target) ELSE started
                 hooked == IF outcome \in {"limited", "caught"}
                           THEN [told EXCEPT ![target].state = "failed"] ELSE told
                 threw == outcome \in {"error", "limited"}
                 over == threw \/ mode = "oneshot"
                 final == IF threw THEN "failed" ELSE "completed"
             IN  /\ runs' = [hooked EXCEPT ![r] =
                               IF over THEN Destroyed([@ EXCEPT !.state = final]) ELSE @]
                 /\ doomed' = IF over THEN doomed \cup {a} ELSE doomed

\* The adapter's first call; a reply that is longer than its buffer makes it
\* call again, which only a run with output can cause.
Invoke(mode, a) ==
    /\ again = "no"
    /\ Execute(mode, a)
    /\ \/ again' = "no" /\ known' = known \cup {Len(runs')}
       \/ runs'[Len(runs')].events # 0 /\ again' = mode /\ known' = known
    /\ UNCHANGED closing

\* The second call executes the code again, in a run of its own; its reply
\* fits the new buffer or is refused as invalid.
Reinvoke(a) ==
    /\ again # "no"
    /\ Execute(again, a)
    /\ again' = "no"
    /\ known' \in {known, known \cup {Len(runs')}}
    /\ UNCHANGED closing

\* The second call when no state can be created.
ReinvokeFails ==
    /\ again # "no"
    /\ again' = "no"
    /\ UNCHANGED <<runs, order, byState, alive, doomed, known, closing>>

\* cancel_lua_probe of a run the service still has.
Cancel(r) ==
    /\ again = "no" /\ ~closing
    /\ r \in known /\ \E i \in DOMAIN order : order[i] = r
    /\ runs' = [runs EXCEPT ![r] =
          Destroyed(IF @.state = "running" THEN [@ EXCEPT !.state = "cancelled"] ELSE @)]
    /\ doomed' = doomed \cup (IF MustDestroy(runs[r]) THEN {runs[r].lua} ELSE {})
    /\ UNCHANGED <<order, byState, alive, again, known, closing>>

-----------------------------------------------------------------------------
(* The tick, after the commands of a frame *)

\* Whether a window has used up its frames, its time or its events.
WindowOver(run) ==
    run.frames >= FrameLimit \/ run.late \/ run.events >= EventLimit

\* Seeded fault: only the tick and the end of run_probe destroy states.
LeftOverNever(run) == FALSE

\* A run that something else than the tick ended, its state still to destroy.
LeftOver(run) == ~run.requested /\ run.lua # None /\ run.state \notin {"running", "created"}

Countdown(run) ==
    IF run.requested /\ run.cleanup > 0
    THEN [run EXCEPT !.cleanup = @ - 1, !.lua = IF run.cleanup = 1 THEN None ELSE @]
    ELSE run

Ticked(run) ==
    CASE run.state = "running" /\ WindowOver(run) ->
           Destroyed(Countdown([run EXCEPT !.state = "completed"]))
      [] run.state = "running" /\ ~WindowOver(run) ->
           Countdown([run EXCEPT !.frames = @ + 1])
      [] LeftOver(run) -> Destroyed(Countdown(run))
      [] OTHER -> Countdown(run)

\* Seeded fault: a result is dropped while its state still exists.
EvictedWithState(rs) ==
    LET free(i) == rs[order[i]].state # "running"
    IN  Max({0} \cup {k \in 1..Len(order) : /\ k <= Len(order) - MaxRuns
                                            /\ \A i \in 1..k : free(i)})

\* How many results the tick drops from the front of the list.
Evicted(rs) ==
    LET free(i) == rs[order[i]].state # "running" /\ rs[order[i]].lua = None
    IN  Max({0} \cup {k \in 1..Len(order) : /\ k <= Len(order) - MaxRuns
                                            /\ \A i \in 1..k : free(i)})

\* Seeded fault: an address stays mapped after its run has been settled.
ForgottenNever(ids, rs) == byState

\* g_by_state without the addresses whose countdown is over.
Forgotten(ids, rs) ==
    [a \in Addresses |->
        IF \E r \in ids : runs[r].lua = a /\ rs[r].lua = None THEN 0 ELSE byState[a]]

Tick ==
    /\ again = "no" /\ ~closing
    /\ runs' = [r \in Ids |-> Ticked(runs[r])]
    /\ doomed' = doomed \cup {runs[r].lua : r \in {q \in Ids : ~runs[q].requested /\ runs'[q].requested}}
    /\ byState' = Forgotten(Ids, runs')
    /\ order' = SubSeq(order, Evicted(runs') + 1, Len(order))
    /\ UNCHANGED <<alive, again, known, closing>>

\* shutdown_probe_service, from the adapter's destructor.
Shutdown ==
    /\ again = "no" /\ ~closing
    /\ closing' = TRUE
    /\ runs' = [r \in Ids |->
          Destroyed(IF runs[r].state = "running" THEN [runs[r] EXCEPT !.state = "cancelled"]
                                                 ELSE runs[r])]
    /\ doomed' = doomed \cup {runs[r].lua : r \in {q \in Ids : MustDestroy(runs[q])}}
    /\ UNCHANGED <<order, byState, alive, again, known>>

-----------------------------------------------------------------------------
(* REFramework and time *)

\* A callback the code registered emits an event.
CallbackEmits(a) ==
    /\ alive[a] # 0 /\ runs[alive[a]].mode # "compile"
    /\ runs' = Emitted(runs, byState[a])
    /\ UNCHANGED <<order, byState, alive, doomed, again, known, closing>>

\* A callback runs into the instruction limit or the deadline of the run its
\* state is mapped to.
CallbackLimited(a) ==
    /\ alive[a] # 0 /\ runs[alive[a]].mode # "compile" /\ byState[a] # 0
    /\ runs' = [runs EXCEPT ![byState[a]].state = "failed"]
    /\ UNCHANGED <<order, byState, alive, doomed, again, known, closing>>

DeadlinePasses(r) ==
    /\ r \in Ids /\ runs[r].state = "running" /\ ~runs[r].late
    /\ runs' = [runs EXCEPT ![r].late = TRUE]
    /\ UNCHANGED <<order, byState, alive, doomed, again, known, closing>>

\* REFramework destroys a state it was asked to destroy.
StateFreed(a) ==
    /\ a \in doomed
    /\ alive' = [alive EXCEPT ![a] = 0]
    /\ doomed' = doomed \ {a}
    /\ UNCHANGED <<runs, order, byState, again, known, closing>>

-----------------------------------------------------------------------------
Next ==
    \/ \E a \in Addresses :
          \/ InstallFails(a) \/ Compile(a) \/ Reinvoke(a)
          \/ \E mode \in Modes : Invoke(mode, a)
          \/ CallbackEmits(a) \/ CallbackLimited(a) \/ StateFreed(a)
    \/ ReinvokeFails
    \/ \E r \in 1..MaxCreated : (r \in Ids /\ Cancel(r)) \/ DeadlinePasses(r)
    \/ Tick \/ Shutdown

Spec == Init /\ [][Next]_vars

\* Frames go on, so the tick and the second call of the adapter happen; time
\* passes.  Nothing is assumed of the scripts or of when states are freed.
Fairness ==
    /\ WF_vars(Tick) /\ WF_vars(ReinvokeFails \/ \E a \in Addresses : Reinvoke(a))
    /\ \A r \in 1..MaxCreated : WF_vars(DeadlinePasses(r))

LiveSpec == Spec /\ Fairness

-----------------------------------------------------------------------------
(* Properties *)

\* REFramework is only ever asked to destroy a state by the run the state was
\* created for: no second request reaches an address that is in use again.
OnlyOwnStateIsDestroyed ==
    \A a \in doomed : alive[a] # 0 /\ runs[alive[a]].requested

\* Once the countdown is over nothing changes a run any more, although its
\* state may still exist and call back, and a new state may have its address.
SettledIsFinal ==
    [][\A r \in Ids : runs[r].lua = None => runs'[r] = runs[r]]_vars

\* get_probe_status and cancel_lua_probe find every run that is not over: the
\* list drops only runs whose state is gone.
LiveRunsAreListed ==
    \A r \in Ids : runs[r].lua # None => \E i \in DOMAIN order : order[i] = r

\* The tables of the service are well formed and list what still exists.
TablesAreSound == TypeOK /\ LiveRunsAreListed

\* Every run gives its script state back, also the one no reply named and the
\* one a callback ended, unless the bridge is shut down.
StatesAreReleased ==
    \A r \in 1..MaxCreated :
        (r \in Ids) ~> ((r \in Ids /\ runs[r].lua = None) \/ closing)
=============================================================================
