-------------------------- MODULE HookObservation --------------------------
(***************************************************************************)
(* What a client of the host sees of the hooks in the game                 *)
(* (reframework_mcp/server.py, graphs/runtime.py over HookManager).        *)
(*                                                                         *)
(* The tools install_hook and remove_hook and the resource                 *)
(* hooks/{hook_ref}/events ask the bridge and write its answer into the    *)
(* database: the session of a hook, its events without repetition, and a   *)
(* node for every object an event shows, with the time its lease is taken  *)
(* to end.  The question is answered in the game, the answer recorded when *)
(* its coroutine resumes; between the two anything else may happen, and    *)
(* answers may be lost or recorded in another order than they were given.  *)
(***************************************************************************)
EXTENDS HookManager

CONSTANTS Callers,   \* coroutines of hook_events_resource and _remove_hook
          Lease,     \* lease_seconds of a captured object, in ticks
          MaxFaults  \* bound on lost answers

ASSUME HostConstantsOK == Lease \in Nat \ {0} /\ MaxFaults \in Nat

VARIABLES
  installing, \* hooks whose answer to install_hook is on its way
  call,       \* what each caller asked and was answered
  session,    \* state in hook_sessions
  stored,     \* rows of hook_events
  lease,      \* ticks the bridge still holds a captured object
  node,       \* ticks the host takes it to be held, 0 for no live node
  faults

hostVars == <<installing, call, session, stored, node>>
vars == <<managerVars, hostVars, lease, faults>>

Kinds == {"read", "remove"}
Idle  == [phase |-> "idle", kind |-> "read", hook |-> NoHook, state |-> "none", count |-> 0]

Init ==
  /\ ManagerInit
  /\ installing = {}
  /\ call = [c \in Callers |-> Idle]
  /\ session = [h \in Hooks |-> "none"]
  /\ stored = [h \in Hooks |-> {}]
  /\ lease = [o \in Objects |-> 0]
  /\ node = [o \in Objects |-> 0]
  /\ faults = 0

-----------------------------------------------------------------------------
(* The game.                                                               *)

\* argument_value leases the object it shows, for 30 seconds.
Capture ==
  /\ \E n \in native, c \in Contents :
       /\ OnPre(n, c) \/ OnPost(n, c)
       /\ lease' = IF c \in Objects /\ captured' # captured
                   THEN [lease EXCEPT ![c] = Lease] ELSE lease
  /\ UNCHANGED <<hostVars, faults>>

\* An inspection of an object that is held renews its lease.
UseObject(o) ==
  /\ lease[o] > 0 /\ node[o] > 0
  /\ lease' = [lease EXCEPT ![o] = Lease]
  /\ UNCHANGED <<managerVars, hostVars, faults>>

Expire == ClearExpired /\ UNCHANGED <<hostVars, lease, faults>>

Restart ==
  /\ ForgetAll
  /\ lease' = [o \in Objects |-> 0]
  /\ UNCHANGED <<hostVars, faults>>

Less(f) == [o \in Objects |-> IF f[o] > 0 THEN f[o] - 1 ELSE 0]

TimePasses ==
  /\ TickHooks
  /\ lease' = Less(lease) /\ node' = Less(node)
  /\ UNCHANGED <<tableVars, method, phase, captured, dropped, restarts,
                 installing, call, session, stored, faults>>

-----------------------------------------------------------------------------
(* install_hook                                                            *)

InstallHook(h, m, p) ==
  /\ Install(h, m, p)
  /\ installing' = installing \cup {h}
  /\ UNCHANGED <<call, session, stored, node, lease, faults>>

\* The game answers with an error; its callbacks may stay behind.
InstallHookFails(h, m) == InstallFails(h, m) /\ UNCHANGED <<hostVars, lease, faults>>

\* record_hook_install
HearInstalled(h) ==
  /\ h \in installing
  /\ installing' = installing \ {h}
  /\ session' = [session EXCEPT ![h] = "installed"]
  /\ UNCHANGED <<managerVars, call, stored, node, lease, faults>>

\* The caller never learns the hook_ref: only its ttl ends the hook.
MissInstalled(h) ==
  /\ h \in installing /\ faults < MaxFaults
  /\ installing' = installing \ {h}
  /\ faults' = faults + 1
  /\ UNCHANGED <<managerVars, call, session, stored, node, lease>>

-----------------------------------------------------------------------------
(* hook_events_resource and remove_hook                                    *)

Ask(c, h, k) ==
  /\ call[c] = Idle /\ session[h] # "none"
  /\ call' = [call EXCEPT ![c] = [Idle EXCEPT !.phase = "sent", !.kind = k, !.hook = h]]
  /\ UNCHANGED <<managerVars, installing, session, stored, node, lease, faults>>

Answer(c, state, count) ==
  call' = [call EXCEPT ![c].phase = "answered", ![c].state = state, ![c].count = count]

Asked(c, k) == call[c].phase = "sent" /\ call[c].kind = k

\* Seeded fault: a removed hook is answered without its events.
AnswerReadBare(c) ==
  LET h == call[c].hook IN
  /\ Asked(c, "read")
  /\ \/ h \in Installed /\ Answer(c, "installed", Len(captured[h]))
     \/ h \in Archived /\ Answer(c, "removed", 0)
     \/ h \notin Installed \cup Archived /\ Answer(c, "not_found", 0)
  /\ UNCHANGED <<managerVars, installing, session, stored, node, lease, faults>>

\* HookManager::events
AnswerRead(c) ==
  LET h == call[c].hook IN
  /\ Asked(c, "read")
  /\ \/ h \in Installed /\ Answer(c, "installed", Len(captured[h]))
     \/ h \in Archived /\ Answer(c, "removed", Len(captured[h]))
     \/ h \notin Installed \cup Archived /\ Answer(c, "not_found", 0)
  /\ UNCHANGED <<managerVars, installing, session, stored, node, lease, faults>>

\* HookManager::remove: of a hook it no longer knows nothing but the ref.
AnswerRemove(c) ==
  LET h == call[c].hook IN
  /\ Asked(c, "remove")
  /\ \/ Remove(h) /\ Answer(c, "removed", Len(captured[h]))
     \/ h \in Archived /\ Answer(c, "removed", Len(captured[h])) /\ UNCHANGED managerVars
     \/ h \notin Installed \cup Archived /\ Answer(c, "removed", 0) /\ UNCHANGED managerVars
  /\ UNCHANGED <<installing, session, stored, node, lease, faults>>

Told(c) == {captured[call[c].hook][i] : i \in 1..call[c].count}


\* Seeded fault: an answer without new events does not touch the session.
HearOnce(c) ==
  LET h == call[c].hook IN
  /\ call[c].phase = "answered"
  /\ stored' = [stored EXCEPT ![h] = @ \cup Told(c)]
  /\ node' = [o \in Objects |-> IF \E e \in Told(c) : e.content = o THEN Lease ELSE node[o]]
  /\ session' = [session EXCEPT ![h] = IF Told(c) \subseteq stored[h] THEN @ ELSE call[c].state]
  /\ call' = [call EXCEPT ![c] = Idle]
  /\ UNCHANGED <<managerVars, installing, lease, faults>>

\* record_hook_payload: events are inserted unless an equal one is there, the
\* objects of all events told get a lease of their own, counted from now.
Hear(c) ==
  LET h == call[c].hook IN
  /\ call[c].phase = "answered"
  /\ stored' = [stored EXCEPT ![h] = @ \cup Told(c)]
  /\ node' = [o \in Objects |-> IF \E e \in Told(c) : e.content = o THEN Lease ELSE node[o]]
  /\ session' = [session EXCEPT ![h] = call[c].state]
  /\ call' = [call EXCEPT ![c] = Idle]
  /\ UNCHANGED <<managerVars, installing, lease, faults>>

\* The request fails, or its answer is lost or late.
Miss(c) ==
  /\ call[c] # Idle /\ faults < MaxFaults
  /\ call' = [call EXCEPT ![c] = Idle]
  /\ faults' = faults + 1
  /\ UNCHANGED <<managerVars, installing, session, stored, node, lease>>

-----------------------------------------------------------------------------
Next ==
  \/ Capture \/ Expire \/ Restart \/ TimePasses
  \/ \E o \in Objects : UseObject(o)
  \/ \E h \in Hooks, m \in Methods, p \in Phases : InstallHook(h, m, p)
  \/ \E h \in Hooks, m \in Methods : InstallHookFails(h, m)
  \/ \E h \in Hooks : HearInstalled(h) \/ MissInstalled(h)
  \/ \E c \in Callers, h \in Hooks, k \in Kinds : Ask(c, h, k)
  \/ \E c \in Callers : AnswerRead(c) \/ AnswerRemove(c) \/ Hear(c) \/ Miss(c)

Spec == Init /\ [][Next]_vars

\* Time passes and a game that presents frames runs clear_expired; clients read
\* the events of a hook again and again, the pipe thread answers them, and the
\* event loop resumes a coroutine whose answer is there.
LiveSpec ==
  /\ Spec
  /\ WF_vars(TimePasses) /\ WF_vars(Expire)
  /\ \A c \in Callers :
       /\ \A h \in Hooks : WF_vars(Ask(c, h, "read"))
       /\ WF_vars(AnswerRead(c) \/ AnswerRemove(c)) /\ WF_vars(Hear(c))

-----------------------------------------------------------------------------
(* Properties.                                                             *)

Captured(h) == {captured[h][i] : i \in 1..Len(captured[h])}

\* Type invariant: the host shows no event and no object the game did not
\* capture, and only knows hooks that were installed.
TypeOK ==
  /\ installing \subseteq Hooks
  /\ call \in [Callers -> [phase : {"idle", "sent", "answered"}, kind : Kinds,
        hook : Hooks \cup {NoHook}, count : 0..MaxEvents,
        state : {"none", "installed", "removed", "not_found"}]]
  /\ session \in [Hooks -> {"none", "installed", "removed", "not_found"}]
  /\ \A h \in Hooks : session[h] # "none" => method[h] # NoMethod
  /\ \A h \in Hooks : stored[h] \subseteq Captured(h)
  /\ lease \in [Objects -> 0..Lease] /\ node \in [Objects -> 0..Lease]
  /\ \A o \in Objects : node[o] > 0 => \E h \in Hooks : \E e \in stored[h] : e.content = o
  /\ faults \in 0..MaxFaults

\* Once the session says "removed" the events of a hook that is still in the
\* archive are in the database, whoever removed it, in whatever order the
\* answers to its readers were recorded.
EventsSurviveRemoval ==
  \A h \in Hooks : (session[h] = "removed" /\ h \in Archived) => Captured(h) \subseteq stored[h]

\* The host shows what the game captured, no less for a removed hook and no more
\* for any.
HostShowsCaptures == ManagerTypeOK /\ TypeOK /\ EventsSurviveRemoval

\* Late answers may set the session of a hook back to "installed"; a client
\* that keeps reading its events learns that it has ended.
SessionCatchesUp ==
  \A h \in Hooks : <>[](h \notin Installed) => <>[](session[h] # "installed")

=============================================================================
