---------------------------- MODULE MutationGate ----------------------------
(***************************************************************************)
(* What stands between a tool call that changes the game (invoke_method,   *)
(* set_field) and the game: a live plan validation, an approval, and the   *)
(* runtime epoch the host believes in (reframework_mcp/server.py,          *)
(* services.py, policy.py, planner/validator.py, bridge/client.py).        *)
(*                                                                         *)
(* Calls, validations and runtime_status pings are coroutines; each sends  *)
(* at most one request to the game and goes on when its answer comes, or   *)
(* without it.  A request whose caller gave up is still carried out.  The  *)
(* host learns of a restarted game only from the epoch in an answer, so    *)
(* what it compares an approval with is the epoch it heard last.           *)
(*                                                                         *)
(* A validation stands for its row and for the receiver it leased; a       *)
(* payload says which validation it cites, its receiver and its value.     *)
(***************************************************************************)
EXTENDS Naturals

CONSTANTS Calls,        \* tool calls invoke_method and set_field
          Validations,  \* live validations of access plans
          Pings,        \* callers of runtime_status
          NoCall, NoReceiver,
          Operation,    \* target of the validated plan
          PlannedValue, \* the arguments it was validated with
          Payloads,     \* what callers pass
          MaxEpoch,     \* bound on the starts of the game
          MaxFaults     \* bound on lost connections and timeouts

Operations == {"call_method", "call_static", "read_field"}
Commands   == {"invoke_method", "set_field"}
Tasks      == Calls \cup Validations \cup Pings

ASSUME ConstantsOK ==
  /\ NoCall \notin Calls /\ NoReceiver \notin Validations
  /\ Calls \cap Validations = {} /\ Pings \cap (Calls \cup Validations) = {}
  /\ Operation \in [Validations -> Operations]
  /\ \A p \in Payloads :
       /\ p.command \in Commands /\ p.validation \in Validations
       /\ p.receiver \in Validations \cup {NoReceiver}
  /\ MaxEpoch \in Nat /\ MaxFaults \in Nat

VARIABLES
  game,       \* epoch of the running game, 0 when none runs
  starts,     \* epochs used so far
  leased,     \* validations whose receiver the running game still holds
  known,      \* bridge.runtime_epoch, 0 for None
  connected,  \* bridge.connected
  request,    \* where the request of a task is
  answer,     \* what the game said to it
  waiting,    \* tasks whose coroutine still awaits the answer
  validated,  \* epoch in the row of a validation
  valid,      \* state of that row
  stage,      \* where a call stands
  payload,    \* what it asks for
  token,      \* the approval proposed to it: epoch and state
  approval,   \* the call whose approval let it pass
  executed,   \* epoch of the game in which it ran, 0 if it did not
  audit,      \* its row in audit_events
  faults

gameVars == <<game, starts, leased>>
hostVars == <<known, connected>>
wireVars == <<request, answer, waiting>>
planVars == <<validated, valid>>
callVars == <<stage, payload, token, approval, executed, audit>>
vars == <<gameVars, hostVars, wireVars, planVars, callVars, faults>>

Epochs      == 0..MaxEpoch
NoAnswer    == [epoch |-> 0, ok |-> FALSE]
NoToken     == [epoch |-> 0, state |-> "none"]
NoAudit     == [outcome |-> "none", epoch |-> 0]
NoPayload   == [command |-> "none"]

Init ==
  /\ game = 0 /\ starts = 0 /\ leased = {}
  /\ known = 0 /\ connected = FALSE
  /\ request = [t \in Tasks |-> "none"]
  /\ answer = [t \in Tasks |-> NoAnswer]
  /\ waiting = {}
  /\ validated = [v \in Validations |-> 0]
  /\ valid = [v \in Validations |-> "none"]
  /\ stage = [c \in Calls |-> "idle"]
  /\ payload = [c \in Calls |-> NoPayload]
  /\ token = [c \in Calls |-> NoToken]
  /\ approval = [c \in Calls |-> NoCall]
  /\ executed = [c \in Calls |-> 0]
  /\ audit = [c \in Calls |-> NoAudit]
  /\ faults = 0

Fault == faults < MaxFaults /\ faults' = faults + 1

-----------------------------------------------------------------------------
(* The gate.                                                               *)

\* require_live_plan_validation, up to the target.
LivePlan(v) == valid[v] = "live" /\ known # 0 /\ validated[v] = known

\* _require_plan_target_binding: the member, the receiver the validation
\* resolved, and for invoke_method the arguments it was validated with.
BoundTo(p, v) ==
  /\ \/ p.command = "invoke_method" /\ Operation[v] \in {"call_method", "call_static"}
     \/ p.command = "set_field" /\ Operation[v] = "read_field"
  /\ p.receiver = IF Operation[v] = "call_static" THEN NoReceiver ELSE v
  /\ p.command = "invoke_method" => p.value = PlannedValue[v]


PassesPlan(p) == LivePlan(p.validation) /\ BoundTo(p, p.validation)

\* Seeded fault: the hash of the arguments is not compared.
VerifiesAnyArguments(a, p) ==
  /\ token[a].state = "proposed"
  /\ payload[a].command = p.command
  /\ token[a].epoch = known

\* Seeded fault: the runtime epoch is not compared.
VerifiesAnyEpoch(a, p) ==
  /\ token[a].state = "proposed"
  /\ payload[a] = p

\* ApprovalManager.verify: the token proposed to a, presented for payload p.
Verifies(a, p) ==
  /\ token[a].state = "proposed"
  /\ payload[a] = p
  /\ token[a].epoch = known

-----------------------------------------------------------------------------
(* The tool call _mutation inside with_errors.                             *)

Send(t) ==
  /\ request' = [request EXCEPT ![t] = "sent"]
  /\ waiting' = waiting \cup {t}
  /\ UNCHANGED answer

EndWithError(c, epoch) ==
  /\ stage' = [stage EXCEPT ![c] = "failed"]
  /\ audit' = [audit EXCEPT ![c] = [outcome |-> "error", epoch |-> epoch]]

Take(c, p) == stage[c] = "idle" /\ payload' = [payload EXCEPT ![c] = p]

\* The plan validation, or the approval_ref that came along, does not hold.
Refuse(c, p) ==
  /\ Take(c, p)
  /\ \/ ~PassesPlan(p)
     \/ \E a \in Calls : stage[a] = "approval_required" /\ ~Verifies(a, p)
  /\ EndWithError(c, known)
  /\ UNCHANGED <<gameVars, hostVars, wireVars, planVars, token, approval, executed, faults>>

\* No approval_ref: one is proposed, and the user is asked.
Propose(c, p) ==
  /\ Take(c, p) /\ PassesPlan(p)
  /\ token' = [token EXCEPT ![c] = [epoch |-> known, state |-> "proposed"]]
  /\ stage' = [stage EXCEPT ![c] = "eliciting"]
  /\ UNCHANGED <<gameVars, hostVars, wireVars, planVars, approval, executed, audit, faults>>

\* An approval_ref that an earlier call handed out.
Present(c, p) ==
  /\ Take(c, p) /\ PassesPlan(p)
  /\ \E a \in Calls :
       /\ stage[a] = "approval_required" /\ Verifies(a, p)
       /\ approval' = [approval EXCEPT ![c] = a]
  /\ stage' = [stage EXCEPT ![c] = "calling"]
  /\ Send(c)
  /\ UNCHANGED <<gameVars, hostVars, planVars, token, executed, audit, faults>>

\* The user accepts: the approval is verified against the epoch known by now.
Accept(c) ==
  /\ stage[c] = "eliciting"
  /\ \/ /\ Verifies(c, payload[c])
        /\ approval' = [approval EXCEPT ![c] = c]
        /\ stage' = [stage EXCEPT ![c] = "calling"]
        /\ Send(c)
        /\ UNCHANGED audit
     \/ /\ ~Verifies(c, payload[c])
        /\ EndWithError(c, known)
        /\ UNCHANGED <<wireVars, approval>>
  /\ UNCHANGED <<gameVars, hostVars, planVars, payload, token, executed, faults>>

Decline(c) ==
  /\ stage[c] = "eliciting"
  /\ EndWithError(c, known)
  /\ UNCHANGED <<gameVars, hostVars, wireVars, planVars,
                 payload, token, approval, executed, faults>>

\* The client cannot ask its user: it is handed the approval_ref.
HandOut(c) ==
  /\ stage[c] = "eliciting"
  /\ stage' = [stage EXCEPT ![c] = "approval_required"]
  /\ UNCHANGED <<gameVars, hostVars, wireVars, planVars,
                 payload, token, approval, executed, audit, faults>>

\* 120 seconds have passed.
TokenExpires(c) ==
  /\ token[c].state = "proposed" /\ stage[c] \in {"eliciting", "approval_required"}
  /\ token' = [token EXCEPT ![c].state = "expired"]
  /\ UNCHANGED <<gameVars, hostVars, wireVars, planVars,
                 stage, payload, approval, executed, audit, faults>>

-----------------------------------------------------------------------------
(* validate_access_plan and runtime_status.                                *)

\* Without a connection the plan is only valid symbolically.
Validate(v) ==
  /\ valid[v] = "none" /\ v \notin waiting
  /\ \/ connected /\ Send(v) /\ valid' = [valid EXCEPT ![v] = "asking"]
     \/ ~connected /\ valid' = [valid EXCEPT ![v] = "symbolic"] /\ UNCHANGED wireVars
  /\ UNCHANGED <<gameVars, hostVars, validated, callVars, faults>>

\* Five minutes have passed.
ValidationExpires(v) ==
  /\ valid[v] = "live"
  /\ valid' = [valid EXCEPT ![v] = "expired"]
  /\ UNCHANGED <<gameVars, hostVars, wireVars, validated, callVars, faults>>

Ping(t) ==
  /\ t \in Pings /\ request[t] = "none"
  /\ Send(t)
  /\ UNCHANGED <<gameVars, hostVars, planVars, callVars, faults>>

-----------------------------------------------------------------------------
(* The game.                                                               *)

GameStarts ==
  /\ game = 0 /\ starts < MaxEpoch
  /\ starts' = starts + 1 /\ game' = starts'
  /\ UNCHANGED <<leased, hostVars, wireVars, planVars, callVars, faults>>

GameEnds ==
  /\ game # 0
  /\ game' = 0 /\ leased' = {}
  /\ UNCHANGED <<starts, hostVars, wireVars, planVars, callVars, faults>>

LeaseEnds(v) ==
  /\ v \in leased
  /\ leased' = leased \ {v}
  /\ UNCHANGED <<game, starts, hostVars, wireVars, planVars, callVars, faults>>

\* Nobody reads the answer to a request that was given up.
Reply(t, ok) ==
  /\ request[t] = "sent" /\ game # 0
  /\ \/ /\ t \in waiting
        /\ request' = [request EXCEPT ![t] = "answered"]
        /\ answer' = [answer EXCEPT ![t] = [epoch |-> game, ok |-> ok]]
     \/ /\ t \notin waiting
        /\ request' = [request EXCEPT ![t] = "none"]
        /\ UNCHANGED answer
  /\ UNCHANGED <<waiting, game, starts, hostVars, planVars, faults>>

\* A plan that resolves leases its receiver; resolution may also fail, and a
\* lease taken before it failed is of use to nobody.
ServeValidation(v) ==
  /\ \/ Reply(v, FALSE) /\ UNCHANGED leased
     \/ /\ Reply(v, TRUE)
        /\ leased' = IF Operation[v] = "call_static" THEN leased ELSE leased \cup {v}
  /\ UNCHANGED callVars

ServePing(t) == t \in Pings /\ Reply(t, TRUE) /\ UNCHANGED <<leased, callVars>>

\* Seeded fault: the receiver's address is used without its lease.
RunnableAlways(p) == p = p

\* Bridge::handle does not look at the request's runtime_epoch: what ties an
\* instance call to its runtime is the lease of its receiver.
Runnable(p) == p.receiver = NoReceiver \/ p.receiver \in leased

\* The command runs, and its response is the result, or the timeout error if
\* the pipe thread's deadline passed meanwhile; or it is refused.
ServeCall(c) ==
  /\ stage[c] # "idle" /\ request[c] = "sent"
  /\ \/ /\ Runnable(payload[c])
        /\ \E ok \in BOOLEAN : Reply(c, ok)
        /\ executed' = [executed EXCEPT ![c] = game]
     \/ Reply(c, FALSE) /\ UNCHANGED executed
  /\ UNCHANGED <<leased, stage, payload, token, approval, audit>>

\* The pipe is not there, or breaks before the answer is read.
Break(t) ==
  /\ \/ request[t] = "sent" /\ (game = 0 \/ faults < MaxFaults)
     \/ request[t] = "answered" /\ answer[t].epoch # game
  /\ request' = [request EXCEPT ![t] = IF t \in waiting THEN "lost" ELSE "none"]
  /\ faults' = IF request[t] = "sent" /\ game # 0 THEN faults + 1 ELSE faults
  /\ answer' = [answer EXCEPT ![t] = NoAnswer]
  /\ UNCHANGED <<waiting, gameVars, hostVars, planVars, callVars>>

-----------------------------------------------------------------------------
(* BridgeClient.call comes back; what the caller does next happens before  *)
(* any other coroutine runs.                                               *)

\* What the caller does with the answer to it.
Conclude(t, epoch) ==
  \/ /\ t \in Pings /\ UNCHANGED <<planVars, callVars>>
  \/ /\ t \in Validations /\ answer[t].ok
     /\ validated' = [validated EXCEPT ![t] = answer[t].epoch]
     /\ valid' = [valid EXCEPT ![t] = "live"]
     /\ UNCHANGED callVars
  \/ /\ t \in Validations /\ ~answer[t].ok
     /\ valid' = [valid EXCEPT ![t] = "failed"]
     /\ UNCHANGED <<validated, callVars>>
  \/ /\ t \in Calls /\ answer[t].ok
     /\ stage' = [stage EXCEPT ![t] = "done"]
     /\ audit' = [audit EXCEPT ![t] = [outcome |-> "executed", epoch |-> epoch]]
     /\ UNCHANGED <<planVars, payload, token, approval, executed>>
  \/ /\ t \in Calls /\ ~answer[t].ok
     /\ EndWithError(t, epoch)
     /\ UNCHANGED <<planVars, payload, token, approval, executed>>

Forget(t, r) ==
  /\ waiting' = waiting \ {t}
  /\ request' = [request EXCEPT ![t] = r]
  /\ answer' = [answer EXCEPT ![t] = NoAnswer]

Received(t) ==
  /\ t \in waiting /\ request[t] = "answered"
  /\ Forget(t, "none")
  /\ connected' = TRUE
  /\ UNCHANGED <<gameVars, faults>>

\* Seeded fault: the first epoch heard is kept.
HearFirst(t) ==
  /\ Received(t)
  /\ known' = IF known = 0 THEN answer[t].epoch ELSE known
  /\ Conclude(t, known')

\* Seeded fault: the audit row is given the epoch the request was sent under.
HearAuditing(t) ==
  /\ Received(t)
  /\ known' = answer[t].epoch
  /\ Conclude(t, known)

Hear(t) ==
  /\ Received(t)
  /\ known' = answer[t].epoch
  /\ Conclude(t, known')

\* Nobody reads what comes later: the request itself goes on.
NoLongerWaits(t) ==
  /\ t \in waiting
  /\ \/ request[t] = "lost" /\ Forget(t, "none") /\ UNCHANGED faults
     \/ request[t] = "answered" /\ Forget(t, "none") /\ Fault
     \/ request[t] = "sent" /\ Forget(t, "sent") /\ Fault
  /\ connected' = FALSE
  /\ UNCHANGED <<gameVars, known>>

\* Seeded fault: only answers leave an audit row.
MissSilently(t) ==
  /\ NoLongerWaits(t)
  /\ \/ t \in Pings /\ UNCHANGED <<planVars, callVars>>
     \/ /\ t \in Validations
        /\ valid' = [valid EXCEPT ![t] = "failed"] /\ UNCHANGED <<validated, callVars>>
     \/ /\ t \in Calls /\ stage' = [stage EXCEPT ![t] = "failed"]
        /\ UNCHANGED <<planVars, payload, token, approval, executed, audit>>


\* The connection failed, or request_timeout passed.
Miss(t) ==
  /\ NoLongerWaits(t)
  /\ \/ t \in Pings /\ UNCHANGED <<planVars, callVars>>
     \/ /\ t \in Validations
        /\ valid' = [valid EXCEPT ![t] = "failed"] /\ UNCHANGED <<validated, callVars>>
     \/ /\ t \in Calls /\ EndWithError(t, known)
        /\ UNCHANGED <<planVars, payload, token, approval, executed>>

-----------------------------------------------------------------------------
CallStep(c) ==
  \/ \E p \in Payloads : Refuse(c, p) \/ Propose(c, p) \/ Present(c, p)
  \/ Accept(c) \/ Decline(c) \/ HandOut(c) \/ TokenExpires(c)
  \/ ServeCall(c)

ValidationStep(v) ==
  Validate(v) \/ ValidationExpires(v) \/ ServeValidation(v) \/ LeaseEnds(v)

Next ==
  \/ GameStarts \/ GameEnds
  \/ \E c \in Calls : CallStep(c)
  \/ \E v \in Validations : ValidationStep(v)
  \/ \E t \in Pings : Ping(t) \/ ServePing(t)
  \/ \E t \in Tasks : Break(t) \/ Hear(t) \/ Miss(t)

Spec == Init /\ [][Next]_vars

\* runtime_status is asked again and again; the pipe thread of a running game
\* answers; a coroutine whose answer is there is resumed by the event loop,
\* and a lost connection is noticed.
LiveSpec ==
  /\ Spec
  /\ \A t \in Pings : WF_vars(Ping(t)) /\ WF_vars(ServePing(t))
  /\ \A t \in Tasks : WF_vars(Hear(t)) /\ WF_vars(request[t] = "lost" /\ Miss(t))

-----------------------------------------------------------------------------
(* Properties.                                                             *)

Stages == {"idle", "eliciting", "calling", "done", "failed", "approval_required"}

\* Type invariant: a runtime that has ended holds no lease, and a call awaits
\* an answer exactly as long as its coroutine is inside bridge.call.
TypeOK ==
  /\ game \in Epochs /\ starts \in Epochs /\ (game # 0 => game = starts)
  /\ leased \subseteq Validations /\ (game = 0 => leased = {})
  /\ known \in Epochs /\ connected \in BOOLEAN
  /\ request \in [Tasks -> {"none", "sent", "answered", "lost"}]
  /\ answer \in [Tasks -> [epoch : Epochs, ok : BOOLEAN]]
  /\ waiting \subseteq Tasks
  /\ \A t \in waiting : request[t] # "none"
  /\ \A c \in Calls : stage[c] = "calling" <=> c \in waiting
  /\ validated \in [Validations -> Epochs]
  /\ valid \in [Validations ->
       {"none", "asking", "symbolic", "live", "failed", "expired"}]
  /\ stage \in [Calls -> Stages]
  /\ payload \in [Calls -> Payloads \cup {NoPayload}]
  /\ token \in [Calls -> [epoch : Epochs, state : {"none", "proposed", "expired"}]]
  /\ approval \in [Calls -> Calls \cup {NoCall}]
  /\ executed \in [Calls -> Epochs]
  /\ audit \in [Calls -> [outcome : {"none", "executed", "error"}, epoch : Epochs]]
  /\ faults \in 0..MaxFaults

Ran(c) == executed[c] # 0
TheValidation(c) == payload[c].validation

\* What runs in the game is what was proposed for approval: same action, same
\* arguments, whoever presents the approval_ref and after whatever wait.
RunsWhatWasApproved ==
  \A c \in Calls : Ran(c) => approval[c] # NoCall /\ payload[approval[c]] = payload[c]

\* What runs in the game is bound to the plan that was validated live: its
\* target, its receiver and, for a method, its arguments.
RunsWhatWasValidated == \A c \in Calls : Ran(c) => BoundTo(payload[c], TheValidation(c))

\* The gate holds: what has run was validated and approved, with just these
\* arguments.
MutationsAreAuthorised == TypeOK /\ RunsWhatWasApproved /\ RunsWhatWasValidated

\* An instance is only touched in the runtime in which its plan was validated,
\* although the bridge does not compare epochs, the user may take minutes to
\* approve and an abandoned request is carried out later.
ReceiverOfItsRuntime ==
  \A c \in Calls :
    (Ran(c) /\ payload[c].receiver # NoReceiver) => executed[c] = validated[TheValidation(c)]

\* Whatever happened between the proposal and the user's answer, a mutation is
\* sent only while the epoch its plan was validated in, the epoch its approval
\* names and the epoch the host knows are one.
SentUnderOneEpoch ==
  [][\A c \in Calls : (stage[c] # "calling" /\ stage'[c] = "calling") =>
       /\ validated[TheValidation(c)'] = known
       /\ token[approval'[c]].epoch = known]_vars

\* An audit row with outcome "executed" names the runtime in which the
\* mutation ran, even if the game was restarted while the call was under way.
AuditNamesTheRuntime ==
  \A c \in Calls : audit[c].outcome = "executed" => (Ran(c) /\ executed[c] = audit[c].epoch)

\* A mutation that may have run leaves a row in the audit log by the time its
\* call returns, also when its answer was lost or came too late.
RunsAreRecorded ==
  \A c \in Calls : (Ran(c) /\ stage[c] # "calling") => audit[c].outcome # "none"

\* With a game that stays up and a client that keeps asking runtime_status the
\* host comes to know the running epoch and keeps to it.
KnownCatchesUp == <>[](game # 0) => <>[](known = game)

=============================================================================
