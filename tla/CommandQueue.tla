---------------------------- MODULE CommandQueue ----------------------------
(***************************************************************************)
(* The command path of the game-side bridge (bridge/src/bridge.cpp).       *)
(*                                                                         *)
(* One pipe thread takes requests off the named pipe, one at a time        *)
(* (NamedPipeServer::serve_client calls Bridge::handle and waits for it).  *)
(* Status commands are answered on that thread; every other command is     *)
(* pushed on m_queue and waited for at most kCommandTimeout.  The game     *)
(* thread swaps the whole queue out in on_present and runs it.  The two    *)
(* threads share m_queue (under a mutex), the atomic flag `cancelled' and  *)
(* the promise of each PendingCommand.                                     *)
(*                                                                         *)
(* Time is not modelled: the deadline may expire whenever the future is    *)
(* not ready.  The direct call made when the submitter is the game thread  *)
(* itself is left out: `dispatch' is only reached from the pipe thread.    *)
(***************************************************************************)
EXTENDS Naturals, Sequences

CONSTANTS Requests,        \* requests, one pipe connection each
          InlineRequests,  \* those whose command runs on the pipe thread
          QueueLimit,      \* 64 in submit_game_thread
          NoRequest

ASSUME ConstantsOK ==
  /\ InlineRequests \subseteq Requests
  /\ QueueLimit \in Nat
  /\ NoRequest \notin Requests

VARIABLES
  serving,     \* request the pipe thread is handling
  pipeStage,   \* where the pipe thread stands
  reply,       \* response envelope written for a request, "none" before
  queue,       \* m_queue
  cancelled,   \* PendingCommand::cancelled
  future,      \* the shared state of PendingCommand::result
  gameStage,   \* where the game thread stands in pump_game_thread
  batch,       \* its local `pending', what is left of it
  running,     \* the task whose cancelled flag it has read as false
  \* history
  tickets,     \* number of requests taken off the pipe
  ticket,      \* the number a request got, 0 before
  dispatched,  \* how often dispatch_game_thread ran for a request
  lastTicket   \* the ticket of the request dispatched last

pipeVars == <<serving, pipeStage, reply, tickets, ticket>>
gameVars == <<gameStage, batch, running, dispatched, lastTicket>>
vars == <<pipeVars, queue, cancelled, future, gameVars>>

PipeStages == {"idle", "handling", "waiting", "expired"}
GameStages == {"idle", "draining", "picked", "dispatched"}
Outcomes   == {"ok", "error"}
Replies    == {"none", "refused", "full", "timeout"} \cup Outcomes

Init ==
  /\ serving = NoRequest
  /\ pipeStage = "idle"
  /\ reply = [r \in Requests |-> "none"]
  /\ queue = <<>>
  /\ cancelled = [r \in Requests |-> FALSE]
  /\ future = [r \in Requests |-> "none"]
  /\ gameStage = "idle"
  /\ batch = <<>>
  /\ running = NoRequest
  /\ tickets = 0
  /\ ticket = [r \in Requests |-> 0]
  /\ dispatched = [r \in Requests |-> 0]
  /\ lastTicket = 0

-----------------------------------------------------------------------------
(* The pipe thread.                                                        *)

\* serve_client has read a frame and calls the handler.
Accept(r) ==
  /\ pipeStage = "idle" /\ ticket[r] = 0
  /\ serving' = r
  /\ pipeStage' = "handling"
  /\ tickets' = tickets + 1
  /\ ticket' = [ticket EXCEPT ![r] = tickets + 1]
  /\ UNCHANGED <<reply, queue, cancelled, future, gameVars>>

\* Seeded fault: the pipe thread does not let go of the request.
RespondWithoutRelease(a) ==
  /\ reply' = [reply EXCEPT ![serving] = a]
  /\ serving' = serving
  /\ pipeStage' = "idle"
  /\ UNCHANGED <<tickets, ticket>>

Respond(a) ==
  /\ reply' = [reply EXCEPT ![serving] = a]
  /\ serving' = NoRequest
  /\ pipeStage' = "idle"
  /\ UNCHANGED <<tickets, ticket>>

\* Not an object, another protocol major, or not a command envelope.
RejectEnvelope ==
  /\ pipeStage = "handling"
  /\ Respond("refused")
  /\ UNCHANGED <<queue, cancelled, future, gameVars>>

\* runtime_status, get_export_status, get_hook_events, get_probe_status.
AnswerInline ==
  /\ pipeStage = "handling" /\ serving \in InlineRequests
  /\ \E a \in Outcomes : Respond(a)
  /\ UNCHANGED <<queue, cancelled, future, gameVars>>

\* Seeded fault: the limit is checked after push_back.
RejectFullAfterPush ==
  /\ pipeStage = "handling" /\ serving \notin InlineRequests
  /\ Len(queue) >= QueueLimit
  /\ queue' = Append(queue, serving)
  /\ Respond("full")
  /\ UNCHANGED <<cancelled, future, gameVars>>

RejectFull ==
  /\ pipeStage = "handling" /\ serving \notin InlineRequests
  /\ Len(queue) >= QueueLimit
  /\ Respond("full")
  /\ UNCHANGED <<queue, cancelled, future, gameVars>>

Enqueue ==
  /\ pipeStage = "handling" /\ serving \notin InlineRequests
  /\ Len(queue) < QueueLimit
  /\ queue' = Append(queue, serving)
  /\ pipeStage' = "waiting"
  /\ UNCHANGED <<serving, reply, tickets, ticket, cancelled, future, gameVars>>

\* Seeded fault: the status wait_for returns is ignored.
CollectUnready ==
  /\ pipeStage = "waiting"
  /\ \E a \in Outcomes : Respond(a)
  /\ UNCHANGED <<queue, cancelled, future, gameVars>>

\* wait_for saw the future ready: future.get() returns or rethrows.
Collect ==
  /\ pipeStage = "waiting" /\ future[serving] # "none"
  /\ Respond(future[serving])
  /\ UNCHANGED <<queue, cancelled, future, gameVars>>

\* Seeded fault: future.wait() without a deadline.
ExpireNever == FALSE /\ UNCHANGED vars

\* wait_for ran out of time: decided here, made visible by Withdraw.
Expire ==
  /\ pipeStage = "waiting" /\ future[serving] = "none"
  /\ pipeStage' = "expired"
  /\ UNCHANGED <<serving, reply, tickets, ticket, queue, cancelled, future, gameVars>>

\* Seeded fault: the task is not marked cancelled.
WithdrawUnmarked ==
  /\ pipeStage = "expired"
  /\ Respond("timeout")
  /\ UNCHANGED <<queue, cancelled, future, gameVars>>

Withdraw ==
  /\ pipeStage = "expired"
  /\ cancelled' = [cancelled EXCEPT ![serving] = TRUE]
  /\ Respond("timeout")
  /\ UNCHANGED <<queue, future, gameVars>>

PipeStep ==
  \/ RejectEnvelope \/ AnswerInline \/ RejectFull \/ Enqueue
  \/ Collect \/ Expire \/ Withdraw

-----------------------------------------------------------------------------
(* The game thread: one on_present callback is BeginPump ... EndPump.      *)

\* Seeded fault: the queue is copied instead of swapped.
BeginPumpCopying ==
  /\ gameStage = "idle"
  /\ batch' = queue
  /\ queue' = queue
  /\ gameStage' = "draining"
  /\ UNCHANGED <<pipeVars, cancelled, future, running, dispatched, lastTicket>>

BeginPump ==
  /\ gameStage = "idle"
  /\ batch' = queue
  /\ queue' = <<>>
  /\ gameStage' = "draining"
  /\ UNCHANGED <<pipeVars, cancelled, future, running, dispatched, lastTicket>>

\* Seeded fault: the loop waits on a cancelled task instead of skipping it.
SkipCancelledNever == FALSE /\ UNCHANGED vars

SkipCancelled ==
  /\ gameStage = "draining" /\ batch # <<>> /\ cancelled[Head(batch)]
  /\ batch' = Tail(batch)
  /\ UNCHANGED <<pipeVars, queue, cancelled, future,
                 gameStage, running, dispatched, lastTicket>>


PickUp ==
  /\ gameStage = "draining" /\ batch # <<>> /\ ~cancelled[Head(batch)]
  /\ running' = Head(batch)
  /\ batch' = Tail(batch)
  /\ gameStage' = "picked"
  /\ UNCHANGED <<pipeVars, queue, cancelled, future, dispatched, lastTicket>>

\* dispatch_game_thread returns or throws; what it did to the game is done.
Dispatch ==
  /\ gameStage = "picked"
  /\ dispatched' = [dispatched EXCEPT ![running] = @ + 1]
  /\ lastTicket' = ticket[running]
  /\ gameStage' = "dispatched"
  /\ UNCHANGED <<pipeVars, queue, cancelled, future, batch, running>>

\* promise::set_value or set_exception.
Publish ==
  /\ gameStage = "dispatched"
  /\ \E a \in Outcomes : future' = [future EXCEPT ![running] = a]
  /\ running' = NoRequest
  /\ gameStage' = "draining"
  /\ UNCHANGED <<pipeVars, queue, cancelled, batch, dispatched, lastTicket>>

\* Then clear_expired and tick, which touch no command.
EndPump ==
  /\ gameStage = "draining" /\ batch = <<>>
  /\ gameStage' = "idle"
  /\ UNCHANGED <<pipeVars, queue, cancelled, future,
                 batch, running, dispatched, lastTicket>>

GameStep ==
  \/ BeginPump \/ SkipCancelled \/ PickUp \/ Dispatch \/ Publish \/ EndPump

Next == (\E r \in Requests : Accept(r)) \/ PipeStep \/ GameStep

Spec == Init /\ [][Next]_vars

\* The pipe thread is an ordinary thread and its wait is bounded by a clock,
\* so its next step comes.
PipeFairness == WF_vars(PipeStep)
\* A game that keeps rendering keeps calling on_present; that it does is only
\* assumed where a property says so.
GameFairness == WF_vars(GameStep)

LiveSpec == Spec /\ PipeFairness

-----------------------------------------------------------------------------
(* Properties.                                                             *)

IsIn(r, s) == \E i \in 1..Len(s) : s[i] = r

\* Commands the game thread still holds or will pick up.
Held(r) == IsIn(r, queue) \/ IsIn(r, batch) \/ running = r

\* Type invariant: the pipe thread serves a request exactly while it is not
\* idle, the game thread has a task in hand exactly between reading its flag
\* and publishing its result, and every variable keeps its type.
TypeOK ==
  /\ serving \in Requests \cup {NoRequest}
  /\ pipeStage \in PipeStages
  /\ pipeStage = "idle" <=> serving = NoRequest
  /\ reply \in [Requests -> Replies]
  /\ queue \in Seq(Requests)
  /\ cancelled \in [Requests -> BOOLEAN]
  /\ future \in [Requests -> Outcomes \cup {"none"}]
  /\ gameStage \in GameStages
  /\ batch \in Seq(Requests)
  /\ running \in Requests \cup {NoRequest}
  /\ running # NoRequest <=> gameStage \in {"picked", "dispatched"}
  /\ tickets \in Nat
  /\ ticket \in [Requests -> Nat]
  /\ dispatched \in [Requests -> Nat]
  /\ lastTicket \in Nat

\* The game runs a command at most once, whatever races with its deadline.
AtMostOnce == \A r \in Requests : dispatched[r] <= 1

\* A response tells the truth: a result is only sent for a command the game
\* ran (or that runs on the pipe thread), and a command that was refused or
\* found the queue full never reaches the game thread.
AnswersAreTruthful ==
  \A r \in Requests :
    /\ reply[r] \in Outcomes => (r \in InlineRequests \/ dispatched[r] = 1)
    /\ reply[r] \in {"refused", "full"} => (dispatched[r] = 0 /\ ~Held(r))

\* What piles up while the game does not present frames is dead weight: of
\* all commands waiting for the game thread only the one the pipe thread is
\* still serving can run.
OnlyServedIsLive ==
  \A r \in Requests :
    (IsIn(r, queue) \/ IsIn(r, batch)) => (r = serving \/ cancelled[r])

\* Commands run in the order in which their requests came off the pipe: one
\* that timed out never overtakes, or is run (again) after, a later one.
RunInOrder ==
  [][\A r \in Requests :
       dispatched'[r] # dispatched[r] => ticket[r] > lastTicket]_vars

\* Once the caller has been told of a timeout, a command the game had not
\* picked up by then does not run: nothing happens behind the caller's back
\* later than the command in flight.
WithdrawnNeverRuns ==
  [][\A r \in Requests :
       (reply[r] = "timeout" /\ running # r)
         => (dispatched'[r] = dispatched[r] /\ running' # r)]_vars


\* The caller of every request gets an answer, even if the game never
\* presents another frame: the wait is bounded.
EveryRequestIsAnswered ==
  \A r \in Requests : (serving = r) ~> (reply[r] # "none")

\* As long as the game presents frames the queue does not stay clogged: no
\* command, cancelled or not, remains with the game thread for ever.
BacklogIsDrained == GameFairness => \A r \in Requests : Held(r) ~> ~Held(r)

\* Answered without having run, and not in the hands of the game thread: a
\* command is beyond recall from the moment the game thread picked it up.
Gone == {r \in Requests : /\ reply[r] \in {"refused", "full", "timeout"}
                          /\ dispatched[r] = 0
                          /\ running # r}

Contract == INSTANCE CommandContract WITH
  ReadRequests <- InlineRequests,
  place <- ticket,
  arrivals <- tickets,
  effects <- dispatched,
  last <- lastTicket,
  withdrawn <- Gone,
  answer <- reply

\* The bridge implements the contract its callers rely on.
ImplementsContract == Contract!CSpec
=============================================================================
