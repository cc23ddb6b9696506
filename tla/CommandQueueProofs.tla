-------------------------- MODULE CommandQueueProofs --------------------------
(***************************************************************************)
(* Proofs about CommandQueue for any set of requests and any queue limit.  *)
(*                                                                         *)
(* None of the invariants of CommandQueue is inductive alone.  What makes  *)
(* them so is that tickets order everything the game thread holds: along   *)
(* running, batch, queue they grow, and all are above the ticket run last. *)
(* Hence nothing is held twice and nothing already run is held.            *)
(***************************************************************************)
EXTENDS CommandQueue, TLAPS

\* Tickets grow along running, batch, queue and are above the last one run.
HeldInOrder ==
  /\ \A i, j \in 1..Len(queue) : i < j => ticket[queue[i]] < ticket[queue[j]]
  /\ \A i, j \in 1..Len(batch) : i < j => ticket[batch[i]] < ticket[batch[j]]
  /\ \A i \in 1..Len(batch), j \in 1..Len(queue) :
        ticket[batch[i]] < ticket[queue[j]]
  /\ \A i \in 1..Len(queue) : lastTicket < ticket[queue[i]]
  /\ \A i \in 1..Len(batch) : lastTicket < ticket[batch[i]]
  /\ gameStage = "picked" =>
        /\ lastTicket < ticket[running]
        /\ \A i \in 1..Len(queue) : ticket[running] < ticket[queue[i]]
        /\ \A i \in 1..Len(batch) : ticket[running] < ticket[batch[i]]
  /\ gameStage = "dispatched" => ticket[running] = lastTicket

\* The request being served is the newest; until it is pushed, nothing of it
\* is with the game thread.
ServingIsNewest ==
  /\ \A r \in Requests : ticket[r] <= tickets
  /\ serving # NoRequest =>
        /\ ticket[serving] = tickets /\ 0 < tickets
        /\ \A r \in Requests : r # serving => ticket[r] < tickets
  /\ \A r \in Requests : ticket[r] # 0 /\ r # serving => reply[r] # "none"
  /\ \A r \in Requests : ticket[r] = 0 \/ r = serving => reply[r] = "none"
  /\ pipeStage = "handling" =>
        /\ \A i \in 1..Len(queue) : ticket[queue[i]] < tickets
        /\ \A i \in 1..Len(batch) : ticket[batch[i]] < tickets
        /\ running # serving
        /\ dispatched[serving] = 0
        /\ lastTicket < tickets
  /\ pipeStage \in {"waiting", "expired"} => serving \notin InlineRequests
  /\ lastTicket <= tickets

\* What has been run, published, answered and cancelled fits together.
CountsAgree ==
  /\ \A r \in Requests : dispatched[r] \in {0, 1}
  /\ \A r \in Requests : dispatched[r] = 1 => 0 < ticket[r] /\ ticket[r] <= lastTicket
  /\ \A r \in Requests : future[r] # "none" => dispatched[r] = 1
  /\ gameStage = "dispatched" => dispatched[running] = 1 /\ future[running] = "none"
  /\ \A r \in Requests : cancelled[r] <=> reply[r] = "timeout"
  /\ \A i \in 1..Len(queue) : queue[i] = serving \/ cancelled[queue[i]]
  /\ \A i \in 1..Len(batch) : batch[i] = serving \/ cancelled[batch[i]]
  /\ running # NoRequest => running = serving \/ cancelled[running]
  /\ \A i \in 1..Len(queue) : queue[i] \notin InlineRequests
  /\ \A i \in 1..Len(batch) : batch[i] \notin InlineRequests
  /\ running \notin InlineRequests
  /\ \A r \in Requests :
        /\ reply[r] \in Outcomes => r \in InlineRequests \/ dispatched[r] = 1
        /\ reply[r] \in {"refused", "full"} => dispatched[r] = 0

\* What a stalled game can accumulate is bounded.
QueueBounded == Len(queue) <= QueueLimit

IInv ==
  /\ TypeOK
  /\ HeldInOrder
  /\ ServingIsNewest
  /\ CountsAgree
  /\ QueueBounded

-----------------------------------------------------------------------------
(* Facts about the two sequence operations the threads use.                *)

\* push_back leaves what is queued in place and adds one element at the end.
LEMMA PushedElements ==
  ASSUME NEW S, NEW s \in Seq(S), NEW e \in S
  PROVE  /\ Append(s, e) \in Seq(S)
         /\ Len(Append(s, e)) = Len(s) + 1
         /\ \A i \in 1..Len(s) : Append(s, e)[i] = s[i]
         /\ Append(s, e)[Len(s) + 1] = e
  OBVIOUS

\* Advancing in the batch takes the head; the rest keeps its order.
LEMMA RestElements ==
  ASSUME NEW S, NEW s \in Seq(S), s # <<>>
  PROVE  /\ Head(s) = s[1] /\ Head(s) \in S
         /\ Len(s) \in Nat /\ Len(s) >= 1
         /\ Tail(s) \in Seq(S)
         /\ Len(Tail(s)) = Len(s) - 1
         /\ \A i \in 1..Len(Tail(s)) : Tail(s)[i] = s[i + 1] /\ i + 1 \in 1..Len(s)
  OBVIOUS

\* Every element of a sequence of requests is a request.
LEMMA ElementsAreRequests ==
  ASSUME NEW s \in Seq(Requests), NEW i \in 1..Len(s)
  PROVE  s[i] \in Requests
  OBVIOUS

\* The initial state satisfies the inductive invariant.
LEMMA InitIInv == Init => IInv
  BY ConstantsOK
  DEF Init, IInv, TypeOK, HeldInOrder, ServingIsNewest, CountsAgree,
      QueueBounded, PipeStages, GameStages, Replies, Outcomes

\* Accept keeps the inductive invariant.
LEMMA AcceptStep ==
  ASSUME IInv, NEW r \in Requests, Accept(r)
  PROVE  IInv'
<1> USE ConstantsOK, ElementsAreRequests DEF IInv, Accept, pipeVars, gameVars
<1>1. TypeOK'
  BY SMT DEF TypeOK, PipeStages, GameStages, Replies, Outcomes
<1>2. HeldInOrder'
  <2>1. \A i \in 1..Len(queue) : queue[i] \in Requests /\ queue[i] # r
    BY SMT DEF TypeOK, HeldInOrder
  <2>2. \A i \in 1..Len(batch) : batch[i] \in Requests /\ batch[i] # r
    BY SMT DEF TypeOK, HeldInOrder
  <2>3. gameStage = "picked" => running \in Requests /\ running # r
    BY SMT DEF TypeOK, HeldInOrder
  <2>4. gameStage = "dispatched" => running \in Requests /\ running # r
    BY SMT DEF TypeOK, CountsAgree
  <2>5. \A q \in Requests : q # r => ticket'[q] = ticket[q]
    BY SMT DEF TypeOK
  <2>6. QED BY <2>1, <2>2, <2>3, <2>4, <2>5, SMT DEF HeldInOrder
<1>3. ServingIsNewest'
  <2>1. reply[r] = "none" /\ dispatched[r] = 0 /\ running # r
    BY SMT DEF TypeOK, ServingIsNewest, CountsAgree, HeldInOrder
  <2>2. /\ ticket'[r] = tickets + 1
        /\ \A q \in Requests : q # r => ticket'[q] = ticket[q] /\ ticket[q] <= tickets
    BY SMT DEF TypeOK, ServingIsNewest
  <2>3. \A q \in Requests : q # r /\ ticket[q] # 0 => reply[q] # "none"
    BY SMT DEF TypeOK, ServingIsNewest
  <2>4. /\ \A i \in 1..Len(queue) : queue[i] \in Requests /\ queue[i] # r
        /\ \A i \in 1..Len(batch) : batch[i] \in Requests /\ batch[i] # r
    BY SMT DEF TypeOK, HeldInOrder
  <2>5. \A q \in Requests : ticket'[q] <= tickets' /\ (q # r => ticket'[q] < tickets')
    BY <2>2, SMT DEF TypeOK
  <2>6. /\ \A i \in 1..Len(queue) : ticket'[queue[i]] < tickets'
        /\ \A i \in 1..Len(batch) : ticket'[batch[i]] < tickets'
    BY <2>4, <2>5, SMT
  <2>7. \A q \in Requests :
          /\ ticket'[q] # 0 /\ q # r => reply[q] # "none"
          /\ ticket'[q] = 0 \/ q = r => reply[q] = "none"
    BY <2>1, <2>2, <2>3, SMT DEF ServingIsNewest
  <2>8. lastTicket < tickets'
    BY SMT DEF TypeOK, ServingIsNewest
  <2>9. QED BY <2>1, <2>2, <2>5, <2>6, <2>7, <2>8, SMT DEF TypeOK, ServingIsNewest
<1>4. CountsAgree'
  <2>1. serving = NoRequest /\ dispatched[r] = 0
    BY SMT DEF TypeOK, CountsAgree
  \* Nothing is being served, so all that is held has been cancelled.
  <2>2. /\ \A i \in 1..Len(queue) : cancelled[queue[i]]
        /\ \A i \in 1..Len(batch) : cancelled[batch[i]]
        /\ running # NoRequest => cancelled[running]
    BY <2>1, SMT DEF TypeOK, CountsAgree
  <2>3. \A q \in Requests :
          dispatched[q] = 1 => 0 < ticket'[q] /\ ticket'[q] <= lastTicket
    BY <2>1, SMT DEF TypeOK, CountsAgree
  <2>4. QED BY <2>2, <2>3, SMT DEF CountsAgree
<1>5. QueueBounded'
  BY SMT DEF TypeOK, QueueBounded
<1>6. QED BY <1>1, <1>2, <1>3, <1>4, <1>5

\* RejectEnvelope keeps the inductive invariant.
LEMMA RejectEnvelopeStep ==
  ASSUME IInv, RejectEnvelope
  PROVE  IInv'
<1> USE ConstantsOK, ElementsAreRequests DEF IInv, RejectEnvelope, Respond, pipeVars, gameVars
<1>1. TypeOK'
  BY SMT DEF TypeOK, PipeStages, GameStages, Replies, Outcomes
<1>2. HeldInOrder'
  BY DEF HeldInOrder
<1>3. ServingIsNewest'
  BY SMT DEF TypeOK, ServingIsNewest, CountsAgree, HeldInOrder, Outcomes
<1>4. CountsAgree'
  BY SMT DEF TypeOK, CountsAgree, ServingIsNewest, HeldInOrder, Outcomes, Replies
<1>5. QueueBounded'
  BY SMT DEF TypeOK, QueueBounded
<1>6. QED BY <1>1, <1>2, <1>3, <1>4, <1>5

\* AnswerInline keeps the inductive invariant.
LEMMA AnswerInlineStep ==
  ASSUME IInv, AnswerInline
  PROVE  IInv'
<1> USE ConstantsOK, ElementsAreRequests DEF IInv, AnswerInline, Respond, pipeVars, gameVars
<1>1. TypeOK'
  BY SMT DEF TypeOK, PipeStages, GameStages, Replies, Outcomes
<1>2. HeldInOrder'
  BY DEF HeldInOrder
<1>3. ServingIsNewest'
  BY SMT DEF TypeOK, ServingIsNewest, CountsAgree, HeldInOrder, Outcomes
<1>4. CountsAgree'
  BY SMT DEF TypeOK, CountsAgree, ServingIsNewest, HeldInOrder, Outcomes, Replies
<1>5. QueueBounded'
  BY SMT DEF TypeOK, QueueBounded
<1>6. QED BY <1>1, <1>2, <1>3, <1>4, <1>5

\* RejectFull keeps the inductive invariant.
LEMMA RejectFullStep ==
  ASSUME IInv, RejectFull
  PROVE  IInv'
<1> USE ConstantsOK, ElementsAreRequests DEF IInv, RejectFull, Respond, pipeVars, gameVars
<1>1. TypeOK'
  BY SMT DEF TypeOK, PipeStages, GameStages, Replies, Outcomes
<1>2. HeldInOrder'
  BY DEF HeldInOrder
<1>3. ServingIsNewest'
  BY SMT DEF TypeOK, ServingIsNewest, CountsAgree, HeldInOrder, Outcomes
<1>4. CountsAgree'
  BY SMT DEF TypeOK, CountsAgree, ServingIsNewest, HeldInOrder, Outcomes, Replies
<1>5. QueueBounded'
  BY SMT DEF TypeOK, QueueBounded
<1>6. QED BY <1>1, <1>2, <1>3, <1>4, <1>5

\* Enqueue keeps the inductive invariant.
LEMMA EnqueueStep ==
  ASSUME IInv, Enqueue
  PROVE  IInv'
<1> USE ConstantsOK, ElementsAreRequests DEF IInv, Enqueue, pipeVars, gameVars
<1>1. TypeOK'
  BY PushedElements, SMT DEF TypeOK, PipeStages, GameStages, Replies, Outcomes
<1>2. HeldInOrder'
  <2>1. serving \in Requests /\ ticket[serving] = tickets
    BY SMT DEF TypeOK, ServingIsNewest
  <2>2. /\ Len(queue') = Len(queue) + 1
        /\ \A i \in 1..Len(queue) : queue'[i] = queue[i]
        /\ queue'[Len(queue) + 1] = serving
    BY <2>1, PushedElements, SMT DEF TypeOK
  <2>3. \A i \in 1..Len(queue') :
          i \in 1..Len(queue) \/ (i = Len(queue) + 1 /\ queue'[i] = serving)
    BY <2>2, SMT DEF TypeOK
  <2>4. \A i, j \in 1..Len(queue') : i < j => ticket[queue'[i]] < ticket[queue'[j]]
    BY <2>1, <2>2, <2>3, SMT DEF TypeOK, HeldInOrder, ServingIsNewest
  <2>5. \A i \in 1..Len(queue') :
          /\ lastTicket < ticket[queue'[i]]
          /\ gameStage = "picked" => ticket[running] < ticket[queue'[i]]
          /\ \A j \in 1..Len(batch) : ticket[batch[j]] < ticket[queue'[i]]
    <3>1. gameStage = "picked" => ticket[running] < tickets
      BY <2>1, SMT DEF TypeOK, HeldInOrder, ServingIsNewest, CountsAgree
    <3>2. QED BY <2>1, <2>2, <2>3, <3>1, SMT DEF TypeOK, HeldInOrder, ServingIsNewest
  <2>6. QED BY <2>4, <2>5, SMT DEF HeldInOrder
<1>3. ServingIsNewest'
  BY PushedElements, SMT DEF TypeOK, ServingIsNewest, CountsAgree, HeldInOrder, Outcomes
<1>4. CountsAgree'
  BY PushedElements, SMT DEF TypeOK, CountsAgree, ServingIsNewest, HeldInOrder, Outcomes, Replies
<1>5. QueueBounded'
  BY PushedElements, SMT DEF TypeOK, QueueBounded
<1>6. QED BY <1>1, <1>2, <1>3, <1>4, <1>5

\* Collect keeps the inductive invariant.
LEMMA CollectStep ==
  ASSUME IInv, Collect
  PROVE  IInv'
<1> USE ConstantsOK, ElementsAreRequests DEF IInv, Collect, Respond, pipeVars, gameVars
<1>1. TypeOK'
  BY SMT DEF TypeOK, PipeStages, GameStages, Replies, Outcomes
<1>2. HeldInOrder'
  BY DEF HeldInOrder
<1>3. ServingIsNewest'
  BY SMT DEF TypeOK, ServingIsNewest, CountsAgree, HeldInOrder, Outcomes
<1>4. CountsAgree'
  <2>1. /\ serving \in Requests /\ serving # NoRequest
        /\ future[serving] \in Outcomes /\ dispatched[serving] = 1
    BY SMT DEF TypeOK, CountsAgree
  <2>2. /\ reply'[serving] = future[serving]
        /\ \A r \in Requests : r # serving => reply'[r] = reply[r]
    BY <2>1, SMT DEF TypeOK
  \* The command served has run, so the game thread no longer holds it.
  <2>3. /\ \A i \in 1..Len(queue) : queue[i] # serving
        /\ \A i \in 1..Len(batch) : batch[i] # serving
        /\ gameStage = "picked" => running # serving
    BY <2>1, SMT DEF TypeOK, CountsAgree, HeldInOrder
  <2>4. \A r \in Requests :
          /\ cancelled[r] <=> reply'[r] = "timeout"
          /\ reply'[r] \in Outcomes => r \in InlineRequests \/ dispatched[r] = 1
          /\ reply'[r] \in {"refused", "full"} => dispatched[r] = 0
    BY <2>1, <2>2, SMT DEF CountsAgree, ServingIsNewest, Outcomes
  \* Its result is published, so it is not between Dispatch and Publish.
  <2>5. running # NoRequest => cancelled[running]
    BY <2>1, <2>3, SMT DEF TypeOK, CountsAgree
  <2>6. QED BY <2>3, <2>4, <2>5, SMT DEF CountsAgree
<1>5. QueueBounded'
  BY SMT DEF TypeOK, QueueBounded
<1>6. QED BY <1>1, <1>2, <1>3, <1>4, <1>5

\* Expire keeps the inductive invariant.
LEMMA ExpireStep ==
  ASSUME IInv, Expire
  PROVE  IInv'
<1> USE ConstantsOK, ElementsAreRequests DEF IInv, Expire, pipeVars, gameVars
<1>1. TypeOK'
  BY SMT DEF TypeOK, PipeStages, GameStages, Replies, Outcomes
<1>2. HeldInOrder'
  BY DEF HeldInOrder
<1>3. ServingIsNewest'
  BY SMT DEF TypeOK, ServingIsNewest, CountsAgree, HeldInOrder, Outcomes
<1>4. CountsAgree'
  BY SMT DEF TypeOK, CountsAgree, ServingIsNewest, HeldInOrder, Outcomes, Replies
<1>5. QueueBounded'
  BY SMT DEF TypeOK, QueueBounded
<1>6. QED BY <1>1, <1>2, <1>3, <1>4, <1>5

\* Withdraw keeps the inductive invariant.
LEMMA WithdrawStep ==
  ASSUME IInv, Withdraw
  PROVE  IInv'
<1> USE ConstantsOK, ElementsAreRequests DEF IInv, Withdraw, Respond, pipeVars, gameVars
<1>1. TypeOK'
  BY SMT DEF TypeOK, PipeStages, GameStages, Replies, Outcomes
<1>2. HeldInOrder'
  BY DEF HeldInOrder
<1>3. ServingIsNewest'
  BY SMT DEF TypeOK, ServingIsNewest, CountsAgree, HeldInOrder, Outcomes
<1>4. CountsAgree'
  BY SMT DEF TypeOK, CountsAgree, ServingIsNewest, HeldInOrder, Outcomes, Replies
<1>5. QueueBounded'
  BY SMT DEF TypeOK, QueueBounded
<1>6. QED BY <1>1, <1>2, <1>3, <1>4, <1>5

\* BeginPump keeps the inductive invariant.
LEMMA BeginPumpStep ==
  ASSUME IInv, BeginPump
  PROVE  IInv'
<1> USE ConstantsOK, ElementsAreRequests DEF IInv, BeginPump, pipeVars, gameVars
<1>1. TypeOK'
  BY SMT DEF TypeOK, PipeStages, GameStages, Replies, Outcomes
<1>2. HeldInOrder'
  BY SMT DEF TypeOK, HeldInOrder
<1>3. ServingIsNewest'
  BY SMT DEF TypeOK, ServingIsNewest, CountsAgree, HeldInOrder, Outcomes
<1>4. CountsAgree'
  BY SMT DEF TypeOK, CountsAgree, ServingIsNewest, HeldInOrder, Outcomes, Replies
<1>5. QueueBounded'
  BY SMT DEF TypeOK, QueueBounded
<1>6. QED BY <1>1, <1>2, <1>3, <1>4, <1>5

\* SkipCancelled keeps the inductive invariant.
LEMMA SkipCancelledStep ==
  ASSUME IInv, SkipCancelled
  PROVE  IInv'
<1> USE ConstantsOK, ElementsAreRequests DEF IInv, SkipCancelled, pipeVars, gameVars
<1>1. TypeOK'
  BY RestElements, SMT DEF TypeOK, PipeStages, GameStages, Replies, Outcomes
<1>2. HeldInOrder'
  BY RestElements, SMT DEF TypeOK, HeldInOrder, ServingIsNewest
<1>3. ServingIsNewest'
  BY RestElements, SMT DEF TypeOK, ServingIsNewest, CountsAgree, HeldInOrder, Outcomes
<1>4. CountsAgree'
  BY RestElements, SMT DEF TypeOK, CountsAgree, ServingIsNewest, HeldInOrder, Outcomes, Replies
<1>5. QueueBounded'
  BY RestElements, SMT DEF TypeOK, QueueBounded
<1>6. QED BY <1>1, <1>2, <1>3, <1>4, <1>5

\* PickUp keeps the inductive invariant.
LEMMA PickUpStep ==
  ASSUME IInv, PickUp
  PROVE  IInv'
<1> USE ConstantsOK, ElementsAreRequests DEF IInv, PickUp, pipeVars, gameVars
<1>1. TypeOK'
  BY RestElements, SMT DEF TypeOK, PipeStages, GameStages, Replies, Outcomes
<1>2. HeldInOrder'
  <2>1. /\ running' = batch[1] /\ running' \in Requests
        /\ Len(batch') = Len(batch) - 1 /\ Len(batch) \in Nat /\ 1 <= Len(batch)
        /\ \A i \in 1..Len(batch') : batch'[i] = batch[i + 1] /\ i + 1 \in 1..Len(batch)
    <3>1. batch \in Seq(Requests) /\ batch # <<>> /\ batch' = Tail(batch) /\ running' = Head(batch)
      BY DEF TypeOK
    <3>2. QED BY <3>1, RestElements
  <2>2. \A i, j \in 1..Len(batch') : i < j => ticket[batch'[i]] < ticket[batch'[j]]
    BY <2>1, SMT DEF TypeOK, HeldInOrder
  <2>3. \A i \in 1..Len(batch') :
          ticket[running'] < ticket[batch'[i]] /\ lastTicket < ticket[batch'[i]]
    BY <2>1, SMT DEF TypeOK, HeldInOrder
  <2>4. \A j \in 1..Len(queue) : ticket[running'] < ticket[queue[j]]
    BY <2>1, SMT DEF TypeOK, HeldInOrder
  <2>5. \A i \in 1..Len(batch'), j \in 1..Len(queue) : ticket[batch'[i]] < ticket[queue[j]]
    BY <2>1, SMT DEF TypeOK, HeldInOrder
  <2>6. lastTicket < ticket[running']
    BY <2>1, SMT DEF HeldInOrder
  <2>7. QED BY <2>2, <2>3, <2>4, <2>5, <2>6, SMT DEF HeldInOrder
<1>3. ServingIsNewest'
  BY RestElements, SMT DEF TypeOK, ServingIsNewest, CountsAgree, HeldInOrder, Outcomes
<1>4. CountsAgree'
  <2>1. /\ running' = batch[1] /\ Len(batch) \in Nat /\ 1 <= Len(batch)
        /\ batch[1] \in Requests
        /\ \A i \in 1..Len(batch') : batch'[i] = batch[i + 1] /\ i + 1 \in 1..Len(batch)
    <3>1. batch \in Seq(Requests) /\ batch # <<>> /\ batch' = Tail(batch) /\ running' = Head(batch)
      BY DEF TypeOK
    <3>2. QED BY <3>1, RestElements
  <2>2. /\ \A i \in 1..Len(batch') : batch'[i] = serving \/ cancelled[batch'[i]]
        /\ \A i \in 1..Len(batch') : batch'[i] \notin InlineRequests
        /\ running' = serving \/ cancelled[running']
        /\ running' \notin InlineRequests
    BY <2>1, SMT DEF CountsAgree
  <2>3. QED BY <2>2, SMT DEF CountsAgree
<1>5. QueueBounded'
  BY RestElements, SMT DEF TypeOK, QueueBounded
<1>6. QED BY <1>1, <1>2, <1>3, <1>4, <1>5

\* Dispatch keeps the inductive invariant.
LEMMA DispatchStep ==
  ASSUME IInv, Dispatch
  PROVE  IInv'
<1> USE ConstantsOK, ElementsAreRequests DEF IInv, Dispatch, pipeVars, gameVars
<1>1. TypeOK'
  BY SMT DEF TypeOK, PipeStages, GameStages, Replies, Outcomes
<1>2. HeldInOrder'
  BY SMT DEF TypeOK, HeldInOrder, ServingIsNewest
<1>3. ServingIsNewest'
  <2>1. running \in Requests
    BY SMT DEF TypeOK
  <2>2. pipeStage = "handling" => dispatched'[serving] = 0 /\ ticket[running] < tickets
    BY <2>1, SMT DEF TypeOK, ServingIsNewest, CountsAgree
  <2>3. QED BY <2>1, <2>2, SMT DEF TypeOK, ServingIsNewest
<1>4. CountsAgree'
  <2>1. running \in Requests /\ dispatched[running] = 0 /\ 0 < ticket[running]
    BY SMT DEF TypeOK, CountsAgree, HeldInOrder
  <2>2. dispatched'[running] = 1
    BY <2>1, SMT DEF TypeOK
  <2>3. \A r \in Requests : r # running => dispatched'[r] = dispatched[r]
    BY SMT DEF TypeOK
  <2>4. \A r \in Requests :
          /\ dispatched'[r] \in {0, 1}
          /\ dispatched'[r] = 1 => 0 < ticket[r] /\ ticket[r] <= lastTicket'
    BY <2>1, <2>2, <2>3, SMT DEF TypeOK, CountsAgree, HeldInOrder
  <2>5. \A r \in Requests :
          /\ future[r] # "none" => dispatched'[r] = 1
          /\ reply[r] \in Outcomes => r \in InlineRequests \/ dispatched'[r] = 1
          /\ reply[r] \in {"refused", "full"} => dispatched'[r] = 0
    <3> SUFFICES ASSUME NEW r \in Requests
                 PROVE  /\ future[r] # "none" => dispatched'[r] = 1
                        /\ reply[r] \in Outcomes => r \in InlineRequests \/ dispatched'[r] = 1
                        /\ reply[r] \in {"refused", "full"} => dispatched'[r] = 0
      OBVIOUS
    <3>1. CASE r # running
      BY <3>1, <2>3, SMT DEF CountsAgree
    <3>2. CASE r = running
      \* The running command is being served or was told of a timeout.
      <4>1. reply[r] \in {"none", "timeout"}
        BY <3>2, <2>1, SMT DEF TypeOK, CountsAgree, ServingIsNewest
      <4>2. QED BY <3>2, <4>1, <2>2, SMT DEF Outcomes
    <3>3. QED BY <3>1, <3>2
  <2>6. QED BY <2>1, <2>2, <2>4, <2>5, SMT DEF TypeOK, CountsAgree
<1>5. QueueBounded'
  BY SMT DEF TypeOK, QueueBounded
<1>6. QED BY <1>1, <1>2, <1>3, <1>4, <1>5

\* Publish keeps the inductive invariant.
LEMMA PublishStep ==
  ASSUME IInv, Publish
  PROVE  IInv'
<1> USE ConstantsOK, ElementsAreRequests DEF IInv, Publish, pipeVars, gameVars
<1>1. TypeOK'
  BY SMT DEF TypeOK, PipeStages, GameStages, Replies, Outcomes
<1>2. HeldInOrder'
  BY SMT DEF HeldInOrder
<1>3. ServingIsNewest'
  BY SMT DEF TypeOK, ServingIsNewest
<1>4. CountsAgree'
  BY SMT DEF TypeOK, CountsAgree, ServingIsNewest, HeldInOrder, Outcomes, Replies
<1>5. QueueBounded'
  BY SMT DEF TypeOK, QueueBounded
<1>6. QED BY <1>1, <1>2, <1>3, <1>4, <1>5

\* EndPump keeps the inductive invariant.
LEMMA EndPumpStep ==
  ASSUME IInv, EndPump
  PROVE  IInv'
<1> USE ConstantsOK, ElementsAreRequests DEF IInv, EndPump, pipeVars, gameVars
<1>1. TypeOK'
  BY SMT DEF TypeOK, PipeStages, GameStages, Replies, Outcomes
<1>2. HeldInOrder'
  BY SMT DEF HeldInOrder
<1>3. ServingIsNewest'
  BY SMT DEF TypeOK, ServingIsNewest, CountsAgree, HeldInOrder, Outcomes
<1>4. CountsAgree'
  BY SMT DEF TypeOK, CountsAgree, ServingIsNewest, HeldInOrder, Outcomes, Replies
<1>5. QueueBounded'
  BY SMT DEF TypeOK, QueueBounded
<1>6. QED BY <1>1, <1>2, <1>3, <1>4, <1>5

-----------------------------------------------------------------------------
(* The theorems.                                                           *)

\* One step, or a stutter, keeps the invariant.
LEMMA NextIInv == IInv /\ [Next]_vars => IInv'
<1> SUFFICES ASSUME IInv, [Next]_vars PROVE IInv'
  OBVIOUS
<1>1. ASSUME NEW r \in Requests, Accept(r) PROVE IInv'
  BY <1>1, AcceptStep
<1>2. CASE PipeStep
  BY <1>2, RejectEnvelopeStep, AnswerInlineStep, RejectFullStep, EnqueueStep,
     CollectStep, ExpireStep, WithdrawStep DEF PipeStep
<1>3. CASE GameStep
  BY <1>3, BeginPumpStep, SkipCancelledStep, PickUpStep, DispatchStep,
     PublishStep, EndPumpStep DEF GameStep
<1>4. CASE UNCHANGED vars
  BY <1>4 DEF vars, pipeVars, gameVars, IInv, TypeOK, HeldInOrder,
     ServingIsNewest, CountsAgree, QueueBounded
<1>5. QED BY <1>1, <1>2, <1>3, <1>4 DEF Next

\* The inductive invariant holds of every behaviour of the command queue.
THEOREM Invariance == Spec => []IInv
<1>1. QED BY InitIInv, NextIInv, PTL DEF Spec

\* Every variable keeps its type, and the queue its bound of QueueLimit tasks.
THEOREM TypeCorrect == Spec => [](TypeOK /\ QueueBounded)
<1>1. IInv => TypeOK /\ QueueBounded
  BY DEF IInv
<1>2. QED BY <1>1, Invariance, PTL

\* For any number of callers, timeouts and frames: no command is run twice.
THEOREM RunsAtMostOnce == Spec => []AtMostOnce
<1>1. IInv => AtMostOnce
  <2> SUFFICES ASSUME IInv, NEW r \in Requests PROVE dispatched[r] <= 1
    BY DEF AtMostOnce
  <2>1. dispatched[r] \in {0, 1}
    BY DEF IInv, CountsAgree
  <2>2. QED BY <2>1, SMT
<1>2. QED BY <1>1, Invariance, PTL

\* A result is only sent for a command that ran; a refused one never runs.
THEOREM TruthfulAnswers == Spec => []AnswersAreTruthful
<1>1. IInv => AnswersAreTruthful
  <2> SUFFICES ASSUME IInv, NEW r \in Requests
               PROVE  /\ reply[r] \in Outcomes => (r \in InlineRequests \/ dispatched[r] = 1)
                      /\ reply[r] \in {"refused", "full"} => (dispatched[r] = 0 /\ ~Held(r))
    BY DEF AnswersAreTruthful
  <2>1. Held(r) => r = serving \/ cancelled[r]
    BY ConstantsOK, SMT DEF IInv, CountsAgree, Held, IsIn
  <2>2. Held(r) => reply[r] \in {"none", "timeout"}
    BY <2>1 DEF IInv, CountsAgree, ServingIsNewest
  <2>3. QED BY <2>2, SMT DEF IInv, CountsAgree, Outcomes
<1>2. QED BY <1>1, Invariance, PTL

\* Whatever waits for the game thread is cancelled, save the request served.
THEOREM BacklogIsDead == Spec => []OnlyServedIsLive
<1>1. IInv => OnlyServedIsLive
  BY SMT DEF IInv, CountsAgree, OnlyServedIsLive, IsIn
<1>2. QED BY <1>1, Invariance, PTL

\* Only Dispatch changes how often a command ran, and only for the command
\* picked up, whose ticket is above that of every command run before it.
LEMMA OnlyRunningIsDispatched ==
  ASSUME IInv, [Next]_vars
  PROVE  \/ UNCHANGED <<dispatched, lastTicket>>
         \/ Dispatch
  BY DEF Next, PipeStep, GameStep, Accept, RejectEnvelope, AnswerInline,
     RejectFull, Enqueue, Collect, Expire, Withdraw, Respond, BeginPump,
     SkipCancelled, PickUp, Publish, EndPump, vars, pipeVars, gameVars

\* Commands run in the order in which their requests came off the pipe.
THEOREM RunsInOrder == Spec => RunInOrder
<1>1. IInv /\ [Next]_vars =>
        [\A r \in Requests : dispatched'[r] # dispatched[r] => ticket[r] > lastTicket]_vars
  <2> SUFFICES ASSUME IInv, [Next]_vars, NEW r \in Requests,
                      dispatched'[r] # dispatched[r]
               PROVE  ticket[r] > lastTicket
    OBVIOUS
  <2>1. Dispatch /\ r = running
    BY OnlyRunningIsDispatched, SMT DEF Dispatch, IInv, TypeOK
  <2>2. QED BY <2>1, SMT DEF Dispatch, IInv, TypeOK, HeldInOrder
<1>2. QED BY <1>1, Invariance, PTL DEF Spec, RunInOrder

\* A command whose caller was told of a timeout before the game picked it up
\* does not run: its cancelled flag was set before the answer was sent.
THEOREM WithdrawnCommandsNeverRun == Spec => WithdrawnNeverRuns
<1>1. IInv /\ [Next]_vars =>
        [\A r \in Requests : (reply[r] = "timeout" /\ running # r)
             => (dispatched'[r] = dispatched[r] /\ running' # r)]_vars
  <2> SUFFICES ASSUME IInv, [Next]_vars, NEW r \in Requests,
                      reply[r] = "timeout", running # r
               PROVE  dispatched'[r] = dispatched[r] /\ running' # r
    OBVIOUS
  <2>1. cancelled[r] /\ r # NoRequest
    BY ConstantsOK DEF IInv, CountsAgree
  <2>2. dispatched'[r] = dispatched[r]
    BY OnlyRunningIsDispatched, SMT DEF Dispatch, IInv, TypeOK
  <2>3. running' # r
    BY <2>1, SMT DEF Next, PipeStep, GameStep, Accept, RejectEnvelope,
       AnswerInline, RejectFull, Enqueue, Collect, Expire, Withdraw, Respond,
       BeginPump, SkipCancelled, PickUp, Dispatch, Publish, EndPump,
       vars, pipeVars, gameVars
  <2>4. QED BY <2>2, <2>3
<1>2. QED BY <1>1, Invariance, PTL DEF Spec, WithdrawnNeverRuns

-----------------------------------------------------------------------------
(* The bridge implements the contract of CommandContract.                  *)

\* A request coming off the pipe is the contract's Offer.
LEMMA AcceptRefines ==
  ASSUME IInv, NEW r \in Requests, Accept(r)
  PROVE  Contract!CNext
<1>1. Gone' = Gone
  BY DEF Accept, pipeVars, gameVars, Gone
<1>2. Contract!Offer(r)
  BY <1>1, SMT DEF Accept, gameVars, Contract!Offer
<1>3. QED BY <1>2 DEF Contract!CNext

\* A response carrying a result is the contract's Report.
LEMMA ResultRefines ==
  ASSUME IInv, serving # NoRequest, NEW a \in Outcomes, Respond(a),
         UNCHANGED <<queue, cancelled, future, gameVars>>,
         serving \in InlineRequests \/ dispatched[serving] = 1
  PROVE  Contract!CNext
<1>0. PICK r \in Requests : r = serving
  BY DEF IInv, TypeOK
<1>1. r = serving /\ reply[r] = "none" /\ ticket[r] # 0
  BY <1>0, SMT DEF IInv, TypeOK, ServingIsNewest
<1>2. reply' = [reply EXCEPT ![r] = a]
  BY <1>0 DEF Respond
<1>3. Gone' = Gone
  BY <1>1, <1>2, SMT DEF IInv, TypeOK, gameVars, Gone, Outcomes
<1>4. \E b \in Contract!Results : Contract!Tell(r, b)
  BY <1>2 DEF Contract!Results, Contract!Tell, Outcomes
<1>5. Contract!Report(r)
  BY <1>1, <1>3, <1>4 DEF Respond, gameVars, Contract!Report, Contract!Pending
<1>6. QED BY <1>5 DEF Contract!CNext

\* A refusal, before anything was pushed, is the contract's Refuse.
LEMMA RefusalRefines ==
  ASSUME IInv, pipeStage = "handling", NEW a \in {"refused", "full"}, Respond(a),
         UNCHANGED <<queue, cancelled, future, gameVars>>
  PROVE  Contract!CNext
<1>0. PICK r \in Requests : r = serving
  BY DEF IInv, TypeOK
<1>1. /\ r = serving /\ reply[r] = "none" /\ ticket[r] # 0
      /\ dispatched[r] = 0 /\ running # r
  BY <1>0, SMT DEF IInv, TypeOK, ServingIsNewest
<1>2. reply' = [reply EXCEPT ![r] = a]
  BY <1>0 DEF Respond
<1>3. Gone' = Gone \cup {r}
  BY <1>1, <1>2, SMT DEF IInv, TypeOK, gameVars, Gone
<1>4. \E b \in Contract!Refusals : Contract!Tell(r, b)
  BY <1>2 DEF Contract!Refusals, Contract!Tell
<1>5. Contract!Refuse(r)
  BY <1>1, <1>3, <1>4 DEF Respond, gameVars, Contract!Refuse, Contract!Pending
<1>6. QED BY <1>5 DEF Contract!CNext

\* A timeout is the contract's GiveUp; it withdraws the command unless the
\* game thread holds it past its check of the cancelled flag.
LEMMA WithdrawRefines ==
  ASSUME IInv, Withdraw
  PROVE  Contract!CNext
<1>0. PICK r \in Requests : r = serving
  BY DEF IInv, TypeOK, Withdraw
<1>1. r = serving /\ reply[r] = "none" /\ ticket[r] # 0
  BY <1>0, SMT DEF IInv, TypeOK, ServingIsNewest, Withdraw
<1>2. reply' = [reply EXCEPT ![r] = "timeout"] /\ UNCHANGED gameVars
  BY <1>0 DEF Withdraw, Respond
<1>3. CASE dispatched[r] = 0 /\ running # r
  <2>1. Gone' = Gone \cup {r}
    BY <1>1, <1>2, <1>3, SMT DEF IInv, TypeOK, gameVars, Gone
  <2>2. Contract!GiveUp(r)
    BY <1>1, <1>2, <1>3, <2>1, SMT
    DEF Withdraw, Respond, gameVars, Contract!GiveUp, Contract!Pending,
        Contract!Tell
  <2>3. QED BY <2>2 DEF Contract!CNext
<1>4. CASE ~(dispatched[r] = 0 /\ running # r)
  <2>1. Gone' = Gone
    BY <1>1, <1>2, <1>4, SMT DEF IInv, TypeOK, gameVars, Gone
  <2>2. Contract!GiveUp(r)
    BY <1>1, <1>2, <2>1, SMT
    DEF Withdraw, Respond, gameVars, Contract!GiveUp, Contract!Pending,
        Contract!Tell
  <2>3. QED BY <2>2 DEF Contract!CNext
<1>5. QED BY <1>3, <1>4

\* The game thread running a command is the contract's TakeEffect.
LEMMA DispatchRefines ==
  ASSUME IInv, Dispatch
  PROVE  Contract!CNext
<1>1. PICK r \in Requests : r = running
  BY DEF IInv, TypeOK, Dispatch
<1>2. r \notin InlineRequests /\ lastTicket < ticket[r] /\ dispatched[r] = 0
  BY <1>1, SMT DEF IInv, TypeOK, CountsAgree, HeldInOrder, Dispatch
<1>3. reply[r] \in {"none", "timeout"}
  <2>1. r = serving \/ cancelled[r]
    BY <1>1, ConstantsOK DEF IInv, CountsAgree
  <2>2. QED BY <2>1 DEF IInv, CountsAgree, ServingIsNewest
<1>4. dispatched' = [dispatched EXCEPT ![r] = 1]
  BY <1>1, <1>2, SMT DEF Dispatch, IInv, TypeOK
<1>5. Gone' = Gone
  BY <1>1, <1>4, SMT DEF Dispatch, pipeVars, IInv, TypeOK, Gone
<1>6. r \notin Gone
  BY <1>1 DEF Gone
<1>7. Contract!TakeEffect(r)
  BY <1>1, <1>2, <1>3, <1>4, <1>5, <1>6, SMT
  DEF Dispatch, pipeVars, Contract!TakeEffect
<1>8. QED BY <1>7 DEF Contract!CNext

\* All other steps are invisible to the caller.
LEMMA InternalStepsStutter ==
  ASSUME IInv,
         Enqueue \/ Expire \/ BeginPump \/ SkipCancelled \/ PickUp \/ Publish \/ EndPump
  PROVE  UNCHANGED Contract!cvars
<1>1. UNCHANGED <<reply, tickets, ticket, dispatched, lastTicket>>
  BY DEF Enqueue, Expire, BeginPump, SkipCancelled, PickUp, Publish, EndPump,
     pipeVars, gameVars
<1>2. Gone' = Gone
  <2>1. CASE PickUp
    \* The command picked up has not been answered.
    <3>1. running' \in Requests /\ running = NoRequest /\ ~cancelled[running']
      BY <2>1, RestElements, SMT DEF PickUp, IInv, TypeOK
    <3>2. running' = serving
      BY <2>1, RestElements, SMT DEF PickUp, IInv, TypeOK, CountsAgree
    <3>3. reply[running'] = "none"
      BY <3>1, <3>2 DEF IInv, ServingIsNewest
    <3>4. QED BY <1>1, <3>1, <3>3, ConstantsOK DEF Gone
  <2>2. CASE Publish
    <3>1. dispatched[running] = 1 /\ running' = NoRequest
      BY <2>2 DEF Publish, IInv, CountsAgree
    <3>2. QED BY <1>1, <3>1, ConstantsOK, SMT DEF Gone
  <2>3. CASE ~PickUp /\ ~Publish
    <3>1. running' = running
      BY <2>3 DEF Enqueue, Expire, BeginPump, SkipCancelled, EndPump, gameVars
    <3>2. QED BY <1>1, <3>1 DEF Gone
  <2>4. QED BY <2>1, <2>2, <2>3
<1>3. QED BY <1>1, <1>2 DEF Contract!cvars

\* Every behaviour of the queue, with any number of timeouts and any game
\* frame rate, is one the contract allows.
THEOREM BridgeKeepsContract == Spec => ImplementsContract
<1>1. Init => Contract!CInit
  <2>1. Init => Gone = {}
    BY DEF Init, Gone
  <2>2. QED BY <2>1 DEF Init, Contract!CInit
<1>2. IInv /\ [Next]_vars => [Contract!CNext]_(Contract!cvars)
  <2> SUFFICES ASSUME IInv, [Next]_vars
               PROVE  Contract!CNext \/ UNCHANGED Contract!cvars
    OBVIOUS
  <2>1. ASSUME NEW r \in Requests, Accept(r) PROVE Contract!CNext
    BY <2>1, AcceptRefines
  <2>2. CASE RejectEnvelope \/ RejectFull
    BY <2>2, RefusalRefines DEF RejectEnvelope, RejectFull
  <2>3. CASE AnswerInline
    <3>1. serving # NoRequest
      BY <2>3 DEF AnswerInline, IInv, TypeOK
    <3>2. QED BY <2>3, <3>1, ResultRefines DEF AnswerInline
  <2>4. CASE Collect
    <3>1. serving # NoRequest /\ future[serving] \in Outcomes /\ dispatched[serving] = 1
      BY <2>4 DEF Collect, IInv, TypeOK, CountsAgree
    <3>2. QED BY <2>4, <3>1, ResultRefines DEF Collect
  <2>5. CASE Withdraw
    BY <2>5, WithdrawRefines
  <2>6. CASE Dispatch
    BY <2>6, DispatchRefines
  <2>7. CASE Enqueue \/ Expire \/ BeginPump \/ SkipCancelled \/ PickUp \/ Publish \/ EndPump
    BY <2>7, InternalStepsStutter
  <2>8. CASE UNCHANGED vars
    <3>1. Gone' = Gone
      BY <2>8 DEF vars, pipeVars, gameVars, Gone
    <3>2. QED BY <2>8, <3>1 DEF vars, pipeVars, gameVars, Contract!cvars
  <2>9. QED BY <2>1, <2>2, <2>3, <2>4, <2>5, <2>6, <2>7, <2>8
            DEF Next, PipeStep, GameStep
<1>3. QED BY <1>1, <1>2, Invariance, PTL DEF Spec, ImplementsContract, Contract!CSpec
=============================================================================
