------------------------- MODULE MutationGateProofs -------------------------
(***************************************************************************)
(* Proofs about MutationGate for any calls, validations and callers of     *)
(* runtime_status, any payloads, and any number of restarts and faults.    *)
(***************************************************************************)
EXTENDS MutationGate, TLAPS

\* The inductive invariant behind the properties.

\* A call is proposed, and sent, for a payload that is bound to a plan that was
\* validated; the approval it passed with was proposed for the same payload.
IsGated(c) ==
  /\ stage[c] # "idle" => payload[c] \in Payloads
  /\ stage[c] \in {"idle", "eliciting", "approval_required"} => approval[c] = NoCall
  /\ request[c] # "none" \/ Ran(c) => approval[c] # NoCall
  /\ stage[c] = "eliciting" \/ approval[c] # NoCall =>
       BoundTo(payload[c], TheValidation(c)) /\ validated[TheValidation(c)] # 0
  /\ stage[c] = "eliciting" => validated[TheValidation(c)] = token[c].epoch
  /\ approval[c] # NoCall => payload[approval[c]] = payload[c] /\ stage[approval[c]] # "idle"

\* What ran, what the game answered and what the audit row says go together.
IsAccounted(c) ==
  /\ stage[c] \in {"done", "failed"} => audit[c].outcome # "none"
  /\ audit[c].outcome = "executed" =>
       stage[c] = "done" /\ request[c] = "none" /\ Ran(c) /\ executed[c] = audit[c].epoch
  /\ request[c] = "answered" /\ answer[c].ok => Ran(c) /\ executed[c] = answer[c].epoch
  /\ Ran(c) /\ payload[c].receiver # NoReceiver => executed[c] = validated[TheValidation(c)]

\* A plan is validated once, and its lease, if the game still holds it, was
\* taken in the running game.
IsLeased(v) ==
  /\ validated[v] # 0 => request[v] = "none" /\ valid[v] # "none"
  /\ v \in leased /\ validated[v] # 0 => validated[v] = game
  /\ v \in leased /\ request[v] = "answered" => answer[v].epoch = game

CallsAreGated == \A c \in Calls : IsGated(c)
CallsAreAccounted == \A c \in Calls : IsAccounted(c)
LeasesAreCurrent == \A v \in Validations : IsLeased(v)

IInv == TypeOK /\ CallsAreGated /\ CallsAreAccounted /\ LeasesAreCurrent

-----------------------------------------------------------------------------
(* Types *)

\* The wire: who waits has a request under way.
WireOK ==
  /\ request \in [Tasks -> {"none", "sent", "answered", "lost"}]
  /\ answer \in [Tasks -> [epoch : Epochs, ok : BOOLEAN]]
  /\ waiting \subseteq Tasks /\ \A t \in waiting : request[t] # "none"

\* Calls, validations and pings are different tasks.
LEMMA TasksDiffer ==
  /\ Calls \subseteq Tasks /\ Validations \subseteq Tasks /\ Pings \subseteq Tasks
  /\ \A c \in Calls : c \notin Validations /\ c \notin Pings
  /\ \A v \in Validations : v \notin Pings
PROOF
<1> QED BY ConstantsOK DEF Tasks

\* A request is sent.
LEMMA SendKeepsWire ==
  ASSUME WireOK, NEW t \in Tasks, Send(t)
  PROVE  /\ WireOK' /\ waiting' = waiting \cup {t} /\ request'[t] = "sent" /\ answer' = answer
         /\ \A u \in Tasks \ {t} : request'[u] = request[u]
PROOF
<1> QED BY DEF WireOK, Send

\* The game answers, or nobody is there to read the answer.
LEMMA ReplyKeepsWire ==
  ASSUME WireOK, game \in Epochs, NEW t \in Tasks, NEW ok \in BOOLEAN, Reply(t, ok)
  PROVE  /\ WireOK' /\ waiting' = waiting /\ request[t] = "sent" /\ game # 0
         /\ \/ request'[t] = "answered" /\ answer'[t] = [epoch |-> game, ok |-> ok]
            \/ request'[t] = "none"
         /\ \A u \in Tasks \ {t} : request'[u] = request[u] /\ answer'[u] = answer[u]
PROOF
<1>1. [epoch |-> game, ok |-> ok] \in [epoch : Epochs, ok : BOOLEAN] OBVIOUS
<1>2. CASE t \in waiting BY <1>1, <1>2 DEF WireOK, Reply
<1>3. CASE t \notin waiting BY <1>3 DEF WireOK, Reply
<1> QED BY <1>2, <1>3

\* A caller no longer waits.
LEMMA ForgetKeepsWire ==
  ASSUME WireOK, NEW t \in Tasks, NEW r \in {"none", "sent"}, Forget(t, r)
  PROVE  /\ WireOK' /\ waiting' = waiting \ {t} /\ request'[t] = r /\ answer'[t] = NoAnswer
         /\ \A u \in Tasks \ {t} : request'[u] = request[u] /\ answer'[u] = answer[u]
PROOF
<1>1. NoAnswer \in [epoch : Epochs, ok : BOOLEAN] BY ConstantsOK DEF NoAnswer, Epochs
<1> QED BY <1>1 DEF WireOK, Forget

\* A connection breaks.
LEMMA BreakKeepsWire ==
  ASSUME WireOK, NEW t \in Tasks, Break(t)
  PROVE  /\ WireOK' /\ waiting' = waiting /\ request'[t] \in {"lost", "none"}
         /\ request[t] # "none" /\ answer'[t] = NoAnswer
         /\ \A u \in Tasks \ {t} : request'[u] = request[u] /\ answer'[u] = answer[u]
PROOF
<1>1. NoAnswer \in [epoch : Epochs, ok : BOOLEAN] BY ConstantsOK DEF NoAnswer, Epochs
<1> QED BY <1>1 DEF WireOK, Break

-----------------------------------------------------------------------------
(* What a step leaves alone *)

\* A call that was made keeps its payload, a validation that succeeded its epoch.
KeepsPayloads ==
  \A a \in Calls : stage[a] # "idle" => stage'[a] # "idle" /\ payload'[a] = payload[a]
KeepsValidations ==
  \A v \in Validations : validated[v] # 0 => validated'[v] = validated[v]

\* The validation that a payload cites is one.
LEMMA CitesValidation ==
  ASSUME IInv, NEW c \in Calls, stage[c] # "idle"
  PROVE  payload[c] \in Payloads /\ TheValidation(c) \in Validations
PROOF
<1>1. payload[c] \in Payloads BY DEF IInv, CallsAreGated, IsGated
<1> QED BY <1>1, ConstantsOK DEF TheValidation

\* What has run or is on its way passed with an approval, after the proposal.
LEMMA PassedWithApproval ==
  ASSUME IInv, NEW c \in Calls, approval[c] # NoCall
  PROVE  /\ stage[c] \notin {"idle", "eliciting", "approval_required"}
         /\ approval[c] \in Calls /\ payload[approval[c]] = payload[c]
         /\ stage[approval[c]] # "idle"
         /\ BoundTo(payload[c], TheValidation(c)) /\ validated[TheValidation(c)] # 0
         /\ TheValidation(c) \in Validations
PROOF
<1>1. IsGated(c) /\ approval[c] \in Calls \cup {NoCall} BY DEF IInv, CallsAreGated, TypeOK
<1>2. stage[c] \notin {"idle", "eliciting", "approval_required"} BY <1>1 DEF IsGated
<1> QED BY <1>1, <1>2, CitesValidation DEF IsGated

\* A call that the step is not about stays gated,
LEMMA GatedStays ==
  ASSUME IInv, KeepsPayloads, KeepsValidations, NEW c \in Calls,
         stage'[c] = stage[c], payload'[c] = payload[c], approval'[c] = approval[c],
         token'[c].epoch = token[c].epoch,
         request'[c] # "none" \/ executed'[c] # 0 => request[c] # "none" \/ executed[c] # 0
  PROVE  IsGated(c)'
PROOF
<1>1. IsGated(c) BY DEF IInv, CallsAreGated
<1>2. CASE stage[c] = "idle"
  <2>1. approval[c] = NoCall BY <1>1, <1>2 DEF IsGated
  <2> QED BY <1>1, <1>2, <2>1 DEF IsGated, Ran
<1>3. CASE stage[c] # "idle"
  <2>1. payload'[c] \in Payloads /\ TheValidation(c) \in Validations BY <1>3, CitesValidation
  <2>2. BoundTo(payload[c], TheValidation(c))' <=> BoundTo(payload[c], TheValidation(c))
    BY DEF TheValidation, BoundTo
  <2>3. validated[TheValidation(c)] # 0 =>
          validated[TheValidation(c)]' = validated[TheValidation(c)]
    BY <2>1 DEF KeepsValidations, TheValidation
  <2>4. approval[c] # NoCall =>
          payload'[approval'[c]] = payload'[c] /\ stage'[approval'[c]] # "idle"
    BY PassedWithApproval DEF KeepsPayloads
  <2> HIDE DEF TheValidation, BoundTo
  <2> QED BY <1>1, <2>1, <2>2, <2>3, <2>4 DEF IsGated, Ran
<1> QED BY <1>2, <1>3

\* and its account stays right.
LEMMA AccountStays ==
  ASSUME IInv, KeepsValidations, NEW c \in Calls,
         stage'[c] = stage[c], payload'[c] = payload[c], audit'[c] = audit[c],
         executed'[c] = executed[c],
         request'[c] = request[c] \/ request'[c] \in {"none", "lost"},
         request'[c] = "none" \/ request[c] # "none",
         answer'[c] = answer[c] \/ answer'[c] = NoAnswer
  PROVE  IsAccounted(c)'
PROOF
<1>1. IsAccounted(c) BY DEF IInv, CallsAreAccounted
<1>2. Ran(c)' <=> Ran(c) BY DEF Ran
<1>3. Ran(c) => TheValidation(c) \in Validations /\ validated[TheValidation(c)] # 0
  BY PassedWithApproval DEF IInv, CallsAreGated, IsGated
<1>4. Ran(c) => validated[TheValidation(c)]' = validated[TheValidation(c)]
  BY <1>3 DEF KeepsValidations, TheValidation
<1>5. request'[c] = "answered" /\ answer'[c].ok => answer'[c] = answer[c] /\ request[c] = "answered"
  BY DEF NoAnswer
<1>6. request[c] = "none" => request'[c] = "none" OBVIOUS
<1> QED BY <1>1, <1>2, <1>4, <1>5, <1>6 DEF IsAccounted

\* A validation that the step is not about keeps its lease or loses it.
LEMMA LeaseStays ==
  ASSUME IInv, NEW v \in Validations,
         validated'[v] = validated[v], valid[v] # "none" => valid'[v] # "none",
         request'[v] = request[v] \/ request'[v] \in {"none", "lost"},
         request'[v] = "none" \/ request[v] # "none",
         request'[v] = "answered" => answer'[v] = answer[v],
         v \in leased' => v \in leased /\ game' = game
  PROVE  IsLeased(v)'
PROOF
<1>1. IsLeased(v) BY DEF IInv, LeasesAreCurrent
<1> QED BY <1>1 DEF IsLeased

\* The parts together.
LEMMA PartsMakeIInv ==
  ASSUME TypeOK', \A c \in Calls : IsGated(c)' /\ IsAccounted(c)', \A v \in Validations : IsLeased(v)'
  PROVE  IInv'
PROOF
<1> QED BY DEF IInv, CallsAreGated, CallsAreAccounted, LeasesAreCurrent

-----------------------------------------------------------------------------
(* Steps of the gate *)

\* A refused call has not gone anywhere.
LEMMA RefuseIInv ==
  ASSUME IInv, NEW c \in Calls, NEW p \in Payloads, Refuse(c, p)
  PROVE  IInv'
PROOF
<1>1. TypeOK'
  BY ConstantsOK DEF IInv, TypeOK, Refuse, Take, EndWithError, gameVars, hostVars, wireVars,
                     planVars, Tasks, Epochs, Stages
<1>2. /\ stage[c] = "idle" /\ stage'[c] = "failed" /\ payload'[c] = p
      /\ audit'[c] = [outcome |-> "error", epoch |-> known]
      /\ \A b \in Calls \ {c} : stage'[b] = stage[b] /\ payload'[b] = payload[b] /\ audit'[b] = audit[b]
      /\ UNCHANGED <<game, starts, leased, known, connected, request, answer, waiting,
                     validated, valid, token, approval, executed>>
  BY DEF Refuse, Take, EndWithError, IInv, TypeOK, gameVars, hostVars, wireVars, planVars
<1>3. KeepsPayloads /\ KeepsValidations BY <1>2 DEF KeepsPayloads, KeepsValidations
<1>4. ASSUME NEW b \in Calls, b # c PROVE IsGated(b)' /\ IsAccounted(b)'
  BY <1>2, <1>3, <1>4, GatedStays, AccountStays
<1>5. approval[c] = NoCall /\ request[c] = "none" /\ ~Ran(c)
  BY <1>2 DEF IInv, CallsAreGated, IsGated
<1>6. IsGated(c)' BY <1>2, <1>5 DEF IsGated, Ran
<1>7. IsAccounted(c)' BY <1>2, <1>5 DEF IsAccounted, Ran
<1>8. \A v \in Validations : IsLeased(v)' BY <1>2, LeaseStays
<1> QED BY <1>1, <1>4, <1>6, <1>7, <1>8, PartsMakeIInv

\* An approval is proposed for the epoch the plan was validated in.
LEMMA ProposeIInv ==
  ASSUME IInv, NEW c \in Calls, NEW p \in Payloads, Propose(c, p)
  PROVE  IInv'
PROOF
<1>1. TypeOK'
  BY ConstantsOK DEF IInv, TypeOK, Propose, Take, gameVars, hostVars, wireVars, planVars,
                     Tasks, Epochs, Stages
<1>2. /\ stage[c] = "idle" /\ stage'[c] = "eliciting" /\ payload'[c] = p
      /\ token'[c].epoch = known /\ PassesPlan(p)
      /\ \A b \in Calls \ {c} : stage'[b] = stage[b] /\ payload'[b] = payload[b] /\ token'[b] = token[b]
      /\ UNCHANGED <<game, starts, leased, known, connected, request, answer, waiting,
                     validated, valid, approval, executed, audit>>
  BY DEF Propose, Take, IInv, TypeOK, gameVars, hostVars, wireVars, planVars
<1>3. KeepsPayloads /\ KeepsValidations BY <1>2 DEF KeepsPayloads, KeepsValidations
<1>4. ASSUME NEW b \in Calls, b # c PROVE IsGated(b)' /\ IsAccounted(b)'
  BY <1>2, <1>3, <1>4, GatedStays, AccountStays
<1>5. approval[c] = NoCall /\ request[c] = "none" /\ ~Ran(c)
  BY <1>2 DEF IInv, CallsAreGated, IsGated
<1>6. BoundTo(p, p.validation) /\ validated[p.validation] = known /\ known # 0
  BY <1>2 DEF PassesPlan, LivePlan
<1>7. IsGated(c)'
  <2>1. TheValidation(c)' = p.validation BY <1>2 DEF TheValidation
  <2>2. BoundTo(payload[c], TheValidation(c))' BY <1>2, <1>6, <2>1 DEF BoundTo
  <2> QED BY <1>2, <1>5, <1>6, <2>1, <2>2 DEF IsGated, Ran
<1>8. IsAccounted(c)' BY <1>2, <1>5 DEF IsAccounted, IInv, CallsAreAccounted, Ran
<1>9. \A v \in Validations : IsLeased(v)' BY <1>2, LeaseStays
<1> QED BY <1>1, <1>4, <1>7, <1>8, <1>9, PartsMakeIInv

\* A call is sent: by Present, or once the user accepted.
LEMMA SentIInv ==
  ASSUME IInv, NEW c \in Calls, stage[c] \in {"idle", "eliciting"}, TypeOK',
         NEW a \in Calls, NEW p \in Payloads, Send(c),
         stage' = [stage EXCEPT ![c] = "calling"], approval' = [approval EXCEPT ![c] = a],
         payload' = [payload EXCEPT ![c] = p], a = c \/ stage[a] # "idle",
         a # c => payload[a] = p, stage[c] = "eliciting" => p = payload[c],
         BoundTo(p, p.validation), validated[p.validation] # 0,
         UNCHANGED <<game, leased, validated, valid, token, executed, audit>>
  PROVE  IInv'
PROOF
<1>1. WireOK /\ c \in Tasks BY TasksDiffer DEF IInv, TypeOK, WireOK
<1>2. request'[c] = "sent" /\ answer' = answer /\ \A u \in Tasks \ {c} : request'[u] = request[u]
  BY <1>1, SendKeepsWire
<1>3. /\ stage'[c] = "calling" /\ payload'[c] = p /\ approval'[c] = a /\ a # NoCall
      /\ \A b \in Calls \ {c} : stage'[b] = stage[b] /\ payload'[b] = payload[b]
                                /\ approval'[b] = approval[b] /\ request'[b] = request[b]
  BY <1>2, ConstantsOK, TasksDiffer DEF IInv, TypeOK
<1>4. KeepsPayloads /\ KeepsValidations
  BY <1>3 DEF KeepsPayloads, KeepsValidations
<1>5. ASSUME NEW b \in Calls, b # c PROVE IsGated(b)' /\ IsAccounted(b)'
  BY <1>2, <1>3, <1>4, <1>5, GatedStays, AccountStays
<1>6. approval[c] = NoCall /\ ~Ran(c) BY DEF IInv, CallsAreGated, IsGated
<1>7. audit[c].outcome # "executed" BY <1>6 DEF IInv, CallsAreAccounted, IsAccounted
<1>8. IsGated(c)'
  <2>1. TheValidation(c)' = p.validation BY <1>3 DEF TheValidation
  <2>2. BoundTo(payload[c], TheValidation(c))' BY <1>3, <2>1 DEF BoundTo
  <2>3. payload'[a] = p /\ stage'[a] # "idle" BY <1>3
  <2> QED BY <1>3, <2>1, <2>2, <2>3 DEF IsGated
<1>9. IsAccounted(c)' BY <1>2, <1>3, <1>6, <1>7 DEF IsAccounted, Ran
<1>10. ASSUME NEW v \in Validations PROVE IsLeased(v)'
  <2>1. request'[v] = request[v] BY <1>2, TasksDiffer
  <2> QED BY <1>2, <2>1, LeaseStays
<1> QED BY <1>5, <1>8, <1>9, <1>10, PartsMakeIInv

\* An earlier approval is presented.
LEMMA PresentIInv ==
  ASSUME IInv, NEW c \in Calls, NEW p \in Payloads, Present(c, p)
  PROVE  IInv'
PROOF
<1>1. TypeOK'
  BY ConstantsOK DEF IInv, TypeOK, Present, Take, Send, gameVars, hostVars, planVars, Tasks,
                     Epochs, Stages
<1>2. PICK a \in Calls : /\ stage[a] = "approval_required" /\ Verifies(a, p)
                         /\ approval' = [approval EXCEPT ![c] = a]
  BY DEF Present
<1>3. payload[a] = p BY <1>2 DEF Verifies
<1>4. BoundTo(p, p.validation) /\ validated[p.validation] # 0
  BY DEF Present, PassesPlan, LivePlan
<1>5. /\ stage[c] = "idle" /\ Send(c) /\ stage' = [stage EXCEPT ![c] = "calling"]
      /\ payload' = [payload EXCEPT ![c] = p]
      /\ UNCHANGED <<game, leased, validated, valid, token, executed, audit>>
  BY DEF Present, Take, gameVars, planVars
<1> QED BY <1>1, <1>2, <1>3, <1>4, <1>5, SentIInv

\* A call that was not sent ends with an error.
LEMMA GivenUpIInv ==
  ASSUME IInv, NEW c \in Calls, stage[c] = "eliciting", EndWithError(c, known),
         UNCHANGED <<game, starts, leased, known, connected, request, answer, waiting,
                     validated, valid, payload, token, approval, executed, faults>>
  PROVE  IInv'
PROOF
<1>1. TypeOK' BY ConstantsOK DEF IInv, TypeOK, EndWithError, Tasks, Epochs, Stages
<1>2. /\ stage'[c] = "failed" /\ audit'[c] = [outcome |-> "error", epoch |-> known]
      /\ \A b \in Calls \ {c} : stage'[b] = stage[b] /\ audit'[b] = audit[b]
  BY DEF EndWithError, IInv, TypeOK
<1>3. KeepsPayloads /\ KeepsValidations BY <1>2 DEF KeepsPayloads, KeepsValidations
<1>4. ASSUME NEW b \in Calls, b # c PROVE IsGated(b)' /\ IsAccounted(b)'
  BY <1>2, <1>3, <1>4, GatedStays, AccountStays
<1>5. approval[c] = NoCall /\ request[c] = "none" /\ ~Ran(c) /\ payload[c] \in Payloads
  BY DEF IInv, CallsAreGated, IsGated
<1>6. IsGated(c)' BY <1>2, <1>5 DEF IsGated, Ran
<1>7. IsAccounted(c)' BY <1>2, <1>5 DEF IsAccounted, Ran
<1>8. \A v \in Validations : IsLeased(v)' BY <1>2, LeaseStays
<1> QED BY <1>1, <1>4, <1>6, <1>7, <1>8, PartsMakeIInv

\* The user accepts, and the approval still holds, or does not any more.
LEMMA AcceptIInv ==
  ASSUME IInv, NEW c \in Calls, Accept(c)
  PROVE  IInv'
PROOF
<1>1. /\ stage[c] = "eliciting"
      /\ UNCHANGED <<game, starts, leased, known, connected, validated, valid, payload, token,
                     executed, faults>>
  BY DEF Accept, gameVars, hostVars, planVars
<1>2. payload[c] \in Payloads /\ TheValidation(c) \in Validations BY <1>1, CitesValidation
<1>3. CASE Verifies(c, payload[c]) /\ approval' = [approval EXCEPT ![c] = c]
           /\ stage' = [stage EXCEPT ![c] = "calling"] /\ Send(c) /\ UNCHANGED audit
  <2>1. WireOK /\ c \in Tasks BY TasksDiffer DEF IInv, TypeOK, WireOK
  <2>2. WireOK' /\ waiting' = waiting \cup {c} BY <1>3, <2>1, SendKeepsWire
  <2>3. \A b \in Calls : stage'[b] = "calling" <=> b \in waiting'
    BY <1>3, <2>2 DEF IInv, TypeOK
  <2>4. TypeOK' BY <1>1, <1>3, <2>2, <2>3 DEF IInv, TypeOK, WireOK, Stages
  <2>5. BoundTo(payload[c], payload[c].validation) /\ validated[payload[c].validation] # 0
    BY <1>1 DEF IInv, CallsAreGated, IsGated, TheValidation
  <2>6. payload' = [payload EXCEPT ![c] = payload[c]] BY <1>1 DEF IInv, TypeOK
  <2> QED BY <1>1, <1>2, <1>3, <2>4, <2>5, <2>6, SentIInv
<1>4. CASE EndWithError(c, known) /\ UNCHANGED <<wireVars, approval>>
  BY <1>1, <1>4, GivenUpIInv DEF wireVars
<1> QED BY <1>3, <1>4 DEF Accept

\* The user declines.
LEMMA DeclineIInv ==
  ASSUME IInv, NEW c \in Calls, Decline(c)
  PROVE  IInv'
PROOF
<1> QED BY GivenUpIInv DEF Decline, gameVars, hostVars, planVars, wireVars

\* The client is handed the approval.
LEMMA HandOutIInv ==
  ASSUME IInv, NEW c \in Calls, HandOut(c)
  PROVE  IInv'
PROOF
<1>1. TypeOK'
  BY ConstantsOK DEF IInv, TypeOK, HandOut, gameVars, hostVars, wireVars, planVars, Tasks,
                     Epochs, Stages
<1>2. /\ stage[c] = "eliciting" /\ stage'[c] = "approval_required"
      /\ \A b \in Calls \ {c} : stage'[b] = stage[b]
      /\ UNCHANGED <<game, starts, leased, known, connected, request, answer, waiting,
                     validated, valid, payload, token, approval, executed, audit>>
  BY DEF HandOut, IInv, TypeOK, gameVars, hostVars, wireVars, planVars
<1>3. KeepsPayloads /\ KeepsValidations BY <1>2 DEF KeepsPayloads, KeepsValidations
<1>4. ASSUME NEW b \in Calls, b # c PROVE IsGated(b)' /\ IsAccounted(b)'
  BY <1>2, <1>3, <1>4, GatedStays, AccountStays
<1>5. approval[c] = NoCall /\ request[c] = "none" /\ ~Ran(c) /\ payload[c] \in Payloads
  BY <1>2 DEF IInv, CallsAreGated, IsGated
<1>6. IsGated(c)' BY <1>2, <1>5 DEF IsGated, Ran
<1>7. IsAccounted(c)' BY <1>2, <1>5 DEF IsAccounted, IInv, CallsAreAccounted, Ran
<1>8. \A v \in Validations : IsLeased(v)' BY <1>2, LeaseStays
<1> QED BY <1>1, <1>4, <1>6, <1>7, <1>8, PartsMakeIInv

\* An approval expires, and nothing else changes.
LEMMA TokenExpiresIInv ==
  ASSUME IInv, NEW c \in Calls, TokenExpires(c)
  PROVE  IInv'
PROOF
<1>1. /\ token' = [token EXCEPT ![c].state = "expired"]
      /\ UNCHANGED <<game, starts, leased, known, connected, request, answer, waiting,
                     validated, valid, stage, payload, approval, executed, audit, faults>>
  BY DEF TokenExpires, gameVars, hostVars, wireVars, planVars
<1>2. /\ token' \in [Calls -> [epoch : Epochs, state : {"none", "proposed", "expired"}]]
      /\ \A b \in Calls : token'[b].epoch = token[b].epoch
  BY <1>1 DEF IInv, TypeOK
<1>3. TypeOK' BY <1>1, <1>2 DEF IInv, TypeOK
<1>4. KeepsPayloads /\ KeepsValidations BY <1>1 DEF KeepsPayloads, KeepsValidations
<1>5. ASSUME NEW b \in Calls PROVE IsGated(b)' /\ IsAccounted(b)'
  BY <1>1, <1>2, <1>4, GatedStays, AccountStays
<1>6. \A v \in Validations : IsLeased(v)' BY <1>1, LeaseStays
<1> QED BY <1>3, <1>5, <1>6, PartsMakeIInv

-----------------------------------------------------------------------------
(* Steps that leave the calls alone *)

\* If only the way of a call's answer changes, its account stays right.
LEMMA CallsStay ==
  ASSUME IInv, KeepsValidations,
         UNCHANGED <<stage, payload, token, approval, executed, audit>>,
         \A c \in Calls : /\ request'[c] = request[c] \/ request'[c] \in {"none", "lost"}
                          /\ request'[c] = "none" \/ request[c] # "none"
                          /\ answer'[c] = answer[c] \/ answer'[c] = NoAnswer
  PROVE  \A c \in Calls : IsGated(c)' /\ IsAccounted(c)'
PROOF
<1>1. KeepsPayloads BY DEF KeepsPayloads
<1>2. ASSUME NEW c \in Calls PROVE IsGated(c)' /\ IsAccounted(c)'
  BY <1>1, GatedStays, AccountStays
<1> QED BY <1>2

\* A validation is asked for, or cannot be.
LEMMA ValidateIInv ==
  ASSUME IInv, NEW v \in Validations, Validate(v)
  PROVE  IInv'
PROOF
<1>1. /\ valid[v] = "none" /\ v \in Tasks /\ v \notin Calls
      /\ UNCHANGED <<game, starts, leased, known, connected, validated, stage, payload, token,
                     approval, executed, audit, faults>>
  BY TasksDiffer DEF Validate, gameVars, hostVars, callVars
<1>2. WireOK BY DEF IInv, TypeOK, WireOK
<1>3. /\ WireOK' /\ waiting' \cap Calls = waiting \cap Calls /\ answer' = answer
      /\ \A u \in Tasks \ {v} : request'[u] = request[u]
  <2>1. CASE Send(v) BY <1>1, <1>2, <2>1, SendKeepsWire
  <2>2. CASE UNCHANGED wireVars BY <1>2, <2>2 DEF WireOK, wireVars
  <2> QED BY <2>1, <2>2 DEF Validate
<1>4. /\ \E w \in {"asking", "symbolic"} : valid' = [valid EXCEPT ![v] = w]
  BY DEF Validate
<1>5. \A c \in Calls : stage'[c] = "calling" <=> c \in waiting'
  BY <1>1, <1>3 DEF IInv, TypeOK
<1>6. TypeOK' BY <1>1, <1>3, <1>4, <1>5 DEF IInv, TypeOK, WireOK
<1>7. KeepsValidations BY <1>1 DEF KeepsValidations
<1>8. \A c \in Calls : IsGated(c)' /\ IsAccounted(c)'
  <2>1. \A c \in Calls : request'[c] = request[c] /\ answer'[c] = answer[c]
    BY <1>1, <1>3, TasksDiffer
  <2> QED BY <1>1, <1>7, <2>1, CallsStay
<1>9. validated[v] = 0 BY <1>1 DEF IInv, LeasesAreCurrent, IsLeased
<1>10. ASSUME NEW w \in Validations PROVE IsLeased(w)'
  <2>1. CASE w = v
    <3>1. CASE Send(v)
      <4>1. request'[v] = "sent" BY <1>1, <1>2, <3>1, SendKeepsWire
      <4> QED BY <1>1, <1>9, <2>1, <4>1 DEF IsLeased
    <3>2. CASE UNCHANGED wireVars
      <4>1. request' = request /\ answer' = answer BY <3>2 DEF wireVars
      <4> QED BY <1>1, <2>1, <4>1, LeaseStays
    <3> QED BY <3>1, <3>2 DEF Validate
  <2>2. CASE w # v
    <3>1. request'[w] = request[w] /\ valid'[w] = valid[w]
      BY <1>3, <1>4, <2>2, TasksDiffer DEF IInv, TypeOK
    <3> QED BY <1>1, <1>3, <3>1, LeaseStays
  <2> QED BY <2>1, <2>2
<1> QED BY <1>6, <1>8, <1>10, PartsMakeIInv

\* A validation is out of date.
LEMMA ValidationExpiresIInv ==
  ASSUME IInv, NEW v \in Validations, ValidationExpires(v)
  PROVE  IInv'
PROOF
<1>1. /\ valid' = [valid EXCEPT ![v] = "expired"]
      /\ UNCHANGED <<game, starts, leased, known, connected, request, answer, waiting, validated,
                     stage, payload, token, approval, executed, audit, faults>>
  BY DEF ValidationExpires, gameVars, hostVars, wireVars, callVars
<1>2. TypeOK' BY <1>1 DEF IInv, TypeOK
<1>3. KeepsValidations BY <1>1 DEF KeepsValidations
<1>4. \A c \in Calls : IsGated(c)' /\ IsAccounted(c)' BY <1>1, <1>3, CallsStay
<1>5. \A w \in Validations : valid[w] # "none" => valid'[w] # "none"
  BY <1>1 DEF IInv, TypeOK
<1>6. \A w \in Validations : IsLeased(w)' BY <1>1, <1>5, LeaseStays
<1> QED BY <1>2, <1>4, <1>6, PartsMakeIInv

\* The game lets a receiver go.
LEMMA LeaseEndsIInv ==
  ASSUME IInv, NEW v \in Validations, LeaseEnds(v)
  PROVE  IInv'
PROOF
<1>1. /\ leased' = leased \ {v}
      /\ UNCHANGED <<game, starts, known, connected, request, answer, waiting, validated, valid,
                     stage, payload, token, approval, executed, audit, faults>>
  BY DEF LeaseEnds, hostVars, wireVars, planVars, callVars
<1>2. TypeOK' BY <1>1 DEF IInv, TypeOK
<1>3. KeepsValidations BY <1>1 DEF KeepsValidations
<1>4. \A c \in Calls : IsGated(c)' /\ IsAccounted(c)' BY <1>1, <1>3, CallsStay
<1>5. \A w \in Validations : IsLeased(w)' BY <1>1, LeaseStays
<1> QED BY <1>2, <1>4, <1>5, PartsMakeIInv

\* The game starts: no lease is older than it.
LEMMA GameStartsIInv ==
  ASSUME IInv, GameStarts
  PROVE  IInv'
PROOF
<1>1. /\ game = 0 /\ starts < MaxEpoch /\ starts' = starts + 1 /\ game' = starts' /\ leased = {}
      /\ UNCHANGED <<leased, known, connected, request, answer, waiting, validated, valid,
                     stage, payload, token, approval, executed, audit, faults>>
  BY DEF GameStarts, IInv, TypeOK, hostVars, wireVars, planVars, callVars
<1>2. starts' \in Epochs BY <1>1, ConstantsOK DEF IInv, TypeOK, Epochs
<1>3. TypeOK' BY <1>1, <1>2 DEF IInv, TypeOK
<1>4. KeepsValidations BY <1>1 DEF KeepsValidations
<1>5. \A c \in Calls : IsGated(c)' /\ IsAccounted(c)' BY <1>1, <1>4, CallsStay
<1>6. \A w \in Validations : IsLeased(w)' BY <1>1, LeaseStays
<1> QED BY <1>3, <1>5, <1>6, PartsMakeIInv

\* The game ends, and its leases with it.
LEMMA GameEndsIInv ==
  ASSUME IInv, GameEnds
  PROVE  IInv'
PROOF
<1>1. /\ game' = 0 /\ leased' = {}
      /\ UNCHANGED <<starts, known, connected, request, answer, waiting, validated, valid,
                     stage, payload, token, approval, executed, audit, faults>>
  BY DEF GameEnds, hostVars, wireVars, planVars, callVars
<1>2. game' \in Epochs BY <1>1, ConstantsOK DEF Epochs
<1>3. TypeOK' BY <1>1, <1>2 DEF IInv, TypeOK
<1>4. KeepsValidations BY <1>1 DEF KeepsValidations
<1>5. \A c \in Calls : IsGated(c)' /\ IsAccounted(c)' BY <1>1, <1>4, CallsStay
<1>6. \A w \in Validations : IsLeased(w)' BY <1>1, LeaseStays
<1> QED BY <1>3, <1>5, <1>6, PartsMakeIInv

\* runtime_status is asked.
LEMMA PingIInv ==
  ASSUME IInv, NEW t \in Pings, Ping(t)
  PROVE  IInv'
PROOF
<1>1. /\ Send(t)
      /\ UNCHANGED <<game, starts, leased, known, connected, validated, valid, stage, payload,
                     token, approval, executed, audit, faults>>
  BY DEF Ping, gameVars, hostVars, planVars, callVars
<1>2. WireOK /\ t \in Tasks BY TasksDiffer DEF IInv, TypeOK, WireOK
<1>3. /\ WireOK' /\ waiting' = waiting \cup {t} /\ answer' = answer
      /\ \A u \in Tasks \ {t} : request'[u] = request[u]
  BY <1>1, <1>2, SendKeepsWire
<1>4. \A c \in Calls : stage'[c] = "calling" <=> c \in waiting'
  BY <1>1, <1>3, TasksDiffer DEF IInv, TypeOK
<1>5. TypeOK' BY <1>1, <1>3, <1>4 DEF IInv, TypeOK, WireOK
<1>6. KeepsValidations BY <1>1 DEF KeepsValidations
<1>7. \A c \in Calls : IsGated(c)' /\ IsAccounted(c)'
  <2>1. \A c \in Calls : request'[c] = request[c] /\ answer'[c] = answer[c] BY <1>3, TasksDiffer
  <2> QED BY <1>1, <1>6, <2>1, CallsStay
<1>8. ASSUME NEW v \in Validations PROVE IsLeased(v)'
  <2>1. request'[v] = request[v] /\ answer'[v] = answer[v] BY <1>3, TasksDiffer
  <2> QED BY <1>1, <2>1, LeaseStays
<1> QED BY <1>5, <1>7, <1>8, PartsMakeIInv

\* and answered.
LEMMA ServePingIInv ==
  ASSUME IInv, NEW t \in Pings, ServePing(t)
  PROVE  IInv'
PROOF
<1>1. /\ Reply(t, TRUE)
      /\ UNCHANGED <<game, starts, leased, known, connected, validated, valid, stage, payload,
                     token, approval, executed, audit, faults>>
  BY DEF ServePing, Reply, hostVars, planVars, callVars
<1>2. WireOK /\ t \in Tasks /\ game \in Epochs BY TasksDiffer DEF IInv, TypeOK, WireOK
<1>3. /\ WireOK' /\ waiting' = waiting
      /\ \A u \in Tasks \ {t} : request'[u] = request[u] /\ answer'[u] = answer[u]
  BY <1>1, <1>2, ReplyKeepsWire
<1>4. TypeOK' BY <1>1, <1>3 DEF IInv, TypeOK, WireOK
<1>5. KeepsValidations BY <1>1 DEF KeepsValidations
<1>6. \A c \in Calls : IsGated(c)' /\ IsAccounted(c)'
  <2>1. \A c \in Calls : request'[c] = request[c] /\ answer'[c] = answer[c] BY <1>3, TasksDiffer
  <2> QED BY <1>1, <1>5, <2>1, CallsStay
<1>7. ASSUME NEW v \in Validations PROVE IsLeased(v)'
  <2>1. request'[v] = request[v] /\ answer'[v] = answer[v] BY <1>3, TasksDiffer
  <2> QED BY <1>1, <2>1, LeaseStays
<1> QED BY <1>4, <1>6, <1>7, PartsMakeIInv

\* A plan is resolved in the running game, and its receiver leased there.
LEMMA ServeValidationIInv ==
  ASSUME IInv, NEW v \in Validations, ServeValidation(v)
  PROVE  IInv'
PROOF
<1>1. PICK ok \in BOOLEAN :
        /\ Reply(v, ok) /\ leased' \in {leased, leased \cup {v}}
        /\ UNCHANGED <<game, starts, known, connected, validated, valid, stage, payload,
                       token, approval, executed, audit, faults>>
  BY DEF ServeValidation, Reply, hostVars, planVars, callVars
<1>2. WireOK /\ v \in Tasks /\ game \in Epochs BY TasksDiffer DEF IInv, TypeOK, WireOK
<1>3. /\ WireOK' /\ waiting' = waiting /\ request[v] = "sent" /\ game # 0
      /\ \/ request'[v] = "answered" /\ answer'[v] = [epoch |-> game, ok |-> ok]
         \/ request'[v] = "none"
      /\ \A u \in Tasks \ {v} : request'[u] = request[u] /\ answer'[u] = answer[u]
  BY <1>1, <1>2, ReplyKeepsWire
<1>4. leased' \subseteq Validations /\ \A w \in Validations \ {v} : w \in leased' => w \in leased
  BY <1>1 DEF IInv, TypeOK
<1>5. TypeOK' BY <1>1, <1>3, <1>4 DEF IInv, TypeOK, WireOK
<1>6. KeepsValidations BY <1>1 DEF KeepsValidations
<1>7. \A c \in Calls : IsGated(c)' /\ IsAccounted(c)'
  <2>1. \A c \in Calls : request'[c] = request[c] /\ answer'[c] = answer[c] BY <1>3, TasksDiffer
  <2> QED BY <1>1, <1>6, <2>1, CallsStay
<1>8. validated[v] = 0 BY <1>3 DEF IInv, LeasesAreCurrent, IsLeased
<1>9. ASSUME NEW w \in Validations PROVE IsLeased(w)'
  <2>1. CASE w = v BY <1>1, <1>3, <1>8, <2>1 DEF IsLeased
  <2>2. CASE w # v
    <3>1. request'[w] = request[w] /\ answer'[w] = answer[w] BY <1>3, <2>2, TasksDiffer
    <3> QED BY <1>1, <1>4, <2>2, <3>1, LeaseStays
  <2> QED BY <2>1, <2>2
<1> QED BY <1>5, <1>7, <1>9, PartsMakeIInv

\* A connection breaks; an answer that was not read is lost.
LEMMA BreakIInv ==
  ASSUME IInv, NEW t \in Tasks, Break(t)
  PROVE  IInv'
PROOF
<1>1. /\ UNCHANGED <<game, starts, leased, known, connected, validated, valid, stage, payload,
                     token, approval, executed, audit>>
      /\ faults' \in 0..MaxFaults
  BY ConstantsOK DEF Break, gameVars, hostVars, planVars, callVars, IInv, TypeOK
<1>2. WireOK BY DEF IInv, TypeOK, WireOK
<1>3. /\ WireOK' /\ waiting' = waiting /\ request'[t] \in {"lost", "none"} /\ request[t] # "none"
      /\ answer'[t] = NoAnswer
      /\ \A u \in Tasks \ {t} : request'[u] = request[u] /\ answer'[u] = answer[u]
  BY <1>2, BreakKeepsWire
<1>4. TypeOK' BY <1>1, <1>3 DEF IInv, TypeOK, WireOK
<1>5. KeepsValidations BY <1>1 DEF KeepsValidations
<1>6. \A u \in Tasks : /\ request'[u] = request[u] \/ request'[u] \in {"none", "lost"}
                       /\ request'[u] = "none" \/ request[u] # "none"
                       /\ answer'[u] = answer[u] \/ answer'[u] = NoAnswer
                       /\ request'[u] = "answered" => answer'[u] = answer[u]
  <2>1. ASSUME NEW u \in Tasks, u # t
        PROVE  request'[u] = request[u] /\ answer'[u] = answer[u]
    BY <1>3, <2>1
  <2> QED BY <1>3, <2>1
<1>7. \A c \in Calls : IsGated(c)' /\ IsAccounted(c)' BY <1>1, <1>5, <1>6, TasksDiffer, CallsStay
<1>8. \A v \in Validations : IsLeased(v)' BY <1>1, <1>6, TasksDiffer, LeaseStays
<1> QED BY <1>4, <1>7, <1>8, PartsMakeIInv

-----------------------------------------------------------------------------
(* Steps of a call in the game, and of its answer *)

\* A call is carried out, or refused; an instance is only touched in the game
\* that holds its lease, which is the one it was validated in.
LEMMA ServeCallIInv ==
  ASSUME IInv, NEW c \in Calls, ServeCall(c)
  PROVE  IInv'
PROOF
<1>1. /\ stage[c] # "idle" /\ request[c] = "sent"
      /\ UNCHANGED <<game, starts, leased, known, connected, validated, valid, stage, payload,
                     token, approval, audit, faults>>
  BY DEF ServeCall, Reply, hostVars, planVars
<1>2. WireOK /\ c \in Tasks /\ game \in Epochs BY TasksDiffer DEF IInv, TypeOK, WireOK
<1>3. PICK ok \in BOOLEAN :
        /\ Reply(c, ok)
        /\ \/ Runnable(payload[c]) /\ executed' = [executed EXCEPT ![c] = game]
           \/ ok = FALSE /\ executed' = executed
  BY DEF ServeCall
<1>4. /\ WireOK' /\ waiting' = waiting /\ game # 0
      /\ \/ request'[c] = "answered" /\ answer'[c] = [epoch |-> game, ok |-> ok]
         \/ request'[c] = "none"
      /\ \A u \in Tasks \ {c} : request'[u] = request[u] /\ answer'[u] = answer[u]
  BY <1>2, <1>3, ReplyKeepsWire
<1>5. /\ executed' \in [Calls -> Epochs]
      /\ \A b \in Calls \ {c} : executed'[b] = executed[b]
      /\ \/ Runnable(payload[c]) /\ executed'[c] = game
         \/ ok = FALSE /\ executed'[c] = executed[c]
  BY <1>2, <1>3 DEF IInv, TypeOK
<1>6. TypeOK' BY <1>1, <1>4, <1>5 DEF IInv, TypeOK, WireOK
<1>7. KeepsPayloads /\ KeepsValidations BY <1>1 DEF KeepsPayloads, KeepsValidations
<1>8. ASSUME NEW b \in Calls, b # c PROVE IsGated(b)' /\ IsAccounted(b)'
  <2>1. request'[b] = request[b] /\ answer'[b] = answer[b] /\ executed'[b] = executed[b]
    BY <1>4, <1>5, <1>8, TasksDiffer
  <2> QED BY <1>1, <1>7, <2>1, GatedStays, AccountStays
<1>9. IsGated(c)' BY <1>1, <1>7, GatedStays
<1>10. IsAccounted(c)'
  <2>1. IsAccounted(c) BY DEF IInv, CallsAreAccounted
  <2>2. audit[c].outcome # "executed" BY <1>1, <2>1 DEF IsAccounted
  <2>3. /\ approval[c] # NoCall BY <1>1 DEF IInv, CallsAreGated, IsGated
  <2>4. /\ BoundTo(payload[c], TheValidation(c)) /\ validated[TheValidation(c)] # 0
        /\ TheValidation(c) \in Validations
    BY <2>3, PassedWithApproval
  <2>5. payload[c].receiver # NoReceiver => payload[c].receiver = TheValidation(c)
    BY <2>4 DEF BoundTo
  <2>6. Runnable(payload[c]) /\ payload[c].receiver # NoReceiver => validated[TheValidation(c)] = game
    BY <2>4, <2>5 DEF Runnable, IInv, LeasesAreCurrent, IsLeased
  <2>7. Ran(c)' /\ payload'[c].receiver # NoReceiver => executed'[c] = validated[TheValidation(c)]'
    <3>1. TheValidation(c)' = TheValidation(c) BY <1>1 DEF TheValidation
    <3>2. validated[TheValidation(c)]' = validated[TheValidation(c)] BY <1>1, <3>1
    <3>3. CASE executed'[c] = game /\ Runnable(payload[c]) BY <1>1, <2>6, <3>2, <3>3
    <3>4. CASE executed'[c] = executed[c]
      <4>1. Ran(c)' <=> Ran(c) BY <3>4 DEF Ran
      <4> QED BY <1>1, <2>1, <3>2, <3>4, <4>1 DEF IsAccounted
    <3> QED BY <1>5, <3>3, <3>4
  <2>8. request'[c] = "answered" /\ answer'[c].ok => Ran(c)' /\ executed'[c] = answer'[c].epoch
    BY <1>4, <1>5 DEF Ran
  <2> QED BY <1>1, <2>1, <2>2, <2>7, <2>8 DEF IsAccounted
<1>11. ASSUME NEW v \in Validations PROVE IsLeased(v)'
  <2>1. request'[v] = request[v] /\ answer'[v] = answer[v] BY <1>4, TasksDiffer
  <2> QED BY <1>1, <2>1, LeaseStays
<1> QED BY <1>6, <1>8, <1>9, <1>10, <1>11, PartsMakeIInv

\* A ping or a validation no longer waits, and no call is concerned.
LEMMA NoCallHears ==
  ASSUME IInv, NEW t \in Tasks \ Calls, NEW r \in {"none", "sent"}, Forget(t, r),
         r = "sent" => request[t] = "sent",
         known' \in Epochs, connected' \in BOOLEAN, faults' \in 0..MaxFaults, KeepsValidations,
         validated' \in [Validations -> Epochs],
         valid' \in [Validations -> {"none", "asking", "symbolic", "live", "failed", "expired"}],
         \A v \in Validations \ {t} : validated'[v] = validated[v] /\ valid'[v] = valid[v],
         t \in Validations => valid'[t] # "none",
         t \in Validations => validated'[t] = validated[t] \/ r = "none",
         t \in Validations /\ t \in leased => validated'[t] \in {0, validated[t], game},
         UNCHANGED <<game, starts, leased, callVars>>
  PROVE  IInv'
PROOF
<1>1. UNCHANGED <<stage, payload, token, approval, executed, audit>> BY DEF callVars
<1>2. WireOK BY DEF IInv, TypeOK, WireOK
<1>3. /\ WireOK' /\ waiting' = waiting \ {t} /\ request'[t] = r /\ answer'[t] = NoAnswer
      /\ \A u \in Tasks \ {t} : request'[u] = request[u] /\ answer'[u] = answer[u]
  BY <1>2, ForgetKeepsWire
<1>4. \A c \in Calls : stage'[c] = "calling" <=> c \in waiting'
  BY <1>1, <1>3 DEF IInv, TypeOK
<1>5. TypeOK' BY <1>1, <1>3, <1>4 DEF IInv, TypeOK, WireOK
<1>6. \A c \in Calls : IsGated(c)' /\ IsAccounted(c)'
  <2>1. \A c \in Calls : request'[c] = request[c] /\ answer'[c] = answer[c] BY <1>3, TasksDiffer
  <2> QED BY <1>1, <2>1, CallsStay
<1>7. ASSUME NEW v \in Validations PROVE IsLeased(v)'
  <2>1. CASE v = t
    <3>1. IsLeased(t) BY <2>1 DEF IInv, LeasesAreCurrent
    <3>2. request'[t] # "answered" BY <1>3
    <3>3. validated'[t] # 0 => request'[t] = "none"
      BY <1>3, <2>1, <3>1 DEF IsLeased
    <3>4. t \in leased /\ validated'[t] # 0 => validated'[t] = game BY <2>1, <3>1 DEF IsLeased
    <3> QED BY <2>1, <3>2, <3>3, <3>4 DEF IsLeased
  <2>2. CASE v # t
    <3>1. request'[v] = request[v] /\ answer'[v] = answer[v] BY <1>3, <2>2, TasksDiffer
    <3> QED BY <2>2, <3>1, LeaseStays
  <2> QED BY <2>1, <2>2
<1> QED BY <1>5, <1>6, <1>7, PartsMakeIInv

\* A call returns: with the result, which ran in the epoch of the answer, or with
\* an error.
LEMMA CallReturns ==
  ASSUME IInv, NEW c \in Calls, c \in waiting, NEW r \in {"none", "sent"}, Forget(c, r),
         r = "sent" => request[c] = "sent",
         NEW s \in {"done", "failed"}, stage' = [stage EXCEPT ![c] = s],
         NEW o \in {"executed", "error"}, NEW e \in Epochs,
         audit' = [audit EXCEPT ![c] = [outcome |-> o, epoch |-> e]],
         o = "executed" => /\ request[c] = "answered" /\ answer[c].ok /\ answer[c].epoch = e
                           /\ s = "done" /\ r = "none",
         known' \in Epochs, connected' \in BOOLEAN, faults' \in 0..MaxFaults,
         UNCHANGED <<game, starts, leased, validated, valid, payload, token, approval, executed>>
  PROVE  IInv'
PROOF
<1>1. WireOK /\ c \in Tasks BY TasksDiffer DEF IInv, TypeOK, WireOK
<1>2. /\ WireOK' /\ waiting' = waiting \ {c} /\ request'[c] = r /\ answer'[c] = NoAnswer
      /\ \A u \in Tasks \ {c} : request'[u] = request[u] /\ answer'[u] = answer[u]
  BY <1>1, ForgetKeepsWire
<1>3. /\ stage'[c] = s /\ audit'[c] = [outcome |-> o, epoch |-> e] /\ stage[c] = "calling"
      /\ \A b \in Calls \ {c} : stage'[b] = stage[b] /\ audit'[b] = audit[b]
  BY DEF IInv, TypeOK
<1>4. TypeOK'
  <2>1. /\ stage' \in [Calls -> Stages]
        /\ audit' \in [Calls -> [outcome : {"none", "executed", "error"}, epoch : Epochs]]
    BY DEF IInv, TypeOK, Stages
  <2>2. \A b \in Calls : stage'[b] = "calling" <=> b \in waiting' BY <1>2, <1>3 DEF IInv, TypeOK
  <2> QED BY <1>2, <2>1, <2>2 DEF IInv, TypeOK, WireOK
<1>5. KeepsPayloads /\ KeepsValidations BY <1>3 DEF KeepsPayloads, KeepsValidations
<1>6. ASSUME NEW b \in Calls, b # c PROVE IsGated(b)' /\ IsAccounted(b)'
  <2>1. request'[b] = request[b] /\ answer'[b] = answer[b] BY <1>2, <1>6, TasksDiffer
  <2> QED BY <1>3, <1>5, <1>6, <2>1, GatedStays, AccountStays
<1>7. IsGated(c)'
  <2>1. request[c] # "none" BY DEF IInv, TypeOK
  <2>2. approval[c] # NoCall /\ IsGated(c) BY <2>1 DEF IInv, CallsAreGated, IsGated
  <2>3. /\ payload[c] \in Payloads /\ approval[c] \in Calls
        /\ payload[approval[c]] = payload[c] /\ stage[approval[c]] # "idle"
        /\ BoundTo(payload[c], TheValidation(c)) /\ validated[TheValidation(c)] # 0
    BY <1>3, <2>2, PassedWithApproval, CitesValidation
  <2>4. TheValidation(c)' = TheValidation(c) BY DEF TheValidation
  <2>5. BoundTo(payload[c], TheValidation(c))' BY <2>3, <2>4 DEF BoundTo
  <2>6. stage'[approval[c]] # "idle" BY <1>3, <2>3
  <2> QED BY <1>3, <2>2, <2>3, <2>4, <2>5, <2>6 DEF IsGated
<1>8. IsAccounted(c)'
  <2>1. IsAccounted(c) BY DEF IInv, CallsAreAccounted
  <2>2. Ran(c)' <=> Ran(c) BY DEF Ran
  <2>3. TheValidation(c)' = TheValidation(c) BY DEF TheValidation
  <2>4. request'[c] # "answered" BY <1>2
  <2>5. o = "executed" => Ran(c) /\ executed[c] = e BY <2>1 DEF IsAccounted
  <2> QED BY <1>2, <1>3, <2>1, <2>2, <2>3, <2>4, <2>5 DEF IsAccounted
<1>9. ASSUME NEW v \in Validations PROVE IsLeased(v)'
  <2>1. request'[v] = request[v] /\ answer'[v] = answer[v] BY <1>2, TasksDiffer
  <2> QED BY <2>1, LeaseStays
<1> QED BY <1>4, <1>6, <1>7, <1>8, <1>9, PartsMakeIInv

\* An answer is read: the epoch it names is the known one, and what the caller
\* does with it happens at once.
LEMMA HearIInv ==
  ASSUME IInv, NEW t \in Tasks, Hear(t)
  PROVE  IInv'
PROOF
<1>1. /\ t \in waiting /\ request[t] = "answered" /\ Forget(t, "none")
      /\ known' = answer[t].epoch /\ connected' = TRUE /\ Conclude(t, known')
      /\ UNCHANGED <<game, starts, leased, faults>>
  BY DEF Hear, Received, gameVars
<1>2. answer[t] \in [epoch : Epochs, ok : BOOLEAN] /\ known' \in Epochs BY <1>1 DEF IInv, TypeOK
<1>3. faults' \in 0..MaxFaults /\ connected' \in BOOLEAN BY <1>1 DEF IInv, TypeOK
<1>4. CASE t \in Pings /\ UNCHANGED <<planVars, callVars>>
  <2>1. t \in Tasks \ Calls /\ t \notin Validations BY <1>4, TasksDiffer
  <2>2. UNCHANGED <<validated, valid>> BY <1>4 DEF planVars
  <2>3. /\ validated' \in [Validations -> Epochs]
        /\ valid' \in [Validations -> {"none", "asking", "symbolic", "live", "failed", "expired"}]
    BY <2>2 DEF IInv, TypeOK
  <2>4. KeepsValidations BY <2>2 DEF KeepsValidations
  <2> QED BY <1>1, <1>2, <1>3, <1>4, <2>1, <2>2, <2>3, <2>4, NoCallHears
<1>5. CASE /\ t \in Validations
           /\ validated' \in {validated, [validated EXCEPT ![t] = answer[t].epoch]}
           /\ \E w \in {"live", "failed"} : valid' = [valid EXCEPT ![t] = w]
           /\ UNCHANGED callVars
  <2>1. t \in Tasks \ Calls /\ IsLeased(t) BY <1>5, TasksDiffer DEF IInv, LeasesAreCurrent
  <2>2. validated[t] = 0 BY <1>1, <2>1 DEF IsLeased
  <2>3. /\ validated' \in [Validations -> Epochs]
        /\ \A v \in Validations \ {t} : validated'[v] = validated[v]
        /\ validated'[t] \in {validated[t], answer[t].epoch}
    BY <1>2, <1>5 DEF IInv, TypeOK
  <2>4. /\ valid' \in [Validations -> {"none", "asking", "symbolic", "live", "failed", "expired"}]
        /\ \A v \in Validations \ {t} : valid'[v] = valid[v]
        /\ valid'[t] # "none"
    BY <1>5 DEF IInv, TypeOK
  <2>5. KeepsValidations BY <2>2, <2>3 DEF KeepsValidations
  <2>6. t \in leased => answer[t].epoch = game BY <1>1, <2>1 DEF IsLeased
  <2> QED BY <1>1, <1>2, <1>3, <1>5, <2>1, <2>3, <2>4, <2>5, <2>6, NoCallHears
<1>6. CASE /\ t \in Calls /\ answer[t].ok /\ stage' = [stage EXCEPT ![t] = "done"]
           /\ audit' = [audit EXCEPT ![t] = [outcome |-> "executed", epoch |-> known']]
           /\ UNCHANGED <<planVars, payload, token, approval, executed>>
  <2>1. UNCHANGED <<validated, valid>> BY <1>6 DEF planVars
  <2> QED BY <1>1, <1>2, <1>3, <1>6, <2>1, CallReturns
<1>7. CASE /\ t \in Calls /\ EndWithError(t, known')
           /\ UNCHANGED <<planVars, payload, token, approval, executed>>
  <2>1. UNCHANGED <<validated, valid>> BY <1>7 DEF planVars
  <2>2. /\ stage' = [stage EXCEPT ![t] = "failed"]
        /\ audit' = [audit EXCEPT ![t] = [outcome |-> "error", epoch |-> known']]
    BY <1>7 DEF EndWithError
  <2> QED BY <1>1, <1>2, <1>3, <1>7, <2>1, <2>2, CallReturns
<1>8. /\ t \in Validations /\ answer[t].ok
      /\ validated' = [validated EXCEPT ![t] = answer[t].epoch]
      /\ valid' = [valid EXCEPT ![t] = "live"] /\ UNCHANGED callVars
      => IInv'
  BY <1>5
<1>9. /\ t \in Validations /\ ~answer[t].ok /\ valid' = [valid EXCEPT ![t] = "failed"]
      /\ UNCHANGED <<validated, callVars>>
      => IInv'
  BY <1>5
<1> QED BY <1>1, <1>4, <1>6, <1>7, <1>8, <1>9 DEF Conclude

\* A caller gives up; the request itself goes on.
LEMMA MissIInv ==
  ASSUME IInv, NEW t \in Tasks, Miss(t)
  PROVE  IInv'
PROOF
<1>1. PICK r \in {"none", "sent"} :
        t \in waiting /\ Forget(t, r) /\ (r = "sent" => request[t] = "sent")
  BY DEF Miss, NoLongerWaits
<1>2. /\ connected' = FALSE /\ connected' \in BOOLEAN /\ faults' \in 0..MaxFaults
      /\ known' = known /\ known' \in Epochs /\ UNCHANGED <<game, starts, leased>>
  <2>1. faults' = faults \/ (faults < MaxFaults /\ faults' = faults + 1)
    BY DEF Miss, NoLongerWaits, Fault
  <2>2. faults \in 0..MaxFaults /\ MaxFaults \in Nat /\ known \in Epochs
    BY ConstantsOK DEF IInv, TypeOK
  <2>3. connected' = FALSE /\ UNCHANGED <<known, game, starts, leased>>
    BY DEF Miss, NoLongerWaits, gameVars
  <2>4. faults' \in 0..MaxFaults BY <2>1, <2>2
  <2> QED BY <2>2, <2>3, <2>4
<1>3. CASE t \in Pings /\ UNCHANGED <<planVars, callVars>>
  <2>1. t \in Tasks \ Calls /\ t \notin Validations BY <1>3, TasksDiffer
  <2>2. UNCHANGED <<validated, valid>> BY <1>3 DEF planVars
  <2>3. /\ validated' \in [Validations -> Epochs]
        /\ valid' \in [Validations -> {"none", "asking", "symbolic", "live", "failed", "expired"}]
    BY <2>2 DEF IInv, TypeOK
  <2>4. KeepsValidations BY <2>2 DEF KeepsValidations
  <2> QED BY <1>1, <1>2, <1>3, <2>1, <2>2, <2>3, <2>4, NoCallHears
<1>4. CASE /\ t \in Validations /\ valid' = [valid EXCEPT ![t] = "failed"]
           /\ UNCHANGED <<validated, callVars>>
  <2>1. t \in Tasks \ Calls BY <1>4, TasksDiffer
  <2>2. /\ validated' \in [Validations -> Epochs]
        /\ valid' \in [Validations -> {"none", "asking", "symbolic", "live", "failed", "expired"}]
        /\ \A v \in Validations \ {t} : validated'[v] = validated[v] /\ valid'[v] = valid[v]
        /\ valid'[t] # "none" /\ validated'[t] = validated[t]
    BY <1>4 DEF IInv, TypeOK
  <2>3. KeepsValidations BY <1>4 DEF KeepsValidations
  <2> QED BY <1>1, <1>2, <1>4, <2>1, <2>2, <2>3, NoCallHears
<1>5. CASE /\ t \in Calls /\ EndWithError(t, known)
           /\ UNCHANGED <<planVars, payload, token, approval, executed>>
  <2>1. UNCHANGED <<validated, valid>> BY <1>5 DEF planVars
  <2>2. /\ stage' = [stage EXCEPT ![t] = "failed"]
        /\ audit' = [audit EXCEPT ![t] = [outcome |-> "error", epoch |-> known]]
    BY <1>5 DEF EndWithError
  <2>3. known \in Epochs BY <1>2
  <2> QED BY <1>1, <1>2, <1>5, <2>1, <2>2, <2>3, CallReturns
<1> QED BY <1>3, <1>4, <1>5 DEF Miss

-----------------------------------------------------------------------------
(* The invariant *)

\* At first no call was made and no plan validated.
LEMMA InitIInv == Init => IInv
PROOF
<1> SUFFICES ASSUME Init PROVE IInv OBVIOUS
<1>1. 0 \in Epochs /\ 0 \in 0..MaxFaults BY ConstantsOK DEF Epochs
<1>2. TypeOK
  BY <1>1, ConstantsOK DEF Init, TypeOK, Stages, NoAnswer, NoToken, NoAudit
<1>3. \A c \in Calls : IsGated(c) /\ IsAccounted(c)
  BY TasksDiffer DEF Init, IsGated, IsAccounted, Ran, NoAudit
<1>4. \A v \in Validations : IsLeased(v) BY DEF Init, IsLeased
<1> QED BY <1>2, <1>3, <1>4 DEF IInv, CallsAreGated, CallsAreAccounted, LeasesAreCurrent

\* No step leaves the invariant.
LEMMA NextIInv == IInv /\ [Next]_vars => IInv'
PROOF
<1> SUFFICES ASSUME IInv, [Next]_vars PROVE IInv' OBVIOUS
<1>1. CASE GameStarts \/ GameEnds BY <1>1, GameStartsIInv, GameEndsIInv
<1>2. ASSUME NEW c \in Calls, CallStep(c) PROVE IInv'
  <2>1. ASSUME NEW p \in Payloads, Refuse(c, p) \/ Propose(c, p) \/ Present(c, p) PROVE IInv'
    BY <2>1, RefuseIInv, ProposeIInv, PresentIInv
  <2>2. CASE Accept(c) \/ Decline(c) \/ HandOut(c) \/ TokenExpires(c) \/ ServeCall(c)
    BY <2>2, AcceptIInv, DeclineIInv, HandOutIInv, TokenExpiresIInv, ServeCallIInv
  <2> QED BY <1>2, <2>1, <2>2 DEF CallStep
<1>3. ASSUME NEW v \in Validations, ValidationStep(v) PROVE IInv'
  BY <1>3, ValidateIInv, ValidationExpiresIInv, ServeValidationIInv, LeaseEndsIInv
     DEF ValidationStep
<1>4. ASSUME NEW t \in Pings, Ping(t) \/ ServePing(t) PROVE IInv' BY <1>4, PingIInv, ServePingIInv
<1>5. ASSUME NEW t \in Tasks, Break(t) \/ Hear(t) \/ Miss(t) PROVE IInv'
  BY <1>5, BreakIInv, HearIInv, MissIInv
<1>6. CASE UNCHANGED vars
  <2>1. /\ UNCHANGED <<game, starts, leased, known, connected, request, answer, waiting>>
        /\ UNCHANGED <<validated, valid, stage, payload, token, approval, executed, audit, faults>>
    BY <1>6 DEF vars, gameVars, hostVars, wireVars, planVars, callVars
  <2>2. TypeOK' BY <2>1 DEF IInv, TypeOK
  <2>3. KeepsValidations BY <2>1 DEF KeepsValidations
  <2>4. \A c \in Calls : IsGated(c)' /\ IsAccounted(c)' BY <2>1, <2>3, CallsStay
  <2>5. \A v \in Validations : IsLeased(v)' BY <2>1, LeaseStays
  <2> QED BY <2>2, <2>4, <2>5, PartsMakeIInv
<1> QED BY <1>1, <1>2, <1>3, <1>4, <1>5, <1>6 DEF Next

-----------------------------------------------------------------------------
(* Theorems *)

\* Every reachable state satisfies the inductive invariant: calls pass the gate
\* as they were proposed, their accounts are right, and leases are current.
THEOREM InductiveInvariant == Spec => []IInv
PROOF
<1> QED BY InitIInv, NextIInv, PTL DEF Spec

\* For any calls, payloads, restarts and faults: what has run in the game was
\* approved, with the same action and arguments, and is bound to a plan that was
\* validated live.
THEOREM MutationsAlwaysAuthorised == Spec => []MutationsAreAuthorised
PROOF
<1>1. IInv => MutationsAreAuthorised
  <2> SUFFICES ASSUME IInv PROVE MutationsAreAuthorised OBVIOUS
  <2>1. ASSUME NEW c \in Calls, Ran(c)
        PROVE  /\ approval[c] # NoCall /\ payload[approval[c]] = payload[c]
               /\ BoundTo(payload[c], TheValidation(c))
    <3>1. approval[c] # NoCall BY <2>1 DEF IInv, CallsAreGated, IsGated
    <3> QED BY <3>1, PassedWithApproval
  <2>2. TypeOK BY DEF IInv
  <2> QED BY <2>1, <2>2 DEF MutationsAreAuthorised, RunsWhatWasApproved, RunsWhatWasValidated
<1> QED BY <1>1, InductiveInvariant, PTL

\* An instance is only touched in the runtime in which its plan was validated,
\* however long the user took and whenever an abandoned request is carried out.
THEOREM ReceiverAlwaysOfItsRuntime == Spec => []ReceiverOfItsRuntime
PROOF
<1>1. IInv => ReceiverOfItsRuntime
  BY DEF IInv, CallsAreAccounted, IsAccounted, ReceiverOfItsRuntime
<1> QED BY <1>1, InductiveInvariant, PTL

\* An audit row that says "executed" names the runtime the mutation ran in.
THEOREM AuditAlwaysNamesTheRuntime == Spec => []AuditNamesTheRuntime
PROOF
<1>1. IInv => AuditNamesTheRuntime
  BY DEF IInv, CallsAreAccounted, IsAccounted, AuditNamesTheRuntime
<1> QED BY <1>1, InductiveInvariant, PTL

\* What has run is in the audit log by the time its call has returned.
THEOREM RunsAlwaysRecorded == Spec => []RunsAreRecorded
PROOF
<1>1. IInv => RunsAreRecorded
  <2> SUFFICES ASSUME IInv, NEW c \in Calls, Ran(c), stage[c] # "calling"
               PROVE  audit[c].outcome # "none"
    BY DEF RunsAreRecorded
  <2>1. approval[c] # NoCall BY DEF IInv, CallsAreGated, IsGated
  <2>2. stage[c] \in {"done", "failed"}
    BY <2>1, PassedWithApproval DEF IInv, TypeOK, Stages
  <2> QED BY <2>2 DEF IInv, CallsAreAccounted, IsAccounted
<1> QED BY <1>1, InductiveInvariant, PTL

\* A step that sends a call does so under one epoch.
LEMMA NextSendsUnderOneEpoch ==
  ASSUME IInv, [Next]_vars, NEW c \in Calls, stage[c] # "calling", stage'[c] = "calling"
  PROVE  validated[TheValidation(c)'] = known /\ token[approval'[c]].epoch = known
PROOF
<1>1. ASSUME NEW b \in Calls, NEW p \in Payloads, Present(b, p)
      PROVE  validated[TheValidation(c)'] = known /\ token[approval'[c]].epoch = known
  <2>1. b = c BY <1>1 DEF Present, IInv, TypeOK
  <2>2. payload'[c] = p BY <1>1, <2>1 DEF Present, Take, IInv, TypeOK
  <2>3. validated[p.validation] = known BY <1>1 DEF Present, PassesPlan, LivePlan
  <2>4. PICK a \in Calls : Verifies(a, p) /\ approval' = [approval EXCEPT ![c] = a]
    BY <1>1, <2>1 DEF Present
  <2>5. approval'[c] = a BY <2>4 DEF IInv, TypeOK
  <2> QED BY <2>2, <2>3, <2>4, <2>5 DEF TheValidation, Verifies
<1>2. ASSUME NEW b \in Calls, Accept(b)
      PROVE  validated[TheValidation(c)'] = known /\ token[approval'[c]].epoch = known
  <2>1. b = c BY <1>2 DEF Accept, EndWithError, IInv, TypeOK
  <2>2. stage[c] = "eliciting" /\ payload' = payload BY <1>2, <2>1 DEF Accept
  <2>3. Verifies(c, payload[c]) /\ approval' = [approval EXCEPT ![c] = c]
    BY <1>2, <2>1, <2>2 DEF Accept, EndWithError, IInv, TypeOK
  <2>4. approval'[c] = c BY <2>3 DEF IInv, TypeOK
  <2>5. validated[TheValidation(c)] = token[c].epoch
    BY <2>2 DEF IInv, CallsAreGated, IsGated
  <2> QED BY <2>2, <2>3, <2>4, <2>5 DEF TheValidation, Verifies
<1>3. ASSUME NEW b \in Calls,
             \/ \E p \in Payloads : Refuse(b, p) \/ Propose(b, p)
             \/ Decline(b) \/ HandOut(b)
      PROVE  FALSE
  BY <1>3 DEF Refuse, Propose, Decline, HandOut, EndWithError, IInv, TypeOK
<1>4. ASSUME NEW t \in Tasks, Hear(t) \/ Miss(t) PROVE FALSE
  BY <1>4 DEF Hear, Miss, Conclude, EndWithError, callVars, IInv, TypeOK
<1>5. stage' # stage OBVIOUS
<1> QED
  BY <1>1, <1>2, <1>3, <1>4, <1>5
     DEF Next, CallStep, ValidationStep, TokenExpires, ServeCall, Validate, ValidationExpires,
         ServeValidation, LeaseEnds, Ping, ServePing, Break, GameStarts, GameEnds, callVars, vars

\* A mutation is sent only while the epoch of its validation, the epoch of its
\* approval and the epoch the host knows are one, whatever happened between the
\* proposal and the answer of the user.
THEOREM AlwaysSentUnderOneEpoch == Spec => SentUnderOneEpoch
PROOF
<1>1. ASSUME IInv, [Next]_vars
      PROVE  [\A c \in Calls : (stage[c] # "calling" /\ stage'[c] = "calling") =>
                /\ validated[TheValidation(c)'] = known
                /\ token[approval'[c]].epoch = known]_vars
  BY <1>1, NextSendsUnderOneEpoch
<1> QED BY <1>1, InductiveInvariant, PTL DEF Spec, SentUnderOneEpoch
=============================================================================
