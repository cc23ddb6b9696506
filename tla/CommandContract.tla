--------------------------- MODULE CommandContract ---------------------------
(***************************************************************************)
(* What the bridge promises the caller of a command, with no queue, no     *)
(* threads and no clock: a command is offered once, takes effect at most   *)
(* once and in the order in which commands were offered, and gets one      *)
(* answer.  A result is only ever reported for a command that took         *)
(* effect; a refused command never takes effect; a command that timed out  *)
(* either is withdrawn for good or had already been picked up, in which    *)
(* case its effect may still come.                                         *)
(***************************************************************************)
EXTENDS Naturals

CONSTANTS Requests,       \* the commands that may be offered
          ReadRequests    \* those answered without touching the game thread

VARIABLES place,          \* position at which a command was offered, 0 = never
          arrivals,       \* number of commands offered so far
          effects,        \* how often a command took effect
          last,           \* position of the command that took effect last
          withdrawn,      \* commands that will never take effect
          answer          \* what the caller was told, "none" at first

cvars == <<place, arrivals, effects, last, withdrawn, answer>>

Results  == {"ok", "error"}
Refusals == {"refused", "full"}

CInit ==
  /\ place = [r \in Requests |-> 0]
  /\ arrivals = 0
  /\ effects = [r \in Requests |-> 0]
  /\ last = 0
  /\ withdrawn = {}
  /\ answer = [r \in Requests |-> "none"]

Pending(r) == place[r] # 0 /\ answer[r] = "none"

Tell(r, a) == answer' = [answer EXCEPT ![r] = a]

Offer(r) ==
  /\ place[r] = 0
  /\ arrivals' = arrivals + 1
  /\ place' = [place EXCEPT ![r] = arrivals + 1]
  /\ UNCHANGED <<effects, last, withdrawn, answer>>

\* The command takes effect: never twice, never once withdrawn, never after
\* a command that was offered later.
TakeEffect(r) ==
  /\ r \notin withdrawn /\ r \notin ReadRequests
  /\ answer[r] \in {"none", "timeout"}
  /\ effects[r] = 0
  /\ place[r] > last
  /\ effects' = [effects EXCEPT ![r] = 1]
  /\ last' = place[r]
  /\ UNCHANGED <<place, arrivals, withdrawn, answer>>

Report(r) ==
  /\ Pending(r)
  /\ effects[r] = 1 \/ r \in ReadRequests
  /\ \E a \in Results : Tell(r, a)
  /\ UNCHANGED <<place, arrivals, effects, last, withdrawn>>

Refuse(r) ==
  /\ Pending(r)
  /\ effects[r] = 0
  /\ \E a \in Refusals : Tell(r, a)
  /\ withdrawn' = withdrawn \cup {r}
  /\ UNCHANGED <<place, arrivals, effects, last>>

\* Out of time: either nothing will ever happen, or the game has it already.
GiveUp(r) ==
  /\ Pending(r)
  /\ Tell(r, "timeout")
  /\ \/ effects[r] = 0 /\ withdrawn' = withdrawn \cup {r}
     \/ UNCHANGED withdrawn
  /\ UNCHANGED <<place, arrivals, effects, last>>

CNext ==
  \E r \in Requests :
    Offer(r) \/ TakeEffect(r) \/ Report(r) \/ Refuse(r) \/ GiveUp(r)

CSpec == CInit /\ [][CNext]_cvars
=============================================================================
