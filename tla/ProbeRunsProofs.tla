-------------------------- MODULE ProbeRunsProofs --------------------------
(***************************************************************************)
(* Proofs about ProbeRuns for any set of addresses, any limits of a run    *)
(* and any number of runs.                                                 *)
(***************************************************************************)
EXTENDS ProbeRuns, SequenceTheorems, WellFoundedInduction, TLAPS

\* The inductive invariant behind the properties: what the fields of a run say
\* of each other and of the tables that name the run.

\* A run forgets its state at the end of the countdown its request started, and
\* a window is over before the request.
Consistent(run) ==
  /\ run.lua = None => run.requested /\ run.cleanup = 0
  /\ run.lua # None /\ run.requested => run.cleanup > 0
  /\ run.requested => run.state # "running"

RunsAreConsistent == \A r \in Ids : Consistent(runs[r])

\* Until it asks for the destruction, a run owns the state it was created with.
OwnsItsState == \A r \in Ids : ~runs[r].requested => alive[runs[r].lua] = r

\* A state is at the address its run remembers, as long as it remembers one.
StateIsAtItsAddress ==
  \A a \in Addresses :
    /\ alive[a] # 0 => runs[alive[a]].lua \in {a, None}
    /\ byState[a] # 0 => runs[byState[a]].lua = a

IInv ==
  /\ TypeOK /\ OnlyOwnStateIsDestroyed /\ LiveRunsAreListed
  /\ RunsAreConsistent /\ OwnsItsState /\ StateIsAtItsAddress

-----------------------------------------------------------------------------
(* The operators of the model *)

\* The limits are numbers, and a null state has no address.
LEMMA Limits ==
  /\ MaxRuns \in Nat \ {0} /\ FrameLimit \in Nat \ {0} /\ EventLimit \in Nat \ {0}
  /\ CleanupTicks \in Nat \ {0} /\ MaxCreated \in Nat \ {0}
  /\ None \notin Addresses
PROOF
<1> QED BY ConstantsOK

\* request_destroy keeps a run's address and outcome; it changes the run only
\* when it hands the state over, and then starts the countdown.
LEMMA DestroyedRun ==
  ASSUME NEW run \in Run
  PROVE  /\ Destroyed(run) \in Run
         /\ Destroyed(run).lua = run.lua /\ Destroyed(run).state = run.state
         /\ MustDestroy(run) => Destroyed(run).requested /\ Destroyed(run).cleanup = CleanupTicks
         /\ ~MustDestroy(run) => Destroyed(run) = run
PROOF
<1>1. CleanupTicks \in 0..CleanupTicks BY Limits
<1>2. Destroyed(run) \in Run BY <1>1 DEF Destroyed, MustDestroy, Run
<1>3. Destroyed(run).lua = run.lua /\ Destroyed(run).state = run.state
  BY DEF Destroyed, MustDestroy, Run
<1>4. MustDestroy(run) => Destroyed(run).requested /\ Destroyed(run).cleanup = CleanupTicks
  BY DEF Destroyed, Run
<1>5. ~MustDestroy(run) => Destroyed(run) = run BY DEF Destroyed
<1> QED BY <1>2, <1>3, <1>4, <1>5

\* After request_destroy a run that is over has asked for the destruction, and
\* counts down as long as it remembers the address.
LEMMA DestroyedIsConsistent ==
  ASSUME NEW run \in Run, run.state # "running",
         run.lua = None => run.requested /\ run.cleanup = 0,
         run.lua # None /\ run.requested => run.cleanup > 0
  PROVE  Consistent(Destroyed(run)) /\ Destroyed(run).requested
PROOF
<1>1. CASE MustDestroy(run)
  BY <1>1, Limits, DestroyedRun DEF Consistent, MustDestroy
<1>2. CASE ~MustDestroy(run)
  BY <1>2, DestroyedRun DEF Consistent, MustDestroy
<1> QED BY <1>1, <1>2

\* The tick's countdown touches only runs that asked for the destruction.  It
\* takes the address from a run when, and only when, it reaches zero.
LEMMA CountedDown ==
  ASSUME NEW run \in Run, Consistent(run)
  PROVE  /\ Countdown(run) \in Run /\ Consistent(Countdown(run))
         /\ Countdown(run).requested = run.requested
         /\ Countdown(run).state = run.state
         /\ Countdown(run).lua \in {run.lua, None}
         /\ ~run.requested \/ run.lua = None => Countdown(run) = run
PROOF
<1>1. CASE run.requested /\ run.cleanup > 0
  <2> DEFINE next == [run EXCEPT !.cleanup = @ - 1,
                                 !.lua = IF run.cleanup = 1 THEN None ELSE @]
  <2>1. Countdown(run) = next BY <1>1 DEF Countdown
  <2>2. run.cleanup \in 0..CleanupTicks /\ run.cleanup - 1 \in 0..CleanupTicks
    BY <1>1, Limits DEF Run
  <2>3. next \in Run BY <2>2 DEF Run
  <2>4. /\ next.cleanup = run.cleanup - 1 /\ next.requested = run.requested
        /\ next.state = run.state
        /\ next.lua = IF run.cleanup = 1 THEN None ELSE run.lua
    BY DEF Run
  <2>5. run.lua # None BY <1>1 DEF Consistent
  <2>6. Consistent(next) BY <1>1, <2>2, <2>4, <2>5 DEF Consistent
  <2> HIDE DEF next
  <2> QED BY <1>1, <2>1, <2>3, <2>4, <2>5, <2>6
<1>2. CASE ~(run.requested /\ run.cleanup > 0)
  BY <1>2 DEF Countdown
<1> QED BY <1>1, <1>2

\* What scripts can do to a run: it may fail, but keeps its address and its
\* place in the countdown.
OwnershipKept(new, old) ==
  /\ new.lua = old.lua /\ new.requested = old.requested /\ new.cleanup = old.cleanup
  /\ new.state \in {old.state, "failed"}

\* A run that keeps its ownership stays consistent.
LEMMA OwnershipConsistent ==
  ASSUME NEW new, NEW old, OwnershipKept(new, old), Consistent(old)
  PROVE  Consistent(new)
PROOF
<1> QED BY DEF OwnershipKept, Consistent

\* Marking a run as failed keeps its ownership.
LEMMA FailedRuns ==
  ASSUME NEW rs \in Seq(Run), NEW t \in 1..Len(rs)
  PROVE  LET failed == [rs EXCEPT ![t].state = "failed"]
         IN  /\ failed \in Seq(Run) /\ Len(failed) = Len(rs)
             /\ \A q \in 1..Len(rs) : /\ OwnershipKept(failed[q], rs[q])
                                      /\ q # t => failed[q] = rs[q]
PROOF
<1> DEFINE failing == [rs[t] EXCEPT !.state = "failed"]
<1>1. rs[t] \in Run BY ElementOfSeq
<1>2. failing \in Run /\ OwnershipKept(failing, rs[t]) BY <1>1 DEF Run, OwnershipKept
<1>3. [rs EXCEPT ![t].state = "failed"] = [rs EXCEPT ![t] = failing] OBVIOUS
<1>4. \A q \in 1..Len(rs) : OwnershipKept(rs[q], rs[q]) BY DEF OwnershipKept
<1> DEFINE failed == [rs EXCEPT ![t] = failing]
<1> HIDE DEF failing
<1>5. /\ failed \in Seq(Run) /\ Len(failed) = Len(rs)
      /\ \A q \in 1..Len(rs) : failed[q] = IF q = t THEN failing ELSE rs[q]
  BY <1>2, ExceptSeq
<1> HIDE DEF failed
<1>6. /\ failed \in Seq(Run) /\ Len(failed) = Len(rs)
      /\ \A q \in 1..Len(rs) : /\ OwnershipKept(failed[q], rs[q])
                               /\ q # t => failed[q] = rs[q]
  BY <1>2, <1>4, <1>5
<1> QED BY <1>3, <1>6 DEF failed

\* An event changes nothing of a run but the number of its events.
LEMMA EmittedRuns ==
  ASSUME NEW rs \in Seq(Run), NEW t \in 0..Len(rs)
  PROVE  /\ Emitted(rs, t) \in Seq(Run) /\ Len(Emitted(rs, t)) = Len(rs)
         /\ \A q \in 1..Len(rs) : /\ OwnershipKept(Emitted(rs, t)[q], rs[q])
                                  /\ q # t => Emitted(rs, t)[q] = rs[q]
PROOF
<1>0. \A q \in 1..Len(rs) : OwnershipKept(rs[q], rs[q]) BY DEF OwnershipKept
<1>1. CASE t = 0 \/ rs[t].events >= EventLimit
  BY <1>0, <1>1 DEF Emitted
<1>2. CASE ~(t = 0 \/ rs[t].events >= EventLimit)
  <2> DEFINE more == [rs[t] EXCEPT !.events = @ + 1]
  <2>1. t \in 1..Len(rs) BY <1>2
  <2>2. rs[t] \in Run BY <2>1, ElementOfSeq
  <2>3. rs[t].events + 1 \in 0..EventLimit
    <3>1. rs[t].events \in 0..EventLimit BY <2>2 DEF Run
    <3> QED BY <1>2, <3>1, Limits
  <2>4. more \in Run BY <2>2, <2>3 DEF Run
  <2>5. OwnershipKept(more, rs[t]) BY <2>2 DEF Run, OwnershipKept
  <2>6. Emitted(rs, t) = [rs EXCEPT ![t] = more]
    BY <1>2, <2>1 DEF Emitted
  <2> HIDE DEF more
  <2> QED BY <1>0, <2>1, <2>4, <2>5, <2>6, ExceptSeq
<1> QED BY <1>1, <1>2

\* The tick takes the address only from a run whose countdown it ends, keeps
\* every request, and leaves a settled run alone.
LEMMA TickedRun ==
  ASSUME NEW run \in Run, Consistent(run)
  PROVE  /\ Ticked(run) \in Run /\ Consistent(Ticked(run))
         /\ Ticked(run).lua \in {run.lua, None}
         /\ run.requested => Ticked(run).requested
         /\ ~run.requested => Ticked(run).lua = run.lua
         /\ run.lua = None => Ticked(run) = run
PROOF
<1>1. CASE run.state = "running" /\ WindowOver(run)
  <2> DEFINE over == [run EXCEPT !.state = "completed"]
  <2>1. over \in Run BY DEF Run
  <2>2. /\ over.lua = run.lua /\ over.requested = run.requested
        /\ over.cleanup = run.cleanup /\ over.state = "completed"
    BY DEF Run
  <2>3. ~run.requested /\ run.lua # None BY <1>1 DEF Consistent
  <2>4. Consistent(over) BY <2>2 DEF Consistent
  <2>5. Ticked(run) = Destroyed(Countdown(over)) BY <1>1 DEF Ticked, LeftOver
  <2> HIDE DEF over
  <2>6. Countdown(over) = over BY <2>1, <2>2, <2>3, <2>4, CountedDown
  <2>7. Consistent(Destroyed(over)) BY <2>1, <2>2, <2>3, DestroyedIsConsistent
  <2> QED BY <2>1, <2>2, <2>3, <2>5, <2>6, <2>7, DestroyedRun
<1>2. CASE run.state = "running" /\ ~WindowOver(run)
  <2> DEFINE more == [run EXCEPT !.frames = @ + 1]
  <2>1. more \in Run
    <3>1. run.frames \in 0..FrameLimit BY DEF Run
    <3>2. run.frames + 1 \in 0..FrameLimit BY <1>2, <3>1, Limits DEF WindowOver
    <3> QED BY <3>2 DEF Run
  <2>2. /\ more.lua = run.lua /\ more.requested = run.requested
        /\ more.cleanup = run.cleanup /\ more.state = run.state
    BY DEF Run
  <2>3. ~run.requested /\ run.lua # None BY <1>2 DEF Consistent
  <2>4. Consistent(more) BY <2>2 DEF Consistent
  <2>5. Ticked(run) = Countdown(more) BY <1>2 DEF Ticked, LeftOver
  <2> HIDE DEF more
  <2>6. Countdown(more) = more BY <2>1, <2>2, <2>3, <2>4, CountedDown
  <2> QED BY <2>1, <2>2, <2>3, <2>4, <2>5, <2>6
<1>3. CASE LeftOver(run)
  <2>1. ~run.requested /\ run.lua # None /\ run.state # "running" BY <1>3 DEF LeftOver
  <2>2. Ticked(run) = Destroyed(Countdown(run)) BY <1>3, <2>1 DEF Ticked
  <2>3. Countdown(run) = run BY <2>1, CountedDown
  <2>4. Consistent(Destroyed(run)) BY <2>1, DestroyedIsConsistent
  <2> QED BY <2>1, <2>2, <2>3, <2>4, DestroyedRun
<1>4. CASE run.state # "running" /\ ~LeftOver(run)
  <2>1. Ticked(run) = Countdown(run) BY <1>4 DEF Ticked
  <2>2. ~run.requested => Countdown(run) = run BY CountedDown
  <2> QED BY <2>1, <2>2, CountedDown
<1> QED BY <1>1, <1>2, <1>3, <1>4

\* A set of numbers has a least one.
LEMMA HasLeast ==
  ASSUME NEW D \in SUBSET Nat, D # {}
  PROVE  \E d \in D : \A e \in D : d <= e
PROOF
<1> DEFINE Less == {ss \in Nat \X Nat : ss[1] < ss[2]}
<1>1. IsWellFoundedOn(Less, Nat)
  <2>1. OpToRel(<, Nat) = Less BY DEF OpToRel
  <2> QED BY <2>1, NatLessThanWellFounded
<1> HIDE DEF Less
<1>2. PICK d \in D : \A e \in D : ~(<<e, d>> \in Less) BY <1>1, WFMin
<1>3. ASSUME NEW e \in D PROVE d <= e
  <2>1. e < d => <<e, d>> \in Less BY DEF Less
  <2> QED BY <1>2, <2>1
<1> QED BY <1>3

\* A bounded set of numbers has the greatest element Max names.
LEMMA MaxOfBounded ==
  ASSUME NEW m \in Nat, NEW T \in SUBSET (0..m), T # {}
  PROVE  Max(T) \in T /\ \A y \in T : Max(T) >= y
PROOF
<1> DEFINE D == {n \in 0..m : m - n \in T}
<1>1. ASSUME NEW t \in T PROVE m - t \in D
  <2>1. m - t \in 0..m /\ m - (m - t) = t OBVIOUS
  <2> QED BY <2>1
<1>2. D # {}
  <2>1. PICK t \in T : TRUE OBVIOUS
  <2> QED BY <1>1, <2>1
<1>3. D \in SUBSET Nat OBVIOUS
<1>4. PICK d \in D : \A e \in D : d <= e BY <1>2, <1>3, HasLeast
<1>5. m - d \in T OBVIOUS
<1>6. ASSUME NEW y \in T PROVE m - d >= y
  <2>1. y \in 0..m /\ d \in 0..m OBVIOUS
  <2>2. d <= m - y BY <1>1, <1>4
  <2> QED BY <2>1, <2>2
<1>7. \E x \in T : \A y \in T : x >= y BY <1>5, <1>6
<1> QED BY <1>7 DEF Max

\* The tick drops results from the front of the list, and only of runs whose
\* state is gone and whose window is closed.
LEMMA EvictedRuns ==
  ASSUME NEW rs, order \in Seq(Nat)
  PROVE  /\ Evicted(rs) \in 0..Len(order)
         /\ \A i \in 1..Evicted(rs) : rs[order[i]].lua = None
PROOF
<1> DEFINE free(i) == rs[order[i]].state # "running" /\ rs[order[i]].lua = None
           T == {0} \cup {k \in 1..Len(order) : /\ k <= Len(order) - MaxRuns
                                                /\ \A i \in 1..k : free(i)}
<1>1. Len(order) \in Nat OBVIOUS
<1>2. T \in SUBSET (0..Len(order)) /\ T # {} BY <1>1
<1>3. Evicted(rs) = Max(T) BY DEF Evicted
<1>4. \A k \in T : \A i \in 1..k : rs[order[i]].lua = None OBVIOUS
<1> HIDE DEF T
<1>5. Max(T) \in T BY <1>1, <1>2, MaxOfBounded
<1> QED BY <1>2, <1>3, <1>4, <1>5

-----------------------------------------------------------------------------
(* Kinds of steps *)

\* A step that leaves a settled run as it is.
SettledKept == \A r \in Ids : runs[r].lua = None => runs'[r] = runs[r]

\* A step in which runs only record something or ask for the destruction of
\* their own states, each once, keeps the invariant.
LEMMA RunsChange ==
  ASSUME IInv,
         runs' \in Seq(Run), Len(runs') = Len(runs),
         \A q \in Ids : /\ Consistent(runs'[q]) /\ runs'[q].lua = runs[q].lua
                        /\ runs[q].requested => runs'[q].requested,
         doomed' = doomed \cup {runs[q].lua :
                     q \in {p \in Ids : ~runs[p].requested /\ runs'[p].requested}},
         closing' \in BOOLEAN,
         UNCHANGED <<order, byState, alive, again, known>>
  PROVE  IInv'
PROOF
<1> USE DEF IInv
<1>0. Ids' = Ids /\ Len(runs) \in Nat BY DEF Ids, TypeOK
<1>1. \A q \in Ids : ~runs[q].requested => runs[q].lua \in Addresses /\ alive[runs[q].lua] = q
  <2> SUFFICES ASSUME NEW q \in Ids, ~runs[q].requested
               PROVE  runs[q].lua \in Addresses /\ alive[runs[q].lua] = q
    OBVIOUS
  <2>1. runs[q] \in Run BY ElementOfSeq DEF Ids, TypeOK
  <2>2. runs[q].lua # None BY DEF RunsAreConsistent, Consistent
  <2> QED BY <2>1, <2>2 DEF Run, OwnsItsState
<1>2. TypeOK'
  <2>1. doomed' \subseteq Addresses BY <1>1 DEF TypeOK
  <2> QED BY <2>1, <1>0 DEF TypeOK
<1>3. OnlyOwnStateIsDestroyed'
  <2> SUFFICES ASSUME NEW a \in doomed'
               PROVE  alive[a] # 0 /\ runs'[alive[a]].requested
    BY DEF OnlyOwnStateIsDestroyed
  <2>1. CASE a \in doomed
    <3>1. a \in Addresses /\ alive[a] \in Ids /\ runs[alive[a]].requested
      BY <2>1, <1>0 DEF OnlyOwnStateIsDestroyed, TypeOK, Ids
    <3> QED BY <3>1 DEF Ids
  <2>2. CASE a \notin doomed
    <3>1. PICK q \in Ids : a = runs[q].lua /\ ~runs[q].requested /\ runs'[q].requested
      BY <2>2
    <3> QED BY <1>1, <3>1 DEF Ids
  <2> QED BY <2>1, <2>2
<1>4. LiveRunsAreListed' BY <1>0 DEF LiveRunsAreListed
<1>5. RunsAreConsistent' BY <1>0 DEF RunsAreConsistent
<1>6. OwnsItsState' BY <1>0 DEF OwnsItsState
<1>7. StateIsAtItsAddress'
  <2>1. \A a \in Addresses : alive[a] \in 0..Len(runs) /\ byState[a] \in 0..Len(runs)
    BY DEF TypeOK
  <2>2. \A a \in Addresses : (alive[a] # 0 => alive[a] \in Ids) /\ (byState[a] # 0 => byState[a] \in Ids)
    BY <2>1, <1>0 DEF Ids
  <2> QED BY <2>2 DEF StateIsAtItsAddress
<1> QED BY <1>2, <1>3, <1>4, <1>5, <1>6, <1>7

\* A step that creates a run at a free address keeps the invariant: the address
\* is not due for destruction, and the run is the one REFramework has there.
LEMMA RunCreated ==
  ASSUME IInv, NEW a \in Addresses, CanCreate(a), Create(a),
         runs' \in Seq(Run), Len(runs') = Len(runs) + 1,
         \A q \in Ids : /\ Consistent(runs'[q]) /\ runs'[q].lua = runs[q].lua
                        /\ runs'[q].requested = runs[q].requested,
         Consistent(runs'[Len(runs) + 1]), runs'[Len(runs) + 1].lua = a,
         doomed' = IF runs'[Len(runs) + 1].requested THEN doomed \cup {a} ELSE doomed,
         known' \subseteq Ids', again' \in Modes \cup {"no"}, UNCHANGED closing
  PROVE  IInv'
PROOF
<1> DEFINE n == Len(runs) + 1
<1> USE DEF IInv
<1>0. n \in Nat \ {0} /\ Len(runs) \in Nat /\ Ids' = Ids \cup {n} /\ n \notin Ids BY DEF Ids, TypeOK
<1>1. \A b \in Addresses : /\ alive[b] \in Ids \cup {0} /\ byState[b] \in Ids \cup {0}
                           /\ alive'[b] = IF b = a THEN n ELSE alive[b]
                           /\ byState'[b] = IF b = a /\ byState[a] = 0 THEN n ELSE byState[b]
  BY <1>0 DEF TypeOK, Ids, Create, Mapped
<1>2. alive[a] = 0 /\ n <= MaxCreated BY <1>0, Limits DEF CanCreate
<1>3. /\ order' \in Seq(Ids') /\ Len(order') = Len(order) + 1
      /\ \A i \in 1..Len(order) : order'[i] = order[i]
      /\ order'[Len(order) + 1] = n
  <2>1. order \in Seq(Ids') BY <1>0, SeqMonotonic DEF TypeOK
  <2> QED BY <2>1, <1>0, AppendProperties DEF Create
<1>4. TypeOK'
  <2>1. alive' \in [Addresses -> 0..n] /\ byState' \in [Addresses -> 0..n]
    <3>1. \A b \in Addresses : alive'[b] \in 0..n /\ byState'[b] \in 0..n BY <1>0, <1>1 DEF Ids
    <3>2. alive' = [b \in Addresses |-> alive'[b]] /\ byState' = [b \in Addresses |-> byState'[b]]
      BY DEF Create, TypeOK, Mapped
    <3> QED BY <3>1, <3>2
  <2>2. doomed' \subseteq Addresses BY DEF TypeOK
  <2> QED BY <2>1, <2>2, <1>2, <1>3 DEF TypeOK
<1>5. OnlyOwnStateIsDestroyed'
  <2> SUFFICES ASSUME NEW b \in doomed'
               PROVE  alive'[b] # 0 /\ runs'[alive'[b]].requested
    BY DEF OnlyOwnStateIsDestroyed
  <2>1. CASE b \in doomed
    <3>1. b \in Addresses /\ alive[b] # 0 /\ runs[alive[b]].requested
      BY <2>1 DEF OnlyOwnStateIsDestroyed, TypeOK
    <3>2. b # a /\ alive[b] \in Ids /\ alive'[b] = alive[b] BY <3>1, <1>1, <1>2
    <3> QED BY <3>1, <3>2
  <2>2. CASE b \notin doomed
    <3>1. b = a /\ runs'[n].requested BY <2>2
    <3> QED BY <3>1, <1>0, <1>1
  <2> QED BY <2>1, <2>2
<1>6. LiveRunsAreListed'
  <2> SUFFICES ASSUME NEW r \in Ids', runs'[r].lua # None
               PROVE  \E i \in DOMAIN order' : order'[i] = r
    BY DEF LiveRunsAreListed
  <2>0. Len(order) \in Nat /\ DOMAIN order = 1..Len(order) /\ DOMAIN order' = 1..Len(order) + 1
    BY <1>3, LenProperties DEF TypeOK
  <2>1. CASE r \in Ids
    <3>1. PICK i \in DOMAIN order : order[i] = r BY <2>1 DEF LiveRunsAreListed
    <3> QED BY <3>1, <2>0, <1>3
  <2>2. CASE r = n
    BY <2>2, <2>0, <1>3
  <2> QED BY <2>1, <2>2, <1>0
<1>7. RunsAreConsistent' BY <1>0 DEF RunsAreConsistent
<1>8. OwnsItsState'
  <2> SUFFICES ASSUME NEW r \in Ids', ~runs'[r].requested
               PROVE  alive'[runs'[r].lua] = r
    BY DEF OwnsItsState
  <2>1. CASE r \in Ids
    <3>1. runs[r].lua # None /\ alive[runs[r].lua] = r BY <2>1 DEF OwnsItsState, RunsAreConsistent, Consistent
    <3>2. runs[r] \in Run BY <2>1, ElementOfSeq DEF TypeOK, Ids
    <3>3. runs[r].lua \in Addresses BY <3>1, <3>2 DEF Run
    <3>4. runs[r].lua # a BY <2>1, <3>1, <1>0, <1>2 DEF Ids
    <3> QED BY <2>1, <3>1, <3>3, <3>4, <1>1
  <2>2. CASE r = n
    BY <2>2, <1>1
  <2> QED BY <2>1, <2>2, <1>0
<1>9. StateIsAtItsAddress'
  <2> SUFFICES ASSUME NEW b \in Addresses
               PROVE  /\ alive'[b] # 0 => runs'[alive'[b]].lua \in {b, None}
                      /\ byState'[b] # 0 => runs'[byState'[b]].lua = b
    BY DEF StateIsAtItsAddress
  <2>1. alive'[b] # 0 => runs'[alive'[b]].lua \in {b, None} BY <1>1 DEF StateIsAtItsAddress
  <2>2. byState'[b] # 0 => runs'[byState'[b]].lua = b BY <1>1 DEF StateIsAtItsAddress
  <2> QED BY <2>1, <2>2
<1> QED BY <1>4, <1>5, <1>6, <1>7, <1>8, <1>9

\* create_run appends a run that owns a state and has asked for nothing.
LEMMA CreatedRuns ==
  ASSUME IInv, NEW a \in Addresses, NEW mode \in Modes \cup {"compile"}
  PROVE  /\ Created(mode, a) \in Seq(Run) /\ Len(Created(mode, a)) = Len(runs) + 1
         /\ \A q \in Ids : Created(mode, a)[q] = runs[q]
         /\ LET new == Created(mode, a)[Len(runs) + 1]
            IN  /\ new \in Run /\ new.lua = a /\ ~new.requested /\ new.cleanup = 0
                /\ new.state = "created"
PROOF
<1> DEFINE new == [mode |-> mode, state |-> "created", lua |-> a,
                   requested |-> FALSE, cleanup |-> 0, frames |-> 0,
                   events |-> 0, late |-> FALSE]
<1>1. 0 \in 0..CleanupTicks /\ 0 \in 0..FrameLimit /\ 0 \in 0..EventLimit BY Limits
<1>2. new \in Run BY <1>1 DEF Run
<1>3. Created(mode, a) = Append(runs, new) BY DEF Created
<1>4. new.lua = a /\ ~new.requested /\ new.cleanup = 0 /\ new.state = "created" OBVIOUS
<1> HIDE DEF new
<1> QED BY <1>2, <1>3, <1>4, AppendProperties DEF IInv, TypeOK, Ids

\* InstallFails keeps the inductive invariant and leaves settled runs alone.
LEMMA InstallFailsStep ==
  ASSUME IInv, NEW a \in Addresses, InstallFails(a)
  PROVE  IInv' /\ SettledKept
PROOF
<1> DEFINE n == Len(runs) + 1
           new == Created("compile", a)[n]
<1>0. n \in 1..n /\ n \notin Ids /\ \A q \in Ids : q \in 1..n /\ q # n BY DEF Ids, IInv, TypeOK
<1>1. new \in Run /\ new.lua = a /\ ~new.requested /\ new.cleanup = 0 /\ new.state = "created"
  BY CreatedRuns
<1>2. /\ Destroyed(new) \in Run /\ Consistent(Destroyed(new)) /\ Destroyed(new).requested
      /\ Destroyed(new).lua = a
  BY <1>1, Limits, DestroyedRun, DestroyedIsConsistent
<1>3. runs' = [Created("compile", a) EXCEPT ![n] = Destroyed(new)] BY DEF InstallFails
<1> HIDE DEF new
<1>4. /\ runs' \in Seq(Run) /\ Len(runs') = n /\ runs'[n] = Destroyed(new)
      /\ \A q \in Ids : runs'[q] = runs[q]
  BY <1>0, <1>2, <1>3, CreatedRuns, ExceptSeq
<1>5. known' \subseteq Ids' BY <1>4, <1>0 DEF InstallFails, IInv, TypeOK, Ids
<1>6. IInv'
  BY <1>2, <1>4, <1>5, RunCreated DEF InstallFails, IInv, RunsAreConsistent
<1>7. SettledKept BY <1>4 DEF SettledKept
<1> QED BY <1>6, <1>7

\* Compile keeps the inductive invariant and leaves settled runs alone.
LEMMA CompileStep ==
  ASSUME IInv, NEW a \in Addresses, Compile(a)
  PROVE  IInv' /\ SettledKept
PROOF
<1> DEFINE n == Len(runs) + 1
           new == Created("compile", a)[n]
<1>1. PICK outcome \in {"compiled", "failed"} :
        runs' = [Created("compile", a) EXCEPT ![n] = Destroyed([@ EXCEPT !.state = outcome])]
  BY DEF Compile
<1> DEFINE told == [new EXCEPT !.state = outcome]
<1>0. n \in 1..n /\ n \notin Ids /\ \A q \in Ids : q \in 1..n /\ q # n BY DEF Ids, IInv, TypeOK
<1>2. new \in Run /\ new.lua = a /\ ~new.requested /\ new.cleanup = 0 BY CreatedRuns
<1>3. told \in Run /\ told.lua = a /\ ~told.requested /\ told.cleanup = 0 /\ told.state # "running"
  BY <1>2 DEF Run
<1>4. runs' = [Created("compile", a) EXCEPT ![n] = Destroyed(told)] BY <1>1
<1> HIDE DEF told
<1>5. /\ Destroyed(told) \in Run /\ Consistent(Destroyed(told)) /\ Destroyed(told).requested
      /\ Destroyed(told).lua = a
  BY <1>3, Limits, DestroyedRun, DestroyedIsConsistent
<1>6. /\ runs' \in Seq(Run) /\ Len(runs') = n /\ runs'[n] = Destroyed(told)
      /\ \A q \in Ids : runs'[q] = runs[q]
  BY <1>0, <1>4, <1>5, CreatedRuns, ExceptSeq
<1>7. known' \subseteq Ids' BY <1>6, <1>0 DEF Compile, IInv, TypeOK, Ids
<1>8. IInv'
  BY <1>5, <1>6, <1>7, RunCreated DEF Compile, IInv, RunsAreConsistent, TypeOK
<1>9. SettledKept BY <1>6 DEF SettledKept
<1> QED BY <1>8, <1>9

\* What run_lua_probe leaves behind, in either call of the adapter: the new run
\* owns its state or has handed it over, and of the other runs only the one the
\* address is still mapped to can have changed, by an event or a failure.
LEMMA ExecutedRuns ==
  ASSUME IInv, NEW a \in Addresses, NEW mode \in Modes, Execute(mode, a)
  PROVE  /\ runs' \in Seq(Run) /\ Len(runs') = Len(runs) + 1
         /\ \A q \in Ids : /\ Consistent(runs'[q]) /\ runs'[q].lua = runs[q].lua
                           /\ runs'[q].requested = runs[q].requested
         /\ Consistent(runs'[Len(runs) + 1]) /\ runs'[Len(runs) + 1].lua = a
         /\ doomed' = IF runs'[Len(runs) + 1].requested THEN doomed \cup {a} ELSE doomed
         /\ SettledKept
PROOF
<1> DEFINE n == Len(runs) + 1
           target == Mapped(a, n)[a]
           new == Created(mode, a)[n]
           running == [new EXCEPT !.state = "running", !.frames = 1]
           started == [Created(mode, a) EXCEPT ![n].state = "running", ![n].frames = 1]
<1>0. /\ n \in 1..n /\ n \notin Ids /\ n # 0
      /\ \A q \in Ids : q \in 1..n /\ q # n
  BY DEF Ids, IInv, TypeOK
<1>1. PICK outcome \in {"ok", "error", "limited", "caught"}, emits \in BOOLEAN :
        LET told == IF emits THEN Emitted(started, target) ELSE started
            hooked == IF outcome \in {"limited", "caught"}
                      THEN [told EXCEPT ![target].state = "failed"] ELSE told
            threw == outcome \in {"error", "limited"}
            over == threw \/ mode = "oneshot"
            final == IF threw THEN "failed" ELSE "completed"
        IN  /\ runs' = [hooked EXCEPT ![n] =
                          IF over THEN Destroyed([@ EXCEPT !.state = final]) ELSE @]
            /\ doomed' = IF over THEN doomed \cup {a} ELSE doomed
  BY DEF Execute
<1> DEFINE told == IF emits THEN Emitted(started, target) ELSE started
           hooked == IF outcome \in {"limited", "caught"}
                     THEN [told EXCEPT ![target].state = "failed"] ELSE told
           threw == outcome \in {"error", "limited"}
           over == threw \/ mode = "oneshot"
           final == IF threw THEN "failed" ELSE "completed"
           done == [hooked[n] EXCEPT !.state = final]
           last == IF over THEN Destroyed(done) ELSE hooked[n]
<1>2. target \in 1..n /\ (target # n => target \in Ids /\ runs[target].lua = a)
  <2>1. byState[a] \in 0..Len(runs) /\ (byState[a] # 0 => runs[byState[a]].lua = a)
    BY DEF IInv, TypeOK, StateIsAtItsAddress
  <2>2. target = IF byState[a] = 0 THEN n ELSE byState[a] BY DEF Mapped, IInv, TypeOK
  <2> QED BY <2>1, <2>2, <1>0 DEF Ids
<1>3. /\ started \in Seq(Run) /\ Len(started) = n /\ \A q \in Ids : started[q] = runs[q]
      /\ started[n].lua = a /\ ~started[n].requested /\ started[n].cleanup = 0
  <2>1. 1 \in 0..FrameLimit BY Limits
  <2>2. new \in Run /\ new.lua = a /\ ~new.requested /\ new.cleanup = 0 BY CreatedRuns
  <2>3. running \in Run /\ running.lua = a /\ ~running.requested /\ running.cleanup = 0
    BY <2>1, <2>2 DEF Run
  <2>4. started = [Created(mode, a) EXCEPT ![n] = running] BY <1>0, CreatedRuns
  <2> HIDE DEF running, new, started
  <2> QED BY <2>3, <2>4, <1>0, CreatedRuns, ExceptSeq
<1> HIDE DEF started, target
<1>4. /\ told \in Seq(Run) /\ Len(told) = n
      /\ \A q \in 1..n : /\ OwnershipKept(told[q], started[q])
                         /\ q # target => told[q] = started[q]
  <2>1. \A q \in 1..n : OwnershipKept(started[q], started[q]) BY DEF OwnershipKept
  <2>2. target \in 0..n BY <1>2
  <2> QED BY <2>1, <2>2, <1>3, EmittedRuns
<1> HIDE DEF told
<1>5. /\ hooked \in Seq(Run) /\ Len(hooked) = n
      /\ \A q \in 1..n : /\ OwnershipKept(hooked[q], started[q])
                         /\ q # target => hooked[q] = started[q]
  <2>1. CASE outcome \in {"limited", "caught"}
    <3>1. hooked = [told EXCEPT ![target].state = "failed"] BY <2>1
    <3> HIDE DEF hooked
    <3>2. /\ hooked \in Seq(Run) /\ Len(hooked) = n
          /\ \A q \in 1..n : /\ OwnershipKept(hooked[q], told[q])
                             /\ q # target => hooked[q] = told[q]
      BY <3>1, <1>2, <1>4, FailedRuns
    <3>3. \A q \in 1..n : OwnershipKept(hooked[q], started[q]) BY <3>2, <1>4 DEF OwnershipKept
    <3> QED BY <3>2, <3>3, <1>4
  <2>2. CASE outcome \notin {"limited", "caught"}
    BY <2>2, <1>4
  <2> QED BY <2>1, <2>2
<1>6. /\ runs' = [hooked EXCEPT ![n] = last]
      /\ doomed' = IF over THEN doomed \cup {a} ELSE doomed
  BY <1>1 DEF told
<1> HIDE DEF hooked
<1>7. /\ last \in Run /\ last.lua = a /\ Consistent(last) /\ (last.requested <=> over)
  <2>1. hooked[n] \in Run /\ hooked[n].lua = a /\ ~hooked[n].requested /\ hooked[n].cleanup = 0
    BY <1>0, <1>3, <1>5, ElementOfSeq DEF OwnershipKept
  <2>2. /\ done \in Run /\ done.lua = a /\ ~done.requested /\ done.cleanup = 0
        /\ done.state # "running"
    BY <2>1 DEF Run
  <2> HIDE DEF done
  <2>3. /\ Destroyed(done) \in Run /\ Destroyed(done).lua = a /\ Consistent(Destroyed(done))
        /\ Destroyed(done).requested
    BY <2>2, Limits, DestroyedRun, DestroyedIsConsistent
  <2>4. Consistent(hooked[n]) BY <2>1, Limits DEF Consistent
  <2> HIDE DEF over
  <2> QED BY <2>1, <2>3, <2>4
<1> HIDE DEF last, over
<1>8. /\ runs' \in Seq(Run) /\ Len(runs') = n /\ runs'[n] = last
      /\ \A q \in Ids : runs'[q] = hooked[q]
  BY <1>0, <1>5, <1>6, <1>7, ExceptSeq
<1>9. \A q \in Ids : OwnershipKept(runs'[q], runs[q]) /\ (q # target => runs'[q] = runs[q])
  BY <1>0, <1>3, <1>5, <1>8
<1>10. \A q \in Ids : /\ Consistent(runs'[q]) /\ runs'[q].lua = runs[q].lua
                      /\ runs'[q].requested = runs[q].requested
  BY <1>9, OwnershipConsistent DEF IInv, RunsAreConsistent, OwnershipKept
<1>11. SettledKept BY <1>0, <1>2, <1>9, Limits DEF SettledKept
<1> QED BY <1>6, <1>7, <1>8, <1>10, <1>11

\* Invoke keeps the inductive invariant and leaves settled runs alone.
LEMMA InvokeStep ==
  ASSUME IInv, NEW a \in Addresses, NEW mode \in Modes, Invoke(mode, a)
  PROVE  IInv' /\ SettledKept
PROOF
<1> USE DEF Invoke
<1>1. Len(runs') \in Ids' /\ Ids \subseteq Ids' BY ExecutedRuns DEF Ids, IInv, TypeOK
<1>2. known' \subseteq Ids' /\ again' \in Modes \cup {"no"} BY <1>1 DEF IInv, TypeOK
<1> QED BY <1>2, ExecutedRuns, RunCreated DEF Execute

\* Reinvoke keeps the inductive invariant and leaves settled runs alone.
LEMMA ReinvokeStep ==
  ASSUME IInv, NEW a \in Addresses, Reinvoke(a)
  PROVE  IInv' /\ SettledKept
PROOF
<1> USE DEF Reinvoke
<1>1. again \in Modes BY DEF IInv, TypeOK
<1>2. Len(runs') \in Ids' /\ Ids \subseteq Ids' BY <1>1, ExecutedRuns DEF Ids, IInv, TypeOK
<1>3. known' \subseteq Ids' BY <1>2 DEF IInv, TypeOK
<1> QED BY <1>1, <1>3, ExecutedRuns, RunCreated DEF Execute

\* ReinvokeFails keeps the inductive invariant and leaves settled runs alone.
LEMMA ReinvokeFailsStep ==
  ASSUME IInv, ReinvokeFails
  PROVE  IInv' /\ SettledKept
PROOF
<1> USE DEF ReinvokeFails, IInv
<1>1. TypeOK' BY DEF TypeOK, Ids
<1>2. OnlyOwnStateIsDestroyed' BY DEF OnlyOwnStateIsDestroyed
<1>3. LiveRunsAreListed' BY DEF LiveRunsAreListed, Ids
<1>4. RunsAreConsistent' BY DEF RunsAreConsistent, Ids
<1>5. OwnsItsState' BY DEF OwnsItsState, Ids
<1>6. StateIsAtItsAddress' BY DEF StateIsAtItsAddress
<1> QED BY <1>1, <1>2, <1>3, <1>4, <1>5, <1>6 DEF SettledKept

\* Cancel keeps the inductive invariant and leaves settled runs alone.
LEMMA CancelStep ==
  ASSUME IInv, NEW r \in Ids, Cancel(r)
  PROVE  IInv' /\ SettledKept
PROOF
<1> DEFINE ended == IF runs[r].state = "running"
                    THEN [runs[r] EXCEPT !.state = "cancelled"] ELSE runs[r]
<1>1. runs[r] \in Run /\ Consistent(runs[r])
  BY ElementOfSeq DEF IInv, TypeOK, Ids, RunsAreConsistent
<1>2. /\ ended \in Run /\ ended.lua = runs[r].lua /\ ended.requested = runs[r].requested
      /\ ended.cleanup = runs[r].cleanup /\ ended.state # "running"
      /\ runs[r].requested => ended = runs[r]
  BY <1>1 DEF Run, Consistent
<1>3. runs' = [runs EXCEPT ![r] = Destroyed(ended)] BY DEF Cancel
<1> HIDE DEF ended
<1>4. /\ Destroyed(ended) \in Run /\ Consistent(Destroyed(ended)) /\ Destroyed(ended).requested
      /\ Destroyed(ended).lua = runs[r].lua
      /\ runs[r].requested => Destroyed(ended) = runs[r]
  BY <1>1, <1>2, DestroyedRun, DestroyedIsConsistent DEF Consistent, MustDestroy
<1>5. /\ runs' \in Seq(Run) /\ Len(runs') = Len(runs) /\ runs'[r] = Destroyed(ended)
      /\ \A q \in Ids : q # r => runs'[q] = runs[q]
  BY <1>3, <1>4, ExceptSeq DEF IInv, TypeOK, Ids
<1>6. \A q \in Ids : /\ Consistent(runs'[q]) /\ runs'[q].lua = runs[q].lua
                     /\ runs[q].requested => runs'[q].requested
  BY <1>4, <1>5 DEF IInv, RunsAreConsistent
<1>7. {p \in Ids : ~runs[p].requested /\ runs'[p].requested}
        = IF MustDestroy(runs[r]) THEN {r} ELSE {}
  <2>1. MustDestroy(runs[r]) <=> ~runs[r].requested BY <1>1 DEF MustDestroy, Consistent
  <2> QED BY <2>1, <1>4, <1>5
<1>8. doomed' = doomed \cup {runs[q].lua :
                  q \in {p \in Ids : ~runs[p].requested /\ runs'[p].requested}}
  BY <1>7 DEF Cancel
<1>9. IInv' BY <1>5, <1>6, <1>8, RunsChange DEF Cancel, IInv, TypeOK
<1>10. SettledKept BY <1>1, <1>4, <1>5 DEF SettledKept, Consistent
<1> QED BY <1>9, <1>10

\* Shutdown keeps the inductive invariant and leaves settled runs alone.
LEMMA ShutdownStep ==
  ASSUME IInv, Shutdown
  PROVE  IInv' /\ SettledKept
PROOF
<1> DEFINE ended(r) == IF runs[r].state = "running"
                       THEN [runs[r] EXCEPT !.state = "cancelled"] ELSE runs[r]
<1>1. \A r \in Ids : runs[r] \in Run /\ Consistent(runs[r])
  BY ElementOfSeq DEF IInv, TypeOK, Ids, RunsAreConsistent
<1>2. ASSUME NEW r \in Ids
      PROVE  /\ Destroyed(ended(r)) \in Run /\ Consistent(Destroyed(ended(r)))
             /\ Destroyed(ended(r)).requested /\ Destroyed(ended(r)).lua = runs[r].lua
             /\ runs[r].requested => Destroyed(ended(r)) = runs[r]
  <2>1. /\ ended(r) \in Run /\ ended(r).lua = runs[r].lua
        /\ ended(r).requested = runs[r].requested
        /\ ended(r).cleanup = runs[r].cleanup /\ ended(r).state # "running"
        /\ runs[r].requested => ended(r) = runs[r]
    BY <1>1 DEF Run, Consistent
  <2> HIDE DEF ended
  <2> QED BY <1>1, <2>1, DestroyedRun, DestroyedIsConsistent DEF Consistent, MustDestroy
<1>3. runs' = [r \in Ids |-> Destroyed(ended(r))] BY DEF Shutdown
<1> HIDE DEF ended
<1>4. \A r \in Ids : runs'[r] = Destroyed(ended(r)) BY <1>3
<1>5. runs' \in Seq(Run) /\ Len(runs') = Len(runs)
  <2>1. runs' \in [1..Len(runs) -> Run] BY <1>2, <1>3 DEF Ids
  <2> QED BY <2>1 DEF IInv, TypeOK
<1>6. \A q \in Ids : /\ Consistent(runs'[q]) /\ runs'[q].lua = runs[q].lua
                     /\ runs[q].requested => runs'[q].requested
  BY <1>2, <1>4
<1>7. {q \in Ids : MustDestroy(runs[q])} = {p \in Ids : ~runs[p].requested /\ runs'[p].requested}
  BY <1>1, <1>2, <1>4 DEF MustDestroy, Consistent
<1>8. IInv' BY <1>5, <1>6, <1>7, RunsChange DEF Shutdown, IInv
<1>9. SettledKept BY <1>1, <1>2, <1>4 DEF SettledKept, Consistent
<1> QED BY <1>8, <1>9

\* A step that records an event, a failure or the passing of time in one run,
\* which remembers its state, keeps the invariant.
LEMMA RecordsOnly ==
  ASSUME IInv, NEW t \in 0..Len(runs), t # 0 => runs[t].lua # None,
         runs' \in Seq(Run), Len(runs') = Len(runs),
         \A q \in Ids : OwnershipKept(runs'[q], runs[q]) /\ (q # t => runs'[q] = runs[q]),
         UNCHANGED <<order, byState, alive, doomed, again, known, closing>>
  PROVE  IInv' /\ SettledKept
PROOF
<1>1. \A q \in Ids : /\ Consistent(runs'[q]) /\ runs'[q].lua = runs[q].lua
                     /\ runs'[q].requested = runs[q].requested
  BY OwnershipConsistent DEF IInv, RunsAreConsistent, OwnershipKept
<1>2. doomed' = doomed \cup {runs[q].lua :
                  q \in {p \in Ids : ~runs[p].requested /\ runs'[p].requested}}
  BY <1>1
<1>3. IInv' BY <1>1, <1>2, RunsChange DEF IInv, TypeOK
<1>4. SettledKept BY DEF SettledKept, Ids
<1> QED BY <1>3, <1>4

\* CallbackEmits keeps the inductive invariant and leaves settled runs alone.
LEMMA CallbackEmitsStep ==
  ASSUME IInv, NEW a \in Addresses, CallbackEmits(a)
  PROVE  IInv' /\ SettledKept
PROOF
<1>1. byState[a] \in 0..Len(runs) /\ (byState[a] # 0 => runs[byState[a]].lua # None)
  BY Limits DEF IInv, TypeOK, StateIsAtItsAddress
<1>2. runs' = Emitted(runs, byState[a]) BY DEF CallbackEmits
<1>3. /\ runs' \in Seq(Run) /\ Len(runs') = Len(runs)
      /\ \A q \in Ids : /\ OwnershipKept(runs'[q], runs[q])
                        /\ q # byState[a] => runs'[q] = runs[q]
  BY <1>1, <1>2, EmittedRuns DEF IInv, TypeOK, Ids
<1> QED BY <1>1, <1>3, RecordsOnly DEF CallbackEmits

\* CallbackLimited keeps the inductive invariant and leaves settled runs alone.
LEMMA CallbackLimitedStep ==
  ASSUME IInv, NEW a \in Addresses, CallbackLimited(a)
  PROVE  IInv' /\ SettledKept
PROOF
<1>1. byState[a] \in 1..Len(runs) /\ runs[byState[a]].lua # None
  BY Limits DEF IInv, TypeOK, StateIsAtItsAddress, CallbackLimited
<1>2. runs' = [runs EXCEPT ![byState[a]].state = "failed"] BY DEF CallbackLimited
<1>3. /\ runs' \in Seq(Run) /\ Len(runs') = Len(runs)
      /\ \A q \in Ids : /\ OwnershipKept(runs'[q], runs[q])
                        /\ q # byState[a] => runs'[q] = runs[q]
  BY <1>1, <1>2, FailedRuns DEF IInv, TypeOK, Ids
<1> QED BY <1>1, <1>3, RecordsOnly DEF CallbackLimited

\* DeadlinePasses keeps the inductive invariant and leaves settled runs alone.
LEMMA DeadlinePassesStep ==
  ASSUME IInv, NEW r, DeadlinePasses(r)
  PROVE  IInv' /\ SettledKept
PROOF
<1> DEFINE later == [runs[r] EXCEPT !.late = TRUE]
<1>1. r \in Ids /\ runs[r] \in Run /\ Consistent(runs[r]) /\ runs[r].state = "running"
  BY ElementOfSeq DEF IInv, TypeOK, Ids, RunsAreConsistent, DeadlinePasses
<1>2. r \in 1..Len(runs) /\ runs[r].lua # None BY <1>1 DEF Consistent, Ids
<1>3. later \in Run /\ OwnershipKept(later, runs[r]) BY <1>1 DEF Run, OwnershipKept
<1>4. runs' = [runs EXCEPT ![r] = later] BY DEF DeadlinePasses
<1> HIDE DEF later
<1>5. \A q \in Ids : OwnershipKept(runs[q], runs[q]) BY DEF OwnershipKept
<1>6. /\ runs' \in Seq(Run) /\ Len(runs') = Len(runs)
      /\ \A q \in Ids : OwnershipKept(runs'[q], runs[q]) /\ (q # r => runs'[q] = runs[q])
  BY <1>2, <1>3, <1>4, <1>5, ExceptSeq DEF IInv, TypeOK, Ids
<1>7. r \in 0..Len(runs) BY <1>2
<1> QED BY <1>2, <1>6, <1>7, RecordsOnly DEF DeadlinePasses

\* StateFreed keeps the inductive invariant and leaves settled runs alone: only
\* a run that asked for it loses its state.
LEMMA StateFreedStep ==
  ASSUME IInv, NEW a \in Addresses, StateFreed(a)
  PROVE  IInv' /\ SettledKept
PROOF
<1> USE DEF StateFreed, IInv
<1>1. \A b \in Addresses : alive'[b] = IF b = a THEN 0 ELSE alive[b] BY DEF TypeOK
<1>2. alive[a] # 0 /\ runs[alive[a]].requested BY DEF OnlyOwnStateIsDestroyed
<1>3. TypeOK'
  <2>1. alive' \in [Addresses -> 0..Len(runs)] BY DEF TypeOK
  <2> QED BY <2>1 DEF TypeOK, Ids
<1>4. OnlyOwnStateIsDestroyed' BY <1>1 DEF OnlyOwnStateIsDestroyed, TypeOK
<1>5. LiveRunsAreListed' BY DEF LiveRunsAreListed, Ids
<1>6. RunsAreConsistent' BY DEF RunsAreConsistent, Ids
<1>7. OwnsItsState'
  <2> SUFFICES ASSUME NEW r \in Ids, ~runs[r].requested
               PROVE  alive'[runs[r].lua] = r
    BY DEF OwnsItsState, Ids
  <2>1. runs[r] \in Run BY ElementOfSeq DEF TypeOK, Ids
  <2>2. runs[r].lua \in Addresses /\ alive[runs[r].lua] = r
    BY <2>1 DEF Run, OwnsItsState, RunsAreConsistent, Consistent
  <2> QED BY <2>2, <1>1, <1>2
<1>8. StateIsAtItsAddress' BY <1>1 DEF StateIsAtItsAddress
<1> QED BY <1>3, <1>4, <1>5, <1>6, <1>7, <1>8 DEF SettledKept

\* Tick keeps the inductive invariant and leaves settled runs alone.
LEMMA TickStep ==
  ASSUME IInv, Tick
  PROVE  IInv' /\ SettledKept
PROOF
<1> USE DEF IInv
<1>1. \A r \in Ids : runs[r] \in Run /\ Consistent(runs[r])
  BY ElementOfSeq DEF TypeOK, Ids, RunsAreConsistent
<1>2. runs' = [r \in Ids |-> Ticked(runs[r])] BY DEF Tick
<1>3. \A r \in Ids : /\ runs'[r] \in Run /\ Consistent(runs'[r])
                     /\ runs'[r].lua \in {runs[r].lua, None}
                     /\ runs[r].requested => runs'[r].requested
                     /\ ~runs[r].requested => runs'[r].lua = runs[r].lua
                     /\ runs[r].lua = None => runs'[r] = runs[r]
  BY <1>1, <1>2, TickedRun
<1>4. runs' \in Seq(Run) /\ Len(runs') = Len(runs) /\ Ids' = Ids
  <2>1. runs' \in [1..Len(runs) -> Run] BY <1>2, <1>3 DEF Ids
  <2> QED BY <2>1 DEF TypeOK, Ids
<1>5. \A r \in Ids : ~runs[r].requested => runs[r].lua \in Addresses /\ alive[runs[r].lua] = r
  <2> SUFFICES ASSUME NEW r \in Ids, ~runs[r].requested
               PROVE  runs[r].lua \in Addresses /\ alive[runs[r].lua] = r
    OBVIOUS
  <2>1. runs[r].lua # None BY DEF RunsAreConsistent, Consistent
  <2> QED BY <1>1, <2>1 DEF Run, OwnsItsState
<1>6. /\ order' \in Seq(Ids)
      /\ \A i \in DOMAIN order : runs'[order[i]].lua # None => \E j \in DOMAIN order' : order'[j] = order[i]
  <2> DEFINE e == Evicted(runs')
  <2>1. order \in Seq(Nat) /\ order \in Seq(Ids) BY SeqMonotonic DEF TypeOK, Ids
  <2>2. Len(order) \in Nat /\ DOMAIN order = 1..Len(order) BY <2>1, LenProperties
  <2>3. e \in 0..Len(order) /\ \A i \in 1..e : runs'[order[i]].lua = None BY <2>1, EvictedRuns
  <2>4. order' = SubSeq(order, e + 1, Len(order)) BY DEF Tick
  <2> HIDE DEF e
  <2>5. \A i \in e + 1..Len(order) : order[i] \in Ids BY <2>1, <2>2, <2>3, ElementOfSeq
  <2>6. e + 1 \in Int /\ Len(order) \in Int BY <2>2, <2>3
  <2>7. /\ order' \in Seq(Ids) /\ Len(order') = Len(order) - e
        /\ \A j \in 1..Len(order) - e : order'[j] = order[e + j]
    <3>1. /\ order' \in Seq(Ids)
          /\ Len(order') = IF e + 1 <= Len(order) THEN Len(order) - (e + 1) + 1 ELSE 0
          /\ \A j \in 1..Len(order) - (e + 1) + 1 : order'[j] = order[(e + 1) + j - 1]
      BY <2>4, <2>5, <2>6, SubSeqProperties
    <3>2. Len(order) - (e + 1) + 1 = Len(order) - e BY <2>2, <2>3
    <3>3. \A j \in 1..Len(order) - e : (e + 1) + j - 1 = e + j BY <2>2, <2>3
    <3>4. Len(order') = Len(order) - e
      <4>1. e \in Int /\ Len(order) \in Int /\ e <= Len(order) BY <2>2, <2>3
      <4>2. Len(order') = IF e + 1 <= Len(order) THEN Len(order) - (e + 1) + 1 ELSE 0 BY <3>1
      <4> QED BY <4>1, <4>2
    <3>5. ASSUME NEW j \in 1..Len(order) - e PROVE order'[j] = order[e + j]
      BY <3>1, <3>2, <3>3
    <3> QED BY <3>1, <3>4, <3>5
  <2>8. DOMAIN order' = 1..Len(order) - e BY <2>7, LenProperties
  <2>9. ASSUME NEW i \in DOMAIN order, runs'[order[i]].lua # None
        PROVE  \E j \in DOMAIN order' : order'[j] = order[i]
    <3>1. i \in e + 1..Len(order) BY <2>2, <2>3, <2>9
    <3>2. i - e \in 1..Len(order) - e /\ e + (i - e) = i BY <3>1, <2>2, <2>3
    <3> QED BY <3>2, <2>7, <2>8
  <2> QED BY <2>7, <2>9
<1>7. \A a \in Addresses :
        byState'[a] = IF \E r \in Ids : runs[r].lua = a /\ runs'[r].lua = None THEN 0 ELSE byState[a]
  BY DEF Tick, Forgotten
<1>8. TypeOK'
  <2>1. byState' \in [Addresses -> 0..Len(runs)]
    <3>1. Len(runs) \in Nat /\ \A a \in Addresses : byState[a] \in 0..Len(runs) BY DEF TypeOK
    <3>2. \A a \in Addresses : byState'[a] \in {0, byState[a]} BY <1>7
    <3>3. \A a \in Addresses : byState'[a] \in 0..Len(runs) BY <3>1, <3>2
    <3> QED BY <3>3 DEF Tick, Forgotten
  <2>2. doomed' \subseteq Addresses BY <1>5 DEF Tick, TypeOK
  <2> QED BY <2>1, <2>2, <1>4, <1>6 DEF Tick, TypeOK
<1>9. OnlyOwnStateIsDestroyed'
  <2> SUFFICES ASSUME NEW a \in doomed'
               PROVE  alive[a] # 0 /\ runs'[alive[a]].requested
    BY DEF OnlyOwnStateIsDestroyed, Tick
  <2>1. CASE a \in doomed
    <3>1. a \in Addresses /\ alive[a] \in Ids /\ runs[alive[a]].requested
      BY <2>1 DEF OnlyOwnStateIsDestroyed, TypeOK, Ids
    <3> QED BY <3>1, <1>3 DEF Ids
  <2>2. CASE a \notin doomed
    <3>1. PICK r \in Ids : a = runs[r].lua /\ ~runs[r].requested /\ runs'[r].requested
      BY <2>2 DEF Tick
    <3> QED BY <3>1, <1>5 DEF Ids
  <2> QED BY <2>1, <2>2
<1>10. LiveRunsAreListed'
  <2> SUFFICES ASSUME NEW r \in Ids, runs'[r].lua # None
               PROVE  \E j \in DOMAIN order' : order'[j] = r
    BY <1>4 DEF LiveRunsAreListed
  <2>1. runs[r].lua # None BY <1>3
  <2>2. PICK i \in DOMAIN order : order[i] = r BY <2>1 DEF LiveRunsAreListed
  <2> QED BY <2>2, <1>6
<1>11. RunsAreConsistent' BY <1>3, <1>4 DEF RunsAreConsistent
<1>12. OwnsItsState'
  <2> SUFFICES ASSUME NEW r \in Ids, ~runs'[r].requested
               PROVE  alive[runs'[r].lua] = r
    BY <1>4 DEF OwnsItsState, Tick
  <2>1. ~runs[r].requested /\ runs'[r].lua = runs[r].lua BY <1>3
  <2> QED BY <2>1, <1>5
<1>13. StateIsAtItsAddress'
  <2> SUFFICES ASSUME NEW a \in Addresses
               PROVE  /\ alive[a] # 0 => runs'[alive[a]].lua \in {a, None}
                      /\ byState'[a] # 0 => runs'[byState'[a]].lua = a
    BY DEF StateIsAtItsAddress, Tick
  <2>1. alive[a] # 0 => runs'[alive[a]].lua \in {a, None}
    <3>1. alive[a] # 0 => alive[a] \in Ids /\ runs[alive[a]].lua \in {a, None}
      BY DEF TypeOK, StateIsAtItsAddress, Ids
    <3> QED BY <3>1, <1>3
  <2>2. byState'[a] # 0 => runs'[byState'[a]].lua = a
    <3>1. byState[a] # 0 => byState[a] \in Ids /\ runs[byState[a]].lua = a
      BY DEF TypeOK, StateIsAtItsAddress, Ids
    <3> QED BY <3>1, <1>3, <1>7
  <2> QED BY <2>1, <2>2
<1>14. SettledKept BY <1>3 DEF SettledKept
<1> QED BY <1>8, <1>9, <1>10, <1>11, <1>12, <1>13, <1>14

-----------------------------------------------------------------------------
(* The invariant and the properties *)

\* A service without runs satisfies the invariant.
LEMMA InitIInv == Init => IInv
PROOF
<1> SUFFICES ASSUME Init PROVE IInv OBVIOUS
<1> USE DEF Init
<1>1. Len(runs) = 0 /\ Ids = {} BY DEF Ids
<1>2. TypeOK
  <2>1. 0 <= MaxCreated BY Limits
  <2>2. runs \in Seq(Run) /\ order \in Seq(Ids) BY EmptySeq
  <2>3. byState \in [Addresses -> 0..Len(runs)] /\ alive \in [Addresses -> 0..Len(runs)]
    BY <1>1
  <2> QED BY <2>1, <2>2, <2>3, <1>1 DEF TypeOK
<1> QED BY <1>1, <1>2 DEF IInv, OnlyOwnStateIsDestroyed, LiveRunsAreListed, RunsAreConsistent,
                          OwnsItsState, StateIsAtItsAddress

\* Every step keeps the inductive invariant and leaves settled runs alone.
LEMMA NextIInv ==
  ASSUME IInv, [Next]_vars
  PROVE  IInv' /\ SettledKept
PROOF
<1>1. CASE UNCHANGED vars
  <2> USE <1>1 DEF vars, IInv
  <2>1. TypeOK' BY DEF TypeOK, Ids
  <2>2. OnlyOwnStateIsDestroyed' BY DEF OnlyOwnStateIsDestroyed
  <2>3. LiveRunsAreListed' BY DEF LiveRunsAreListed, Ids
  <2>4. RunsAreConsistent' BY DEF RunsAreConsistent, Ids
  <2>5. OwnsItsState' BY DEF OwnsItsState, Ids
  <2>6. StateIsAtItsAddress' BY DEF StateIsAtItsAddress
  <2> QED BY <2>1, <2>2, <2>3, <2>4, <2>5, <2>6 DEF SettledKept
<1>2. CASE Next
  <2>1. CASE \E a \in Addresses :
               \/ InstallFails(a) \/ Compile(a) \/ Reinvoke(a)
               \/ \E mode \in Modes : Invoke(mode, a)
               \/ CallbackEmits(a) \/ CallbackLimited(a) \/ StateFreed(a)
    BY <2>1, InstallFailsStep, CompileStep, ReinvokeStep, InvokeStep, CallbackEmitsStep,
       CallbackLimitedStep, StateFreedStep
  <2>2. CASE ReinvokeFails BY <2>2, ReinvokeFailsStep
  <2>3. CASE \E r \in 1..MaxCreated : (r \in Ids /\ Cancel(r)) \/ DeadlinePasses(r)
    BY <2>3, CancelStep, DeadlinePassesStep
  <2>4. CASE Tick BY <2>4, TickStep
  <2>5. CASE Shutdown BY <2>5, ShutdownStep
  <2> QED BY <1>2, <2>1, <2>2, <2>3, <2>4, <2>5 DEF Next
<1> QED BY <1>1, <1>2

\* The inductive invariant holds throughout.
THEOREM InductiveInvariant == Spec => []IInv
PROOF
<1> QED BY InitIInv, NextIInv, PTL DEF Spec

\* The tables of the service are well formed and list every run whose state
\* still exists, so get_probe_status and cancel_lua_probe find it.
THEOREM TablesAlwaysSound == Spec => []TablesAreSound
PROOF
<1>1. IInv => TablesAreSound BY DEF IInv, TablesAreSound
<1> QED BY <1>1, InductiveInvariant, PTL

\* REFramework is only asked to destroy a state by the run it belongs to, however
\* often addresses are reused.
THEOREM DestructionIsByOwner == Spec => []OnlyOwnStateIsDestroyed
PROOF
<1>1. IInv => OnlyOwnStateIsDestroyed BY DEF IInv
<1> QED BY <1>1, InductiveInvariant, PTL

\* Nothing changes a run whose countdown is over: neither a callback of its
\* state, if that still exists, nor a run that got its address.
THEOREM SettledStaysFinal == Spec => SettledIsFinal
PROOF
<1>1. IInv /\ [Next]_vars => [\A r \in Ids : runs[r].lua = None => runs'[r] = runs[r]]_vars
  BY NextIInv DEF SettledKept
<1> QED BY <1>1, InductiveInvariant, PTL DEF Spec, SettledIsFinal
=============================================================================
