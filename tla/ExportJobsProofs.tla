------------------------- MODULE ExportJobsProofs -------------------------
(***************************************************************************)
(* Proofs about ExportJobs for any number of exports, host jobs, readers   *)
(* and faults.                                                             *)
(***************************************************************************)
EXTENDS ExportJobs, SequenceTheorems, WellFoundedInduction, TLAPS

\* The inductive invariant behind the properties.

\* What the game tells of a job, and what the answer to run_generate_sdk does.
GameOK ==
  /\ gameJob = NoJob <=> gameState = "idle"
  /\ gameState = "completed" => gameJob \in published
  /\ starting # NoAnswer => starting.job \in Exports /\ starting.answer \in BridgeStates
  /\ starting.answer = "completed" => starting.job \in published

\* The call x of the caller c, when the exports in done are published: only the
\* state of an export is ever asked for, a watcher asks for its own, and an answer
\* that says it is completed is true.
CallFits(c, x, done) ==
  x.phase # "none" =>
    /\ x.job \in Exports
    /\ c \in Jobs => x.job = c
    /\ x.phase = "answered" => x.answer \in BridgeStates \cup {"error"}
    /\ x.phase = "answered" /\ x.answer = "completed" => x.job \in done

\* The row r of the job j, which indexes the artifact a and whose finalizer
\* stands at pc, when the exports in done are published and those in whole are
\* imported.  A finalizer only works for a row there is, on an artifact that is
\* published, and from its import on with a complete snapshot; nobody else
\* writes the row of a host job.
JobFits(j, r, a, pc, done, whole) ==
  /\ r.state = "none" => r = NoRow
  /\ r.state \in HostStates => a \in done
  /\ j \in Exports => a = j
  /\ j \in HostJobs => r.state \in {"none", "reused", "host_failed"} \cup HostStates
  /\ j \in HostJobs /\ r.state = "reused" => r.indexed
  /\ j \in HostJobs /\ pc \notin {"none", "scheduled"} => r.state \in HostStates
  /\ pc # "none" => r.state # "none" /\ a \in done
  /\ pc \in {"imported", "activating", "activated"} => a \in whole
  /\ pc \in {"activating", "activated"} => r.activate
  /\ r.indexed \/ r.snapshot => a \in whole
  /\ r.activated => r.activate /\ a \in whole

JobOK(j) == JobFits(j, row[j], artifact[j], finalizer[j], published, snapshots)

JobsOK == \A j \in Jobs : JobOK(j)

CallsOK == \A c \in Callers : CallFits(c, call[c], published)

\* A row of the table, which stays, and a row that is to be reconciled.
Known(j) == row[j].state # "none"

PendingFits(p) ==
  Known(p.job) /\ (p.host => artifact[p.job] \in published) /\ (p.job \in HostJobs => p.host)

PendingOK ==
  /\ \A i \in 1..Len(order) : Known(order[i])
  /\ \A i \in 1..Len(pending) : PendingFits(pending[i])

\* A round of the reconciliation asks about the first of the rows it has left.
RoundOK == call[Reconciler].phase # "none" => pending # <<>>

SnapshotsOK == snapshots \subseteq published /\ (active # NoJob => active \in snapshots)

IInv == TypeOK /\ GameOK /\ CallsOK /\ JobsOK /\ PendingOK /\ RoundOK /\ SnapshotsOK

-----------------------------------------------------------------------------
(* The rows to reconcile *)

\* A set of numbers has a least one.
LEMMA HasLeast ==
  ASSUME NEW D \in SUBSET Nat, D # {}
  PROVE  \E d \in D : \A e \in D : d <= e
PROOF
<1> DEFINE Less == {ss \in Nat \X Nat : ss[1] < ss[2]}
<1>1. IsWellFoundedOn(Less, Nat)
  <2>1. OpToRel(<, Nat) = Less BY DEF OpToRel
  <2> QED BY <2>1, NatLessThanWellFounded
<1> HIDE DEF Less
<1>2. PICK d \in D : \A e \in D : ~(<<e, d>> \in Less) BY <1>1, WFMin
<1>3. ASSUME NEW e \in D PROVE d <= e
  <2>1. e < d => <<e, d>> \in Less BY DEF Less
  <2> QED BY <1>2, <2>1
<1> QED BY <1>3

\* The unfinished among the first m rows.
Lists(g, m) ==
  g = [n \in 0..m |->
         IF n = 0 THEN <<>>
         ELSE IF Unfinished(order[n]) THEN Append(g[n - 1], Fetched(order[n])) ELSE g[n - 1]]

\* There is such a function, so UnfinishedRows is what its recursion says.
LEMMA ListExists ==
  ASSUME NEW k \in Nat
  PROVE  \E g : Lists(g, k)
PROOF
<1> DEFINE D == {m \in 0..k : ~\E g : Lists(g, m)}
<1> SUFFICES ASSUME k \in D PROVE FALSE OBVIOUS
<1>1. D \in SUBSET Nat /\ D # {} OBVIOUS
<1>2. PICK m \in D : \A e \in D : m <= e BY <1>1, HasLeast
<1>3. m \in 0..k /\ ~\E g : Lists(g, m) OBVIOUS
<1>4. CASE m = 0
  <2> DEFINE g == [n \in 0..0 |-> <<>>]
             Next1(f, n) == IF Unfinished(order[n]) THEN Append(f[n - 1], Fetched(order[n]))
                            ELSE f[n - 1]
  <2>1. Lists(g, 0)
    <3>1. \A n \in 0..0 : n = 0 OBVIOUS
    <3> HIDE DEF Next1
    <3>2. g = [n \in 0..0 |-> IF n = 0 THEN <<>> ELSE Next1(g, n)] BY <3>1
    <3> HIDE DEF g
    <3> QED BY <3>2 DEF Lists, Next1
  <2> HIDE DEF g
  <2> QED BY <1>3, <1>4, <2>1
<1>5. CASE m # 0
  <2>1. m - 1 \in 0..k /\ ~(m <= m - 1) /\ m \in 1..k BY <1>3, <1>5
  <2>2. m - 1 \notin D BY <1>2, <2>1
  <2>3. PICK g : Lists(g, m - 1) BY <2>1, <2>2
  <2> DEFINE Next1(f, n) == IF Unfinished(order[n]) THEN Append(f[n - 1], Fetched(order[n]))
                            ELSE f[n - 1]
             h == [n \in 0..m |-> IF n < m THEN g[n] ELSE Next1(g, n)]
  <2>4. ASSUME NEW n \in 0..m PROVE h[n] = IF n = 0 THEN <<>> ELSE Next1(h, n)
    <3>1. n # 0 => n - 1 \in 0..m /\ n - 1 < m /\ h[n - 1] = g[n - 1] BY <2>1
    <3>2. CASE n < m
      <4>1. n \in 0..(m - 1) BY <3>2, <2>1
      <4>2. g[n] = IF n = 0 THEN <<>> ELSE Next1(g, n) BY <2>3, <4>1 DEF Lists
      <4> QED BY <3>1, <3>2, <4>2
    <3>3. CASE ~(n < m)
      <4>1. n # 0 /\ h[n] = Next1(g, n) BY <2>1, <3>3
      <4> QED BY <3>1, <4>1
    <3> QED BY <3>2, <3>3
  <2>5. h = [n \in 0..m |-> h[n]] OBVIOUS
  <2> HIDE DEF h
  <2>6. Lists(h, m) BY <2>4, <2>5 DEF Lists
  <2> QED BY <1>3, <2>6
<1> QED BY <1>4, <1>5

Tickets == [job : Jobs, host : BOOLEAN]

\* What reconcile_pending_once finds is a list of rows of the table, each with
\* the state it has.
LEMMA RowsFetched ==
  ASSUME order \in Seq(Jobs)
  PROVE  /\ UnfinishedRows \in Seq(Tickets)
         /\ \A i \in 1..Len(UnfinishedRows) :
              \E k \in 1..Len(order) :
                Unfinished(order[k]) /\ UnfinishedRows[i] = Fetched(order[k])
PROOF
<1> DEFINE N == Len(order)
           f == CHOOSE g : Lists(g, N)
<1>1. UnfinishedRows = f[N] BY DEF UnfinishedRows, Lists
<1>2. N \in Nat BY LenProperties
<1> HIDE DEF N
<1>3. Lists(f, N) BY <1>2, ListExists
<1> HIDE DEF f
<1>4. \A n \in 0..N : f[n] = IF n = 0 THEN <<>>
        ELSE IF Unfinished(order[n]) THEN Append(f[n - 1], Fetched(order[n])) ELSE f[n - 1]
  BY <1>3 DEF Lists
<1> DEFINE Row(p) == \E k \in 1..N : Unfinished(order[k]) /\ p = Fetched(order[k])
           Good(n) == f[n] \in Seq(Tickets) /\ \A i \in 1..Len(f[n]) : Row(f[n][i])
           Bad == {n \in 0..N : ~Good(n)}
<1>5. ASSUME NEW n \in Bad PROVE FALSE
  <2>0. 0..N \subseteq Nat BY <1>2
  <2> HIDE DEF Good
  <2>1. Bad \in SUBSET Nat /\ Bad # {} BY <1>5, <2>0
  <2>2. PICK m \in Bad : \A e \in Bad : m <= e BY <2>1, HasLeast
  <2>3. m \in 0..N /\ ~Good(m) OBVIOUS
  <2>4. CASE m = 0
    <3>1. f[m] = <<>> BY <1>4, <2>3, <2>4
    <3>2. f[m] \in Seq(Tickets) /\ Len(f[m]) = 0 BY <3>1
    <3> QED BY <2>3, <3>2 DEF Good
  <2>5. CASE m # 0
    <3>1. m - 1 \in 0..N /\ ~(m <= m - 1) /\ m \in 1..N BY <1>2, <2>3, <2>5
    <3>2. Good(m - 1) BY <2>2, <3>1
    <3>3. f[m] = IF Unfinished(order[m]) THEN Append(f[m - 1], Fetched(order[m])) ELSE f[m - 1]
      BY <1>4, <2>3, <2>5
    <3>4. CASE ~Unfinished(order[m]) BY <2>3, <3>2, <3>3, <3>4 DEF Good
    <3>5. CASE Unfinished(order[m])
      <4> DEFINE q == f[m - 1]
                 e == Fetched(order[m])
      <4>1. f[m] = Append(q, e) BY <3>3, <3>5
      <4>2. q \in Seq(Tickets) /\ \A i \in 1..Len(q) : Row(q[i]) BY <3>2 DEF Good
      <4>3. Row(e) BY <3>1, <3>5
      <4>4. order[m] \in Jobs BY <3>1, ElementOfSeq DEF N
      <4>5. e \in Tickets BY <4>4 DEF Fetched, Tickets
      <4> HIDE DEF q, e, Row
      <4>6. /\ Append(q, e) \in Seq(Tickets) /\ Len(Append(q, e)) = Len(q) + 1
            /\ \A i \in 1..Len(q) : Append(q, e)[i] = q[i]
            /\ Append(q, e)[Len(q) + 1] = e
        BY <4>2, <4>5, AppendProperties
      <4>7. Len(q) \in Nat BY <4>2, LenProperties
      <4>8. \A i \in 1..(Len(q) + 1) : i \in 1..Len(q) \/ i = Len(q) + 1 BY <4>7
      <4>9. Good(m) BY <4>1, <4>2, <4>3, <4>6, <4>8 DEF Good
      <4> QED BY <2>3, <4>9
    <3> QED BY <3>4, <3>5
  <2> QED BY <2>4, <2>5
<1>6. Good(N)
  <2>1. N \in 0..N BY <1>2
  <2> HIDE DEF Good
  <2> QED BY <1>5, <2>1
<1> QED BY <1>1, <1>6 DEF N

-----------------------------------------------------------------------------
(* What a step leaves alone *)

Calls == [phase : Phases, job : Jobs \cup {NoJob}, answer : BridgeStates \cup {"none", "error"}]

\* What is published and imported only grows, and no claim is lost by that.
LEMMA FitsGrow ==
  ASSUME NEW done, NEW whole, NEW done2, NEW whole2, done \subseteq done2, whole \subseteq whole2
  PROVE  /\ \A j, r, a, pc : JobFits(j, r, a, pc, done, whole) => JobFits(j, r, a, pc, done2, whole2)
         /\ \A c, x : CallFits(c, x, done) => CallFits(c, x, done2)
PROOF BY DEF JobFits, CallFits

\* GameOK speaks of the game, of published artifacts and of the answer to a start.
LEMMA GameStays ==
  ASSUME GameOK, UNCHANGED <<gameJob, gameState, starting>>, published \subseteq published'
  PROVE  GameOK'
PROOF BY DEF GameOK

\* JobsOK speaks of rows, artifacts, finalizers and what is published or imported.
LEMMA JobsStay ==
  ASSUME JobsOK, UNCHANGED <<row, artifact, finalizer>>,
         published \subseteq published', snapshots \subseteq snapshots'
  PROVE  JobsOK'
PROOF BY FitsGrow DEF JobsOK, JobOK

\* CallsOK speaks of the calls and of what is published.
LEMMA CallsStay ==
  ASSUME CallsOK, UNCHANGED call, published \subseteq published'
  PROVE  CallsOK'
PROOF BY FitsGrow DEF CallsOK

\* PendingOK speaks of the round of reconciliation.
LEMMA PendingStays ==
  ASSUME TypeOK, PendingOK, order' = order, artifact' = artifact, published \subseteq published',
         \/ pending' \in {pending, <<>>}
         \/ pending # <<>> /\ pending' = Tail(pending),
         \A k \in Jobs : Known(k) => Known(k)'
  PROVE  PendingOK' /\ pending' \in Seq([job : Jobs, host : BOOLEAN])
PROOF
<1>1. order \in Seq(Jobs) /\ pending \in Seq(Tickets) BY DEF TypeOK, Tickets
<1>2. \A i \in 1..Len(order) : order[i] \in Jobs BY <1>1, ElementOfSeq
<1>3. \A i \in 1..Len(pending) : pending[i].job \in Jobs
  <2>1. \A i \in 1..Len(pending) : pending[i] \in Tickets BY <1>1, ElementOfSeq
  <2> QED BY <2>1 DEF Tickets
<1>4. \A i \in 1..Len(order') : row'[order'[i]].state # "none" BY <1>2 DEF PendingOK, Known
<1>5. ASSUME NEW i \in 1..Len(pending)
      PROVE  /\ row'[pending[i].job].state # "none"
             /\ pending[i].host => artifact'[pending[i].job] \in published'
             /\ pending[i].job \in HostJobs => pending[i].host
  BY <1>3 DEF PendingOK, PendingFits, Known
<1>6. CASE pending' = pending
  BY <1>1, <1>4, <1>5, <1>6 DEF PendingOK, PendingFits, Known, Tickets
<1>7. CASE pending' = <<>> BY <1>4, <1>7 DEF PendingOK, Known
<1>8. CASE pending # <<>> /\ pending' = Tail(pending)
  <2>1. pending # <<>> BY <1>8
  <2>2. /\ Tail(pending) \in Seq(Tickets) /\ Len(Tail(pending)) = Len(pending) - 1
        /\ \A i \in 1..Len(Tail(pending)) : Tail(pending)[i] = pending[i + 1]
    BY <1>1, <2>1, HeadTailProperties
  <2>3. Len(pending) \in Nat BY <1>1, LenProperties
  <2>4. \A i \in 1..Len(Tail(pending)) : i + 1 \in 1..Len(pending) BY <2>2, <2>3
  <2>5. \A i \in 1..Len(pending') : \E k \in 1..Len(pending) : pending'[i] = pending[k]
    BY <1>8, <2>2, <2>4
  <2>6. pending' \in Seq([job : Jobs, host : BOOLEAN]) BY <1>8, <2>2 DEF Tickets
  <2>7. ASSUME NEW i \in 1..Len(pending')
        PROVE  /\ row'[pending'[i].job].state # "none"
               /\ pending'[i].host => artifact'[pending'[i].job] \in published'
               /\ pending'[i].job \in HostJobs => pending'[i].host
    BY <1>5, <2>5
  <2>8. PendingOK' BY <1>4, <2>7 DEF PendingOK, PendingFits, Known
  <2> QED BY <2>6, <2>8
<1> QED BY <1>6, <1>7, <1>8

\* SnapshotsOK speaks of the snapshots and of what is published.
LEMMA SnapshotsStay ==
  ASSUME SnapshotsOK, UNCHANGED metaVars, published \subseteq published'
  PROVE  SnapshotsOK'
PROOF BY DEF SnapshotsOK, metaVars

\* One job gets another row or another place of its finalizer.
LEMMA JobSet ==
  ASSUME TypeOK, JobsOK, NEW j \in Jobs, NEW r \in RowType, NEW pc \in FinalizerPcs,
         row' = [row EXCEPT ![j] = r], finalizer' = [finalizer EXCEPT ![j] = pc],
         artifact' = artifact, published \subseteq published', snapshots \subseteq snapshots',
         r.state # "none", JobFits(j, r, artifact[j], pc, published', snapshots')
  PROVE  /\ row' \in [Jobs -> RowType] /\ finalizer' \in [Jobs -> FinalizerPcs]
         /\ JobsOK'
         /\ \A k \in Jobs : Known(k) => Known(k)'
PROOF
<1>1. row \in [Jobs -> RowType] /\ finalizer \in [Jobs -> FinalizerPcs] BY DEF TypeOK
<1>2. row' \in [Jobs -> RowType] /\ finalizer' \in [Jobs -> FinalizerPcs] BY <1>1
<1>3. \A k \in Jobs : /\ row'[k] = IF k = j THEN r ELSE row[k]
                      /\ finalizer'[k] = IF k = j THEN pc ELSE finalizer[k]
  BY <1>1
<1>4. \A k \in Jobs : JobFits(k, row'[k], artifact'[k], finalizer'[k], published', snapshots')
  BY <1>3, FitsGrow DEF JobsOK, JobOK
<1>5. JobsOK' BY <1>4 DEF JobsOK, JobOK
<1>6. \A k \in Jobs : Known(k) => Known(k)' BY <1>3 DEF Known
<1> QED BY <1>2, <1>5, <1>6

\* One caller gets another call.
LEMMA CallSet ==
  ASSUME TypeOK, CallsOK, NEW c \in Callers, NEW x \in Calls, call' = [call EXCEPT ![c] = x],
         published \subseteq published', CallFits(c, x, published')
  PROVE  call' \in [Callers -> Calls] /\ CallsOK'
PROOF
<1>1. call \in [Callers -> Calls] BY DEF TypeOK, Calls
<1>2. \A k \in Callers : call'[k] = IF k = c THEN x ELSE call[k] BY <1>1
<1>3. \A k \in Callers : CallFits(k, call'[k], published') BY <1>2, FitsGrow DEF CallsOK
<1>4. CallsOK' BY <1>3 DEF CallsOK
<1> QED BY <1>1, <1>4

\* A caller that has asked nothing fits.
LEMMA QuietFits ==
  ASSUME NEW c, NEW done
  PROVE  Quiet \in Calls /\ CallFits(c, Quiet, done)
PROOF BY DEF Quiet, Calls, Phases, CallFits

\* A call is over.
LEMMA DoneKeeps ==
  ASSUME TypeOK, CallsOK, NEW c \in Callers, Done(c), published' = published
  PROVE  call' \in [Callers -> Calls] /\ CallsOK'
PROOF
<1>1. Quiet \in Calls /\ CallFits(c, Quiet, published') BY QuietFits
<1> QED BY <1>1, CallSet DEF Done

\* An export is watched, unless it already is.
LEMMA WatchFits ==
  ASSUME NEW calls \in [Callers -> Calls], NEW done, NEW j \in Exports,
         \A c \in Callers : CallFits(c, calls[c], done)
  PROVE  /\ Watched(calls, j) \in [Callers -> Calls]
         /\ \A c \in Callers : CallFits(c, Watched(calls, j)[c], done)
         /\ \A c \in Callers : c \notin Jobs => Watched(calls, j)[c] = calls[c]
PROOF
<1> DEFINE x == [Quiet EXCEPT !.phase = "ready", !.job = j]
<1>1. x.phase = "ready" /\ x.job = j BY DEF Quiet
<1>2. j \in Callers /\ j \in Jobs BY DEF Callers, Jobs
<1>3. x \in Calls BY <1>2 DEF Quiet, Calls, Phases
<1>4. \A c \in Callers : c = j => CallFits(c, x, done) BY <1>1 DEF CallFits
<1>5. Watched(calls, j) = IF calls[j].phase = "none" THEN [calls EXCEPT ![j] = x] ELSE calls
  BY DEF Watched
<1> HIDE DEF x
<1>6. CASE calls[j].phase = "none"
  <2>1. Watched(calls, j) = [calls EXCEPT ![j] = x] BY <1>5, <1>6
  <2>2. \A c \in Callers : Watched(calls, j)[c] = IF c = j THEN x ELSE calls[c] BY <2>1
  <2> QED BY <1>2, <1>3, <1>4, <2>1, <2>2
<1>7. CASE calls[j].phase # "none" BY <1>5, <1>7
<1> QED BY <1>6, <1>7

\* The finalizer of a known job is scheduled, unless it is at work.
LEMMA EnsureKeeps ==
  ASSUME ConstantsOK, TypeOK, JobsOK, NEW j \in Jobs, Known(j), artifact[j] \in published,
         EnsureFinalizer(j), UNCHANGED <<row, artifact, published, snapshots>>
  PROVE  finalizer' \in [Jobs -> FinalizerPcs] /\ JobsOK'
PROOF
<1> DEFINE pc == IF finalizer[j] = "none" THEN "scheduled" ELSE finalizer[j]
<1>1. row \in [Jobs -> RowType] /\ finalizer \in [Jobs -> FinalizerPcs] BY DEF TypeOK
<1>2. finalizer' = [finalizer EXCEPT ![j] = pc] BY <1>1 DEF EnsureFinalizer
<1>3. pc \in FinalizerPcs BY <1>1 DEF FinalizerPcs
<1>4. row' = [row EXCEPT ![j] = row[j]] BY <1>1
<1>5. JobFits(j, row[j], artifact[j], finalizer[j], published, snapshots) BY DEF JobsOK, JobOK
<1>6. JobFits(j, row[j], artifact[j], pc, published', snapshots') BY <1>5 DEF JobFits, Known
<1>7. row[j] \in RowType /\ row[j].state # "none" BY <1>1 DEF Known
<1> HIDE DEF pc
<1> QED BY <1>2, <1>3, <1>4, <1>6, <1>7, JobSet

\* An answer of the game is written to the row of an export.
LEMMA PersistKeeps ==
  ASSUME ConstantsOK, TypeOK, JobsOK, NEW j \in Exports, NEW answer \in BridgeStates,
         answer = "completed" => j \in published,
         Persist(j, answer), UNCHANGED <<artifact, published, snapshots>>
  PROVE  /\ row' \in [Jobs -> RowType] /\ finalizer' \in [Jobs -> FinalizerPcs]
         /\ faults' \in 0..MaxFaults
         /\ JobsOK'
         /\ \A k \in Jobs : Known(k) => Known(k)'
         /\ \A h \in HostJobs : row'[h] = row[h]
PROOF
<1>1. row \in [Jobs -> RowType] /\ finalizer \in [Jobs -> FinalizerPcs] /\ faults \in 0..MaxFaults
  BY DEF TypeOK
<1>2. j \in Jobs /\ j \notin HostJobs /\ HostJobs \subseteq Jobs /\ MaxFaults \in Nat
  BY DEF ConstantsOK, Jobs
<1>3. row[j] \in RowType /\ JobFits(j, row[j], artifact[j], finalizer[j], published, snapshots)
  BY <1>1, <1>2 DEF JobsOK, JobOK
<1>4. PICK state \in {"active", "completed", "failed", "indexing", "host_failed"},
           pc \in {finalizer[j], IF finalizer[j] = "none" THEN "scheduled" ELSE finalizer[j]} :
        /\ row' = [row EXCEPT ![j] = Persisted(row[j], state)]
        /\ finalizer' = [finalizer EXCEPT ![j] = pc]
        /\ state = "indexing" => j \in published
        /\ pc # finalizer[j] => j \in published
        /\ faults' = faults \/ Fault
  <2>1. CASE answer = "completed" /\ row[j].index /\ ~row[j].snapshot
    <3>1. CASE /\ row' = [row EXCEPT ![j] = Persisted(@, "indexing")]
               /\ EnsureFinalizer(j) /\ UNCHANGED faults
      <4>1. finalizer' = [finalizer EXCEPT ![j] = IF finalizer[j] = "none" THEN "scheduled"
                                                   ELSE finalizer[j]]
        BY <1>1, <3>1 DEF EnsureFinalizer
      <4> QED BY <2>1, <3>1, <4>1
    <3>2. CASE /\ Fault /\ row' = [row EXCEPT ![j] = Persisted(@, "host_failed")]
               /\ UNCHANGED finalizer
      <4>1. finalizer' = [finalizer EXCEPT ![j] = finalizer[j]] BY <1>1, <3>2
      <4> QED BY <3>2, <4>1
    <3> QED BY <2>1, <3>1, <3>2 DEF Persist
  <2>2. CASE ~(answer = "completed" /\ row[j].index /\ ~row[j].snapshot)
    <3>1. row' = [row EXCEPT ![j] = Persisted(row[j], answer)] /\ UNCHANGED <<finalizer, faults>>
      BY <2>2 DEF Persist
    <3>2. finalizer' = [finalizer EXCEPT ![j] = finalizer[j]] BY <1>1, <3>1
    <3> QED BY <3>1, <3>2 DEF BridgeStates
  <2> QED BY <2>1, <2>2
<1> DEFINE r == Persisted(row[j], state)
<1>5. /\ r \in RowType /\ r.state = state
      /\ r.index = row[j].index /\ r.activate = row[j].activate /\ r.snapshot = row[j].snapshot
      /\ r.indexed = FALSE /\ r.activated = FALSE
  BY <1>3 DEF Persisted, RowType, RowStates, Terminal, HostStates
<1>6. pc \in FinalizerPcs BY <1>1, <1>2, <1>4 DEF FinalizerPcs
<1> HIDE DEF r
<1>7. row' = [row EXCEPT ![j] = r] BY <1>4 DEF r
<1>8. JobFits(j, r, artifact[j], pc, published', snapshots')
  <2>1. artifact[j] = j BY <1>3 DEF JobFits
  <2>2. pc # "none" => artifact[j] \in published BY <1>3, <1>4, <2>1 DEF JobFits
  <2>3. pc \in {"imported", "activating", "activated"} => pc = finalizer[j] BY <1>4
  <2> QED BY <1>2, <1>3, <1>4, <1>5, <2>1, <2>2, <2>3 DEF JobFits, HostStates
<1>9. \A h \in HostJobs : row'[h] = row[h] BY <1>1, <1>2, <1>7
<1>10. faults' \in 0..MaxFaults BY <1>1, <1>2, <1>4 DEF Fault
<1>11. r.state # "none" BY <1>5
<1>12. /\ row' \in [Jobs -> RowType] /\ finalizer' \in [Jobs -> FinalizerPcs] /\ JobsOK'
       /\ \A k \in Jobs : Known(k) => Known(k)'
  BY <1>2, <1>4, <1>5, <1>6, <1>7, <1>8, <1>11, JobSet
<1> QED BY <1>9, <1>10, <1>12

-----------------------------------------------------------------------------
(* The steps of the game *)

\* The invariant holds at first.
LEMMA InitHolds ==
  ASSUME ConstantsOK, Init
  PROVE  IInv
PROOF
<1>1. NoJob \notin Jobs /\ Exports \cap HostJobs = {} /\ MaxFaults \in Nat BY DEF ConstantsOK
<1>2. NoRow \in RowType /\ NoRow.state = "none" /\ ~NoRow.indexed /\ ~NoRow.snapshot /\ ~NoRow.activated
  BY DEF NoRow, RowType, RowStates
<1>3. Quiet \in Calls /\ Quiet.phase = "none" BY DEF Quiet, Calls, Phases
<1>4. NoAnswer \in [job : Exports \cup {NoJob}, wish : Wishes \cup {NoWish},
                    answer : BridgeStates \cup {"none"}]
      /\ NoAnswer.answer = "none"
  BY DEF NoAnswer
<1>5. TypeOK
  <2>1. artifact \in [Jobs -> Exports \cup {NoJob}] BY DEF Init
  <2>2. call \in [Callers -> [phase : Phases, job : Jobs \cup {NoJob},
                              answer : BridgeStates \cup {"none", "error"}]]
    BY <1>3 DEF Init, Calls
  <2>3. finalizer \in [Jobs -> FinalizerPcs] BY DEF Init, FinalizerPcs
  <2>4. /\ starting \in [job : Exports \cup {NoJob}, wish : Wishes \cup {NoWish},
                         answer : BridgeStates \cup {"none"}]
        /\ row \in [Jobs -> RowType]
    BY <1>2, <1>4 DEF Init
  <2>5. /\ gameJob \in Exports \cup {NoJob} /\ gameState \in BridgeStates \cup {"idle"}
        /\ gameBusy \in BOOLEAN /\ published \subseteq Exports /\ snapshots \subseteq Exports
        /\ active \in Exports \cup {NoJob}
    BY DEF Init
  <2>7. faults \in 0..MaxFaults BY <1>1 DEF Init
  <2>6. order \in Seq(Jobs) /\ pending \in Seq([job : Jobs, host : BOOLEAN]) BY DEF Init
  <2> QED BY <2>1, <2>2, <2>3, <2>4, <2>5, <2>6, <2>7 DEF TypeOK
<1>6. GameOK BY <1>4 DEF Init, GameOK
<1>7. CallsOK BY <1>3 DEF Init, CallsOK, CallFits
<1>8. JobsOK
  <2>1. ASSUME NEW j \in Jobs PROVE JobFits(j, NoRow, artifact[j], "none", published, snapshots)
    <3>1. j \in Exports => artifact[j] = j BY DEF Init
    <3> QED BY <1>2, <3>1 DEF JobFits, HostStates
  <2> QED BY <2>1 DEF Init, JobsOK, JobOK
<1>9. PendingOK BY DEF Init, PendingOK
<1>10. SnapshotsOK BY DEF Init, SnapshotsOK
<1>11. RoundOK BY <1>3 DEF Init, RoundOK, Callers
<1> QED BY <1>5, <1>6, <1>7, <1>8, <1>9, <1>10, <1>11 DEF IInv

\* Faults are counted up to their bound.
LEMMA FaultFits ==
  ASSUME ConstantsOK, TypeOK, Fault
  PROVE  faults' \in 0..MaxFaults
PROOF BY DEF ConstantsOK, TypeOK, Fault

\* run_generate_sdk meets an idle game, a running job or a reusable artifact.
LEMMA StartInGameKeeps ==
  ASSUME ConstantsOK, IInv, StartInGame
  PROVE  IInv'
PROOF
<1>1. TypeOK /\ GameOK /\ CallsOK /\ JobsOK /\ PendingOK /\ RoundOK /\ SnapshotsOK BY DEF IInv
<1>2. NoJob \notin Exports BY DEF ConstantsOK, Jobs
<1>3. UNCHANGED <<row, order, artifact, call, pending, finalizer, snapshots, active, faults, published>>
  BY DEF StartInGame, dbVars, metaVars, gameVars
<1>4. PICK w \in Wishes, j \in Exports :
        /\ starting' = [job |-> j, wish |-> w, answer |-> IF gameBusy THEN gameState ELSE "active"]
        /\ \/ gameBusy /\ j = gameJob /\ UNCHANGED gameVars
           \/ /\ ~gameBusy /\ j # gameJob /\ row[j] = NoRow /\ j \notin published
              /\ gameJob' = j /\ gameState' = "active" /\ gameBusy' = TRUE
              /\ UNCHANGED published
  BY DEF StartInGame
<1>5. /\ gameJob' \in Exports /\ gameState' \in BridgeStates /\ gameBusy' \in BOOLEAN
      /\ starting'.job = j /\ starting'.answer \in BridgeStates
      /\ starting' \in [job : Exports \cup {NoJob}, wish : Wishes \cup {NoWish},
                        answer : BridgeStates \cup {"none"}]
      /\ starting'.answer = "completed" => j \in published
      /\ gameState' = "completed" => gameJob' \in published
  <2>1. CASE gameBusy /\ j = gameJob /\ UNCHANGED gameVars
    <3>1. gameState \in BridgeStates BY <1>1, <1>2, <2>1 DEF TypeOK, GameOK
    <3>2. starting' = [job |-> j, wish |-> w, answer |-> gameState] BY <1>4, <2>1
    <3> QED BY <1>1, <2>1, <3>1, <3>2 DEF GameOK, gameVars
  <2>2. CASE ~gameBusy /\ gameJob' = j /\ gameState' = "active" /\ gameBusy' = TRUE
    <3>1. starting' = [job |-> j, wish |-> w, answer |-> "active"] BY <1>4, <2>2
    <3> QED BY <2>2, <3>1 DEF BridgeStates
  <2> QED BY <1>4, <2>1, <2>2
<1>6. TypeOK' BY <1>1, <1>3, <1>5 DEF TypeOK
<1>7. gameJob' # NoJob /\ gameState' # "idle" BY <1>2, <1>5 DEF BridgeStates
<1>8. GameOK' BY <1>3, <1>5, <1>7 DEF GameOK
<1>9. CallsOK' BY <1>1, <1>3, CallsStay
<1>10. JobsOK' BY <1>1, <1>3, JobsStay
<1>11. PendingOK' BY <1>1, <1>3, PendingStays DEF Known
<1>12. SnapshotsOK' BY <1>1, <1>3, SnapshotsStay DEF metaVars
<1>13. RoundOK' BY <1>1, <1>3 DEF RoundOK
<1> QED BY <1>6, <1>8, <1>9, <1>10, <1>11, <1>12, <1>13 DEF IInv

\* The end of a job publishes its artifact or fails.
LEMMA GameFinishesKeeps ==
  ASSUME ConstantsOK, IInv, GameFinishes
  PROVE  IInv'
PROOF
<1>1. TypeOK /\ GameOK /\ CallsOK /\ JobsOK /\ PendingOK /\ RoundOK /\ SnapshotsOK BY DEF IInv
<1>2. UNCHANGED <<gameJob, gameBusy, starting, row, order, artifact, call, pending, finalizer,
                  snapshots, active, faults>>
  BY DEF GameFinishes, dbVars, metaVars, taskVars
<1>3. gameJob \in Exports BY <1>1 DEF GameFinishes, TypeOK, GameOK
<1>4. \/ gameState' = "completed" /\ published' = published \cup {gameJob}
      \/ gameState' = "failed" /\ published' = published
  BY DEF GameFinishes
<1>5. /\ published \subseteq published' /\ published' \subseteq Exports
      /\ gameState' = "completed" => gameJob \in published'
  BY <1>1, <1>3, <1>4 DEF TypeOK
<1>6. gameState' \in BridgeStates /\ gameState' # "idle" /\ gameState # "idle"
  BY <1>4 DEF BridgeStates, GameFinishes
<1>7. TypeOK' BY <1>1, <1>2, <1>5, <1>6 DEF TypeOK
<1>8. GameOK' BY <1>1, <1>2, <1>5, <1>6 DEF GameOK
<1>9. CallsOK' BY <1>1, <1>2, <1>5, CallsStay
<1>10. JobsOK' BY <1>1, <1>2, <1>5, JobsStay
<1>11. PendingOK' BY <1>1, <1>2, <1>5, PendingStays DEF Known
<1>12. SnapshotsOK' BY <1>1, <1>2, <1>5, SnapshotsStay DEF metaVars
<1>13. RoundOK' BY <1>1, <1>2 DEF RoundOK
<1> QED BY <1>7, <1>8, <1>9, <1>10, <1>11, <1>12, <1>13 DEF IInv

\* The steps that touch nothing but the game, a fault or an answer that is lost.
LEMMA GameRestKeeps ==
  ASSUME ConstantsOK, IInv, GameLeaves \/ GameEnds \/ LoseStart
  PROVE  IInv'
PROOF
<1>1. TypeOK /\ GameOK /\ CallsOK /\ JobsOK /\ PendingOK /\ RoundOK /\ SnapshotsOK BY DEF IInv
<1>2. UNCHANGED <<published, row, order, artifact, call, pending, finalizer, snapshots, active>>
  BY DEF GameLeaves, GameEnds, LoseStart, dbVars, metaVars, taskVars, gameVars
<1>3. faults' \in 0..MaxFaults
  <2>1. GameLeaves => faults' = faults BY DEF GameLeaves
  <2>2. GameEnds \/ LoseStart => Fault BY DEF GameEnds, LoseStart
  <2> QED BY <1>1, <2>1, <2>2, FaultFits DEF TypeOK
<1>4. NoAnswer \in [job : Exports \cup {NoJob}, wish : Wishes \cup {NoWish},
                    answer : BridgeStates \cup {"none"}]
      /\ NoAnswer.answer = "none"
  BY DEF NoAnswer
<1>5. /\ \/ gameJob' = gameJob /\ gameState' = gameState
         \/ gameJob' = NoJob /\ gameState' = "idle"
      /\ starting' \in {starting, NoAnswer}
      /\ gameBusy' \in BOOLEAN
  BY <1>1 DEF GameLeaves, GameEnds, LoseStart, taskVars, gameVars, TypeOK
<1>6. TypeOK' BY <1>1, <1>2, <1>3, <1>4, <1>5 DEF TypeOK
<1>7. GameOK' BY <1>1, <1>2, <1>4, <1>5 DEF GameOK
<1>8. CallsOK' BY <1>1, <1>2, CallsStay
<1>9. JobsOK' BY <1>1, <1>2, JobsStay
<1>10. PendingOK' BY <1>1, <1>2, PendingStays DEF Known
<1>11. SnapshotsOK' BY <1>1, <1>2, SnapshotsStay DEF metaVars
<1>12. RoundOK' BY <1>1, <1>2 DEF RoundOK
<1> QED BY <1>6, <1>7, <1>8, <1>9, <1>10, <1>11, <1>12 DEF IInv

\* The game tells the truth about the job it is asked about.
LEMMA AnswerKeeps ==
  ASSUME ConstantsOK, IInv, NEW c \in Callers, Answer(c) \/ LoseAnswer(c)
  PROVE  IInv'
PROOF
<1>1. TypeOK /\ GameOK /\ CallsOK /\ JobsOK /\ PendingOK /\ RoundOK /\ SnapshotsOK BY DEF IInv
<1>2. UNCHANGED <<gameJob, gameState, gameBusy, published, starting, row, order, artifact, pending,
                  finalizer, snapshots, active>>
  BY DEF Answer, LoseAnswer, dbVars, metaVars, gameVars
<1>3. faults' \in 0..MaxFaults
  <2>1. Answer(c) => faults' = faults BY DEF Answer
  <2>2. LoseAnswer(c) => Fault BY DEF LoseAnswer
  <2> QED BY <1>1, <2>1, <2>2, FaultFits DEF TypeOK
<1>4. call[c] \in Calls /\ call[c].phase = "sent" BY <1>1 DEF TypeOK, Calls, Answer, LoseAnswer
<1>5. call[c].job \in Exports /\ (c \in Jobs => call[c].job = c)
  BY <1>1, <1>4 DEF CallsOK, CallFits
<1>6. PICK a \in {StatusOf(call[c].job), "error"} :
        call' = [call EXCEPT ![c].phase = "answered", ![c].answer = a]
  BY DEF Answer, LoseAnswer
<1>7. a \in BridgeStates \cup {"error"} /\ (a = "completed" => call[c].job \in published)
  BY <1>1, <1>5 DEF StatusOf, GameOK, TypeOK, ConstantsOK, Jobs
<1> DEFINE x == [call[c] EXCEPT !.phase = "answered", !.answer = a]
<1>8. /\ x \in Calls /\ x.phase = "answered" /\ x.answer = a /\ x.job = call[c].job
  BY <1>4, <1>7 DEF Calls, Phases
<1>9. call' = [call EXCEPT ![c] = x] BY <1>1, <1>6 DEF TypeOK
<1> HIDE DEF x
<1>10. CallFits(c, x, published') BY <1>2, <1>5, <1>7, <1>8 DEF CallFits
<1>11. call' \in [Callers -> Calls] /\ CallsOK' BY <1>1, <1>2, <1>8, <1>9, <1>10, CallSet
<1>12. TypeOK' BY <1>1, <1>2, <1>3, <1>11 DEF TypeOK, Calls
<1>13. GameOK' BY <1>1, <1>2, GameStays
<1>14. JobsOK' BY <1>1, <1>2, JobsStay
<1>15. PendingOK' BY <1>1, <1>2, PendingStays DEF Known
<1>16. SnapshotsOK' BY <1>1, <1>2, SnapshotsStay DEF metaVars
<1>17. RoundOK' BY <1>1, <1>2, <1>4, <1>8, <1>9 DEF RoundOK, TypeOK
<1> QED BY <1>11, <1>12, <1>13, <1>14, <1>15, <1>16, <1>17 DEF IInv

-----------------------------------------------------------------------------
(* Registration *)

\* A new row is put at the end of the table.
LEMMA OrderGrows ==
  ASSUME TypeOK, PendingOK, NEW j \in Jobs, order' \in {order, Append(order, j)}, row'[j].state # "none",
         pending' = pending, published' = published,
         \A k \in Jobs : Known(k) => Known(k)' /\ artifact'[k] = artifact[k]
  PROVE  PendingOK' /\ order' \in Seq(Jobs)
PROOF
<1>1. order \in Seq(Jobs) /\ pending \in Seq(Tickets) BY DEF TypeOK, Tickets
<1>2. \A i \in 1..Len(order) : order[i] \in Jobs BY <1>1, ElementOfSeq
<1>3. \A i \in 1..Len(pending) : pending[i].job \in Jobs
  <2>1. \A i \in 1..Len(pending) : pending[i] \in Tickets BY <1>1, ElementOfSeq
  <2> QED BY <2>1 DEF Tickets
<1>4. /\ Append(order, j) \in Seq(Jobs) /\ Len(Append(order, j)) = Len(order) + 1
      /\ \A i \in 1..Len(order) : Append(order, j)[i] = order[i]
      /\ Append(order, j)[Len(order) + 1] = j
  BY <1>1, AppendProperties
<1>5. Len(order) \in Nat BY <1>1, LenProperties
<1>6. \A i \in 1..(Len(order) + 1) : i \in 1..Len(order) \/ i = Len(order) + 1 BY <1>5
<1>7. \A i \in 1..Len(order') : order'[i] = j \/ \E k \in 1..Len(order) : order'[i] = order[k]
  BY <1>4, <1>6
<1>8. \A i \in 1..Len(order') : row'[order'[i]].state # "none" BY <1>2, <1>7 DEF PendingOK, Known
<1>9. ASSUME NEW i \in 1..Len(pending)
      PROVE  /\ row'[pending[i].job].state # "none"
             /\ pending[i].host => artifact'[pending[i].job] \in published'
             /\ pending[i].job \in HostJobs => pending[i].host
  BY <1>3 DEF PendingOK, PendingFits, Known
<1>10. PendingOK' BY <1>8, <1>9 DEF PendingOK, PendingFits, Known
<1> QED BY <1>1, <1>4, <1>10

\* register writes a new row, with a watcher or a finalizer where one is due.
LEMMA RegisterKeeps ==
  ASSUME ConstantsOK, IInv, Register
  PROVE  IInv' /\ \A h \in HostJobs : row'[h] = row[h]
PROOF
<1>1. TypeOK /\ GameOK /\ CallsOK /\ JobsOK /\ PendingOK /\ RoundOK /\ SnapshotsOK BY DEF IInv
<1>2. UNCHANGED <<gameJob, gameState, gameBusy, published, artifact, pending, finalizer,
                  snapshots, active, faults>> /\ starting' = NoAnswer
  BY DEF Register, metaVars, gameVars
<1> DEFINE j == starting.job
           old == IF row[j] = NoRow THEN [NoRow EXCEPT !.index = starting.wish.index,
                                                       !.activate = starting.wish.activate]
                  ELSE row[j]
           r == [old EXCEPT !.state = starting.answer, !.indexed = FALSE, !.activated = FALSE]
<1>3. j \in Exports /\ starting.answer \in BridgeStates BY <1>1 DEF Register, GameOK
<1>4. j \in Jobs /\ j \notin HostJobs /\ HostJobs \subseteq Jobs BY <1>3 DEF ConstantsOK, Jobs
<1>5. row \in [Jobs -> RowType] /\ finalizer \in [Jobs -> FinalizerPcs] BY <1>1 DEF TypeOK
<1>6. /\ row' = [row EXCEPT ![j] = r]
      /\ order' = IF row[j] = NoRow THEN Append(order, j) ELSE order
      /\ call' = Watched(call, j)
  BY DEF Register
<1>7. starting.wish \in [index : BOOLEAN, activate : BOOLEAN]
  <2>1. starting.wish \in Wishes \cup {NoWish} BY <1>1 DEF TypeOK
  <2>2. NoWish \in [index : BOOLEAN, activate : BOOLEAN] BY DEF NoWish
  <2> QED BY <2>1, <2>2 DEF ConstantsOK
<1>8. old \in RowType /\ (row[j] # NoRow => old = row[j]) /\ (row[j] = NoRow => old.snapshot = FALSE)
  <2>2. CASE row[j] = NoRow
    BY <1>7, <2>2 DEF NoRow, RowType, RowStates
  <2>3. CASE row[j] # NoRow BY <1>4, <1>5, <2>3
  <2> QED BY <2>2, <2>3
<1> HIDE DEF old
<1>9. /\ r \in RowType /\ r.state = starting.answer /\ r.index = old.index
      /\ r.activate = old.activate /\ r.snapshot = old.snapshot /\ ~r.indexed /\ ~r.activated
  BY <1>3, <1>8 DEF RowType, RowStates, BridgeStates, Terminal
<1> HIDE DEF r
<1>10. r.state # "none" BY <1>3, <1>9 DEF BridgeStates
<1>11. JobFits(j, row[j], artifact[j], finalizer[j], published, snapshots)
  BY <1>1, <1>4 DEF JobsOK, JobOK
<1>12. finalizer[j] # "none" => row[j] # NoRow BY <1>11 DEF JobFits, NoRow
<1>13. JobFits(j, r, artifact[j], finalizer[j], published', snapshots')
  <2>1. r.state \notin HostStates BY <1>3, <1>9 DEF BridgeStates, HostStates
  <2>2. r.snapshot => artifact[j] \in snapshots BY <1>8, <1>9, <1>11 DEF JobFits
  <2>3. finalizer[j] # "none" => r.activate = row[j].activate BY <1>8, <1>9, <1>12
  <2> QED BY <1>2, <1>4, <1>9, <1>10, <1>11, <2>1, <2>2, <2>3 DEF JobFits
<1>14. finalizer' = [finalizer EXCEPT ![j] = finalizer[j]] /\ finalizer[j] \in FinalizerPcs
  BY <1>2, <1>4, <1>5
<1>15. /\ row' \in [Jobs -> RowType] /\ JobsOK' /\ \A k \in Jobs : Known(k) => Known(k)'
  <2>1. row' = [row EXCEPT ![j] = r] BY <1>6
  <2>2. artifact' = artifact /\ published \subseteq published' /\ snapshots \subseteq snapshots'
    BY <1>2
  <2>3. TypeOK /\ JobsOK /\ j \in Jobs /\ r \in RowType /\ finalizer[j] \in FinalizerPcs
    BY <1>1, <1>4, <1>9, <1>14
  <2>4. finalizer' = [finalizer EXCEPT ![j] = finalizer[j]] BY <1>14
  <2> HIDE DEF j
  <2> QED BY <1>10, <1>13, <2>1, <2>2, <2>3, <2>4, JobSet
<1>16. call' \in [Callers -> Calls] /\ CallsOK' /\ call'[Reconciler] = call[Reconciler]
  <2>0. Reconciler \in Callers /\ Reconciler \notin Jobs BY DEF Callers, ConstantsOK
  <2>1. call \in [Callers -> Calls] BY <1>1 DEF TypeOK, Calls
  <2>2. \A c \in Callers : CallFits(c, call[c], published) BY <1>1 DEF CallsOK
  <2> HIDE DEF j
  <2>3. /\ Watched(call, j) \in [Callers -> Calls]
        /\ \A c \in Callers : CallFits(c, Watched(call, j)[c], published)
        /\ \A c \in Callers : c \notin Jobs => Watched(call, j)[c] = call[c]
    BY <1>3, <2>1, <2>2, WatchFits
  <2> QED BY <1>2, <1>6, <2>0, <2>3 DEF CallsOK
<1>17. \A h \in HostJobs : row'[h] = row[h] BY <1>4, <1>5, <1>6
<1>18. row'[j].state # "none" BY <1>4, <1>5, <1>6, <1>10
<1> HIDE DEF j
<1>19. PendingOK' /\ order' \in Seq(Jobs) BY <1>1, <1>2, <1>4, <1>6, <1>15, <1>18, OrderGrows
<1>20. starting' \in [job : Exports \cup {NoJob}, wish : Wishes \cup {NoWish},
                      answer : BridgeStates \cup {"none"}] /\ starting'.answer = "none"
  BY <1>2 DEF NoAnswer
<1>21. TypeOK' BY <1>1, <1>2, <1>15, <1>16, <1>19, <1>20 DEF TypeOK, Calls
<1>22. GameOK' BY <1>1, <1>2, <1>20 DEF GameOK
<1>23. SnapshotsOK' BY <1>1, <1>2, SnapshotsStay DEF metaVars
<1>24. RoundOK' BY <1>1, <1>2, <1>16 DEF RoundOK
<1> QED BY <1>15, <1>16, <1>17, <1>19, <1>21, <1>22, <1>23, <1>24 DEF IInv

\* _register_reused finds the snapshot of the artifact.
LEMMA ReuseSnapshotKeeps ==
  ASSUME ConstantsOK, IInv, NEW j \in Exports, ReuseSnapshot(j)
  PROVE  IInv'
PROOF
<1>1. TypeOK /\ GameOK /\ CallsOK /\ JobsOK /\ PendingOK /\ RoundOK /\ SnapshotsOK BY DEF IInv
<1>2. UNCHANGED <<gameJob, gameState, gameBusy, published, starting, row, order, artifact, call,
                  pending, finalizer, snapshots, faults>>
  BY DEF ReuseSnapshot, dbVars, taskVars, gameVars
<1>3. active' = j /\ j \in snapshots BY DEF ReuseSnapshot
<1>4. TypeOK' BY <1>1, <1>2, <1>3 DEF TypeOK
<1>5. GameOK' BY <1>1, <1>2, GameStays
<1>6. CallsOK' BY <1>1, <1>2, CallsStay
<1>7. JobsOK' BY <1>1, <1>2, JobsStay
<1>8. PendingOK' BY <1>1, <1>2, PendingStays DEF Known
<1>9. SnapshotsOK' BY <1>1, <1>2, <1>3 DEF SnapshotsOK
<1>10. RoundOK' BY <1>1, <1>2 DEF RoundOK
<1> QED BY <1>4, <1>5, <1>6, <1>7, <1>8, <1>9, <1>10 DEF IInv

\* _register_reused has the artifact indexed by a host job.
LEMMA ReuseArtifactKeeps ==
  ASSUME ConstantsOK, IInv, NEW h \in HostJobs, NEW j \in Exports, ReuseArtifact(h, j)
  PROVE  IInv' /\ \A k \in HostJobs : row[k] # NoRow => row'[k] = row[k]
PROOF
<1>1. TypeOK /\ GameOK /\ CallsOK /\ JobsOK /\ PendingOK /\ RoundOK /\ SnapshotsOK BY DEF IInv
<1>2. UNCHANGED <<gameJob, gameState, gameBusy, published, starting, call, pending, snapshots, active,
                  faults>>
  BY DEF ReuseArtifact, metaVars, gameVars
<1>3. PICK w \in Wishes :
        /\ w.index
        /\ row' = [row EXCEPT ![h] = [NoRow EXCEPT !.state = "indexing", !.index = TRUE,
                                                   !.activate = w.activate]]
  BY DEF ReuseArtifact
<1>4. /\ order' = Append(order, h) /\ artifact' = [artifact EXCEPT ![h] = j]
      /\ EnsureFinalizer(h) /\ row[h] = NoRow /\ j \in published
  BY DEF ReuseArtifact
<1> DEFINE r == [NoRow EXCEPT !.state = "indexing", !.index = TRUE, !.activate = w.activate]
<1>5. h \in Jobs /\ h \notin Exports /\ HostJobs \subseteq Jobs BY DEF ConstantsOK, Jobs
<1>6. /\ r \in RowType /\ r.state = "indexing" /\ ~r.snapshot /\ ~r.indexed /\ ~r.activated
  BY DEF NoRow, RowType, RowStates, HostStates, ConstantsOK
<1>7. row' = [row EXCEPT ![h] = r] BY <1>3
<1> HIDE DEF r
<1>8. row \in [Jobs -> RowType] /\ finalizer \in [Jobs -> FinalizerPcs]
      /\ artifact \in [Jobs -> Exports \cup {NoJob}]
  BY <1>1 DEF TypeOK
<1>9. JobFits(h, row[h], artifact[h], finalizer[h], published, snapshots)
  BY <1>1, <1>5 DEF JobsOK, JobOK
<1>10. finalizer[h] = "none" BY <1>4, <1>9 DEF JobFits, NoRow
<1>11. finalizer' = [finalizer EXCEPT ![h] = "scheduled"] BY <1>4, <1>10 DEF EnsureFinalizer
<1>12. \A k \in Jobs : /\ row'[k] = IF k = h THEN r ELSE row[k]
                       /\ artifact'[k] = IF k = h THEN j ELSE artifact[k]
                       /\ finalizer'[k] = IF k = h THEN "scheduled" ELSE finalizer[k]
  BY <1>4, <1>7, <1>8, <1>11
<1>13. /\ row' \in [Jobs -> RowType] /\ finalizer' \in [Jobs -> FinalizerPcs]
       /\ artifact' \in [Jobs -> Exports \cup {NoJob}]
  BY <1>4, <1>6, <1>7, <1>8, <1>11 DEF FinalizerPcs
<1>14. JobFits(h, r, j, "scheduled", published, snapshots)
  BY <1>4, <1>5, <1>6 DEF JobFits, HostStates
<1>15. JobsOK' BY <1>1, <1>2, <1>12, <1>14 DEF JobsOK, JobOK
<1>16. \A k \in Jobs : Known(k) => Known(k)' /\ artifact'[k] = artifact[k]
  BY <1>4, <1>6, <1>12 DEF Known, NoRow
<1>17. row'[h].state # "none" BY <1>5, <1>6, <1>12
<1>18. PendingOK' /\ order' \in Seq(Jobs) BY <1>1, <1>2, <1>4, <1>5, <1>16, <1>17, OrderGrows
<1>19. TypeOK' BY <1>1, <1>2, <1>13, <1>18 DEF TypeOK
<1>20. GameOK' BY <1>1, <1>2, GameStays
<1>21. CallsOK' BY <1>1, <1>2, CallsStay
<1>22. SnapshotsOK' BY <1>1, <1>2, SnapshotsStay DEF metaVars
<1>23. \A k \in HostJobs : row[k] # NoRow => row'[k] = row[k] BY <1>4, <1>5, <1>12
<1>24. RoundOK' BY <1>1, <1>2 DEF RoundOK
<1> QED BY <1>15, <1>18, <1>19, <1>20, <1>21, <1>22, <1>23, <1>24 DEF IInv

-----------------------------------------------------------------------------
(* refresh and reconcile_pending_once *)

\* Only the row of an export can make a caller ask the game.
LEMMA AskFits ==
  ASSUME ConstantsOK, TypeOK, JobsOK, NEW c \in Callers, NEW j \in Jobs, row[j].state = "active",
         c \in Jobs => c = j, Ask(c, j), CallsOK, published' = published
  PROVE  call' \in [Callers -> Calls] /\ CallsOK' /\ call'[c].phase # "none"
PROOF
<1> DEFINE x == [phase |-> "sent", job |-> j, answer |-> "none"]
<1>1. x \in Calls BY DEF Calls, Phases
<1>2. j \in Exports BY DEF JobsOK, JobOK, JobFits, HostStates, Jobs
<1>3. CallFits(c, x, published') BY <1>2 DEF CallFits
<1>4. call' = [call EXCEPT ![c] = x] BY DEF Ask
<1>5. call'[c] = x BY <1>4 DEF TypeOK
<1>6. x.phase # "none" OBVIOUS
<1> HIDE DEF x
<1> QED BY <1>1, <1>3, <1>4, <1>5, <1>6, CallSet

\* refresh asks for the state of an export.
LEMMA RefreshKeeps ==
  ASSUME ConstantsOK, IInv, NEW c \in Callers, NEW j \in Jobs, c \in Jobs => c = j, c # Reconciler,
         RefreshBegins(c, j),
         UNCHANGED <<gameVars, dbVars, starting, pending, metaVars, faults>>
  PROVE  IInv'
PROOF
<1>1. TypeOK /\ GameOK /\ CallsOK /\ JobsOK /\ PendingOK /\ RoundOK /\ SnapshotsOK BY DEF IInv
<1>2. UNCHANGED <<gameJob, gameState, gameBusy, published, starting, row, order, artifact, pending,
                  snapshots, active, faults>>
  BY DEF dbVars, metaVars, gameVars
<1>3. call' \in [Callers -> Calls] /\ CallsOK'
  <2>1. CASE Done(c) BY <1>1, <1>2, <2>1, DoneKeeps
  <2>2. CASE row[j].state = "active" /\ Ask(c, j) BY <1>1, <1>2, <2>2, AskFits
  <2> QED BY <2>1, <2>2 DEF RefreshBegins
<1>4. finalizer' \in [Jobs -> FinalizerPcs] /\ JobsOK'
  <2>1. CASE finalizer' = finalizer BY <1>1, <1>2, <2>1, JobsStay DEF TypeOK
  <2>2. CASE row[j].state \in HostStates /\ EnsureFinalizer(j)
    <3>1. Known(j) BY <2>2 DEF Known, HostStates
    <3>2. artifact[j] \in published BY <1>1, <2>2 DEF JobsOK, JobOK, JobFits
    <3> QED BY <1>1, <1>2, <2>2, <3>1, <3>2, EnsureKeeps
  <2> QED BY <2>1, <2>2 DEF RefreshBegins
<1>5. TypeOK' BY <1>1, <1>2, <1>3, <1>4 DEF TypeOK, Calls
<1>6. GameOK' BY <1>1, <1>2, GameStays
<1>7. PendingOK' BY <1>1, <1>2, PendingStays DEF Known
<1>8. call'[Reconciler] = call[Reconciler]
  <2>1. Reconciler \in Callers BY DEF Callers
  <2> QED BY <1>1, <2>1 DEF RefreshBegins, Done, Ask, TypeOK
<1>9. RoundOK' BY <1>1, <1>2, <1>8 DEF RoundOK
<1>10. SnapshotsOK' BY <1>1, <1>2, SnapshotsStay DEF metaVars
<1> QED BY <1>3, <1>4, <1>5, <1>6, <1>7, <1>9, <1>10 DEF IInv

\* A watcher or a reader asks.
LEMMA AskersKeep ==
  ASSUME ConstantsOK, IInv,
         \/ \E j \in Jobs : WatcherAsks(j)
         \/ \E c \in Readers, j \in Jobs : ReaderAsks(c, j)
  PROVE  IInv' /\ row' = row
PROOF
<1>1. CASE \E j \in Jobs : WatcherAsks(j)
  <2>1. PICK j \in Jobs : WatcherAsks(j) BY <1>1
  <2>2. j \in Callers /\ j # Reconciler BY DEF Callers, ConstantsOK
  <2> QED BY <2>1, <2>2, RefreshKeeps DEF WatcherAsks, dbVars
<1>2. CASE \E c \in Readers, j \in Jobs : ReaderAsks(c, j)
  <2>1. PICK c \in Readers, j \in Jobs : ReaderAsks(c, j) BY <1>2
  <2>2. c \in Callers /\ c # Reconciler /\ c \notin Jobs BY DEF Callers, ConstantsOK
  <2> QED BY <2>1, <2>2, RefreshKeeps DEF ReaderAsks, dbVars
<1> QED BY <1>1, <1>2

\* The answer to c is written, unless it is an error,
Written(c) ==
  \/ UNCHANGED <<row, finalizer, faults>>
  \/ call[c].answer \in BridgeStates /\ Persist(call[c].job, call[c].answer)

\* and the reconciliation goes on, ends, or is not concerned.
Advances == pending' \in {pending, <<>>} \/ (pending # <<>> /\ pending' = Tail(pending))

\* An answer is persisted and its caller is done.
LEMMA HearKeeps ==
  ASSUME ConstantsOK, IInv, NEW c \in Callers, call[c].phase = "answered", Written(c),
         call' \in [Callers -> Calls], CallsOK', RoundOK', Advances,
         UNCHANGED <<gameVars, order, artifact, starting, metaVars>>
  PROVE  IInv' /\ \A h \in HostJobs : row'[h] = row[h]
PROOF
<1>1. TypeOK /\ GameOK /\ CallsOK /\ JobsOK /\ PendingOK /\ RoundOK /\ SnapshotsOK BY DEF IInv
<1>2. UNCHANGED <<gameJob, gameState, gameBusy, published, starting, order, artifact, snapshots, active>>
  BY DEF metaVars, gameVars
<1>3. /\ row' \in [Jobs -> RowType] /\ finalizer' \in [Jobs -> FinalizerPcs]
      /\ faults' \in 0..MaxFaults
      /\ JobsOK'
      /\ \A k \in Jobs : Known(k) => Known(k)'
      /\ \A h \in HostJobs : row'[h] = row[h]
  <2>1. CASE UNCHANGED <<row, finalizer, faults>>
    <3>1. JobsOK' BY <1>1, <1>2, <2>1, JobsStay
    <3> QED BY <1>1, <2>1, <3>1 DEF TypeOK, Known
  <2>2. CASE call[c].answer \in BridgeStates /\ Persist(call[c].job, call[c].answer)
    <3>1. call[c].job \in Exports /\ (call[c].answer = "completed" => call[c].job \in published)
      BY <1>1 DEF CallsOK, CallFits
    <3> QED BY <1>1, <1>2, <2>2, <3>1, PersistKeeps
  <2> QED BY <2>1, <2>2 DEF Written
<1>4. PendingOK' /\ pending' \in Seq([job : Jobs, host : BOOLEAN])
  BY <1>1, <1>2, <1>3, PendingStays DEF Advances
<1>5. TypeOK' BY <1>1, <1>2, <1>3, <1>4 DEF TypeOK, Calls
<1>6. GameOK' BY <1>1, <1>2, GameStays
<1>7. SnapshotsOK' BY <1>1, <1>2, SnapshotsStay DEF metaVars
<1> QED BY <1>3, <1>4, <1>5, <1>6, <1>7 DEF IInv

\* A watcher hears its answer, and asks again or ends.
LEMMA WatcherHearsKeeps ==
  ASSUME ConstantsOK, IInv, NEW j \in Jobs, WatcherHears(j)
  PROVE  IInv' /\ \A h \in HostJobs : row'[h] = row[h]
PROOF
<1>1. TypeOK /\ CallsOK /\ RoundOK BY DEF IInv
<1>2. /\ j \in Callers /\ call[j].phase = "answered" /\ published' = published /\ pending' = pending
      /\ UNCHANGED <<gameVars, order, artifact, starting, metaVars>>
  BY DEF WatcherHears, Callers, gameVars
<1>3. call[j].job = j /\ j \in Exports BY <1>1, <1>2 DEF CallsOK, CallFits
<1>4. Written(j) /\ Advances BY <1>2, <1>3 DEF WatcherHears, Written, Advances
<1> DEFINE x == [Quiet EXCEPT !.phase = "ready", !.job = j]
<1>5. x.phase = "ready" /\ x.job = j /\ x \in Calls BY DEF Quiet, Calls, Phases
<1>6. CallFits(j, x, published') BY <1>3, <1>5 DEF CallFits
<1>7. Done(j) \/ call' = [call EXCEPT ![j] = x] BY DEF WatcherHears
<1> HIDE DEF x
<1>8. call' \in [Callers -> Calls] /\ CallsOK'
  <2>1. CASE Done(j) BY <1>1, <1>2, <2>1, DoneKeeps
  <2>2. CASE call' = [call EXCEPT ![j] = x] BY <1>1, <1>2, <1>5, <1>6, <2>2, CallSet
  <2> QED BY <1>7, <2>1, <2>2
<1>9. RoundOK'
  <2>1. Reconciler \in Callers /\ Reconciler # j BY DEF Callers, ConstantsOK
  <2>2. call'[Reconciler] = call[Reconciler] BY <1>1, <1>7, <2>1 DEF Done, TypeOK
  <2> QED BY <1>1, <1>2, <2>2 DEF RoundOK
<1> QED BY <1>2, <1>4, <1>8, <1>9, HearKeeps

\* A reader hears its answer.
LEMMA ReaderHearsKeeps ==
  ASSUME ConstantsOK, IInv, NEW c \in Readers, ReaderHears(c)
  PROVE  IInv' /\ \A h \in HostJobs : row'[h] = row[h]
PROOF
<1>1. TypeOK /\ CallsOK /\ RoundOK BY DEF IInv
<1>2. /\ c \in Callers /\ call[c].phase = "answered" /\ published' = published /\ pending' = pending
      /\ UNCHANGED <<gameVars, order, artifact, starting, metaVars>>
  BY DEF ReaderHears, Callers, gameVars
<1>3. Written(c) /\ Advances BY <1>2 DEF ReaderHears, Written, Advances
<1>4. Done(c) BY DEF ReaderHears
<1>5. call' \in [Callers -> Calls] /\ CallsOK' BY <1>1, <1>2, <1>4, DoneKeeps
<1>6. RoundOK'
  <2>1. Reconciler \in Callers /\ Reconciler # c BY DEF Callers, ConstantsOK
  <2>2. call'[Reconciler] = call[Reconciler] BY <1>1, <1>4, <2>1 DEF Done, TypeOK
  <2> QED BY <1>1, <1>2, <2>2 DEF RoundOK
<1> QED BY <1>2, <1>3, <1>5, <1>6, HearKeeps

\* The round of reconciliation hears its answer and goes on or breaks off.
LEMMA ReconcileHearsKeeps ==
  ASSUME ConstantsOK, IInv, ReconcileHears
  PROVE  IInv' /\ \A h \in HostJobs : row'[h] = row[h]
PROOF
<1>1. TypeOK /\ CallsOK /\ RoundOK BY DEF IInv
<1>2. /\ Reconciler \in Callers /\ Reconciler \notin Jobs /\ call[Reconciler].phase = "answered"
      /\ published' = published /\ UNCHANGED <<gameVars, order, artifact, starting, metaVars>>
  BY DEF ReconcileHears, Callers, gameVars, ConstantsOK
<1>3. pending # <<>> /\ call[Reconciler].job \in Exports BY <1>1, <1>2 DEF RoundOK, CallsOK, CallFits
<1>4. CASE pending' = <<>> /\ Done(Reconciler) /\ UNCHANGED <<row, finalizer, faults>>
  <2>1. call' \in [Callers -> Calls] /\ CallsOK' BY <1>1, <1>2, <1>4, DoneKeeps
  <2>2. call'[Reconciler].phase = "none" BY <1>1, <1>2, <1>4 DEF Done, TypeOK, Quiet
  <2>3. RoundOK' BY <2>2 DEF RoundOK
  <2>4. Written(Reconciler) /\ Advances BY <1>4 DEF Written, Advances
  <2> QED BY <1>2, <2>1, <2>3, <2>4, HearKeeps
<1>5. CASE /\ call[Reconciler].answer \in BridgeStates
           /\ Persist(call[Reconciler].job, call[Reconciler].answer)
           /\ pending' = Tail(pending)
           /\ call' = Watched([call EXCEPT ![Reconciler] = Quiet], call[Reconciler].job)
  <2> DEFINE calls == [call EXCEPT ![Reconciler] = Quiet]
  <2>1. calls \in [Callers -> Calls] BY <1>1, QuietFits DEF TypeOK, Calls
  <2>2. \A k \in Callers : calls[k] = IF k = Reconciler THEN Quiet ELSE call[k] BY <1>1 DEF TypeOK
  <2>3. \A k \in Callers : CallFits(k, calls[k], published) BY <1>1, <2>2, QuietFits DEF CallsOK
  <2>4. call' = Watched(calls, call[Reconciler].job) BY <1>5
  <2> HIDE DEF calls
  <2>5. /\ call' \in [Callers -> Calls] /\ \A k \in Callers : CallFits(k, call'[k], published)
        /\ \A k \in Callers : k \notin Jobs => call'[k] = calls[k]
    BY <1>3, <2>1, <2>3, <2>4, WatchFits
  <2>6. CallsOK' BY <1>2, <2>5 DEF CallsOK
  <2>7. call'[Reconciler].phase = "none" BY <1>2, <2>2, <2>5 DEF Quiet
  <2>8. RoundOK' BY <2>7 DEF RoundOK
  <2>9. Written(Reconciler) /\ Advances BY <1>3, <1>5 DEF Written, Advances
  <2> QED BY <1>2, <2>5, <2>6, <2>8, <2>9, HearKeeps
<1> QED BY <1>4, <1>5 DEF ReconcileHears

\* A round of reconciliation fetches the unfinished rows.
LEMMA ReconcileBeginsKeeps ==
  ASSUME ConstantsOK, IInv, ReconcileBegins
  PROVE  IInv'
PROOF
<1>1. TypeOK /\ GameOK /\ CallsOK /\ JobsOK /\ PendingOK /\ RoundOK /\ SnapshotsOK BY DEF IInv
<1>2. UNCHANGED <<gameJob, gameState, gameBusy, published, starting, row, order, artifact, call,
                  finalizer, snapshots, active, faults>>
  BY DEF ReconcileBegins, dbVars, metaVars, gameVars
<1>3. pending' = UnfinishedRows /\ pending' # <<>> BY DEF ReconcileBegins
<1>4. order \in Seq(Jobs) BY <1>1 DEF TypeOK
<1>5. UnfinishedRows \in Seq(Tickets) BY <1>4, RowsFetched
<1>6. ASSUME NEW i \in 1..Len(UnfinishedRows) PROVE PendingFits(UnfinishedRows[i])
  <2>1. PICK k \in 1..Len(order) : Unfinished(order[k]) /\ UnfinishedRows[i] = Fetched(order[k])
    BY <1>4, RowsFetched
  <2> DEFINE j == order[k]
  <2>2. j \in Jobs /\ Known(j) BY <1>1, <1>4, ElementOfSeq DEF PendingOK
  <2>3. UnfinishedRows[i].job = j /\ UnfinishedRows[i].host = (row[j].state \in HostStates)
    BY <2>1 DEF Fetched
  <2>4. JobFits(j, row[j], artifact[j], finalizer[j], published, snapshots)
    BY <1>1, <2>2 DEF JobsOK, JobOK
  <2>5. row[j].state \notin Terminal BY <2>1 DEF Unfinished
  <2> HIDE DEF j
  <2>6. j \in HostJobs => row[j].state \in HostStates BY <2>2, <2>4, <2>5 DEF JobFits, Known, Terminal
  <2>7. row[j].state \in HostStates => artifact[j] \in published BY <2>4 DEF JobFits
  <2> QED BY <2>2, <2>3, <2>6, <2>7 DEF PendingFits
<1>7. PendingOK' BY <1>1, <1>2, <1>3, <1>6 DEF PendingOK, PendingFits, Known
<1>8. TypeOK' BY <1>1, <1>2, <1>3, <1>5 DEF TypeOK, Tickets
<1>9. GameOK' BY <1>1, <1>2, GameStays
<1>10. CallsOK' BY <1>1, <1>2, CallsStay
<1>11. JobsOK' BY <1>1, <1>2, JobsStay
<1>12. RoundOK' BY <1>3 DEF RoundOK
<1>13. SnapshotsOK' BY <1>1, <1>2, SnapshotsStay DEF metaVars
<1> QED BY <1>7, <1>8, <1>9, <1>10, <1>11, <1>12, <1>13 DEF IInv

\* The round asks for its next row, or has a host job finalized.
LEMMA ReconcileAsksKeeps ==
  ASSUME ConstantsOK, IInv, ReconcileAsks
  PROVE  IInv' /\ row' = row
PROOF
<1>1. TypeOK /\ GameOK /\ CallsOK /\ JobsOK /\ PendingOK /\ RoundOK /\ SnapshotsOK BY DEF IInv
<1>2. UNCHANGED <<gameJob, gameState, gameBusy, published, starting, row, order, artifact, snapshots,
                  active, faults>>
  BY DEF ReconcileAsks, dbVars, metaVars, gameVars
<1> DEFINE p == Head(pending)
           j == Head(pending).job
<1>3. pending # <<>> /\ call[Reconciler].phase = "none" BY DEF ReconcileAsks, Quiet
<1>4. p \in Tickets /\ PendingFits(p)
  <2>1. pending \in Seq(Tickets) BY <1>1 DEF TypeOK, Tickets
  <2>2. p = pending[1] /\ 1 \in 1..Len(pending) BY <1>3, <2>1
  <2> QED BY <1>1, <2>1, <2>2, ElementOfSeq DEF PendingOK
<1>5. j \in Jobs /\ Known(j) BY <1>4 DEF Tickets, PendingFits
<1>6. JobFits(j, row[j], artifact[j], finalizer[j], published, snapshots)
  BY <1>1, <1>5 DEF JobsOK, JobOK
<1>7. Reconciler \in Callers /\ Reconciler \notin Jobs BY DEF Callers, ConstantsOK
<1>8. \/ p.host /\ EnsureFinalizer(j) /\ pending' = Tail(pending) /\ UNCHANGED call
      \/ /\ ~p.host /\ row[j].state = "active" /\ Ask(Reconciler, j)
         /\ pending' = pending /\ finalizer' = finalizer
      \/ /\ ~p.host /\ row[j].state # "active"
         /\ IF row[j].state \in HostStates THEN EnsureFinalizer(j) ELSE UNCHANGED finalizer
         /\ pending' = Tail(pending) /\ call' = Watched(call, j)
  BY DEF ReconcileAsks
<1>9. finalizer' \in [Jobs -> FinalizerPcs] /\ JobsOK'
  <2>1. CASE finalizer' = finalizer BY <1>1, <1>2, <2>1, JobsStay DEF TypeOK
  <2>2. CASE (p.host \/ row[j].state \in HostStates) /\ EnsureFinalizer(j)
    <3>1. artifact[j] \in published BY <1>4, <1>6, <2>2 DEF PendingFits, JobFits
    <3> HIDE DEF j
    <3> QED BY <1>1, <1>2, <1>5, <2>2, <3>1, EnsureKeeps
  <2> HIDE DEF p, j
  <2> QED BY <1>8, <2>1, <2>2
<1>10. call' \in [Callers -> Calls] /\ CallsOK' /\ RoundOK'
  <2>1. CASE UNCHANGED call
    <3>1. RoundOK' BY <1>3, <2>1 DEF RoundOK
    <3> QED BY <1>1, <1>2, <2>1, <3>1, CallsStay DEF TypeOK, Calls
  <2>2. CASE row[j].state = "active" /\ Ask(Reconciler, j) /\ pending' = pending
    <3>1. RoundOK' BY <1>3, <2>2 DEF RoundOK
    <3> HIDE DEF j
    <3> QED BY <1>1, <1>2, <1>5, <1>7, <2>2, <3>1, AskFits
  <2>3. CASE ~p.host /\ call' = Watched(call, j)
    <3>1. j \in Exports BY <1>4, <1>5, <2>3 DEF PendingFits, Jobs
    <3>2. call \in [Callers -> Calls] /\ \A c \in Callers : CallFits(c, call[c], published)
      BY <1>1 DEF TypeOK, Calls, CallsOK
    <3> HIDE DEF j
    <3>3. /\ call' \in [Callers -> Calls] /\ \A c \in Callers : CallFits(c, call'[c], published)
          /\ \A c \in Callers : c \notin Jobs => call'[c] = call[c]
      BY <2>3, <3>1, <3>2, WatchFits
    <3>4. RoundOK' BY <1>3, <1>7, <3>3 DEF RoundOK
    <3> QED BY <1>2, <3>3, <3>4 DEF CallsOK
  <2> HIDE DEF p, j
  <2> QED BY <1>8, <2>1, <2>2, <2>3
<1>11. pending' = pending \/ pending' = Tail(pending) BY <1>8
<1> HIDE DEF p, j
<1>12. PendingOK' /\ pending' \in Seq([job : Jobs, host : BOOLEAN])
  BY <1>1, <1>2, <1>3, <1>11, PendingStays DEF Known
<1>13. TypeOK' BY <1>1, <1>2, <1>9, <1>10, <1>12 DEF TypeOK, Calls
<1>14. GameOK' BY <1>1, <1>2, GameStays
<1>15. SnapshotsOK' BY <1>1, <1>2, SnapshotsStay DEF metaVars
<1> QED BY <1>2, <1>9, <1>10, <1>12, <1>13, <1>14, <1>15 DEF IInv

-----------------------------------------------------------------------------
(* _finalize_host_job *)

\* A step of the finalizer of j gives its job another row or place.
LEMMA FinalizerKeeps ==
  ASSUME ConstantsOK, IInv, NEW j \in Jobs, NEW r \in RowType, NEW pc \in FinalizerPcs,
         row' = [row EXCEPT ![j] = r], finalizer' = [finalizer EXCEPT ![j] = pc], r.state # "none",
         JobFits(j, r, artifact[j], pc, published, snapshots'), snapshots \subseteq snapshots',
         snapshots' \subseteq published, active' # NoJob => active' \in snapshots',
         active' \in Exports \cup {NoJob}, faults' \in 0..MaxFaults,
         UNCHANGED <<gameVars, order, artifact, starting, call, pending>>
  PROVE  IInv'
PROOF
<1>1. TypeOK /\ GameOK /\ CallsOK /\ JobsOK /\ PendingOK /\ RoundOK /\ SnapshotsOK BY DEF IInv
<1>2. UNCHANGED <<gameJob, gameState, gameBusy, published, starting, order, artifact, call, pending>>
  BY DEF gameVars
<1>3. /\ row' \in [Jobs -> RowType] /\ finalizer' \in [Jobs -> FinalizerPcs] /\ JobsOK'
      /\ \A k \in Jobs : Known(k) => Known(k)'
  BY <1>1, <1>2, JobSet
<1>4. snapshots' \subseteq Exports BY <1>1 DEF TypeOK
<1>5. TypeOK' BY <1>1, <1>2, <1>3, <1>4 DEF TypeOK
<1>6. GameOK' BY <1>1, <1>2, GameStays
<1>7. CallsOK' BY <1>1, <1>2, CallsStay
<1>8. PendingOK' BY <1>1, <1>2, <1>3, PendingStays
<1>9. RoundOK' BY <1>1, <1>2 DEF RoundOK
<1>10. SnapshotsOK' BY <1>2 DEF SnapshotsOK
<1> QED BY <1>3, <1>5, <1>6, <1>7, <1>8, <1>9, <1>10 DEF IInv

\* What the finalizer knows of its job while it is at work.
LEMMA AtWork ==
  ASSUME ConstantsOK, IInv, NEW j \in Jobs, finalizer[j] # "none"
  PROVE  /\ row[j] \in RowType /\ row[j].state # "none"
         /\ JobFits(j, row[j], artifact[j], finalizer[j], published, snapshots)
         /\ row = [row EXCEPT ![j] = row[j]]
         /\ published \subseteq Exports /\ artifact[j] \in published
         /\ active \in Exports \cup {NoJob} /\ faults \in 0..MaxFaults
         /\ snapshots \subseteq published /\ (active # NoJob => active \in snapshots)
PROOF
<1>1. TypeOK /\ JobsOK /\ SnapshotsOK BY DEF IInv
<1>2. row \in [Jobs -> RowType] BY <1>1 DEF TypeOK
<1>3. JobFits(j, row[j], artifact[j], finalizer[j], published, snapshots) BY <1>1 DEF JobsOK, JobOK
<1>4. row[j] \in RowType /\ row = [row EXCEPT ![j] = row[j]] BY <1>2
<1>5. row[j].state # "none" /\ artifact[j] \in published BY <1>3 DEF JobFits
<1>6. /\ published \subseteq Exports /\ active \in Exports \cup {NoJob} /\ faults \in 0..MaxFaults
      /\ snapshots \subseteq published /\ (active # NoJob => active \in snapshots)
  BY <1>1 DEF TypeOK, SnapshotsOK
<1> QED BY <1>3, <1>4, <1>5, <1>6

\* A scheduled finalizer starts: its import begins, or there is nothing to do.
LEMMA FinalizerBeginsKeeps ==
  ASSUME ConstantsOK, IInv, NEW j \in Jobs, FinalizerBegins(j)
  PROVE  IInv' /\ row' = row
PROOF
<1>1. finalizer[j] = "scheduled" BY DEF FinalizerBegins, FinalizerGoes
<1>2. /\ row[j] \in RowType /\ row[j].state # "none"
      /\ JobFits(j, row[j], artifact[j], finalizer[j], published, snapshots)
      /\ row = [row EXCEPT ![j] = row[j]]
      /\ active \in Exports \cup {NoJob} /\ faults \in 0..MaxFaults
      /\ snapshots \subseteq published /\ (active # NoJob => active \in snapshots)
  BY <1>1, AtWork
<1>3. UNCHANGED <<row, snapshots, active, faults>>
      /\ UNCHANGED <<gameVars, order, artifact, starting, call, pending>>
  BY DEF FinalizerBegins, dbVars, metaVars
<1>4. PICK pc \in {"importing", "none"} : /\ finalizer' = [finalizer EXCEPT ![j] = pc]
                                          /\ pc = "importing" => row[j].state \in HostStates
  BY DEF FinalizerBegins, FinalizerGoes
<1>5. JobFits(j, row[j], artifact[j], pc, published, snapshots') BY <1>1, <1>2, <1>3, <1>4 DEF JobFits
<1>6. row' = [row EXCEPT ![j] = row[j]] /\ pc \in FinalizerPcs BY <1>2, <1>3 DEF FinalizerPcs
<1>7. /\ snapshots \subseteq snapshots' /\ snapshots' \subseteq published
      /\ active' # NoJob => active' \in snapshots'
      /\ active' \in Exports \cup {NoJob} /\ faults' \in 0..MaxFaults
  BY <1>2, <1>3
<1>8. IInv' BY <1>2, <1>3, <1>4, <1>5, <1>6, <1>7, FinalizerKeeps
<1> QED BY <1>3, <1>8

\* An import commits: its artifact has a complete snapshot.
LEMMA ImportCommitsKeeps ==
  ASSUME ConstantsOK, IInv, NEW j \in Jobs, ImportCommits(j)
  PROVE  IInv' /\ row' = row
PROOF
<1>1. finalizer[j] = "importing" /\ finalizer' = [finalizer EXCEPT ![j] = "imported"]
      /\ snapshots' = snapshots \cup {artifact[j]}
  BY DEF ImportCommits, FinalizerGoes
<1>2. /\ row[j] \in RowType /\ row[j].state # "none"
      /\ JobFits(j, row[j], artifact[j], finalizer[j], published, snapshots)
      /\ row = [row EXCEPT ![j] = row[j]]
      /\ artifact[j] \in published
      /\ active \in Exports \cup {NoJob} /\ faults \in 0..MaxFaults
      /\ snapshots \subseteq published /\ (active # NoJob => active \in snapshots)
  BY <1>1, AtWork
<1>3. UNCHANGED <<row, active, faults>>
      /\ UNCHANGED <<gameVars, order, artifact, starting, call, pending>>
  BY DEF ImportCommits, dbVars
<1>4. JobFits(j, row[j], artifact[j], "imported", published, snapshots')
  BY <1>1, <1>2 DEF JobFits
<1>5. row' = [row EXCEPT ![j] = row[j]] /\ "imported" \in FinalizerPcs BY <1>2, <1>3 DEF FinalizerPcs
<1>6. /\ snapshots \subseteq snapshots' /\ snapshots' \subseteq published
      /\ active' # NoJob => active' \in snapshots'
      /\ active' \in Exports \cup {NoJob} /\ faults' \in 0..MaxFaults
  BY <1>1, <1>2, <1>3
<1>7. IInv' BY <1>1, <1>2, <1>3, <1>4, <1>5, <1>6, FinalizerKeeps
<1> QED BY <1>3, <1>7

\* An activation commits: the snapshot of the artifact is the active one.
LEMMA ActivationCommitsKeeps ==
  ASSUME ConstantsOK, IInv, NEW j \in Jobs, ActivationCommits(j)
  PROVE  IInv' /\ row' = row
PROOF
<1>1. finalizer[j] = "activating" /\ finalizer' = [finalizer EXCEPT ![j] = "activated"]
      /\ active' = artifact[j] /\ artifact[j] \in snapshots
  BY DEF ActivationCommits, FinalizerGoes
<1>2. /\ row[j] \in RowType /\ row[j].state # "none"
      /\ JobFits(j, row[j], artifact[j], finalizer[j], published, snapshots)
      /\ row = [row EXCEPT ![j] = row[j]]
      /\ published \subseteq Exports /\ artifact[j] \in published
      /\ faults \in 0..MaxFaults
      /\ snapshots \subseteq published
  BY <1>1, AtWork
<1>3. UNCHANGED <<row, snapshots, faults>>
      /\ UNCHANGED <<gameVars, order, artifact, starting, call, pending>>
  BY DEF ActivationCommits, dbVars
<1>4. JobFits(j, row[j], artifact[j], "activated", published, snapshots')
  BY <1>1, <1>2, <1>3 DEF JobFits
<1>5. row' = [row EXCEPT ![j] = row[j]] /\ "activated" \in FinalizerPcs BY <1>2, <1>3 DEF FinalizerPcs
<1>6. /\ snapshots \subseteq snapshots' /\ snapshots' \subseteq published
      /\ active' # NoJob => active' \in snapshots'
      /\ active' \in Exports \cup {NoJob} /\ faults' \in 0..MaxFaults
  BY <1>1, <1>2, <1>3
<1>7. IInv' BY <1>1, <1>2, <1>3, <1>4, <1>5, <1>6, FinalizerKeeps
<1> QED BY <1>3, <1>7

\* A step that writes the row of its job: only a finalizer past its start does.
WritesRow(j) == AfterImport(j) \/ AfterActivation(j) \/ FinalizerFails(j)

\* What a finalizer writes after its import, its activation or a failure.
LEMMA WritesKeep ==
  ASSUME ConstantsOK, IInv, NEW j \in Jobs, WritesRow(j)
  PROVE  /\ IInv'
         /\ \A k \in Jobs : k # j => row'[k] = row[k]
         /\ j \in HostJobs => row[j].state \in HostStates
PROOF
<1>1. finalizer[j] \in {"importing", "imported", "activating", "activated"}
  BY DEF WritesRow, AfterImport, AfterActivation, FinalizerFails, FinalizerGoes
<1>2. /\ row[j] \in RowType /\ row[j].state # "none"
      /\ JobFits(j, row[j], artifact[j], finalizer[j], published, snapshots)
      /\ artifact[j] \in published
      /\ active \in Exports \cup {NoJob} /\ faults \in 0..MaxFaults
      /\ snapshots \subseteq published /\ (active # NoJob => active \in snapshots)
  BY <1>1, AtWork
<1>3. UNCHANGED <<snapshots, active>>
      /\ UNCHANGED <<gameVars, order, artifact, starting, call, pending>>
  BY DEF WritesRow, AfterImport, AfterActivation, FinalizerFails, metaVars
<1>4. faults' \in 0..MaxFaults
  <2>1. faults' = faults \/ Fault BY DEF WritesRow, AfterImport, AfterActivation, FinalizerFails
  <2> QED BY <1>2, <2>1, FaultFits DEF IInv
<1>5. j \in HostJobs => j \notin Exports BY DEF ConstantsOK
<1>6. FinalState(j) \in {"reused", "completed"} /\ (j \in HostJobs => FinalState(j) = "reused")
  BY DEF FinalState
<1>7. PICK r \in RowType, pc \in {"none", "activating"} :
        /\ row' = [row EXCEPT ![j] = r] /\ finalizer' = [finalizer EXCEPT ![j] = pc]
        /\ r.state # "none"
        /\ JobFits(j, r, artifact[j], pc, published, snapshots)
  <2>1. CASE AfterImport(j) /\ row[j].activate
    <3> DEFINE r == [row[j] EXCEPT !.state = "activating", !.indexed = TRUE, !.activated = FALSE]
    <3>1. r \in RowType /\ r.state = "activating" /\ r.activate = row[j].activate /\ ~r.activated
      BY <1>2 DEF RowType, RowStates, HostStates
    <3>2. finalizer[j] = "imported" /\ row' = [row EXCEPT ![j] = r]
          /\ finalizer' = [finalizer EXCEPT ![j] = "activating"]
      BY <2>1 DEF AfterImport, FinalizerGoes
    <3> HIDE DEF r
    <3>3. JobFits(j, r, artifact[j], "activating", published, snapshots)
      BY <1>2, <2>1, <3>1, <3>2 DEF JobFits, HostStates
    <3> QED BY <3>1, <3>2, <3>3
  <2>2. CASE AfterImport(j) /\ ~row[j].activate
    <3> DEFINE r == [row[j] EXCEPT !.state = FinalState(j), !.snapshot = TRUE, !.indexed = TRUE,
                                   !.activated = FALSE]
    <3>1. r \in RowType /\ r.state = FinalState(j) /\ r.indexed /\ ~r.activated
      BY <1>2, <1>6 DEF RowType, RowStates, Terminal
    <3>2. finalizer[j] = "imported" /\ row' = [row EXCEPT ![j] = r]
          /\ finalizer' = [finalizer EXCEPT ![j] = "none"]
      BY <2>2 DEF AfterImport, FinalizerGoes, Write
    <3> HIDE DEF r
    <3>3. JobFits(j, r, artifact[j], "none", published, snapshots)
      BY <1>2, <1>6, <3>1, <3>2 DEF JobFits, HostStates
    <3> QED BY <1>6, <3>1, <3>2, <3>3
  <2>3. CASE AfterActivation(j)
    <3> DEFINE r == [row[j] EXCEPT !.state = FinalState(j), !.snapshot = TRUE, !.indexed = TRUE,
                                   !.activated = TRUE]
    <3>1. r \in RowType /\ r.state = FinalState(j) /\ r.indexed /\ r.activate = row[j].activate
      BY <1>2, <1>6 DEF RowType, RowStates, Terminal
    <3>2. finalizer[j] = "activated" /\ row' = [row EXCEPT ![j] = r]
          /\ finalizer' = [finalizer EXCEPT ![j] = "none"]
      BY <2>3 DEF AfterActivation, FinalizerGoes, Write
    <3> HIDE DEF r
    <3>3. JobFits(j, r, artifact[j], "none", published, snapshots)
      BY <1>2, <1>6, <3>1, <3>2 DEF JobFits, HostStates
    <3> QED BY <1>6, <3>1, <3>2, <3>3
  <2>4. CASE FinalizerFails(j)
    <3>1. PICK from \in {"importing", "activating"} :
            FinalizerGoes(j, from, "none") /\ Write(j, "host_failed", from = "activating", FALSE, FALSE)
      BY <2>4 DEF FinalizerFails
    <3> DEFINE b == (from = "activating")
               r == [row[j] EXCEPT !.state = "host_failed", !.snapshot = b, !.indexed = FALSE,
                                   !.activated = FALSE]
    <3>2. row' = [row EXCEPT ![j] = r] /\ finalizer' = [finalizer EXCEPT ![j] = "none"]
          /\ finalizer[j] = from
      BY <3>1 DEF FinalizerGoes, Write
    <3>3. b \in BOOLEAN /\ (b => from = "activating") OBVIOUS
    <3> HIDE DEF b
    <3>4. /\ r \in RowType /\ r.state = "host_failed" /\ r.snapshot = b /\ r.indexed = FALSE
          /\ r.activated = FALSE
      BY <1>2, <3>3 DEF RowType, RowStates, Terminal
    <3> HIDE DEF r
    <3>5. JobFits(j, r, artifact[j], "none", published, snapshots)
      BY <1>2, <3>2, <3>3, <3>4 DEF JobFits, HostStates
    <3> QED BY <3>2, <3>4, <3>5
  <2> QED BY <2>1, <2>2, <2>3, <2>4 DEF WritesRow
<1>8. pc \in FinalizerPcs BY DEF FinalizerPcs
<1>9. JobFits(j, r, artifact[j], pc, published, snapshots') BY <1>3, <1>7
<1>10. /\ snapshots \subseteq snapshots' /\ snapshots' \subseteq published
       /\ active' # NoJob => active' \in snapshots'
       /\ active' \in Exports \cup {NoJob}
  BY <1>2, <1>3
<1>11. IInv' BY <1>3, <1>4, <1>7, <1>8, <1>9, <1>10, FinalizerKeeps
<1>12. \A k \in Jobs : k # j => row'[k] = row[k] BY <1>7 DEF IInv, TypeOK
<1>13. j \in HostJobs => row[j].state \in HostStates BY <1>1, <1>2 DEF JobFits
<1> QED BY <1>11, <1>12, <1>13

\* The host ends: the table and the snapshots remain.
LEMMA HostEndsKeeps ==
  ASSUME ConstantsOK, IInv, HostEnds
  PROVE  IInv'
PROOF
<1>1. TypeOK /\ GameOK /\ CallsOK /\ JobsOK /\ PendingOK /\ RoundOK /\ SnapshotsOK BY DEF IInv
<1>2. /\ UNCHANGED <<gameJob, gameState, gameBusy, published, row, order, artifact, snapshots, active>>
      /\ starting' = NoAnswer /\ pending' = <<>>
      /\ call' = [c \in Callers |-> Quiet] /\ finalizer' = [j \in Jobs |-> "none"]
  BY DEF HostEnds, dbVars, metaVars, gameVars
<1>3. faults' \in 0..MaxFaults BY <1>1, FaultFits DEF HostEnds
<1>4. call' \in [Callers -> Calls] /\ CallsOK' /\ RoundOK'
  <2>1. Reconciler \in Callers /\ Quiet.phase = "none" BY DEF Callers, Quiet
  <2> QED BY <1>2, <2>1, QuietFits DEF CallsOK, RoundOK
<1>5. finalizer' \in [Jobs -> FinalizerPcs] BY <1>2 DEF FinalizerPcs
<1>6. JobsOK'
  <2>1. ASSUME NEW j \in Jobs PROVE JobFits(j, row[j], artifact[j], "none", published, snapshots)
    BY <1>1 DEF JobsOK, JobOK, JobFits
  <2> QED BY <1>2, <2>1 DEF JobsOK, JobOK
<1>7. PendingOK' /\ pending' \in Seq([job : Jobs, host : BOOLEAN])
  BY <1>1, <1>2, PendingStays DEF Known
<1>8. starting' \in [job : Exports \cup {NoJob}, wish : Wishes \cup {NoWish},
                     answer : BridgeStates \cup {"none"}] /\ starting'.answer = "none"
  BY <1>2 DEF NoAnswer
<1>9. TypeOK' BY <1>1, <1>2, <1>3, <1>4, <1>5, <1>7, <1>8 DEF TypeOK, Calls
<1>10. GameOK' BY <1>1, <1>2, <1>8 DEF GameOK
<1>11. SnapshotsOK' BY <1>1, <1>2, SnapshotsStay DEF metaVars
<1> QED BY <1>4, <1>6, <1>7, <1>9, <1>10, <1>11 DEF IInv

\* Nothing happens.
LEMMA StutterKeeps ==
  ASSUME IInv, UNCHANGED vars
  PROVE  IInv'
PROOF
<1>1. TypeOK /\ GameOK /\ CallsOK /\ JobsOK /\ PendingOK /\ RoundOK /\ SnapshotsOK BY DEF IInv
<1>2. UNCHANGED <<gameJob, gameState, gameBusy, published, starting, row, order, artifact, call,
                  pending, finalizer, snapshots, active, faults>>
  BY DEF vars, gameVars, dbVars, taskVars, metaVars
<1>3. TypeOK' BY <1>1, <1>2 DEF TypeOK
<1>4. GameOK' BY <1>1, <1>2, GameStays
<1>5. CallsOK' BY <1>1, <1>2, CallsStay
<1>6. JobsOK' BY <1>1, <1>2, JobsStay
<1>7. PendingOK' BY <1>1, <1>2, PendingStays DEF Known
<1>8. RoundOK' BY <1>1, <1>2 DEF RoundOK
<1>9. SnapshotsOK' BY <1>1, <1>2, SnapshotsStay DEF metaVars
<1> QED BY <1>3, <1>4, <1>5, <1>6, <1>7, <1>8, <1>9 DEF IInv

-----------------------------------------------------------------------------
(* The theorems *)

\* A step keeps the invariant, and leaves a host job that has ended alone.
LEMMA StepKeeps ==
  ASSUME ConstantsOK, IInv, Next
  PROVE  IInv' /\ \A h \in HostJobs : row[h].state \in Terminal => row'[h] = row[h]
PROOF
<1>1. CASE Game
  <2>1. IInv'
    BY <1>1, StartInGameKeeps, GameFinishesKeeps, GameRestKeeps DEF Game
  <2>2. row' = row
    BY <1>1 DEF Game, StartInGame, GameFinishes, GameLeaves, GameEnds, LoseStart, dbVars
  <2> QED BY <2>1, <2>2
<1>2. CASE Register BY <1>2, RegisterKeeps
<1>3. CASE Reuse
  <2>1. CASE \E j \in Exports : ReuseSnapshot(j)
    BY <2>1, ReuseSnapshotKeeps DEF ReuseSnapshot, dbVars
  <2>2. CASE \E j \in Exports, h \in HostJobs : ReuseArtifact(h, j)
    <3>1. NoRow.state \notin Terminal BY DEF NoRow, Terminal
    <3>2. IInv' /\ \A k \in HostJobs : row[k] # NoRow => row'[k] = row[k]
      BY <2>2, ReuseArtifactKeeps
    <3> QED BY <3>1, <3>2
  <2> QED BY <1>3, <2>1, <2>2 DEF Reuse
<1>4. CASE Read
  <2>1. CASE \E c \in Readers : ReaderHears(c) BY <2>1, ReaderHearsKeeps
  <2>2. CASE \E c \in Readers, j \in Jobs : ReaderAsks(c, j)
    <3>1. IInv' /\ row' = row BY <2>2, AskersKeep
    <3> QED BY <3>1
  <2> QED BY <1>4, <2>1, <2>2 DEF Read
<1>5. CASE Reconcile
  <2>1. CASE ReconcileBegins
    <3>1. row' = row BY <2>1 DEF ReconcileBegins, dbVars
    <3> QED BY <2>1, <3>1, ReconcileBeginsKeeps
  <2>2. CASE ReconcileAsks
    <3>1. IInv' /\ row' = row BY <2>2, ReconcileAsksKeeps
    <3> QED BY <3>1
  <2>3. CASE ReconcileHears BY <2>3, ReconcileHearsKeeps
  <2> QED BY <1>5, <2>1, <2>2, <2>3 DEF Reconcile
<1>6. CASE HostEnds
  <2>1. row' = row BY <1>6 DEF HostEnds, dbVars
  <2> QED BY <1>6, <2>1, HostEndsKeeps
<1>7. CASE \E c \in Callers : Answer(c) \/ LoseAnswer(c)
  <2>1. row' = row BY <1>7 DEF Answer, LoseAnswer, dbVars
  <2> QED BY <1>7, <2>1, AnswerKeeps
<1>8. CASE \E j \in Jobs : Watch(j)
  <2>1. PICK j \in Jobs : Watch(j) BY <1>8
  <2>2. CASE WatcherAsks(j)
    <3>1. IInv' /\ row' = row BY <2>2, AskersKeep
    <3> QED BY <3>1
  <2>3. CASE WatcherHears(j) BY <2>3, WatcherHearsKeeps
  <2> QED BY <2>1, <2>2, <2>3 DEF Watch
<1>9. CASE \E j \in Jobs : Finalize(j)
  <2>1. PICK j \in Jobs : Finalize(j) BY <1>9
  <2>2. CASE FinalizerBegins(j) \/ ImportCommits(j) \/ ActivationCommits(j)
    <3>1. IInv' /\ row' = row
      BY <2>2, FinalizerBeginsKeeps, ImportCommitsKeeps, ActivationCommitsKeeps
    <3> QED BY <3>1
  <2>3. CASE WritesRow(j)
    <3>1. HostJobs \subseteq Jobs BY DEF Jobs
    <3>2. \A s : ~(s \in Terminal /\ s \in HostStates) BY DEF Terminal, HostStates
    <3>3. /\ IInv'
          /\ \A k \in Jobs : k # j => row'[k] = row[k]
          /\ j \in HostJobs => row[j].state \in HostStates
      BY <2>3, WritesKeep
    <3> QED BY <3>1, <3>2, <3>3
  <2> QED BY <2>1, <2>2, <2>3 DEF Finalize, WritesRow
<1> QED BY <1>1, <1>2, <1>3, <1>4, <1>5, <1>6, <1>7, <1>8, <1>9 DEF Next

\* The invariant holds in every reachable state.
THEOREM InductiveInvariant == Spec => []IInv
PROOF
<1>1. Init => IInv BY ConstantsOK, InitHolds
<1>2. IInv /\ [Next]_vars => IInv' BY ConstantsOK, StepKeeps, StutterKeeps
<1> QED BY <1>1, <1>2, PTL DEF Spec

\* What the table and the metadata tell of an export is true, and was wished,
\* through crashes, late answers and rows written twice: an indexed or activated
\* job has a complete snapshot, the active snapshot is complete, only what the
\* game has published is indexed, and only a job that asked for it activates.
THEOREM TableAlwaysTruthful == Spec => []TableIsTruthful
PROOF
<1>1. IInv => TableIsTruthful
  <2> SUFFICES ASSUME IInv PROVE TableIsTruthful OBVIOUS
  <2>1. TypeOK /\ JobsOK /\ SnapshotsOK BY DEF IInv
  <2>2. MetadataClaimsHold BY <2>1 DEF MetadataClaimsHold, JobsOK, JobOK, JobFits, SnapshotsOK
  <2>3. OnlyPublishedIsIndexed BY <2>1 DEF OnlyPublishedIsIndexed, SnapshotsOK
  <2>4. ActivationIsAskedFor BY <2>1 DEF ActivationIsAskedFor, JobsOK, JobOK, JobFits
  <2> QED BY <2>1, <2>2, <2>3, <2>4 DEF TableIsTruthful
<1> QED BY <1>1, InductiveInvariant, PTL

\* The job the host makes to index a reused artifact ends once and for all, and
\* never as reused without its metadata.
THEOREM HostJobsAlwaysEndOnce == Spec => HostJobsEndOnce
PROOF
<1>1. ASSUME IInv', NEW h \in HostJobs, row'[h].state = "reused" PROVE row'[h].indexed
  <2>1. h \in Jobs BY DEF Jobs
  <2>2. JobFits(h, row'[h], artifact'[h], finalizer'[h], published', snapshots')
    BY <1>1, <2>1 DEF IInv, JobsOK, JobOK
  <2> QED BY <1>1, <2>2 DEF JobFits
<1>2. IInv /\ [Next]_vars =>
        [\A h \in HostJobs :
           /\ row[h].state \in Terminal => row'[h] = row[h]
           /\ row'[h].state = "reused" => row'[h].indexed]_vars
  BY <1>1, ConstantsOK, StepKeeps
<1> QED BY <1>2, InductiveInvariant, PTL DEF Spec, HostJobsEndOnce
=============================================================================
