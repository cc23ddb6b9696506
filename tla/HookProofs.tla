----------------------------- MODULE HookProofs -----------------------------
(***************************************************************************)
(* Proofs about HookManager and HookObservation for any number of slots,   *)
(* hooks, methods, callers, objects and archived hooks, and any bounds on  *)
(* events, time, restarts and faults.  HookObservation implements          *)
(* HookManager: what is proved of the tables of the bridge in the first    *)
(* part is at hand in the second, about the host.                          *)
(***************************************************************************)
EXTENDS HookObservation, SequenceTheorems, FiniteSetTheorems, WellFoundedInduction, TLAPS

-----------------------------------------------------------------------------
(* The tables of the bridge *)

\* The inductive invariant behind the properties.

\* A list without repetition.
Once(q) == \A i, j \in 1..Len(q) : q[i] = q[j] => i = j

HooksOf(q) == {q[i] : i \in 1..Len(q)}

Events == [method : Methods, phase : {"pre", "post"}, content : Contents]

\* The type invariant, as far as it speaks of the tables,
TablesOK ==
  /\ entry \in [Slots -> Hooks \cup {NoHook}]
  /\ \A s, t \in Slots : (entry[s] = entry[t] /\ entry[s] # NoHook) => s = t
  /\ native \subseteq [slot : Slots, method : Methods, id : Hooks]
  /\ archive \in Seq(Hooks) /\ Len(archive) <= ArchiveSize /\ Once(archive)
  /\ Archived \cap Installed = {}
  /\ restarts \in 0..MaxRestarts

\* and as far as it speaks of the hooks.
HooksOK ==
  /\ method \in [Hooks -> Methods \cup {NoMethod}]
  /\ phase \in [Hooks -> Phases \cup {"both"}]
  /\ ttl \in [Hooks -> 0..Ttl]
  /\ captured \in [Hooks -> Seq(Events)]
  /\ dropped \in [Hooks -> BOOLEAN]
  /\ \A h \in Hooks : Len(captured[h]) <= MaxEvents /\ (dropped[h] => Len(captured[h]) = MaxEvents)

\* Nothing is known of a hook that was never installed.
UnknownAreEmpty ==
  \A h \in Hooks : method[h] = NoMethod => (h \notin Installed \cup Archived /\ captured[h] = <<>>)

\* The callbacks of an installed hook are those of its method, and its slot
\* holds it as long as they are registered.
CallbacksAreOwned ==
  \A n \in native : method[n.id] # NoMethod => method[n.id] = n.method /\ entry[n.slot] = n.id

IInv == TablesOK /\ HooksOK /\ UnknownAreEmpty /\ CallbacksAreOwned /\ EventsAreOfTheMethod

-----------------------------------------------------------------------------
(* Lists of hooks *)

\* A set of numbers has a least one.
LEMMA HasLeast ==
  ASSUME NEW D \in SUBSET Nat, D # {}
  PROVE  \E d \in D : \A e \in D : d <= e
PROOF
<1> DEFINE LessThan == {ss \in Nat \X Nat : ss[1] < ss[2]}
<1>1. IsWellFoundedOn(LessThan, Nat)
  <2>1. OpToRel(<, Nat) = LessThan BY DEF OpToRel
  <2> QED BY <2>1, NatLessThanWellFounded
<1> HIDE DEF LessThan
<1>2. PICK d \in D : \A e \in D : ~(<<e, d>> \in LessThan) BY <1>1, WFMin
<1>3. ASSUME NEW e \in D PROVE d <= e
  <2>1. e < d => <<e, d>> \in LessThan BY DEF LessThan
  <2> QED BY <1>2, <2>1
<1> QED BY <1>3

\* A list without repetition has as many entries as there are hooks in it.
LEMMA OnceCounts ==
  ASSUME archive \in Seq(Hooks), Once(archive)
  PROVE  Cardinality(Archived) = Len(archive)
PROOF
<1> DEFINE n == Len(archive)
<1>1. n \in Nat /\ archive \in [1..n -> Hooks] BY LenProperties
<1>2. IsFiniteSet(1..n) /\ Cardinality(1..n) = n BY <1>1, FS_Interval
<1>3. archive \in Surjection(1..n, Archived) BY <1>1 DEF Surjection, Archived
<1>4. archive \in Injection(1..n, Archived)
  BY <1>1, <1>3 DEF Injection, IsInjective, Surjection, Once
<1> HIDE DEF n
<1>5. Cardinality(Archived) = Cardinality(1..n) BY <1>2, <1>3, <1>4, FS_Surjection
<1> QED BY <1>2, <1>5 DEF n

\* The hooks of the slots S up to m, in their order.
Orders(g, S, m) ==
  g = [n \in 0..m |-> IF n = 0 THEN <<>>
                      ELSE IF n \in S THEN Append(g[n - 1], entry[n]) ELSE g[n - 1]]

\* There is such a function, so InOrderOfSlots is what its recursion says.
LEMMA OrderExists ==
  ASSUME NEW S, NEW k \in Nat
  PROVE  \E g : Orders(g, S, k)
PROOF
<1> DEFINE D == {m \in 0..k : ~\E g : Orders(g, S, m)}
<1> SUFFICES ASSUME k \in D PROVE FALSE OBVIOUS
<1>1. D \in SUBSET Nat /\ D # {} OBVIOUS
<1>2. PICK m \in D : \A e \in D : m <= e BY <1>1, HasLeast
<1>3. m \in 0..k /\ ~\E g : Orders(g, S, m) OBVIOUS
<1>4. CASE m = 0
  <2> DEFINE g == [n \in 0..0 |-> <<>>]
  <2>1. Orders(g, S, 0)
    <3>1. \A n \in 0..0 : n = 0 OBVIOUS
    <3>2. g = [n \in 0..0 |-> IF n = 0 THEN <<>>
                              ELSE IF n \in S THEN Append(g[n - 1], entry[n]) ELSE g[n - 1]]
      BY <3>1
    <3> HIDE DEF g
    <3> QED BY <3>2 DEF Orders
  <2> HIDE DEF g
  <2> QED BY <1>3, <1>4, <2>1
<1>5. CASE m # 0
  <2>1. m - 1 \in 0..k /\ ~(m <= m - 1) /\ m \in 1..k BY <1>3, <1>5
  <2>2. m - 1 \notin D BY <1>2, <2>1
  <2>3. PICK g : Orders(g, S, m - 1) BY <2>1, <2>2
  <2> DEFINE Next1(f, n) == IF n \in S THEN Append(f[n - 1], entry[n]) ELSE f[n - 1]
             h == [n \in 0..m |-> IF n < m THEN g[n] ELSE Next1(g, n)]
  <2>4. ASSUME NEW n \in 0..m PROVE h[n] = IF n = 0 THEN <<>> ELSE Next1(h, n)
    <3>1. n # 0 => n - 1 \in 0..m /\ n - 1 < m /\ h[n - 1] = g[n - 1] BY <2>1
    <3>2. CASE n < m
      <4>1. n \in 0..(m - 1) BY <3>2, <2>1
      <4>2. g[n] = IF n = 0 THEN <<>> ELSE Next1(g, n) BY <2>3, <4>1 DEF Orders
      <4> QED BY <3>1, <3>2, <4>2
    <3>3. CASE ~(n < m)
      <4>1. n # 0 /\ h[n] = Next1(g, n) BY <2>1, <3>3
      <4> QED BY <3>1, <4>1
    <3> QED BY <3>2, <3>3
  <2>5. h = [n \in 0..m |-> h[n]] OBVIOUS
  <2> HIDE DEF h
  <2>6. Orders(h, S, m) BY <2>4, <2>5 DEF Orders
  <2> QED BY <1>3, <2>6
<1> QED BY <1>4, <1>5

\* Appending one that is new.
LEMMA OnceMore ==
  ASSUME NEW q \in Seq(Hooks), Once(q), NEW h \in Hooks, \A i \in 1..Len(q) : q[i] # h
  PROVE  /\ Append(q, h) \in Seq(Hooks) /\ Once(Append(q, h))
         /\ HooksOf(Append(q, h)) = HooksOf(q) \cup {h}
PROOF
<1>1. /\ Append(q, h) \in Seq(Hooks) /\ Len(Append(q, h)) = Len(q) + 1
      /\ \A i \in 1..Len(q) : Append(q, h)[i] = q[i]
      /\ Append(q, h)[Len(q) + 1] = h
  BY AppendProperties
<1>2. Len(q) \in Nat BY LenProperties
<1> DEFINE a == Append(q, h)
<1>3. a \in Seq(Hooks) /\ Len(a) = Len(q) + 1 BY <1>1
<1>4. \A i \in 1..Len(a) : (i \in 1..Len(q) /\ a[i] = q[i]) \/ (i = Len(q) + 1 /\ a[i] = h)
  BY <1>1, <1>2
<1>5. \A i \in 1..Len(q) : i \in 1..Len(a) /\ a[i] = q[i] BY <1>1, <1>2
<1>6. Len(a) \in 1..Len(a) /\ a[Len(a)] = h BY <1>1, <1>2
<1> HIDE DEF a
<1>7. Once(a) BY <1>2, <1>3, <1>4 DEF Once
<1>8. HooksOf(a) = HooksOf(q) \cup {h} BY <1>4, <1>5, <1>6 DEF HooksOf
<1> QED BY <1>3, <1>7, <1>8 DEF a

\* The hooks of some slots in the order of the slots: each of them once, when
\* no two of the slots hold the same.
LEMMA InOrder ==
  ASSUME NEW S \in SUBSET Slots, SlotCount \in Nat, \A s \in S : entry[s] \in Hooks,
         \A s, t \in S : entry[s] = entry[t] => s = t
  PROVE  /\ InOrderOfSlots(S) \in Seq(Hooks) /\ Once(InOrderOfSlots(S))
         /\ HooksOf(InOrderOfSlots(S)) = {entry[s] : s \in S}
PROOF
<1> DEFINE f == CHOOSE g : Orders(g, S, SlotCount)
<1>1. InOrderOfSlots(S) = f[SlotCount] BY DEF InOrderOfSlots, Orders
<1>2. Orders(f, S, SlotCount) BY OrderExists
<1> HIDE DEF f
<1>3. \A n \in 0..SlotCount : f[n] = IF n = 0 THEN <<>>
                                     ELSE IF n \in S THEN Append(f[n - 1], entry[n]) ELSE f[n - 1]
  BY <1>2 DEF Orders
<1> DEFINE Good(n) == /\ f[n] \in Seq(Hooks) /\ Once(f[n])
                      /\ HooksOf(f[n]) = {entry[s] : s \in S \cap 1..n}
           Bad == {n \in 0..SlotCount : ~Good(n)}
<1>4. ASSUME NEW n \in Bad PROVE FALSE
  <2>0. 0..SlotCount \subseteq Nat OBVIOUS
  <2> HIDE DEF Good
  <2>1. Bad \in SUBSET Nat /\ Bad # {} BY <1>4, <2>0
  <2> USE DEF Good
  <2>2. PICK m \in Bad : \A e \in Bad : m <= e BY <2>1, HasLeast
  <2>3. m \in 0..SlotCount /\ ~Good(m) OBVIOUS
  <2>4. CASE m = 0
    <3>1. f[m] = <<>> BY <1>3, <2>3, <2>4
    <3>2. f[m] \in Seq(Hooks) /\ Len(f[m]) = 0 BY <3>1
    <3>3. 1..0 = {} /\ S \cap 1..m = {} BY <2>4
    <3>4. Once(f[m]) /\ HooksOf(f[m]) = {} BY <3>2, <3>3 DEF Once, HooksOf
    <3> QED BY <2>3, <3>2, <3>3, <3>4
  <2>5. CASE m # 0
    <3>1. m - 1 \in 0..SlotCount /\ ~(m <= m - 1) /\ m \in Slots BY <2>3, <2>5 DEF Slots
    <3>2. Good(m - 1) BY <2>2, <3>1
    <3>3. f[m] = IF m \in S THEN Append(f[m - 1], entry[m]) ELSE f[m - 1] BY <1>3, <2>3, <2>5
    <3>4. 1..m = 1..(m - 1) \cup {m} /\ m \notin 1..(m - 1) BY <2>3, <2>5
    <3>5. CASE m \notin S
      <4>1. S \cap 1..m = S \cap 1..(m - 1) BY <3>4, <3>5
      <4> QED BY <2>3, <3>2, <3>3, <3>5, <4>1
    <3>6. CASE m \in S
      <4>1. entry[m] \in Hooks BY <3>6
      <4>2. entry[m] \notin HooksOf(f[m - 1]) BY <3>2, <3>4, <3>6
      <4>3. \A i \in 1..Len(f[m - 1]) : f[m - 1][i] # entry[m] BY <4>2 DEF HooksOf
      <4>4. f[m] = Append(f[m - 1], entry[m]) BY <3>3, <3>6
      <4>5. /\ f[m] \in Seq(Hooks) /\ Once(f[m])
            /\ HooksOf(f[m]) = HooksOf(f[m - 1]) \cup {entry[m]}
        <5> DEFINE q == f[m - 1]
        <5>1. q \in Seq(Hooks) /\ Once(q) /\ \A i \in 1..Len(q) : q[i] # entry[m] BY <3>2, <4>3
        <5>2. f[m] = Append(q, entry[m]) BY <4>4
        <5> HIDE DEF q
        <5>3. /\ f[m] \in Seq(Hooks) /\ Once(f[m])
              /\ HooksOf(f[m]) = HooksOf(q) \cup {entry[m]}
          BY <4>1, <5>1, <5>2, OnceMore
        <5> QED BY <5>3 DEF q
      <4>6. S \cap 1..m = (S \cap 1..(m - 1)) \cup {m} BY <3>4, <3>6
      <4>7. {entry[s] : s \in S \cap 1..m} = {entry[s] : s \in S \cap 1..(m - 1)} \cup {entry[m]}
        BY <4>6
      <4> QED BY <2>3, <3>2, <4>5, <4>7
    <3> QED BY <3>5, <3>6
  <2> QED BY <2>4, <2>5
<1>5. Good(SlotCount)
  <2>1. SlotCount \in 0..SlotCount OBVIOUS
  <2> HIDE DEF Good
  <2> QED BY <1>4, <2>1
<1>6. S \cap 1..SlotCount = S BY DEF Slots
<1> QED BY <1>1, <1>5, <1>6

\* The archive is trimmed to its newest entries.
LEMMA NewestKept ==
  ASSUME NEW q \in Seq(Hooks), Once(q), ArchiveSize \in Nat \ {0}
  PROVE  /\ Newest(q) \in Seq(Hooks) /\ Once(Newest(q))
         /\ \E k \in Nat : /\ Len(Newest(q)) = Len(q) - k
                           /\ k = 0 => Len(q) <= ArchiveSize
                           /\ k # 0 => Len(q) - k = ArchiveSize
                           /\ \A i \in 1..Len(Newest(q)) : Newest(q)[i] = q[i + k]
PROOF
<1>1. Len(q) \in Nat /\ \A i \in 1..Len(q) : q[i] \in Hooks BY LenProperties, ElementOfSeq
<1>2. CASE Len(q) <= ArchiveSize
  <2>1. Newest(q) = q BY <1>2 DEF Newest
  <2>2. \A i \in 1..Len(q) : i + 0 = i BY <1>1
  <2> QED BY <1>1, <1>2, <2>1, <2>2
<1>3. CASE ~(Len(q) <= ArchiveSize)
  <2> DEFINE k == Len(q) - ArchiveSize
             r == SubSeq(q, k + 1, Len(q))
  <2>1. k \in Nat /\ k # 0 /\ Len(q) - k = ArchiveSize BY <1>1, <1>3
  <2>2. Newest(q) = r BY <1>3 DEF Newest
  <2>3. k + 1 \in Int /\ Len(q) \in Int /\ \A i \in (k + 1)..Len(q) : q[i] \in Hooks BY <1>1, <2>1
  <2>4. /\ r \in Seq(Hooks)
        /\ Len(r) = IF k + 1 <= Len(q) THEN Len(q) - (k + 1) + 1 ELSE 0
        /\ \A i \in 1..(Len(q) - (k + 1) + 1) : r[i] = q[k + 1 + i - 1]
    BY <2>3, SubSeqProperties
  <2>5. Len(r) = ArchiveSize /\ Len(r) = Len(q) - k /\ Len(q) - (k + 1) + 1 = Len(r)
    BY <1>1, <2>1, <2>4
  <2>6. \A i \in 1..Len(r) : i + k \in 1..Len(q) /\ k + 1 + i - 1 = i + k BY <1>1, <2>1, <2>5
  <2>7. \A i \in 1..Len(r) : r[i] = q[i + k] BY <2>4, <2>5, <2>6
  <2> HIDE DEF r, k
  <2>8. Once(r)
    <3>1. ASSUME NEW i \in 1..Len(r), NEW j \in 1..Len(r), r[i] = r[j] PROVE i = j
      <4>1. i + k = j + k BY <2>6, <2>7, <3>1 DEF Once
      <4> QED BY <2>1, <4>1
    <3> QED BY <3>1 DEF Once
  <2> QED BY <2>1, <2>2, <2>4, <2>5, <2>7, <2>8
<1> QED BY <1>2, <1>3

\* Two lists without repetition and without a common hook, one after the other.
LEMMA OneAfterTheOther ==
  ASSUME NEW a \in Seq(Hooks), NEW b \in Seq(Hooks), Once(a), Once(b),
         HooksOf(a) \cap HooksOf(b) = {}
  PROVE  /\ a \o b \in Seq(Hooks) /\ Once(a \o b)
         /\ HooksOf(a \o b) = HooksOf(a) \cup HooksOf(b)
         /\ Len(a) <= Len(a \o b)
         /\ \A i \in 1..Len(a) : (a \o b)[i] = a[i]
PROOF
<1> DEFINE q == a \o b
<1>1. Len(a) \in Nat /\ Len(b) \in Nat BY LenProperties
<1>2. /\ q \in Seq(Hooks) /\ Len(q) = Len(a) + Len(b)
      /\ \A i \in 1..(Len(a) + Len(b)) : q[i] = IF i <= Len(a) THEN a[i] ELSE b[i - Len(a)]
  BY ConcatProperties
<1> HIDE DEF q
<1>3. \A i \in 1..Len(q) : \/ i \in 1..Len(a) /\ q[i] = a[i]
                           \/ i - Len(a) \in 1..Len(b) /\ q[i] = b[i - Len(a)]
  BY <1>1, <1>2
<1>4. \A i \in 1..Len(a) : i \in 1..Len(q) /\ q[i] = a[i] BY <1>1, <1>2
<1>5. \A i \in 1..Len(b) : i + Len(a) \in 1..Len(q) /\ q[i + Len(a)] = b[i]
  <2>1. \A i \in 1..Len(b) : /\ i + Len(a) \in 1..(Len(a) + Len(b)) /\ ~(i + Len(a) <= Len(a))
                             /\ i + Len(a) - Len(a) = i
    BY <1>1
  <2> QED BY <1>2, <2>1
<1>6. HooksOf(q) = HooksOf(a) \cup HooksOf(b)
  <2>1. \A h \in HooksOf(q) : h \in HooksOf(a) \cup HooksOf(b) BY <1>3 DEF HooksOf
  <2>2. \A h \in HooksOf(a) : h \in HooksOf(q) BY <1>4 DEF HooksOf
  <2>3. \A h \in HooksOf(b) : h \in HooksOf(q) BY <1>5 DEF HooksOf
  <2> QED BY <2>1, <2>2, <2>3
<1>7. Once(q)
  <2>1. ASSUME NEW i \in 1..Len(q), NEW j \in 1..Len(q), q[i] = q[j] PROVE i = j
    <3>1. CASE i \in 1..Len(a) /\ q[i] = a[i] /\ j \in 1..Len(a) /\ q[j] = a[j]
      BY <2>1, <3>1 DEF Once
    <3>2. CASE /\ i - Len(a) \in 1..Len(b) /\ q[i] = b[i - Len(a)]
               /\ j - Len(a) \in 1..Len(b) /\ q[j] = b[j - Len(a)]
      <4>1. i - Len(a) = j - Len(a) BY <2>1, <3>2 DEF Once
      <4>2. i \in Int /\ j \in Int BY <1>1, <1>2
      <4> QED BY <1>1, <4>1, <4>2
    <3>3. CASE i \in 1..Len(a) /\ q[i] = a[i] /\ j - Len(a) \in 1..Len(b) /\ q[j] = b[j - Len(a)]
      BY <2>1, <3>3 DEF HooksOf
    <3>4. CASE j \in 1..Len(a) /\ q[j] = a[j] /\ i - Len(a) \in 1..Len(b) /\ q[i] = b[i - Len(a)]
      BY <2>1, <3>4 DEF HooksOf
    <3> QED BY <1>3, <3>1, <3>2, <3>3, <3>4
  <2> QED BY <2>1 DEF Once
<1>8. Len(a) <= Len(q) BY <1>1, <1>2
<1> QED BY <1>2, <1>4, <1>6, <1>7, <1>8 DEF q

\* What a release of slots does to the tables.
LEMMA Releases ==
  ASSUME ConstantsOK, TablesOK, NEW S \in SUBSET Slots, \A s \in S : entry[s] # NoHook,
         Release(S), restarts' = restarts
  PROVE  /\ TablesOK'
         /\ Installed' \subseteq Installed
         /\ Archived' \subseteq Archived \cup Installed
         /\ native' \subseteq native
         /\ \A s \in Slots : s \notin S => entry'[s] = entry[s]
         /\ \A n \in native : n \notin native' => n.slot \in S /\ n.id = entry[n.slot]
         /\ \A n \in native' : ~(n.slot \in S /\ n.id = entry[n.slot])
         /\ \A h \in Installed \ Installed' : h \in Archived' \/ Len(archive') = ArchiveSize
         /\ \A i \in 1..Len(archive) : archive[i] \notin Archived' =>
              (Len(archive') = ArchiveSize /\ \A k \in 1..i : archive[k] \notin Archived')
PROOF
<1> DEFINE r == InOrderOfSlots(S)
           q == archive \o r
           R == {entry[s] : s \in S}
<1>1. ArchiveSize \in Nat \ {0} /\ SlotCount \in Nat /\ NoHook \notin Hooks BY DEF ConstantsOK
<1>2. entry \in [Slots -> Hooks \cup {NoHook}] BY DEF TablesOK
<1>3. \A s, t \in Slots : (entry[s] = entry[t] /\ entry[s] # NoHook) => s = t BY DEF TablesOK
<1>4. \A s \in S : entry[s] \in Hooks BY <1>2
<1>5. \A s, t \in S : entry[s] = entry[t] => s = t BY <1>3
<1>6. r \in Seq(Hooks) /\ Once(r) /\ HooksOf(r) = R BY <1>1, <1>4, <1>5, InOrder
<1> HIDE DEF r
<1>7. archive \in Seq(Hooks) /\ Once(archive) /\ Archived \cap Installed = {} BY DEF TablesOK
<1>8. R \subseteq Installed BY <1>4 DEF Installed
<1>9. HooksOf(archive) = Archived BY DEF HooksOf, Archived
<1>10. /\ q \in Seq(Hooks) /\ Once(q) /\ HooksOf(q) = Archived \cup R
       /\ Len(archive) <= Len(q) /\ \A i \in 1..Len(archive) : q[i] = archive[i]
  BY <1>6, <1>7, <1>8, <1>9, OneAfterTheOther
<1>11. archive' = Newest(q) BY DEF Release, r
<1> HIDE DEF q
<1> DEFINE Shifted(a, k) == /\ Len(a) = Len(q) - k
                            /\ k = 0 => Len(q) <= ArchiveSize
                            /\ k # 0 => Len(q) - k = ArchiveSize
                            /\ \A i \in 1..Len(a) : a[i] = q[i + k]
<1>0. /\ Newest(q) \in Seq(Hooks) /\ Once(Newest(q))
      /\ \E k \in Nat : Shifted(Newest(q), k)
  BY <1>1, <1>10, NewestKept
<1> HIDE DEF Shifted
<1>12. PICK k \in Nat : Shifted(archive', k) BY <1>0, <1>11
<1> USE DEF Shifted
<1>13. archive' \in Seq(Hooks) /\ Once(archive') BY <1>0, <1>11
<1>14. Len(q) \in Nat /\ Len(archive) \in Nat /\ Len(archive') \in Nat
  BY <1>7, <1>10, <1>13, LenProperties
<1>15. Len(archive') <= ArchiveSize BY <1>1, <1>12, <1>14
<1>16. \A i \in 1..Len(archive') : i + k \in 1..Len(q) BY <1>12, <1>14
<1>17. \A i \in 1..Len(q) : i \in (k + 1)..Len(q) => i - k \in 1..Len(archive') /\ i - k + k = i
  BY <1>12, <1>14
<1>18. Archived' = {archive'[i] : i \in 1..Len(archive')} BY DEF Archived
<1>19. Archived' \subseteq Archived \cup R
  <2>1. \A i \in 1..Len(archive') : archive'[i] \in HooksOf(q) BY <1>12, <1>16 DEF HooksOf
  <2> QED BY <1>10, <1>18, <2>1
<1>20. \A i \in (k + 1)..Len(q) : i \in 1..Len(q) /\ q[i] \in Archived'
  <2>1. (k + 1)..Len(q) \subseteq 1..Len(q) BY <1>14
  <2>2. \A i \in (k + 1)..Len(q) : q[i] = archive'[i - k] /\ i - k \in 1..Len(archive')
    BY <1>12, <1>17, <2>1
  <2> QED BY <1>18, <2>1, <2>2
<1>21. entry' = [s \in Slots |-> IF s \in S THEN NoHook ELSE entry[s]] BY DEF Release
<1>22. native' = {n \in native : ~(n.slot \in S /\ n.id = entry[n.slot])} BY DEF Release
<1>23. Installed' = Installed \ R
  <2>1. Installed' = {h \in Hooks : \E s \in Slots : entry'[s] = h} BY DEF Installed
  <2>2. \A h \in Installed' : h \in Installed /\ h \notin R
    BY <1>1, <1>3, <1>21, <2>1 DEF Installed
  <2>3. \A h \in Installed : h \notin R => h \in Installed' BY <1>21, <2>1 DEF Installed
  <2> QED BY <2>2, <2>3
<1>24. TablesOK'
  <2>1. entry' \in [Slots -> Hooks \cup {NoHook}] BY <1>2, <1>21
  <2>2. \A s, t \in Slots : (entry'[s] = entry'[t] /\ entry'[s] # NoHook) => s = t BY <1>3, <1>21
  <2>3. native' \subseteq [slot : Slots, method : Methods, id : Hooks] BY <1>22 DEF TablesOK
  <2>4. Archived' \cap Installed' = {} BY <1>7, <1>19, <1>23
  <2>5. restarts' \in 0..MaxRestarts BY DEF TablesOK
  <2> QED BY <1>13, <1>15, <2>1, <2>2, <2>3, <2>4, <2>5 DEF TablesOK, Once
<1>25. ASSUME NEW h \in Installed \ Installed'
       PROVE  h \in Archived' \/ Len(archive') = ArchiveSize
  <2>1. h \in HooksOf(q) BY <1>10, <1>23
  <2>2. PICK i \in 1..Len(q) : q[i] = h BY <2>1 DEF HooksOf
  <2>3. k = 0 => i \in (k + 1)..Len(q) BY <2>2
  <2> QED BY <1>12, <1>20, <2>2, <2>3
<1>26. ASSUME NEW i \in 1..Len(archive), archive[i] \notin Archived'
       PROVE  Len(archive') = ArchiveSize /\ \A j \in 1..i : archive[j] \notin Archived'
  <2>1. i \in 1..Len(q) /\ q[i] = archive[i] BY <1>10, <1>14
  <2>2. i <= k /\ k # 0 BY <1>14, <1>20, <1>26, <2>1
  <2>3. ASSUME NEW j \in 1..i, archive[j] \in Archived' PROVE FALSE
    <3>1. j \in 1..Len(archive) /\ j \in 1..Len(q) /\ q[j] = archive[j] BY <1>10, <1>14
    <3>2. PICK m \in 1..Len(archive') : archive'[m] = q[j] BY <1>18, <2>3, <3>1
    <3>3. q[m + k] = q[j] /\ m + k \in 1..Len(q) BY <1>12, <1>16, <3>2
    <3>4. m + k = j BY <1>10, <3>1, <3>3 DEF Once
    <3> QED BY <1>14, <2>2, <3>4
  <2> QED BY <1>12, <2>2, <2>3
<1>27. Installed' \subseteq Installed BY <1>23
<1>28. Archived' \subseteq Archived \cup Installed BY <1>8, <1>19
<1>29. /\ native' \subseteq native
       /\ \A n \in native : n \notin native' => n.slot \in S /\ n.id = entry[n.slot]
       /\ \A n \in native' : ~(n.slot \in S /\ n.id = entry[n.slot])
  BY <1>22
<1>30. \A s \in Slots : s \notin S => entry'[s] = entry[s] BY <1>21
<1> QED BY <1>24, <1>25, <1>26, <1>27, <1>28, <1>29, <1>30

-----------------------------------------------------------------------------
(* The inductive invariant *)

\* The invariant holds at first.
LEMMA InitHolds ==
  ASSUME ConstantsOK, ManagerInit
  PROVE  IInv
PROOF
<1>1. NoHook \notin Hooks /\ Ttl \in Nat /\ MaxRestarts \in Nat /\ ArchiveSize \in Nat /\ MaxEvents \in Nat
  BY DEF ConstantsOK
<1>2. Installed = {} /\ Archived = {} BY <1>1 DEF ManagerInit, Installed, Archived
<1>3. TablesOK BY <1>1, <1>2 DEF ManagerInit, TablesOK, Once
<1>4. HooksOK BY <1>1 DEF ManagerInit, HooksOK
<1>5. UnknownAreEmpty BY <1>2 DEF ManagerInit, UnknownAreEmpty
<1>6. CallbacksAreOwned BY DEF ManagerInit, CallbacksAreOwned
<1>7. EventsAreOfTheMethod BY <1>2 DEF EventsAreOfTheMethod
<1> QED BY <1>3, <1>4, <1>5, <1>6, <1>7 DEF IInv

\* A released slot takes its own callbacks with it, and no callback that was
\* left without an owner.
LEMMA ReleaseKeeps ==
  ASSUME ConstantsOK, IInv, NEW S \in SUBSET Slots, \A s \in S : entry[s] # NoHook,
         Release(S), UNCHANGED <<hookVars, restarts>>
  PROVE  IInv'
PROOF
<1>1. TablesOK /\ HooksOK /\ UnknownAreEmpty /\ CallbacksAreOwned /\ EventsAreOfTheMethod BY DEF IInv
<1>2. UNCHANGED <<method, phase, ttl, captured, dropped>> /\ restarts' = restarts BY DEF hookVars
<1>3. /\ TablesOK'
      /\ Installed' \subseteq Installed
      /\ Archived' \subseteq Archived \cup Installed
      /\ native' \subseteq native
      /\ \A s \in Slots : s \notin S => entry'[s] = entry[s]
      /\ \A n \in native : n \notin native' => n.slot \in S /\ n.id = entry[n.slot]
      /\ \A n \in native' : ~(n.slot \in S /\ n.id = entry[n.slot])
  BY <1>1, <1>2, Releases
<1>4. HooksOK' BY <1>1, <1>2 DEF HooksOK
<1>5. UnknownAreEmpty' BY <1>1, <1>2, <1>3 DEF UnknownAreEmpty
<1>6. \A n \in native : n.slot \in Slots /\ n.id \in Hooks BY <1>1 DEF TablesOK
<1>7. CallbacksAreOwned'
  <2>1. ASSUME NEW n \in native', method[n.id] # NoMethod
        PROVE  method[n.id] = n.method /\ entry'[n.slot] = n.id
    <3>1. n \in native /\ method[n.id] = n.method /\ entry[n.slot] = n.id
      BY <1>1, <1>3, <2>1 DEF CallbacksAreOwned
    <3> QED BY <1>3, <1>6, <3>1
  <2> QED BY <1>2, <2>1 DEF CallbacksAreOwned
<1>8. EventsAreOfTheMethod'
  <2>1. ASSUME \A n \in native' : method[n.id] # NoMethod, NEW n \in native
        PROVE  method[n.id] # NoMethod
    <3>1. CASE n \in native' BY <2>1, <3>1
    <3>2. CASE n \notin native'
      <4>1. n.id = entry[n.slot] BY <1>3, <3>2
      <4>2. n.id \in Installed BY <1>6, <4>1 DEF Installed
      <4> QED BY <1>1, <1>6, <4>2 DEF UnknownAreEmpty
    <3> QED BY <3>1, <3>2
  <2>2. ASSUME \A n \in native' : method[n.id] # NoMethod, NEW h \in Installed' \cup Archived',
               NEW i \in 1..Len(captured[h])
        PROVE  captured[h][i].method = method[h]
    <3>1. \A n \in native : method[n.id] # NoMethod BY <2>1, <2>2
    <3>2. h \in Installed \cup Archived BY <1>3
    <3> QED BY <1>1, <3>1, <3>2 DEF EventsAreOfTheMethod
  <2> QED BY <1>2, <2>2 DEF EventsAreOfTheMethod
<1> QED BY <1>3, <1>4, <1>5, <1>7, <1>8 DEF IInv

\* remove releases one slot.
LEMMA RemoveKeeps ==
  ASSUME ConstantsOK, IInv, NEW h \in Hooks, Remove(h)
  PROVE  IInv'
PROOF
<1>1. PICK s \in Slots : entry[s] = h /\ Release({s}) BY DEF Remove
<1>2. UNCHANGED <<hookVars, restarts>> BY DEF Remove
<1>3. {s} \in SUBSET Slots /\ \A t \in {s} : entry[t] # NoHook BY <1>1 DEF ConstantsOK
<1> QED BY <1>1, <1>2, <1>3, ReleaseKeeps

\* clear_expired releases the slots of all hooks whose time is over.
LEMMA ClearKeeps ==
  ASSUME ConstantsOK, IInv, ClearExpired
  PROVE  IInv'
PROOF
<1> DEFINE S == {s \in Slots : Expired(s)}
<1>1. S \in SUBSET Slots /\ \A s \in S : entry[s] # NoHook BY DEF Expired
<1>2. Release(S) /\ UNCHANGED <<hookVars, restarts>> BY DEF ClearExpired
<1> HIDE DEF S
<1> QED BY <1>1, <1>2, ReleaseKeeps

\* A hook is installed under a reference nobody has heard of.
LEMMA InstallKeeps ==
  ASSUME ConstantsOK, IInv, NEW h \in Hooks, NEW m \in Methods, NEW p \in Phases, Install(h, m, p)
  PROVE  IInv'
PROOF
<1>1. TablesOK /\ HooksOK /\ UnknownAreEmpty /\ CallbacksAreOwned /\ EventsAreOfTheMethod BY DEF IInv
<1>2. PICK s \in Slots : /\ FirstFree(s) /\ native' = native \cup {Callbacks(s, m, h)}
                         /\ entry' = [entry EXCEPT ![s] = h]
  BY DEF Install
<1>3. /\ method' = [method EXCEPT ![h] = m] /\ phase' = [phase EXCEPT ![h] = p]
      /\ ttl' = [ttl EXCEPT ![h] = Ttl]
      /\ archive' = archive /\ captured' = captured /\ dropped' = dropped /\ restarts' = restarts
  BY DEF Install
<1>4. method[h] = NoMethod /\ \A n \in native : n.id # h BY DEF Install, Drawn
<1>5. NoHook \notin Hooks /\ NoMethod \notin Methods /\ Ttl \in Nat BY DEF ConstantsOK
<1>6. entry[s] = NoHook BY <1>2 DEF FirstFree, Free
<1>7. entry \in [Slots -> Hooks \cup {NoHook}] BY <1>1 DEF TablesOK
<1>8. h \notin Installed /\ h \notin Archived /\ captured[h] = <<>> BY <1>1, <1>4 DEF UnknownAreEmpty
<1>9. \A t \in Slots : entry'[t] = IF t = s THEN h ELSE entry[t] BY <1>2, <1>7
<1>10. Installed' = Installed \cup {h} BY <1>5, <1>6, <1>9 DEF Installed
<1>11. Archived' = Archived BY <1>3 DEF Archived
<1>12. Callbacks(s, m, h) \in [slot : Slots, method : Methods, id : Hooks]
       /\ Callbacks(s, m, h).slot = s /\ Callbacks(s, m, h).method = m /\ Callbacks(s, m, h).id = h
  BY DEF Callbacks
<1>13. TablesOK'
  <2>1. entry' \in [Slots -> Hooks \cup {NoHook}] BY <1>2, <1>7
  <2>2. \A t \in Slots : entry[t] # h BY <1>8 DEF Installed
  <2>3. \A t, u \in Slots : (entry'[t] = entry'[u] /\ entry'[t] # NoHook) => t = u
    BY <1>1, <1>9, <2>2 DEF TablesOK
  <2>4. native' \subseteq [slot : Slots, method : Methods, id : Hooks] BY <1>1, <1>2, <1>12 DEF TablesOK
  <2>5. Archived' \cap Installed' = {} BY <1>1, <1>8, <1>10, <1>11 DEF TablesOK
  <2> QED BY <1>1, <1>3, <2>1, <2>3, <2>4, <2>5 DEF TablesOK
<1>14. method \in [Hooks -> Methods \cup {NoMethod}] BY <1>1 DEF HooksOK
<1>15. \A g \in Hooks : method'[g] = IF g = h THEN m ELSE method[g] BY <1>3, <1>14
<1>16. HooksOK'
  <2>1. method' \in [Hooks -> Methods \cup {NoMethod}] BY <1>3, <1>14
  <2>2. phase' \in [Hooks -> Phases \cup {"both"}] BY <1>1, <1>3 DEF HooksOK
  <2>3. ttl' \in [Hooks -> 0..Ttl] BY <1>1, <1>3, <1>5 DEF HooksOK
  <2> QED BY <1>1, <1>3, <2>1, <2>2, <2>3 DEF HooksOK
<1>17. UnknownAreEmpty' BY <1>1, <1>3, <1>5, <1>10, <1>11, <1>15 DEF UnknownAreEmpty
<1>18. \A n \in native : n.slot \in Slots /\ n.id \in Hooks BY <1>1 DEF TablesOK
<1>19. CallbacksAreOwned'
  <2>1. ASSUME NEW n \in native, method'[n.id] # NoMethod
        PROVE  method'[n.id] = n.method /\ entry'[n.slot] = n.id
    <3>1. n.id # h /\ method'[n.id] = method[n.id] BY <1>4, <1>15, <1>18
    <3>2. method[n.id] = n.method /\ entry[n.slot] = n.id BY <1>1, <2>1, <3>1 DEF CallbacksAreOwned
    <3>3. n.slot # s BY <1>5, <1>6, <1>18, <3>2
    <3> QED BY <1>9, <1>18, <3>1, <3>2, <3>3
  <2>2. method'[h] = m /\ entry'[s] = h BY <1>9, <1>15
  <2> QED BY <1>2, <1>12, <2>1, <2>2 DEF CallbacksAreOwned
<1>20. EventsAreOfTheMethod'
  <2>1. ASSUME \A n \in native' : method'[n.id] # NoMethod, NEW n \in native
        PROVE  method[n.id] # NoMethod
    BY <1>2, <1>4, <1>15, <1>18, <2>1
  <2>2. ASSUME \A n \in native' : method'[n.id] # NoMethod, NEW g \in Installed' \cup Archived',
               NEW i \in 1..Len(captured[g])
        PROVE  captured[g][i].method = method'[g]
    <3>1. CASE g = h
      <4>1. Len(captured[g]) = 0 BY <1>8, <3>1
      <4> QED BY <4>1
    <3>2. CASE g # h
      <4>1. g \in Installed \cup Archived BY <1>10, <1>11, <3>2
      <4>2. g \in Hooks
        <5>1. Archived \subseteq Hooks BY <1>1, ElementOfSeq DEF Archived, TablesOK
        <5> QED BY <4>1, <5>1 DEF Installed
      <4>3. \A n \in native : method[n.id] # NoMethod BY <2>1, <2>2
      <4>4. captured[g][i].method = method[g] BY <1>1, <4>1, <4>3 DEF EventsAreOfTheMethod
      <4> QED BY <1>15, <3>2, <4>2, <4>4
    <3> QED BY <3>1, <3>2
  <2> QED BY <1>3, <2>2 DEF EventsAreOfTheMethod
<1> QED BY <1>13, <1>16, <1>17, <1>19, <1>20 DEF IInv

\* An install that fails leaves callbacks of a hook nobody has heard of, and
\* from then on the promise about the events is off.
LEMMA InstallFailsKeeps ==
  ASSUME ConstantsOK, IInv, NEW h \in Hooks, NEW m \in Methods, InstallFails(h, m)
  PROVE  IInv'
PROOF
<1>1. TablesOK /\ HooksOK /\ UnknownAreEmpty /\ CallbacksAreOwned /\ EventsAreOfTheMethod BY DEF IInv
<1>2. PICK s \in Slots : native' = native \cup {Callbacks(s, m, h)} BY DEF InstallFails
<1>3. UNCHANGED <<entry, archive, method, phase, ttl, captured, dropped, restarts>>
  BY DEF InstallFails, hookVars
<1>4. method[h] = NoMethod BY DEF InstallFails, Drawn
<1>5. Callbacks(s, m, h) \in [slot : Slots, method : Methods, id : Hooks] /\ Callbacks(s, m, h).id = h
  BY DEF Callbacks
<1>6. Installed' = Installed /\ Archived' = Archived BY <1>3 DEF Installed, Archived
<1>7. TablesOK' BY <1>1, <1>2, <1>3, <1>5, <1>6 DEF TablesOK
<1>8. HooksOK' BY <1>1, <1>3 DEF HooksOK
<1>9. UnknownAreEmpty' BY <1>1, <1>3, <1>6 DEF UnknownAreEmpty
<1>10. CallbacksAreOwned' BY <1>1, <1>2, <1>3, <1>4, <1>5 DEF CallbacksAreOwned
<1>11. EventsAreOfTheMethod'
  <2>1. ~\A n \in native' : method'[n.id] # NoMethod BY <1>2, <1>3, <1>4, <1>5
  <2> QED BY <2>1 DEF EventsAreOfTheMethod
<1> QED BY <1>7, <1>8, <1>9, <1>10, <1>11 DEF IInv

\* Time passes.
LEMMA TickKeeps ==
  ASSUME ConstantsOK, IInv, Tick
  PROVE  IInv'
PROOF
<1>1. TablesOK /\ HooksOK /\ UnknownAreEmpty /\ CallbacksAreOwned /\ EventsAreOfTheMethod BY DEF IInv
<1>2. UNCHANGED <<entry, native, archive, method, phase, captured, dropped, restarts>>
  BY DEF Tick, tableVars
<1>3. Installed' = Installed /\ Archived' = Archived BY <1>2 DEF Installed, Archived
<1>4. ttl \in [Hooks -> 0..Ttl] /\ Ttl \in Nat BY <1>1 DEF HooksOK, ConstantsOK
<1>5. ttl' \in [Hooks -> 0..Ttl] BY <1>4 DEF Tick, TickHooks
<1>6. TablesOK' BY <1>1, <1>2, <1>3 DEF TablesOK
<1>7. HooksOK' BY <1>1, <1>2, <1>5 DEF HooksOK
<1>8. UnknownAreEmpty' BY <1>1, <1>2, <1>3 DEF UnknownAreEmpty
<1>9. CallbacksAreOwned' BY <1>1, <1>2 DEF CallbacksAreOwned
<1>10. EventsAreOfTheMethod' BY <1>1, <1>2, <1>3 DEF EventsAreOfTheMethod
<1> QED BY <1>6, <1>7, <1>8, <1>9, <1>10 DEF IInv

\* The game ends.
LEMMA ForgetKeeps ==
  ASSUME ConstantsOK, IInv, ForgetAll
  PROVE  IInv'
PROOF
<1>1. TablesOK /\ HooksOK /\ UnknownAreEmpty BY DEF IInv
<1>2. /\ entry' = [s \in Slots |-> NoHook] /\ native' = {} /\ archive' = <<>>
      /\ restarts' = restarts + 1 /\ restarts < MaxRestarts
      /\ UNCHANGED <<method, phase, ttl, captured, dropped>>
  BY DEF ForgetAll, hookVars
<1>3. NoHook \notin Hooks /\ ArchiveSize \in Nat /\ MaxRestarts \in Nat BY DEF ConstantsOK
<1>4. Installed' = {} /\ Archived' = {} BY <1>2, <1>3 DEF Installed, Archived
<1>5. restarts' \in 0..MaxRestarts BY <1>1, <1>2, <1>3 DEF TablesOK
<1>6. TablesOK' BY <1>2, <1>3, <1>4, <1>5 DEF TablesOK, Once
<1>7. HooksOK' BY <1>1, <1>2 DEF HooksOK
<1>8. UnknownAreEmpty' BY <1>1, <1>2, <1>4 DEF UnknownAreEmpty
<1>9. CallbacksAreOwned' BY <1>2 DEF CallbacksAreOwned
<1>10. EventsAreOfTheMethod' BY <1>4 DEF EventsAreOfTheMethod
<1> QED BY <1>6, <1>7, <1>8, <1>9, <1>10 DEF IInv

\* A callback records for the hook its slot holds; as long as every callback
\* has an owner, that is the hook it was registered for.
LEMMA RecordKeeps ==
  ASSUME ConstantsOK, IInv, NEW n \in native, NEW w \in {"pre", "post"}, NEW c \in Contents,
         entry[n.slot] # NoHook, Record(entry[n.slot], Event(n, w, c)),
         UNCHANGED <<tableVars, method, phase, ttl, restarts>>
  PROVE  IInv'
PROOF
<1> DEFINE h == entry[n.slot]
           e == Event(n, w, c)
<1>1. TablesOK /\ HooksOK /\ UnknownAreEmpty /\ CallbacksAreOwned /\ EventsAreOfTheMethod BY DEF IInv
<1>2. UNCHANGED <<entry, native, archive, method, phase, ttl, restarts>> BY DEF tableVars
<1>3. n.slot \in Slots /\ n.method \in Methods /\ n.id \in Hooks BY <1>1 DEF TablesOK
<1>4. h \in Hooks /\ h \in Installed BY <1>1, <1>3 DEF TablesOK, Installed
<1>5. e \in Events /\ e.method = n.method BY <1>3 DEF Event, Events
<1>6. Record(h, e) OBVIOUS
<1>7. method[h] # NoMethod BY <1>1, <1>4 DEF UnknownAreEmpty
<1> HIDE DEF e
<1>8. captured \in [Hooks -> Seq(Events)] /\ dropped \in [Hooks -> BOOLEAN] BY <1>1 DEF HooksOK
<1>9. MaxEvents \in Nat BY DEF ConstantsOK
<1>10. \A g \in Hooks : Len(captured[g]) \in Nat BY <1>8, LenProperties
<1>11. \A g \in Hooks : Len(captured[g]) <= MaxEvents /\ (dropped[g] => Len(captured[g]) = MaxEvents)
  BY <1>1 DEF HooksOK
<1>12. Installed' = Installed /\ Archived' = Archived BY <1>2 DEF Installed, Archived
<1>13. TablesOK' BY <1>1, <1>2, <1>12 DEF TablesOK
<1>14. CallbacksAreOwned' BY <1>1, <1>2 DEF CallbacksAreOwned
<1>15. CASE Len(captured[h]) < MaxEvents
  <2>0. ~(Len(captured[h]) >= MaxEvents) BY <1>4, <1>9, <1>10, <1>15
  <2>1. captured' = [captured EXCEPT ![h] = Append(@, e)] /\ dropped' = dropped
    BY <1>6, <2>0 DEF Record
  <2>2. \A g \in Hooks : captured'[g] = IF g = h THEN Append(captured[h], e) ELSE captured[g]
    BY <1>8, <2>1
  <2>3. /\ Append(captured[h], e) \in Seq(Events)
        /\ Len(Append(captured[h], e)) = Len(captured[h]) + 1
        /\ \A i \in 1..Len(captured[h]) : Append(captured[h], e)[i] = captured[h][i]
        /\ Append(captured[h], e)[Len(captured[h]) + 1] = e
    BY <1>4, <1>5, <1>8, AppendProperties
  <2>4. captured' \in [Hooks -> Seq(Events)] BY <1>8, <2>1, <2>3
  <2>5. \A g \in Hooks : Len(captured'[g]) <= MaxEvents
                         /\ (dropped'[g] => Len(captured'[g]) = MaxEvents)
    BY <1>4, <1>9, <1>10, <1>11, <1>15, <2>1, <2>2, <2>3
  <2>6. HooksOK' BY <1>1, <1>2, <2>1, <2>4, <2>5 DEF HooksOK
  <2>7. UnknownAreEmpty' BY <1>1, <1>2, <1>7, <1>12, <2>2 DEF UnknownAreEmpty
  <2>8. EventsAreOfTheMethod'
    <3>1. ASSUME \A k \in native : method[k.id] # NoMethod, NEW g \in Installed \cup Archived,
                 NEW i \in 1..Len(captured'[g])
          PROVE  captured'[g][i].method = method[g]
      <4>1. \A j \in 1..Len(captured[g]) : captured[g][j].method = method[g]
        BY <1>1, <3>1 DEF EventsAreOfTheMethod
      <4>2. g \in Hooks
        <5>1. Archived \subseteq Hooks BY <1>1, ElementOfSeq DEF Archived, TablesOK
        <5> QED BY <5>1 DEF Installed
      <4>3. CASE g # h BY <2>2, <4>1, <4>2, <4>3
      <4>4. CASE g = h
        <5>1. captured'[g] = Append(captured[h], e) BY <2>2, <4>2, <4>4
        <5>2. i \in 1..Len(captured[h]) \/ i = Len(captured[h]) + 1
          BY <1>4, <1>10, <2>3, <5>1
        <5>3. method[n.id] = n.method /\ h = n.id BY <1>1, <3>1 DEF CallbacksAreOwned
        <5>4. e.method = method[h] BY <1>5, <5>3
        <5> QED BY <2>3, <4>1, <4>4, <5>1, <5>2, <5>4
      <4> QED BY <4>3, <4>4
    <3> QED BY <1>2, <1>12, <3>1 DEF EventsAreOfTheMethod
  <2> QED BY <1>13, <1>14, <2>6, <2>7, <2>8 DEF IInv
<1>16. CASE ~(Len(captured[h]) < MaxEvents)
  <2>1. captured' = captured /\ dropped' = [dropped EXCEPT ![h] = TRUE]
    BY <1>6, <1>16 DEF Record
  <2>2. Len(captured[h]) = MaxEvents BY <1>4, <1>9, <1>10, <1>11, <1>16
  <2>3. dropped' \in [Hooks -> BOOLEAN] BY <1>8, <2>1
  <2>4. \A g \in Hooks : dropped'[g] => g = h \/ dropped[g] BY <1>8, <2>1
  <2>5. HooksOK' BY <1>1, <1>2, <2>1, <2>2, <2>3, <2>4 DEF HooksOK
  <2>6. UnknownAreEmpty' BY <1>1, <1>2, <1>12, <2>1 DEF UnknownAreEmpty
  <2>7. EventsAreOfTheMethod' BY <1>1, <1>2, <1>12, <2>1 DEF EventsAreOfTheMethod
  <2> QED BY <1>13, <1>14, <2>5, <2>6, <2>7 DEF IInv
<1> QED BY <1>15, <1>16

\* A callback runs, before or after the method.
LEMMA ObserveKeeps ==
  ASSUME ConstantsOK, IInv, Observe
  PROVE  IInv'
PROOF
<1>1. PICK n \in native, c \in Contents : OnPre(n, c) \/ OnPost(n, c) BY DEF Observe
<1>2. PICK w \in {"pre", "post"} : /\ entry[n.slot] # NoHook
                                   /\ Record(entry[n.slot], Event(n, w, c))
                                   /\ UNCHANGED <<tableVars, method, phase, ttl, restarts>>
  BY <1>1 DEF OnPre, OnPost
<1> QED BY <1>2, RecordKeeps

\* Nothing happens.
LEMMA StutterKeeps ==
  ASSUME IInv, UNCHANGED managerVars
  PROVE  IInv'
PROOF
<1>1. TablesOK /\ HooksOK /\ UnknownAreEmpty /\ CallbacksAreOwned /\ EventsAreOfTheMethod BY DEF IInv
<1>2. UNCHANGED <<entry, native, archive, method, phase, ttl, captured, dropped, restarts>>
  BY DEF managerVars, tableVars, hookVars
<1>3. Installed' = Installed /\ Archived' = Archived BY <1>2 DEF Installed, Archived
<1>4. TablesOK' BY <1>1, <1>2, <1>3 DEF TablesOK
<1>5. HooksOK' BY <1>1, <1>2 DEF HooksOK
<1>6. UnknownAreEmpty' BY <1>1, <1>2, <1>3 DEF UnknownAreEmpty
<1>7. CallbacksAreOwned' BY <1>1, <1>2 DEF CallbacksAreOwned
<1>8. EventsAreOfTheMethod' BY <1>1, <1>2, <1>3 DEF EventsAreOfTheMethod
<1> QED BY <1>4, <1>5, <1>6, <1>7, <1>8 DEF IInv

\* Every step keeps the invariant.
LEMMA ManagerKeeps ==
  ASSUME ConstantsOK, IInv, [ManagerNext]_managerVars
  PROVE  IInv'
PROOF
<1>1. CASE \E h \in Hooks, m \in Methods, p \in Phases : Install(h, m, p) BY <1>1, InstallKeeps
<1>2. CASE \E h \in Hooks, m \in Methods : InstallFails(h, m) BY <1>2, InstallFailsKeeps
<1>3. CASE \E h \in Hooks : Remove(h) BY <1>3, RemoveKeeps
<1>4. CASE ClearExpired BY <1>4, ClearKeeps
<1>5. CASE Tick BY <1>5, TickKeeps
<1>6. CASE ForgetAll BY <1>6, ForgetKeeps
<1>7. CASE Observe BY <1>7, ObserveKeeps
<1>8. CASE UNCHANGED managerVars BY <1>8, StutterKeeps
<1> QED BY <1>1, <1>2, <1>3, <1>4, <1>5, <1>6, <1>7, <1>8 DEF ManagerNext

\* The invariant holds in every reachable state.
THEOREM InductiveInvariant == ManagerSpec => []IInv
PROOF
<1>1. ManagerInit => IInv BY ConstantsOK, InitHolds
<1>2. IInv /\ [ManagerNext]_managerVars => IInv' BY ConstantsOK, ManagerKeeps
<1> QED BY <1>1, <1>2, PTL DEF ManagerSpec

-----------------------------------------------------------------------------
(* What the runs check *)

\* The invariant contains the type invariant.
LEMMA Typed ==
  ASSUME IInv
  PROVE  ManagerTypeOK
PROOF
<1>1. TablesOK /\ HooksOK /\ UnknownAreEmpty BY DEF IInv
<1>2. Cardinality(Archived) = Len(archive) BY <1>1, OnceCounts DEF TablesOK
<1>3. \A h \in Hooks :
        captured[h] \in Seq([method : Methods, phase : {"pre", "post"}, content : Contents])
  BY <1>1 DEF HooksOK, Events
<1>4. \A h \in Hooks : method[h] = NoMethod => (h \notin Installed \cup Archived /\ captured[h] = <<>>)
  BY <1>1 DEF UnknownAreEmpty
<1>5. /\ entry \in [Slots -> Hooks \cup {NoHook}]
      /\ \A s, t \in Slots : (entry[s] = entry[t] /\ entry[s] # NoHook) => s = t
      /\ native \subseteq [slot : Slots, method : Methods, id : Hooks]
      /\ archive \in Seq(Hooks) /\ Len(archive) <= ArchiveSize
      /\ Archived \cap Installed = {}
      /\ restarts \in 0..MaxRestarts
  BY <1>1 DEF TablesOK
<1>6. /\ method \in [Hooks -> Methods \cup {NoMethod}]
      /\ phase \in [Hooks -> Phases \cup {"both"}]
      /\ ttl \in [Hooks -> 0..Ttl]
      /\ dropped \in [Hooks -> BOOLEAN]
      /\ \A h \in Hooks : Len(captured[h]) <= MaxEvents /\ (dropped[h] => Len(captured[h]) = MaxEvents)
  BY <1>1 DEF HooksOK
<1> QED BY <1>2, <1>3, <1>4, <1>5, <1>6 DEF ManagerTypeOK

\* No hook is in two slots, none is both installed and archived, none holds
\* more events than it may, and nothing is known of a hook that was never
\* installed.
THEOREM AlwaysTyped == ManagerSpec => []ManagerTypeOK
PROOF
<1>1. IInv => ManagerTypeOK BY Typed
<1> QED BY <1>1, InductiveInvariant, PTL

\* A hook only shows calls of the method it was installed on, as long as no
\* install has failed and left its callbacks without an owner.
THEOREM EventsAlwaysOfTheMethod == ManagerSpec => []EventsAreOfTheMethod
PROOF
<1>1. IInv => EventsAreOfTheMethod BY DEF IInv
<1> QED BY <1>1, InductiveInvariant, PTL

\* A step of one life of the game archives what it removes, and only a full
\* archive forgets, the oldest first.
Keeps ==
  /\ \A h \in Installed \ Installed' : h \in Archived' \/ Len(archive') = ArchiveSize
  /\ \A i \in 1..Len(archive) : archive[i] \notin Archived' =>
       (Len(archive') = ArchiveSize /\ \A k \in 1..i : archive[k] \notin Archived')

\* A step that releases no slot keeps the archive and every installed hook.
LEMMA KeepsUnlessReleased ==
  ASSUME Installed \subseteq Installed', archive' = archive
  PROVE  Keeps
PROOF
<1>1. Archived' = Archived BY DEF Archived
<1>2. \A i \in 1..Len(archive) : archive[i] \in Archived' BY <1>1 DEF Archived
<1> QED BY <1>2 DEF Keeps

\* No step drops an archived hook before the archive is full of newer ones.
LEMMA StepKeeps ==
  ASSUME ConstantsOK, IInv, ManagerNext, restarts' = restarts
  PROVE  Keeps
PROOF
<1>1. TablesOK /\ UnknownAreEmpty BY DEF IInv
<1>2. CASE \E h \in Hooks, m \in Methods, p \in Phases : Install(h, m, p)
  <2>1. PICK h \in Hooks, m \in Methods, p \in Phases : Install(h, m, p) BY <1>2
  <2>2. PICK s \in Slots : FirstFree(s) /\ entry' = [entry EXCEPT ![s] = h] BY <2>1 DEF Install
  <2>3. entry \in [Slots -> Hooks \cup {NoHook}] /\ entry[s] = NoHook /\ NoHook \notin Hooks
    BY <1>1, <2>2 DEF TablesOK, FirstFree, Free, ConstantsOK
  <2>4. Installed \subseteq Installed' BY <2>2, <2>3 DEF Installed
  <2> QED BY <2>1, <2>4, KeepsUnlessReleased DEF Install
<1>3. CASE \E h \in Hooks, m \in Methods : InstallFails(h, m)
  BY <1>3, KeepsUnlessReleased DEF InstallFails, Installed
<1>4. CASE \E h \in Hooks : Remove(h)
  <2>1. PICK h \in Hooks : Remove(h) BY <1>4
  <2>2. PICK s \in Slots : entry[s] = h /\ Release({s}) BY <2>1 DEF Remove
  <2>3. {s} \in SUBSET Slots /\ \A t \in {s} : entry[t] # NoHook BY <2>2 DEF ConstantsOK
  <2> QED BY <1>1, <2>2, <2>3, Releases DEF Keeps
<1>5. CASE ClearExpired
  <2> DEFINE S == {s \in Slots : Expired(s)}
  <2>1. S \in SUBSET Slots /\ \A s \in S : entry[s] # NoHook BY DEF Expired
  <2>2. Release(S) BY <1>5 DEF ClearExpired
  <2> HIDE DEF S
  <2> QED BY <1>1, <2>1, <2>2, Releases DEF Keeps
<1>6. CASE Tick BY <1>6, KeepsUnlessReleased DEF Tick, tableVars, Installed
<1>7. CASE ForgetAll
  <2>1. restarts \in Nat BY <1>1 DEF TablesOK, ConstantsOK
  <2> QED BY <1>7, <2>1 DEF ForgetAll
<1>8. CASE Observe
  <2>1. UNCHANGED tableVars BY <1>8 DEF Observe, OnPre, OnPost
  <2> QED BY <2>1, KeepsUnlessReleased DEF tableVars, Installed
<1> QED BY <1>2, <1>3, <1>4, <1>5, <1>6, <1>7, <1>8 DEF ManagerNext

\* The events of a removed hook are kept, and stay readable until ArchiveSize
\* others have been removed after it, unless the game ends.
THEOREM ArchiveAlwaysKeepsTheNewest == ManagerSpec => ArchiveKeepsTheNewest
PROOF
<1>1. IInv /\ [ManagerNext]_managerVars =>
        [restarts' = restarts =>
           /\ \A h \in Installed \ Installed' : h \in Archived' \/ Len(archive') = ArchiveSize
           /\ \A i \in 1..Len(archive) : archive[i] \notin Archived' =>
                (Len(archive') = ArchiveSize /\ \A k \in 1..i : archive[k] \notin Archived')
        ]_managerVars
  BY ConstantsOK, StepKeeps DEF Keeps
<1> QED BY <1>1, InductiveInvariant, PTL DEF ManagerSpec, ArchiveKeepsTheNewest

-----------------------------------------------------------------------------
(* The host *)

\* The inductive invariant behind HostShowsCaptures, beside that of the manager.

Known(h) == method[h] # NoMethod

\* The first k events of h, which is what an answer of the game shows.
Shown(h, k) == {captured[h][i] : i \in 1..k}

Calls == [phase : {"idle", "sent", "answered"}, kind : Kinds, hook : Hooks \cup {NoHook},
          count : 0..MaxEvents, state : {"none", "installed", "removed", "not_found"}]

HostTyped ==
  /\ installing \subseteq Hooks
  /\ call \in [Callers -> Calls]
  /\ session \in [Hooks -> {"none", "installed", "removed", "not_found"}]
  /\ lease \in [Objects -> 0..Lease] /\ node \in [Objects -> 0..Lease]
  /\ faults \in 0..MaxFaults
  /\ DOMAIN stored = Hooks

\* The hook is over, and what it captured is shown, if the bridge still has it.
IsOver(h, shown) == h \notin Installed /\ (h \in Archived => Captured(h) \subseteq shown)

\* An answer shows events of its hook, all of them if it says "removed" and the
\* hook is in the archive.
CallOK(x) ==
  x.phase # "idle" =>
    /\ x.hook \in Hooks /\ Known(x.hook)
    /\ x.phase = "answered" => x.state # "none" /\ x.count <= Len(captured[x.hook])
    /\ x.phase = "answered" /\ x.state = "removed" => IsOver(x.hook, Shown(x.hook, x.count))

CallsOK == \A c \in Callers : CallOK(call[c])

\* The host knows of installed hooks only, and what it calls removed is over.
SessionOK(h) ==
  /\ h \in installing \/ session[h] # "none" => Known(h)
  /\ stored[h] \subseteq Captured(h)
  /\ session[h] = "removed" => IsOver(h, stored[h])

SessionsOK == \A h \in Hooks : SessionOK(h)

NodesOK == \A o \in Objects : node[o] > 0 => \E h \in Hooks : \E e \in stored[h] : e.content = o

HostIInv == HostTyped /\ CallsOK /\ SessionsOK /\ NodesOK

-----------------------------------------------------------------------------
(* The manager under the host *)

\* Every step of the composition is a step of the manager, or leaves its tables
\* alone: nobody asks to remove a hook that is none.
LEMMA NextIsManagerStep ==
  ASSUME HostTyped, CallsOK, [Next]_vars
  PROVE  [ManagerNext]_managerVars
PROOF
<1>1. CASE Capture BY <1>1 DEF Capture, ManagerNext, Observe
<1>2. CASE Expire BY <1>2 DEF Expire, ManagerNext
<1>3. CASE Restart BY <1>3 DEF Restart, ManagerNext
<1>4. CASE TimePasses BY <1>4 DEF TimePasses, Tick, ManagerNext
<1>5. CASE \E o \in Objects : UseObject(o) BY <1>5 DEF UseObject
<1>6. CASE \E h \in Hooks, m \in Methods, p \in Phases : InstallHook(h, m, p)
  BY <1>6 DEF InstallHook, ManagerNext
<1>7. CASE \E h \in Hooks, m \in Methods : InstallHookFails(h, m)
  BY <1>7 DEF InstallHookFails, ManagerNext
<1>8. CASE \E h \in Hooks : HearInstalled(h) \/ MissInstalled(h)
  BY <1>8 DEF HearInstalled, MissInstalled
<1>9. CASE \E c \in Callers, h \in Hooks, k \in Kinds : Ask(c, h, k) BY <1>9 DEF Ask
<1>10. CASE \E c \in Callers : AnswerRead(c) \/ Hear(c) \/ Miss(c)
  BY <1>10 DEF AnswerRead, Hear, Miss
<1>11. CASE \E c \in Callers : AnswerRemove(c)
  <2>1. PICK c \in Callers : AnswerRemove(c) BY <1>11
  <2>2. call[c].hook \in Hooks BY <2>1 DEF AnswerRemove, Asked, CallsOK, CallOK
  <2>3. Remove(call[c].hook) \/ UNCHANGED managerVars BY <2>1 DEF AnswerRemove
  <2> QED BY <2>2, <2>3 DEF ManagerNext
<1>12. CASE UNCHANGED vars BY <1>12 DEF vars
<1> QED BY <1>1, <1>2, <1>3, <1>4, <1>5, <1>6, <1>7, <1>8, <1>9, <1>10, <1>11, <1>12 DEF Next

\* What a step of the manager leaves as it is: events are only added, and of a
\* hook that is over nothing changes but that the archive may forget it.
Remains(h) ==
  /\ Known(h) => Known(h)'
  /\ Len(captured[h]) <= Len(captured'[h])
  /\ \A i \in 1..Len(captured[h]) : captured'[h][i] = captured[h][i]
  /\ Known(h) /\ h \notin Installed =>
       /\ h \notin Installed' /\ captured'[h] = captured[h]
       /\ h \in Archived' => h \in Archived

\* A release of slots leaves the hooks alone.
LEMMA ReleaseRemains ==
  ASSUME ConstantsOK, IInv, NEW S \in SUBSET Slots, \A s \in S : entry[s] # NoHook,
         Release(S), UNCHANGED <<hookVars, restarts>>, NEW h \in Hooks
  PROVE  Remains(h)
PROOF
<1>1. TablesOK /\ HooksOK BY DEF IInv
<1>2. Installed' \subseteq Installed /\ Archived' \subseteq Archived \cup Installed BY <1>1, Releases
<1>3. method' = method /\ captured' = captured BY DEF hookVars
<1>4. Len(captured[h]) \in Nat BY <1>1, LenProperties DEF HooksOK
<1> QED BY <1>2, <1>3, <1>4 DEF Remains, Known

\* The same for every step.
LEMMA ManagerRemains ==
  ASSUME ConstantsOK, IInv, [ManagerNext]_managerVars, NEW h \in Hooks
  PROVE  Remains(h)
PROOF
<1>1. TablesOK /\ HooksOK /\ UnknownAreEmpty BY DEF IInv
<1>2. captured \in [Hooks -> Seq(Events)] /\ method \in [Hooks -> Methods \cup {NoMethod}]
  BY <1>1 DEF HooksOK
<1>3. Len(captured[h]) \in Nat BY <1>2, LenProperties
<1>4. ASSUME entry' = entry, archive' = archive, method' = method, captured' = captured
      PROVE  Remains(h)
  <2>1. Installed' = Installed /\ Archived' = Archived BY <1>4 DEF Installed, Archived
  <2> QED BY <1>3, <1>4, <2>1 DEF Remains, Known
<1>5. CASE \E g \in Hooks, m \in Methods, p \in Phases : Install(g, m, p)
  <2>1. PICK g \in Hooks, m \in Methods, p \in Phases : Install(g, m, p) BY <1>5
  <2>2. PICK s \in Slots : entry' = [entry EXCEPT ![s] = g] BY <2>1 DEF Install
  <2>3. archive' = archive /\ captured' = captured /\ method' = [method EXCEPT ![g] = m] /\ ~Known(g)
    BY <2>1 DEF Install, Drawn, Known
  <2>4. Known(h) => h # g /\ Known(h)' BY <1>2, <2>3 DEF Known
  <2>5. \A t \in Slots : entry'[t] = IF t = s THEN g ELSE entry[t] BY <1>1, <2>2 DEF TablesOK
  <2>6. h # g /\ h \notin Installed => h \notin Installed' BY <2>5 DEF Installed
  <2>7. Archived' = Archived BY <2>3 DEF Archived
  <2> QED BY <1>3, <2>3, <2>4, <2>6, <2>7 DEF Remains
<1>6. CASE \E g \in Hooks, m \in Methods : InstallFails(g, m)
  BY <1>4, <1>6 DEF InstallFails, hookVars
<1>7. CASE \E g \in Hooks : Remove(g)
  <2>1. PICK g \in Hooks, s \in Slots : entry[s] = g /\ Release({s}) BY <1>7 DEF Remove
  <2>2. {s} \in SUBSET Slots /\ \A t \in {s} : entry[t] # NoHook BY <2>1 DEF ConstantsOK
  <2>3. UNCHANGED <<hookVars, restarts>> BY <1>7 DEF Remove
  <2> QED BY <2>1, <2>2, <2>3, ReleaseRemains
<1>8. CASE ClearExpired
  <2> DEFINE S == {s \in Slots : Expired(s)}
  <2>1. S \in SUBSET Slots /\ \A s \in S : entry[s] # NoHook BY DEF Expired
  <2>2. Release(S) /\ UNCHANGED <<hookVars, restarts>> BY <1>8 DEF ClearExpired
  <2> HIDE DEF S
  <2> QED BY <2>1, <2>2, ReleaseRemains
<1>9. CASE Tick BY <1>4, <1>9 DEF Tick, tableVars
<1>10. CASE ForgetAll
  <2>1. Installed' = {} /\ Archived' = {} /\ method' = method /\ captured' = captured
    BY <1>10 DEF ForgetAll, hookVars, Installed, Archived, ConstantsOK
  <2> QED BY <1>3, <2>1 DEF Remains, Known
<1>11. CASE Observe
  <2>1. PICK n \in native, c \in Contents, w \in {"pre", "post"} :
          entry[n.slot] # NoHook /\ Record(entry[n.slot], Event(n, w, c))
    BY <1>11 DEF Observe, OnPre, OnPost
  <2>2. UNCHANGED <<entry, archive, method>> BY <1>11 DEF Observe, OnPre, OnPost, tableVars
  <2> DEFINE g == entry[n.slot]
  <2>3. n.slot \in Slots /\ n.method \in Methods BY <1>1 DEF TablesOK
  <2>4. g \in Installed /\ g \in Hooks BY <1>1, <2>1, <2>3 DEF TablesOK, Installed
  <2>5. Installed' = Installed /\ Archived' = Archived BY <2>2 DEF Installed, Archived
  <2>6. PICK e \in Events : captured' \in {captured, [captured EXCEPT ![g] = Append(@, e)]}
    BY <2>1, <2>3 DEF Record, Event, Events
  <2> HIDE DEF g
  <2>7. CASE h # g \/ captured' = captured
    <3>1. captured'[h] = captured[h] BY <1>2, <2>6, <2>7
    <3> QED BY <1>3, <2>2, <2>5, <3>1 DEF Remains, Known
  <2>8. CASE h = g /\ captured' # captured
    <3>1. captured'[h] = Append(captured[h], e) BY <1>2, <2>6, <2>8
    <3>2. /\ Len(Append(captured[h], e)) = Len(captured[h]) + 1
          /\ \A i \in 1..Len(captured[h]) : Append(captured[h], e)[i] = captured[h][i]
      BY <1>2, AppendProperties
    <3> QED BY <1>3, <2>2, <2>4, <2>8, <3>1, <3>2 DEF Remains, Known
  <2> QED BY <2>7, <2>8
<1>12. CASE UNCHANGED managerVars BY <1>4, <1>12 DEF managerVars, tableVars, hookVars
<1> QED BY <1>5, <1>6, <1>7, <1>8, <1>9, <1>10, <1>11, <1>12 DEF ManagerNext

-----------------------------------------------------------------------------
(* What the host was told *)

\* The first events of a hook stay, and are among its events.
LEMMA ShownStay ==
  ASSUME HooksOK, HooksOK', NEW h \in Hooks, Remains(h)
  PROVE  /\ Captured(h) \subseteq Captured(h)'
         /\ \A k \in Nat : k <= Len(captured[h]) =>
              k <= Len(captured'[h]) /\ Shown(h, k)' = Shown(h, k) /\ Shown(h, k) \subseteq Captured(h)
         /\ Shown(h, Len(captured[h])) = Captured(h)
PROOF
<1>1. Len(captured[h]) \in Nat /\ Len(captured'[h]) \in Nat BY LenProperties DEF HooksOK
<1>2. Len(captured[h]) <= Len(captured'[h]) BY DEF Remains
<1>3. \A i \in 1..Len(captured[h]) : captured'[h][i] = captured[h][i] BY DEF Remains
<1>4. Captured(h) \subseteq Captured(h)' BY <1>1, <1>2, <1>3 DEF Captured
<1>5. ASSUME NEW k \in Nat, k <= Len(captured[h])
      PROVE  /\ k <= Len(captured'[h])
             /\ Shown(h, k)' = Shown(h, k)
             /\ Shown(h, k) \subseteq Captured(h)
  <2>1. k <= Len(captured'[h]) /\ \A i \in 1..k : i \in 1..Len(captured[h]) BY <1>1, <1>2, <1>5
  <2>2. \A i \in 1..k : captured'[h][i] = captured[h][i] BY <1>3, <2>1
  <2> QED BY <2>1, <2>2 DEF Captured, Shown
<1> QED BY <1>4, <1>5 DEF Captured, Shown

\* A question or an answer that is not touched stays right.
LEMMA CallStays ==
  ASSUME HostTyped, HooksOK, HooksOK', CallsOK, \A h \in Hooks : Remains(h),
         NEW c \in Callers, call'[c] = call[c]
  PROVE  CallOK(call[c])'
PROOF
<1> DEFINE h == call[c].hook
           k == call[c].count
<1>1. CallOK(call[c]) BY DEF CallsOK
<1>2. CASE call[c].phase = "idle" BY <1>2 DEF CallOK
<1>3. CASE call[c].phase # "idle"
  <2>1. h \in Hooks /\ Known(h) /\ Remains(h) BY <1>1, <1>3 DEF CallOK
  <2>2. k \in Nat BY DEF HostTyped, Calls, HostConstantsOK
  <2>3. Known(h)' BY <2>1 DEF Remains, Known
  <2>4. call'[c].phase = "answered" =>
          call'[c].state # "none" /\ call'[c].count <= Len(captured'[call'[c].hook])
    BY <1>1, <1>3, <2>1, <2>2, ShownStay DEF CallOK
  <2>5. ASSUME call[c].phase = "answered", call[c].state = "removed"
        PROVE  IsOver(h, Shown(h, k))'
    <3>1. IsOver(h, Shown(h, k)) /\ k <= Len(captured[h]) BY <1>1, <1>3, <2>5 DEF CallOK
    <3>2. Shown(h, k)' = Shown(h, k) BY <2>1, <2>2, <3>1, ShownStay
    <3>3. h \notin Installed' /\ captured'[h] = captured[h] /\ (h \in Archived' => h \in Archived)
      BY <2>1, <3>1 DEF Remains, IsOver
    <3> QED BY <3>1, <3>2, <3>3 DEF IsOver, Captured
  <2> QED BY <2>1, <2>3, <2>4, <2>5 DEF CallOK
<1> QED BY <1>2, <1>3

\* So does a session that is not touched,
LEMMA SessionStays ==
  ASSUME HooksOK, HooksOK', NEW h \in Hooks, Remains(h), SessionOK(h),
         session'[h] = session[h], stored'[h] = stored[h],
         h \in installing' => h \in installing \/ Known(h)'
  PROVE  SessionOK(h)'
PROOF
<1>1. Captured(h) \subseteq Captured(h)' BY ShownStay
<1>2. Known(h) => Known(h)' BY DEF Remains
<1>3. ASSUME session[h] = "removed" PROVE IsOver(h, stored[h])'
  <2>1. Known(h) /\ IsOver(h, stored[h]) BY <1>3 DEF SessionOK
  <2>2. h \notin Installed' /\ captured'[h] = captured[h] /\ (h \in Archived' => h \in Archived)
    BY <2>1 DEF Remains, IsOver
  <2> QED BY <2>1, <2>2 DEF IsOver, Captured
<1> QED BY <1>1, <1>2, <1>3 DEF SessionOK, Known

\* and a node as long as the events of its object are stored.
LEMMA NodesStay ==
  ASSUME NodesOK, \A o \in Objects : node'[o] > 0 => node[o] > 0,
         \A h \in Hooks : stored[h] \subseteq stored'[h]
  PROVE  NodesOK'
PROOF BY DEF NodesOK

-----------------------------------------------------------------------------
(* The inductive invariant *)

\* The invariant holds at first.
LEMMA HostInitHolds ==
  ASSUME ConstantsOK, HostConstantsOK, Init
  PROVE  HostIInv
PROOF
<1>1. MaxEvents \in Nat /\ MaxFaults \in Nat /\ Lease \in Nat BY DEF ConstantsOK, HostConstantsOK
<1>2. Idle \in Calls /\ Idle.phase = "idle" BY <1>1 DEF Idle, Calls, Kinds
<1>3. HostTyped BY <1>1, <1>2 DEF Init, HostTyped
<1>4. CallsOK BY <1>2 DEF Init, CallsOK, CallOK
<1>5. SessionsOK BY DEF Init, SessionsOK, SessionOK
<1>6. NodesOK BY DEF Init, NodesOK
<1> QED BY <1>3, <1>4, <1>5, <1>6 DEF HostIInv

\* What the steps of the game have in common: the host learns nothing.
LEMMA GameKeeps ==
  ASSUME HostIInv, HooksOK, HooksOK', \A h \in Hooks : Remains(h),
         UNCHANGED <<call, session, stored, faults>>,
         \A h \in installing' : h \in installing \/ (h \in Hooks /\ Known(h)'),
         lease' \in [Objects -> 0..Lease], node' \in [Objects -> 0..Lease],
         \A o \in Objects : node'[o] > 0 => node[o] > 0
  PROVE  HostIInv'
PROOF
<1>1. HostTyped /\ CallsOK /\ SessionsOK /\ NodesOK BY DEF HostIInv
<1>2. HostTyped' BY <1>1 DEF HostTyped
<1>3. CallsOK' BY <1>1, CallStays DEF CallsOK
<1>4. SessionsOK' BY <1>1, SessionStays DEF SessionsOK
<1>5. NodesOK' BY <1>1, NodesStay
<1> QED BY <1>2, <1>3, <1>4, <1>5 DEF HostIInv

\* A callback leases the object it shows.
LEMMA CaptureKeeps ==
  ASSUME HostConstantsOK, HostIInv, HooksOK, HooksOK', \A h \in Hooks : Remains(h), Capture
  PROVE  HostIInv'
PROOF
<1>1. HostTyped BY DEF HostIInv
<1>2. UNCHANGED <<installing, call, session, stored, node, faults>> BY DEF Capture, hostVars
<1>3. lease' \in [Objects -> 0..Lease] BY <1>1 DEF Capture, HostTyped, HostConstantsOK
<1> QED BY <1>1, <1>2, <1>3, GameKeeps DEF HostTyped

\* Leases run out, in the game and in the host.
LEMMA TimeKeeps ==
  ASSUME HostConstantsOK, HostIInv, HooksOK, HooksOK', \A h \in Hooks : Remains(h), TimePasses
  PROVE  HostIInv'
PROOF
<1>1. HostTyped BY DEF HostIInv
<1>2. UNCHANGED <<installing, call, session, stored, faults>> BY DEF TimePasses
<1>3. lease \in [Objects -> 0..Lease] /\ node \in [Objects -> 0..Lease] /\ Lease \in Nat
  BY <1>1 DEF HostTyped, HostConstantsOK
<1>4. lease' = Less(lease) /\ node' = Less(node) BY DEF TimePasses
<1>5. lease' \in [Objects -> 0..Lease] /\ node' \in [Objects -> 0..Lease] BY <1>3, <1>4 DEF Less
<1>6. \A o \in Objects : node'[o] > 0 => node[o] > 0 BY <1>3, <1>4 DEF Less
<1> QED BY <1>2, <1>5, <1>6, GameKeeps

\* The other steps of the game, and the answers to install_hook on their way.
LEMMA InstallsKeep ==
  ASSUME ConstantsOK, HostConstantsOK, HostIInv, HooksOK, HooksOK', \A h \in Hooks : Remains(h),
         \/ Expire \/ Restart
         \/ \E o \in Objects : UseObject(o)
         \/ \E h \in Hooks, m \in Methods, p \in Phases : InstallHook(h, m, p)
         \/ \E h \in Hooks, m \in Methods : InstallHookFails(h, m)
  PROVE  HostIInv'
PROOF
<1>1. HostTyped BY DEF HostIInv
<1>2. UNCHANGED <<call, session, stored, faults>> /\ node' = node
  BY DEF Expire, Restart, UseObject, InstallHook, InstallHookFails, hostVars
<1>3. lease' \in [Objects -> 0..Lease]
  <2>1. lease \in [Objects -> 0..Lease] /\ Lease \in Nat BY <1>1 DEF HostTyped, HostConstantsOK
  <2>2. CASE lease' = lease BY <2>1, <2>2
  <2>3. CASE Restart BY <2>1, <2>3 DEF Restart
  <2>4. CASE \E o \in Objects : UseObject(o) BY <2>1, <2>4 DEF UseObject
  <2> QED BY <2>2, <2>3, <2>4 DEF Expire, InstallHook, InstallHookFails
<1>4. \A h \in installing' : h \in installing \/ (h \in Hooks /\ Known(h)')
  <2>1. CASE installing' = installing BY <2>1
  <2>2. CASE \E h \in Hooks, m \in Methods, p \in Phases : InstallHook(h, m, p)
    <3>1. PICK h \in Hooks, m \in Methods, p \in Phases : InstallHook(h, m, p) BY <2>2
    <3>2. installing' = installing \cup {h} /\ method' = [method EXCEPT ![h] = m]
      BY <3>1 DEF InstallHook, Install
    <3>3. method'[h] = m /\ m # NoMethod BY <3>2 DEF HooksOK, ConstantsOK
    <3> QED BY <3>2, <3>3 DEF Known
  <2> QED BY <2>1, <2>2 DEF Expire, Restart, UseObject, InstallHookFails, hostVars
<1> QED BY <1>1, <1>2, <1>3, <1>4, GameKeeps DEF HostTyped

\* The answer to install_hook is recorded, or lost.
LEMMA InstalledKeeps ==
  ASSUME HostIInv, HooksOK, HooksOK', \A h \in Hooks : Remains(h), HostConstantsOK,
         NEW g \in Hooks, HearInstalled(g) \/ MissInstalled(g)
  PROVE  HostIInv'
PROOF
<1>1. HostTyped /\ CallsOK /\ SessionsOK /\ NodesOK BY DEF HostIInv
<1>2. g \in installing /\ installing' = installing \ {g} /\ UNCHANGED <<call, stored, node, lease>>
  BY DEF HearInstalled, MissInstalled
<1>3. session' = session \/ session' = [session EXCEPT ![g] = "installed"]
  BY DEF HearInstalled, MissInstalled
<1>4. faults' \in 0..MaxFaults BY <1>1 DEF HearInstalled, MissInstalled, HostTyped, HostConstantsOK
<1>5. HostTyped' BY <1>1, <1>2, <1>3, <1>4 DEF HostTyped
<1>6. CallsOK' BY <1>1, <1>2, CallStays DEF CallsOK
<1>7. ASSUME NEW h \in Hooks PROVE SessionOK(h)'
  <2>1. SessionOK(h) /\ Remains(h) BY <1>1 DEF SessionsOK
  <2>2. CASE session'[h] = session[h] BY <1>2, <2>1, <2>2, SessionStays
  <2>3. CASE session'[h] # session[h]
    <3>1. h = g /\ session'[h] = "installed" BY <1>1, <1>3, <2>3 DEF HostTyped
    <3>2. Known(h)' BY <1>2, <2>1, <3>1 DEF SessionOK, Remains
    <3>3. Captured(h) \subseteq Captured(h)' BY <2>1, ShownStay
    <3> QED BY <1>2, <2>1, <3>1, <3>2, <3>3 DEF SessionOK
  <2> QED BY <2>2, <2>3
<1>8. NodesOK' BY <1>1, <1>2, NodesStay
<1> QED BY <1>5, <1>6, <1>7, <1>8 DEF HostIInv, SessionsOK

\* A caller asks, is answered or gives up.
LEMMA CallKeeps ==
  ASSUME HostIInv, HooksOK, HooksOK', \A h \in Hooks : Remains(h), NEW c \in Callers,
         call' = [call EXCEPT ![c] = call'[c]], call'[c] \in Calls, CallOK(call[c])',
         UNCHANGED <<installing, session, stored, node, lease>>, faults' \in 0..MaxFaults
  PROVE  HostIInv'
PROOF
<1>1. HostTyped /\ CallsOK /\ SessionsOK /\ NodesOK BY DEF HostIInv
<1>2. call' \in [Callers -> Calls]
  <2>1. call \in [Callers -> Calls] BY <1>1 DEF HostTyped
  <2>2. ASSUME NEW x \in Calls, call' = [call EXCEPT ![c] = x] PROVE call' \in [Callers -> Calls]
    BY <2>1, <2>2
  <2> QED BY <2>2
<1>3. HostTyped' BY <1>1, <1>2 DEF HostTyped
<1>4. CallsOK'
  <2>1. ASSUME NEW d \in Callers, d # c PROVE CallOK(call[d])'
    <3>1. ASSUME NEW x, call' = [call EXCEPT ![c] = x] PROVE call'[d] = call[d]
      BY <1>1, <2>1, <3>1 DEF HostTyped
    <3>2. call'[d] = call[d] BY <3>1
    <3> QED BY <1>1, <3>2, CallStays
  <2> QED BY <2>1 DEF CallsOK
<1>5. SessionsOK' BY <1>1, SessionStays DEF SessionsOK
<1>6. NodesOK' BY <1>1, NodesStay
<1> QED BY <1>3, <1>4, <1>5, <1>6 DEF HostIInv

\* Only hooks of a session are asked about.
LEMMA AskKeeps ==
  ASSUME ConstantsOK, HostIInv, HooksOK, HooksOK', \A h \in Hooks : Remains(h),
         NEW c \in Callers, NEW g \in Hooks, NEW k \in Kinds, Ask(c, g, k)
  PROVE  HostIInv'
PROOF
<1>1. HostTyped /\ SessionsOK BY DEF HostIInv
<1> DEFINE x == [Idle EXCEPT !.phase = "sent", !.kind = k, !.hook = g]
<1>2. call' = [call EXCEPT ![c] = x] /\ UNCHANGED <<installing, session, stored, node, lease, faults>>
  BY DEF Ask
<1>3. x \in Calls /\ x.phase = "sent" /\ x.hook = g
  <2>1. Idle \in Calls BY DEF Idle, Calls, Kinds, ConstantsOK
  <2> QED BY <2>1 DEF Calls
<1> HIDE DEF x
<1>4. call'[c] = x BY <1>1, <1>2 DEF HostTyped
<1>5. Known(g)' BY <1>1 DEF Ask, SessionsOK, SessionOK, Remains
<1>6. CallOK(call[c])' BY <1>3, <1>4, <1>5 DEF CallOK, Known
<1> QED BY <1>1, <1>2, <1>3, <1>4, <1>6, CallKeeps DEF HostTyped

\* A caller is done.
LEMMA DoneFits ==
  ASSUME ConstantsOK, HostTyped, NEW c \in Callers, call' = [call EXCEPT ![c] = Idle]
  PROVE  call'[c] = Idle /\ Idle \in Calls /\ CallOK(call[c])'
PROOF
<1>1. Idle \in Calls /\ Idle.phase = "idle" BY DEF Idle, Calls, Kinds, ConstantsOK
<1>2. call'[c] = Idle BY DEF HostTyped
<1> QED BY <1>1, <1>2 DEF CallOK

\* An answer is lost.
LEMMA MissKeeps ==
  ASSUME ConstantsOK, HostConstantsOK, HostIInv, HooksOK, HooksOK', \A h \in Hooks : Remains(h),
         NEW c \in Callers, Miss(c)
  PROVE  HostIInv'
PROOF
<1>1. HostTyped BY DEF HostIInv
<1>2. call' = [call EXCEPT ![c] = Idle] /\ UNCHANGED <<installing, session, stored, node, lease>>
  BY DEF Miss
<1>3. faults' \in 0..MaxFaults BY <1>1 DEF Miss, HostTyped, HostConstantsOK
<1>4. call'[c] = Idle /\ Idle \in Calls /\ CallOK(call[c])' BY <1>1, <1>2, DoneFits
<1> QED BY <1>2, <1>3, <1>4, CallKeeps

\* What the game answers.
LEMMA AnswerFits ==
  ASSUME ConstantsOK, HostTyped, HooksOK', NEW c \in Callers, call[c].phase = "sent",
         NEW h \in Hooks, call[c].hook = h, Known(h)',
         NEW s \in {"installed", "removed", "not_found"},
         NEW n \in Nat, n <= Len(captured'[h]), Answer(c, s, n),
         s = "removed" => IsOver(h, Shown(h, n))'
  PROVE  call' = [call EXCEPT ![c] = call'[c]] /\ call'[c] \in Calls /\ CallOK(call[c])'
PROOF
<1> DEFINE x == [call[c] EXCEPT !.phase = "answered", !.state = s, !.count = n]
<1>1. call \in [Callers -> Calls] BY DEF HostTyped
<1>2. call' = [call EXCEPT ![c] = x] BY <1>1 DEF Answer
<1>3. x.phase = "answered" /\ x.state = s /\ x.count = n /\ x.hook = h BY <1>1 DEF Calls
<1>4. n \in 0..MaxEvents
  <2>1. Len(captured'[h]) <= MaxEvents /\ Len(captured'[h]) \in Nat BY LenProperties DEF HooksOK
  <2> QED BY <2>1 DEF ConstantsOK
<1>5. x \in Calls BY <1>1, <1>4 DEF Calls
<1> HIDE DEF x
<1>6. call'[c] = x BY <1>1, <1>2
<1>7. CallOK(call[c])' BY <1>3, <1>6 DEF CallOK, IsOver
<1> QED BY <1>2, <1>5, <1>6, <1>7

\* A question is about a hook that was installed, and its answer comes in time.
LEMMA AskedOf ==
  ASSUME HostTyped, CallsOK, HooksOK, NEW c \in Callers, call[c].phase = "sent",
         \A h \in Hooks : Remains(h)
  PROVE  \E h \in Hooks : call[c].hook = h /\ Known(h)' /\ Len(captured[h]) \in Nat
PROOF
<1>1. PICK h \in Hooks : call[c].hook = h /\ Known(h) BY DEF CallsOK, CallOK
<1>2. Known(h)' BY <1>1 DEF Remains
<1> QED BY <1>1, <1>2, LenProperties DEF HooksOK

\* HookManager::events.
LEMMA AnswerReadKeeps ==
  ASSUME ConstantsOK, HostIInv, TablesOK, HooksOK, HooksOK', \A h \in Hooks : Remains(h),
         NEW c \in Callers, AnswerRead(c)
  PROVE  HostIInv'
PROOF
<1>1. HostTyped /\ CallsOK BY DEF HostIInv
<1>2. call[c].phase = "sent" BY DEF AnswerRead, Asked
<1>3. PICK h \in Hooks : call[c].hook = h /\ Known(h)' /\ Len(captured[h]) \in Nat
  BY <1>1, <1>2, AskedOf
<1> DEFINE N == Len(captured[h])
<1>4. UNCHANGED <<entry, archive, captured, installing, session, stored, node, lease, faults>>
  BY DEF AnswerRead, managerVars, tableVars, hookVars
<1>5. Installed' = Installed /\ Archived' = Archived BY <1>4 DEF Installed, Archived
<1>6. PICK s \in {"installed", "removed", "not_found"}, n \in {0, N} :
        Answer(c, s, n) /\ (s = "removed" => n = N /\ h \in Archived)
  BY <1>3 DEF AnswerRead
<1>7. n \in Nat /\ n <= Len(captured'[h]) BY <1>3, <1>4
<1>8. ASSUME s = "removed" PROVE IsOver(h, Shown(h, n))'
  <2>1. h \notin Installed /\ n = N BY <1>6, <1>8 DEF TablesOK
  <2> QED BY <1>4, <1>5, <2>1 DEF IsOver, Shown, Captured
<1>9. call' = [call EXCEPT ![c] = call'[c]] /\ call'[c] \in Calls /\ CallOK(call[c])'
  BY <1>1, <1>2, <1>3, <1>6, <1>7, <1>8, AnswerFits
<1> QED BY <1>1, <1>4, <1>9, CallKeeps DEF HostTyped

\* HookManager::remove: afterwards the hook is over, whether it was before or not.
LEMMA AnswerRemoveKeeps ==
  ASSUME ConstantsOK, HostIInv, TablesOK, HooksOK, HooksOK', \A h \in Hooks : Remains(h),
         NEW c \in Callers, AnswerRemove(c)
  PROVE  HostIInv'
PROOF
<1>1. HostTyped /\ CallsOK BY DEF HostIInv
<1>2. call[c].phase = "sent" BY DEF AnswerRemove, Asked
<1>3. PICK h \in Hooks : call[c].hook = h /\ Known(h)' /\ Len(captured[h]) \in Nat
  BY <1>1, <1>2, AskedOf
<1> DEFINE N == Len(captured[h])
<1>4. UNCHANGED <<installing, session, stored, node, lease, faults>> BY DEF AnswerRemove
<1>5. captured' = captured BY DEF AnswerRemove, Remove, managerVars, hookVars
<1>6. h \notin Installed'
  <2>1. CASE Remove(h)
    <3>1. PICK s \in Slots : entry[s] = h /\ Release({s}) BY <2>1 DEF Remove
    <3>2. entry' = [t \in Slots |-> IF t \in {s} THEN NoHook ELSE entry[t]] BY <3>1 DEF Release
    <3>3. \A t \in Slots : entry[t] = h => t = s BY <1>3, <3>1 DEF TablesOK, ConstantsOK
    <3> QED BY <1>3, <3>2, <3>3 DEF Installed, ConstantsOK
  <2>2. CASE h \in Archived /\ UNCHANGED managerVars
    <3>1. h \notin Installed BY <2>2 DEF TablesOK
    <3> QED BY <2>2, <3>1 DEF Installed, managerVars, tableVars
  <2>3. CASE h \notin Installed \cup Archived /\ UNCHANGED managerVars
    BY <2>3 DEF Installed, managerVars, tableVars
  <2> QED BY <1>3, <2>1, <2>2, <2>3 DEF AnswerRemove
<1>7. PICK n \in {0, N} : Answer(c, "removed", n) /\ (n = N \/ h \notin Archived')
  BY <1>3 DEF AnswerRemove, Archived, managerVars, tableVars
<1>8. n \in Nat /\ n <= Len(captured'[h]) BY <1>3, <1>5
<1>9. IsOver(h, Shown(h, n))' BY <1>5, <1>6, <1>7 DEF IsOver, Shown, Captured
<1>10. call' = [call EXCEPT ![c] = call'[c]] /\ call'[c] \in Calls /\ CallOK(call[c])'
  BY <1>1, <1>2, <1>3, <1>7, <1>8, <1>9, AnswerFits
<1> QED BY <1>1, <1>4, <1>10, CallKeeps DEF HostTyped

\* record_hook_payload: what an answer shows is stored before the session says
\* that the hook is removed.
LEMMA HearKeeps ==
  ASSUME ConstantsOK, HostConstantsOK, HostIInv, HooksOK, HooksOK', \A h \in Hooks : Remains(h),
         NEW c \in Callers, Hear(c)
  PROVE  HostIInv'
PROOF
<1> DEFINE g == call[c].hook
<1>1. HostTyped /\ CallsOK /\ SessionsOK /\ NodesOK BY DEF HostIInv
<1>2. call[c].phase = "answered" BY DEF Hear
<1>3. /\ call[c] \in Calls /\ g \in Hooks /\ Known(g) /\ call[c].state # "none"
      /\ call[c].count <= Len(captured[g])
      /\ call[c].state = "removed" => IsOver(g, Told(c))
  BY <1>1, <1>2 DEF HostTyped, CallsOK, CallOK, Told, Shown
<1>4. call[c].count \in Nat BY <1>3 DEF Calls, ConstantsOK
<1>5. Told(c) \subseteq Captured(g) BY <1>3, <1>4, ShownStay DEF Told, Shown
<1>6. UNCHANGED <<entry, archive, method, captured>> /\ UNCHANGED <<installing, lease, faults>>
  BY DEF Hear, managerVars, tableVars, hookVars
<1>7. Installed' = Installed /\ Archived' = Archived BY <1>6 DEF Installed, Archived
<1>8. \A h \in Hooks : /\ stored'[h] = stored[h] \cup (IF h = g THEN Told(c) ELSE {})
                       /\ session'[h] = IF h = g THEN call[c].state ELSE session[h]
  BY <1>1 DEF Hear, HostTyped
<1>9. call' = [call EXCEPT ![c] = Idle] BY DEF Hear
<1>10. node' = [o \in Objects |-> IF \E e \in Told(c) : e.content = o THEN Lease ELSE node[o]]
  BY DEF Hear
<1>11. call'[c] = Idle /\ Idle \in Calls /\ CallOK(call[c])' BY <1>1, <1>9, DoneFits
<1>12. HostTyped'
  <2>1. call' \in [Callers -> Calls] BY <1>1, <1>9, <1>11 DEF HostTyped
  <2>2. session' \in [Hooks -> {"none", "installed", "removed", "not_found"}]
    BY <1>1, <1>3 DEF Hear, HostTyped, Calls
  <2>3. node' \in [Objects -> 0..Lease] BY <1>1, <1>10 DEF HostTyped, HostConstantsOK
  <2>4. DOMAIN stored' = Hooks BY <1>1 DEF Hear, HostTyped
  <2> QED BY <1>1, <1>6, <2>1, <2>2, <2>3, <2>4 DEF HostTyped
<1>13. CallsOK'
  <2>1. ASSUME NEW d \in Callers, d # c PROVE CallOK(call[d])'
    <3>1. call'[d] = call[d] BY <1>1, <1>9, <2>1 DEF HostTyped
    <3> QED BY <1>1, <3>1, CallStays
  <2> QED BY <1>11, <2>1 DEF CallsOK
<1>14. ASSUME NEW h \in Hooks PROVE SessionOK(h)'
  <2>1. SessionOK(h) BY <1>1 DEF SessionsOK
  <2>2. CASE h # g
    <3>1. session'[h] = session[h] /\ stored'[h] = stored[h] BY <1>8, <2>2
    <3> QED BY <1>6, <2>1, <3>1, SessionStays
  <2>3. CASE h = g
    <3>1. stored'[h] = stored[h] \cup Told(c) /\ session'[h] = call[c].state BY <1>8, <2>3
    <3>2. stored'[h] \subseteq Captured(h)' BY <1>5, <1>6, <2>1, <2>3, <3>1 DEF SessionOK, Captured
    <3>3. ASSUME session'[h] = "removed" PROVE IsOver(h, stored[h])'
      <4>1. IsOver(h, Told(c)) BY <1>3, <2>3, <3>1, <3>3
      <4> QED BY <1>6, <1>7, <3>1, <4>1 DEF IsOver, Captured
    <3>4. Known(h)' BY <1>3, <1>6, <2>3 DEF Known
    <3> QED BY <3>2, <3>3, <3>4 DEF SessionOK
  <2> QED BY <2>2, <2>3
<1>15. NodesOK'
  <2>1. ASSUME NEW o \in Objects, node'[o] > 0
        PROVE  \E h \in Hooks : \E e \in stored'[h] : e.content = o
    <3>1. CASE \E e \in Told(c) : e.content = o BY <1>3, <1>8, <3>1
    <3>2. CASE ~\E e \in Told(c) : e.content = o
      <4>1. node'[o] = node[o] BY <1>10, <3>2
      <4> QED BY <1>1, <1>8, <2>1, <4>1 DEF NodesOK
    <3> QED BY <3>1, <3>2
  <2> QED BY <2>1 DEF NodesOK
<1> QED BY <1>12, <1>13, <1>14, <1>15 DEF HostIInv, SessionsOK

\* Nothing happens.
LEMMA HostStutterKeeps ==
  ASSUME HostIInv, HooksOK, HooksOK', \A h \in Hooks : Remains(h), UNCHANGED vars
  PROVE  HostIInv'
PROOF
<1>1. HostTyped BY DEF HostIInv
<1> QED BY <1>1, GameKeeps DEF vars, hostVars, HostTyped

\* Every step keeps the invariant of the manager and that of the host.
LEMMA HostStepKeeps ==
  ASSUME ConstantsOK, HostConstantsOK, IInv, HostIInv, [Next]_vars
  PROVE  IInv' /\ HostIInv'
PROOF
<1>1. HostTyped /\ CallsOK BY DEF HostIInv
<1>2. [ManagerNext]_managerVars BY <1>1, NextIsManagerStep
<1>3. IInv' BY <1>2, ManagerKeeps
<1>4. TablesOK /\ HooksOK /\ HooksOK' BY <1>3 DEF IInv
<1>5. \A h \in Hooks : Remains(h) BY <1>2, ManagerRemains
<1> SUFFICES HostIInv' BY <1>3
<1>6. CASE Capture BY <1>4, <1>5, <1>6, CaptureKeeps
<1>7. CASE TimePasses BY <1>4, <1>5, <1>7, TimeKeeps
<1>8. CASE \/ Expire \/ Restart
           \/ \E o \in Objects : UseObject(o)
           \/ \E h \in Hooks, m \in Methods, p \in Phases : InstallHook(h, m, p)
           \/ \E h \in Hooks, m \in Methods : InstallHookFails(h, m)
  BY <1>4, <1>5, <1>8, InstallsKeep
<1>9. CASE \E h \in Hooks : HearInstalled(h) \/ MissInstalled(h) BY <1>4, <1>5, <1>9, InstalledKeeps
<1>10. CASE \E c \in Callers, h \in Hooks, k \in Kinds : Ask(c, h, k) BY <1>4, <1>5, <1>10, AskKeeps
<1>11. CASE \E c \in Callers : AnswerRead(c) BY <1>4, <1>5, <1>11, AnswerReadKeeps
<1>12. CASE \E c \in Callers : AnswerRemove(c) BY <1>4, <1>5, <1>12, AnswerRemoveKeeps
<1>13. CASE \E c \in Callers : Hear(c) BY <1>4, <1>5, <1>13, HearKeeps
<1>14. CASE \E c \in Callers : Miss(c) BY <1>4, <1>5, <1>14, MissKeeps
<1>15. CASE UNCHANGED vars BY <1>4, <1>5, <1>15, HostStutterKeeps
<1> QED BY <1>6, <1>7, <1>8, <1>9, <1>10, <1>11, <1>12, <1>13, <1>14, <1>15 DEF Next

\* The invariant holds in every reachable state.
THEOREM HostInvariant == Spec => [](IInv /\ HostIInv)
PROOF
<1>1. Init => IInv /\ HostIInv
  BY ConstantsOK, HostConstantsOK, InitHolds, HostInitHolds DEF Init
<1>2. (IInv /\ HostIInv) /\ [Next]_vars => (IInv /\ HostIInv)'
  BY ConstantsOK, HostConstantsOK, HostStepKeeps
<1> QED BY <1>1, <1>2, PTL DEF Spec

-----------------------------------------------------------------------------
(* What the runs check *)

\* Whatever the host asks, loses or records late, the hooks of the game behave
\* as HookManager says: all its theorems hold of the composition.
THEOREM KeepsToTheManager == Spec => ManagerSpec
PROOF
<1>1. Init => ManagerInit BY DEF Init
<1>2. HostIInv /\ [Next]_vars => [ManagerNext]_managerVars BY NextIsManagerStep DEF HostIInv
<1> QED BY <1>1, <1>2, HostInvariant, PTL DEF Spec, ManagerSpec

\* The host shows no event and no object the game did not capture, and once it
\* shows a hook as removed it shows all events the game still has of it.
THEOREM HostAlwaysShowsCaptures == Spec => []HostShowsCaptures
PROOF
<1>1. IInv /\ HostIInv => HostShowsCaptures
  <2> SUFFICES ASSUME IInv, HostIInv PROVE HostShowsCaptures OBVIOUS
  <2>1. HostTyped /\ SessionsOK /\ NodesOK BY DEF HostIInv
  <2>2. ManagerTypeOK BY ConstantsOK, Typed
  <2>3. \A h \in Hooks : session[h] # "none" => method[h] # NoMethod
    BY <2>1 DEF SessionsOK, SessionOK, Known
  <2>4. \A h \in Hooks : stored[h] \subseteq Captured(h) BY <2>1 DEF SessionsOK, SessionOK
  <2>5. TypeOK BY <2>1, <2>3, <2>4 DEF TypeOK, HostTyped, NodesOK, Calls
  <2>6. EventsSurviveRemoval BY <2>1 DEF EventsSurviveRemoval, SessionsOK, SessionOK, IsOver
  <2> QED BY <2>2, <2>5, <2>6 DEF HostShowsCaptures
<1> QED BY <1>1, HostInvariant, PTL
=============================================================================
