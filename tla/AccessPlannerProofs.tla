------------------------- MODULE AccessPlannerProofs -------------------------
(***************************************************************************)
(* Proofs about AccessPaths and AccessPlanner for any metadata graphs,     *)
(* questions, signatures and objects, and any limits: a search finds       *)
(* paths that are real and the nearest roots first, a plan made of them is *)
(* a program, and the cache, the answers and the drafts keep to that.      *)
(***************************************************************************)
EXTENDS AccessPlanner, SequenceTheorems, FiniteSetTheorems, WellFoundedInduction, TLAPS

-----------------------------------------------------------------------------
(* Recursion over 0..n *)

\* A set of numbers has a least one.
LEMMA HasLeast ==
  ASSUME NEW D \in SUBSET Nat, D # {}
  PROVE  \E d \in D : \A e \in D : d <= e
PROOF
<1> DEFINE Less == {ss \in Nat \X Nat : ss[1] < ss[2]}
<1>1. IsWellFoundedOn(Less, Nat)
  <2>1. OpToRel(<, Nat) = Less BY DEF OpToRel
  <2> QED BY <2>1, NatLessThanWellFounded
<1> HIDE DEF Less
<1>2. PICK d \in D : \A e \in D : ~(<<e, d>> \in Less) BY <1>1, WFMin
<1>3. ASSUME NEW e \in D PROVE d <= e
  <2>1. e < d => <<e, d>> \in Less BY DEF Less
  <2> QED BY <1>2, <2>1
<1> QED BY <1>3

\* What holds at 0 and passes from each number to the next holds up to n.
LEMMA UpTo ==
  ASSUME NEW n \in Nat, NEW D, 0 \in D, \A i \in 1..n : i - 1 \in D => i \in D
  PROVE  \A i \in 0..n : i \in D
PROOF
<1> DEFINE Bad == {i \in 0..n : i \notin D}
<1> SUFFICES ASSUME Bad # {} PROVE FALSE OBVIOUS
<1>1. Bad \in SUBSET Nat OBVIOUS
<1>2. PICK m \in Bad : \A e \in Bad : m <= e BY <1>1, HasLeast
<1>3. m \in 0..n /\ m \notin D /\ m # 0 OBVIOUS
<1>4. m \in 1..n /\ m - 1 \in 0..n /\ ~(m <= m - 1) BY <1>3
<1>5. m - 1 \in D BY <1>2, <1>4
<1> QED BY <1>3, <1>4, <1>5

\* The first m values of an iteration of F from x.
Iterates(g, F, S, x, m) ==
  g \in [0..m -> S] /\ g[0] = x /\ \A i \in 1..m : g[i] = F[<<i, g[i - 1]>>]

\* A step that stays in a set can be iterated.
LEMMA IterationExists ==
  ASSUME NEW n \in Nat, NEW S, NEW x \in S, NEW F \in [(1..n) \X S -> S]
  PROVE  \E g : Iterates(g, F, S, x, n)
PROOF
<1> DEFINE D == {m \in 0..n : \E g : Iterates(g, F, S, x, m)}
<1>1. 0 \in D
  <2> DEFINE g == [i \in 0..0 |-> x]
  <2>1. g \in [0..0 -> S] /\ g[0] = x OBVIOUS
  <2>2. \A i \in 1..0 : FALSE OBVIOUS
  <2> HIDE DEF g
  <2>3. Iterates(g, F, S, x, 0) BY <2>1, <2>2 DEF Iterates
  <2> QED BY <2>3
<1>2. ASSUME NEW m \in 1..n, m - 1 \in D PROVE m \in D
  <2>1. PICK g : Iterates(g, F, S, x, m - 1) BY <1>2
  <2>2. m - 1 \in 0..m - 1 /\ g[m - 1] \in S BY <2>1 DEF Iterates
  <2> DEFINE h == [i \in 0..m |-> IF i < m THEN g[i] ELSE F[<<m, g[m - 1]>>]]
  <2>3. F[<<m, g[m - 1]>>] \in S BY <2>2
  <2>4. \A i \in 0..m : i < m => i \in 0..m - 1 /\ h[i] = g[i] OBVIOUS
  <2>5. h[m] = F[<<m, g[m - 1]>>] OBVIOUS
  <2>6. h \in [0..m -> S] BY <2>1, <2>3 DEF Iterates
  <2>7. h[0] = x BY <2>1, <2>4 DEF Iterates
  <2> HIDE DEF h
  <2>8. ASSUME NEW i \in 1..m PROVE h[i] = F[<<i, h[i - 1]>>]
    <3>1. i - 1 \in 0..m /\ i - 1 < m /\ h[i - 1] = g[i - 1] BY <2>4
    <3>2. CASE i < m
      <4>1. i \in 1..m - 1 /\ i \in 0..m BY <3>2
      <4>2. g[i] = F[<<i, g[i - 1]>>] BY <2>1, <4>1 DEF Iterates
      <4> QED BY <2>4, <3>1, <3>2, <4>1, <4>2
    <3>3. CASE i = m BY <3>1, <3>3, <2>5
    <3> QED BY <3>2, <3>3
  <2>9. Iterates(h, F, S, x, m) BY <2>6, <2>7, <2>8 DEF Iterates
  <2> QED BY <2>9
<1> HIDE DEF D
<1>3. n \in D BY <1>1, <1>2, UpTo
<1> QED BY <1>3 DEF D

-----------------------------------------------------------------------------
(* Places and orders *)

\* Ascending lists what is in I, each number once.
LEMMA AscendingLists ==
  ASSUME NEW n \in Nat, NEW I
  PROVE  /\ Ascending(n, I) \in Seq(1..n)
         /\ Range(Ascending(n, I)) = I \cap 1..n
         /\ \A j, k \in DOMAIN Ascending(n, I) : Ascending(n, I)[j] = Ascending(n, I)[k] => j = k
PROOF
<1> DEFINE S == Seq(1..n)
           Step(i, q) == IF i \in I THEN Append(q, i) ELSE q
           F == [p \in (1..n) \X S |-> Step(p[1], p[2])]
           Rec(g) == g = [i \in 0..n |-> IF i = 0 THEN <<>> ELSE Step(i, g[i - 1])]
           up == CHOOSE g : Rec(g)
<1>1. <<>> \in S BY EmptySeq
<1>2. F \in [(1..n) \X S -> S] BY AppendProperties
<1> HIDE DEF S
<1>3. PICK g : Iterates(g, F, S, <<>>, n) BY <1>1, <1>2, IterationExists
<1>4. ASSUME NEW i \in 1..n PROVE g[i - 1] \in S /\ g[i] = Step(i, g[i - 1])
  <2>1. g[i - 1] \in S BY <1>3 DEF Iterates
  <2>2. g[i] = F[<<i, g[i - 1]>>] BY <1>3 DEF Iterates
  <2> QED BY <2>1, <2>2
<1>5. Rec(g)
  <2> HIDE DEF F, Step
  <2>1. g \in [0..n -> S] /\ g[0] = <<>> BY <1>3 DEF Iterates
  <2>2. \A i \in 0..n : g[i] = IF i = 0 THEN <<>> ELSE Step(i, g[i - 1]) BY <1>4, <2>1
  <2>3. g = [i \in 0..n |-> g[i]] BY <2>1
  <2> QED BY <2>2, <2>3
<1>6. Rec(up) BY <1>5
<1>7. Ascending(n, I) = up[n] BY DEF Ascending
<1>8. up[0] = <<>> /\ \A i \in 1..n : up[i] = Step(i, up[i - 1])
  <2> HIDE DEF Step, up
  <2>1. \A i \in 1..n : i \in 0..n /\ i # 0 OBVIOUS
  <2>2. \A i \in 0..n : up[i] = IF i = 0 THEN <<>> ELSE Step(i, up[i - 1]) BY <1>6
  <2> QED BY <2>1, <2>2
<1> HIDE DEF up
<1> DEFINE Good(i) == /\ up[i] \in S /\ Range(up[i]) = I \cap 1..i
                      /\ \A j, k \in DOMAIN up[i] : up[i][j] = up[i][k] => j = k
           D == {i \in 0..n : Good(i)}
<1>9. 0 \in D BY <1>1, <1>8 DEF Range
<1>10. ASSUME NEW i \in 1..n, i - 1 \in D PROVE i \in D
  <2> DEFINE q == up[i - 1]
  <2>1. Good(i - 1) BY <1>10
  <2>2. up[i] = Step(i, q) BY <1>8
  <2>3. CASE i \notin I
    <3>1. I \cap 1..i = I \cap 1..(i - 1) BY <2>3
    <3> QED BY <2>1, <2>2, <2>3, <3>1
  <2>4. CASE i \in I
    <3>1. q \in S /\ q \in Seq(1..n) /\ Range(q) = I \cap 1..(i - 1) BY <2>1 DEF S
    <3> HIDE DEF q
    <3>2. /\ Append(q, i) \in S /\ DOMAIN Append(q, i) = 1..Len(q) + 1
          /\ \A k \in 1..Len(q) : Append(q, i)[k] = q[k]
          /\ Append(q, i)[Len(q) + 1] = i /\ Len(q) \in Nat /\ DOMAIN q = 1..Len(q)
      BY <3>1, AppendProperties, LenProperties DEF S
    <3>3. \A k \in 1..Len(q) : q[k] \in 1..(i - 1) BY <3>1, <3>2 DEF Range
    <3>4. Range(Append(q, i)) = I \cap 1..i
      <4>1. Range(Append(q, i)) = Range(q) \cup {i} BY <3>2 DEF Range
      <4>2. I \cap 1..i = (I \cap 1..(i - 1)) \cup {i} BY <2>4
      <4> QED BY <3>1, <4>1, <4>2
    <3>5. \A j, k \in 1..Len(q) + 1 : Append(q, i)[j] = Append(q, i)[k] => j = k
      <4> SUFFICES ASSUME NEW j \in 1..Len(q) + 1, NEW k \in 1..Len(q) + 1,
                          Append(q, i)[j] = Append(q, i)[k], j # k
                   PROVE  FALSE
        OBVIOUS
      <4>1. \A x \in 1..Len(q) + 1 : x \in 1..Len(q) \/ x = Len(q) + 1 BY <3>2
      <4>2. \A x, y \in 1..Len(q) : q[x] = q[y] => x = y BY <2>1, <3>2 DEF q
      <4> QED BY <3>2, <3>3, <4>1, <4>2
    <3>6. up[i] = Append(q, i) BY <2>2, <2>4 DEF q
    <3>7. DOMAIN up[i] = 1..Len(q) + 1 BY <3>2, <3>6
    <3>8. Good(i) BY <3>2, <3>4, <3>5, <3>6, <3>7
    <3> QED BY <3>8
  <2> QED BY <2>3, <2>4
<1> HIDE DEF D
<1>11. n \in D BY <1>9, <1>10, UpTo
<1>12. Good(n) BY <1>11 DEF D
<1> QED BY <1>7, <1>12 DEF S

\* The elements of a sequence at chosen places make a sequence of its elements.
LEMMA ChosenGives ==
  ASSUME NEW S, NEW s \in Seq(S), NEW I
  PROVE  Chosen(s, I) \in Seq(S)
PROOF
<1> DEFINE a == Ascending(Len(s), I)
<1>1. Len(s) \in Nat /\ DOMAIN s = 1..Len(s) /\ \A k \in 1..Len(s) : s[k] \in S
  BY LenProperties, ElementOfSeq
<1>2. a \in Seq(1..Len(s)) BY <1>1, AscendingLists
<1> HIDE DEF a
<1>3. Len(a) \in Nat /\ DOMAIN a = 1..Len(a) /\ \A k \in 1..Len(a) : a[k] \in 1..Len(s)
  BY <1>2, LenProperties, ElementOfSeq
<1>4. Chosen(s, I) = [k \in 1..Len(a) |-> s[a[k]]] BY <1>3 DEF Chosen, a
<1>5. \A k \in 1..Len(a) : s[a[k]] \in S BY <1>1, <1>3
<1> QED BY <1>3, <1>4, <1>5, SeqDef

\* The first n elements of a sequence.
LEMMA TakeGives ==
  ASSUME NEW S, NEW s \in Seq(S), NEW n \in Nat
  PROVE  /\ Take(s, n) \in Seq(S) /\ Len(Take(s, n)) <= n /\ Len(Take(s, n)) <= Len(s)
         /\ \A k \in 1..Len(Take(s, n)) : Take(s, n)[k] = s[k]
         /\ Len(s) <= n => Take(s, n) = s
         /\ ~(Len(s) <= n) => Len(Take(s, n)) = n
PROOF
<1> DEFINE m == IF Len(s) < n THEN Len(s) ELSE n
<1>1. Len(s) \in Nat /\ m \in 0..Len(s) /\ m <= n BY LenProperties
<1>2. Take(s, n) = SubSeq(s, 1, m) BY DEF Take
<1>3. Len(s) <= n => m = Len(s) BY <1>1
<1>4. ~(Len(s) <= n) => m = n BY <1>1
<1> HIDE DEF m
<1>5. /\ SubSeq(s, 1, m) \in Seq(S) /\ Len(SubSeq(s, 1, m)) = m
      /\ \A k \in 1..m : SubSeq(s, 1, m)[k] = s[k]
  <2>1. 1 \in 1..Len(s) + 1 /\ m \in 1 - 1..Len(s) BY <1>1
  <2>2. /\ SubSeq(s, 1, m) \in Seq(S) /\ Len(SubSeq(s, 1, m)) = m - 1 + 1
        /\ \A k \in 1..m - 1 + 1 : SubSeq(s, 1, m)[k] = s[1 + k - 1]
    BY <2>1, SubSeqProperties
  <2>3. m - 1 + 1 = m /\ \A k \in 1..m : 1 + k - 1 = k BY <1>1
  <2> QED BY <2>2, <2>3
<1>6. m = Len(s) => SubSeq(s, 1, m) = s
  <2> SUFFICES ASSUME m = Len(s) PROVE SubSeq(s, 1, m) = s OBVIOUS
  <2> QED BY <1>5, SeqEqual
<1> QED BY <1>1, <1>2, <1>3, <1>4, <1>5, <1>6

\* An element put at place i moves those from there on.
LEMMA InsertAtGives ==
  ASSUME NEW S, NEW q \in Seq(S), NEW i \in 1..Len(q) + 1, NEW e \in S
  PROVE  /\ InsertAt(q, i, e) \in Seq(S) /\ Len(InsertAt(q, i, e)) = Len(q) + 1
         /\ \A k \in 1..Len(q) + 1 :
               InsertAt(q, i, e)[k] = IF k < i THEN q[k] ELSE IF k = i THEN e ELSE q[k - 1]
PROOF
<1> DEFINE a == SubSeq(q, 1, i - 1)
           b == SubSeq(q, i, Len(q))
           ae == a \o <<e>>
<1>0. Len(q) \in Nat /\ i \in Nat BY LenProperties
<1>1. /\ a \in Seq(S) /\ Len(a) = i - 1 /\ \A k \in 1..i - 1 : a[k] = q[k]
  <2>1. 1 \in 1..Len(q) + 1 /\ i - 1 \in 1 - 1..Len(q) BY <1>0
  <2>2. /\ a \in Seq(S) /\ Len(a) = i - 1 - 1 + 1
        /\ \A k \in 1..i - 1 - 1 + 1 : a[k] = q[1 + k - 1]
    BY <2>1, SubSeqProperties
  <2>3. i - 1 - 1 + 1 = i - 1 /\ \A k \in 1..i - 1 : 1 + k - 1 = k BY <1>0
  <2> QED BY <2>2, <2>3
<1>2. /\ b \in Seq(S) /\ Len(b) = Len(q) - i + 1
      /\ \A k \in 1..Len(q) - i + 1 : b[k] = q[i + k - 1]
  <2>1. i \in 1..Len(q) + 1 /\ Len(q) \in i - 1..Len(q) BY <1>0
  <2> QED BY <2>1, SubSeqProperties
<1>3. InsertAt(q, i, e) = ae \o b BY DEF InsertAt
<1> HIDE DEF a, b
<1>4. <<e>> \in Seq(S) /\ Len(<<e>>) = 1 /\ <<e>>[1] = e OBVIOUS
<1>5. /\ ae \in Seq(S) /\ Len(ae) = i
      /\ \A k \in 1..i : ae[k] = IF k <= i - 1 THEN a[k] ELSE <<e>>[k - (i - 1)]
  <2>1. /\ ae \in Seq(S) /\ Len(ae) = Len(a) + Len(<<e>>)
        /\ \A k \in 1..Len(a) + Len(<<e>>) :
              ae[k] = IF k <= Len(a) THEN a[k] ELSE <<e>>[k - Len(a)]
    BY <1>1, <1>4, ConcatProperties
  <2>2. Len(a) + Len(<<e>>) = i BY <1>0, <1>1, <1>4
  <2> QED BY <1>1, <2>1, <2>2
<1> HIDE DEF ae
<1>6. /\ ae \o b \in Seq(S) /\ Len(ae \o b) = Len(q) + 1
      /\ \A k \in 1..Len(q) + 1 : (ae \o b)[k] = IF k <= i THEN ae[k] ELSE b[k - i]
  <2>1. /\ ae \o b \in Seq(S) /\ Len(ae \o b) = Len(ae) + Len(b)
        /\ \A k \in 1..Len(ae) + Len(b) :
              (ae \o b)[k] = IF k <= Len(ae) THEN ae[k] ELSE b[k - Len(ae)]
    BY <1>2, <1>5, ConcatProperties
  <2>2. Len(ae) + Len(b) = Len(q) + 1 BY <1>0, <1>2, <1>5
  <2> QED BY <1>5, <2>1, <2>2
<1>7. ASSUME NEW k \in 1..Len(q) + 1
      PROVE  (ae \o b)[k] = IF k < i THEN q[k] ELSE IF k = i THEN e ELSE q[k - 1]
  <2>1. CASE k < i
    <3>1. k \in 1..i /\ k <= i /\ k \in 1..i - 1 /\ k <= i - 1 BY <1>0, <2>1
    <3> QED BY <1>1, <1>5, <1>6, <2>1, <3>1
  <2>2. CASE k = i
    <3>1. k \in 1..i /\ k <= i /\ ~(k <= i - 1) /\ k - (i - 1) = 1 BY <1>0, <2>2
    <3> QED BY <1>4, <1>5, <1>6, <2>2, <3>1
  <2>3. CASE k > i
    <3>1. ~(k <= i) /\ ~(k < i) /\ k # i /\ k - i \in 1..Len(q) - i + 1 /\ i + (k - i) - 1 = k - 1
      BY <1>0, <2>3
    <3>2. b[k - i] = q[k - 1] BY <1>2, <3>1
    <3>3. (ae \o b)[k] = b[k - i] BY <1>6, <3>1
    <3> QED BY <3>1, <3>2, <3>3
  <2>4. k < i \/ k = i \/ k > i BY <1>0
  <2> QED BY <2>1, <2>2, <2>3, <2>4
<1> QED BY <1>3, <1>6, <1>7

\* p lists the numbers up to n, each once.
Arranges(p, n) ==
  /\ p \in Seq(1..n) /\ Len(p) = n
  /\ \A j, k \in 1..n : p[j] = p[k] => j = k
  /\ \A i \in 1..n : \E k \in 1..n : p[k] = i

\* The next number is inserted somewhere, whatever the keys are.
LEMMA InsertedArranges ==
  ASSUME NEW i \in Nat \ {0}, NEW q, Arranges(q, i - 1), NEW key
  PROVE  Arranges(Inserted(q, key, i), i)
PROOF
<1> DEFINE B == {j \in DOMAIN q : ~Precedes(key[i], key[q[j]])}
           at == 1 + Cardinality(B)
           t == InsertAt(q, at, i)
<1>1. q \in Seq(1..(i - 1)) /\ Len(q) = i - 1 /\ DOMAIN q = 1..i - 1 BY LenProperties DEF Arranges
<1>2. Cardinality(B) \in Nat /\ Cardinality(B) <= i - 1
  <2>1. IsFiniteSet(1..i - 1) /\ Cardinality(1..i - 1) = i - 1 BY FS_Interval
  <2>2. B \in SUBSET (1..i - 1) BY <1>1
  <2> QED BY <2>1, <2>2, FS_Subset, FS_CardinalityType
<1> HIDE DEF B
<1>3. at \in 1..Len(q) + 1 BY <1>1, <1>2
<1>4. Inserted(q, key, i) = t BY DEF Inserted, B
<1> HIDE DEF at
<1>5. q \in Seq(1..i) /\ \A k \in 1..i - 1 : q[k] \in 1..(i - 1)
  <2>1. \A k \in 1..i - 1 : q[k] \in 1..(i - 1) BY <1>1, ElementOfSeq
  <2>2. \A k \in 1..i - 1 : q[k] \in 1..i BY <2>1
  <2>3. q \in [1..i - 1 -> 1..i]
    <3>1. q = [k \in 1..i - 1 |-> q[k]] BY <1>1, SeqDef
    <3> QED BY <2>2, <3>1
  <2> QED BY <2>1, <2>3, SeqDef
<1>6. /\ t \in Seq(1..i) /\ Len(t) = Len(q) + 1
      /\ \A k \in 1..Len(q) + 1 : t[k] = IF k < at THEN q[k] ELSE IF k = at THEN i ELSE q[k - 1]
  <2> DEFINE S == 1..i
  <2>1. q \in Seq(S) /\ i \in S BY <1>5
  <2> HIDE DEF S
  <2>2. /\ InsertAt(q, at, i) \in Seq(S) /\ Len(InsertAt(q, at, i)) = Len(q) + 1
        /\ \A k \in 1..Len(q) + 1 : InsertAt(q, at, i)[k]
               = IF k < at THEN q[k] ELSE IF k = at THEN i ELSE q[k - 1]
    BY <1>3, <2>1, InsertAtGives
  <2> QED BY <2>2 DEF S
<1>7. Len(q) + 1 = i BY <1>1
<1> HIDE DEF t
<1>8. \A j, k \in 1..i - 1 : q[j] = q[k] => j = k BY DEF Arranges
<1> DEFINE back(k) == IF k < at THEN k ELSE k - 1
<1>9. ASSUME NEW k \in 1..i, k # at PROVE back(k) \in 1..i - 1 /\ t[k] = q[back(k)]
  BY <1>3, <1>6, <1>7, <1>9
<1>10. ASSUME NEW j \in 1..i, NEW k \in 1..i, t[j] = t[k] PROVE j = k
  <2>1. t[at] = i BY <1>3, <1>6, <1>7
  <2>2. CASE j = at \/ k = at
    <3>1. ASSUME NEW m \in 1..i, m # at PROVE t[m] # i
      <4>1. back(m) \in 1..i - 1 /\ t[m] = q[back(m)] BY <1>9, <3>1
      <4>2. q[back(m)] \in 1..(i - 1) BY <1>5, <4>1
      <4> QED BY <4>1, <4>2
    <3> QED BY <1>10, <2>1, <2>2, <3>1
  <2>3. CASE j # at /\ k # at
    <3>1. back(j) = back(k) BY <1>8, <1>9, <1>10, <2>3
    <3> QED BY <1>3, <2>3, <3>1
  <2> QED BY <2>2, <2>3
<1>11. ASSUME NEW m \in 1..i PROVE \E k \in 1..i : t[k] = m
  <2>1. CASE m = i BY <1>3, <1>6, <1>7, <2>1
  <2>2. CASE m # i
    <3>1. m \in 1..(i - 1) BY <2>2
    <3>2. PICK k \in 1..i - 1 : q[k] = m BY <3>1 DEF Arranges
    <3>3. CASE k < at
      <4>1. k \in 1..i BY <3>2
      <4> QED BY <1>6, <1>7, <3>2, <3>3, <4>1
    <3>4. CASE ~(k < at)
      <4>1. k + 1 \in 1..i /\ ~(k + 1 < at) /\ k + 1 # at /\ (k + 1) - 1 = k BY <1>3, <1>1, <3>4
      <4> QED BY <1>6, <1>7, <3>2, <4>1
    <3> QED BY <3>3, <3>4
  <2> QED BY <2>1, <2>2
<1> HIDE DEF back
<1>12. Arranges(t, i) BY <1>6, <1>7, <1>10, <1>11 DEF Arranges
<1> QED BY <1>4, <1>12

\* t holds the elements of s in another order.
Reorders(t, s) ==
  \E p : Arranges(p, Len(s)) /\ t = [k \in 1..Len(s) |-> s[p[k]]]

\* Sorting loses nothing and adds nothing, whatever the keys are.
LEMMA SortedReorders ==
  ASSUME NEW S, NEW s \in Seq(S), NEW key
  PROVE  Reorders(Sorted(s, key), s)
PROOF
<1> DEFINE n == Len(s)
<1>1. n \in Nat /\ DOMAIN s = 1..n BY LenProperties
<1> HIDE DEF n
<1> DEFINE Q == UNION {{q \in Seq(1..i) : Arranges(q, i)} : i \in 0..n}
           Step(i, q) == Inserted(q, key, i)
           F == [p \in (1..n) \X Q |-> IF Len(p[2]) = p[1] - 1 THEN Step(p[1], p[2]) ELSE <<>>]
           Rec(g) == g = [i \in 0..n |-> IF i = 0 THEN <<>> ELSE Step(i, g[i - 1])]
           order == CHOOSE g : Rec(g)
<1>2. Arranges(<<>>, 0)
  <2>1. <<>> \in Seq(1..0) /\ Len(<<>>) = 0 BY EmptySeq
  <2> QED BY <2>1 DEF Arranges
<1>3. ASSUME NEW i \in 0..n, NEW q, Arranges(q, i) PROVE q \in Q /\ Len(q) = i
  <2>1. q \in {r \in Seq(1..i) : Arranges(r, i)} /\ Len(q) = i BY <1>3 DEF Arranges
  <2> QED BY <2>1
<1>4. \A q \in Q : Len(q) \in 0..n /\ Arranges(q, Len(q)) BY DEF Arranges
<1>5. <<>> \in Q BY <1>1, <1>2, <1>3
<1> HIDE DEF Q
<1>6. ASSUME NEW i \in 1..n, NEW q \in Q, Len(q) = i - 1 PROVE Step(i, q) \in Q /\ Len(Step(i, q)) = i
  <2>1. Arranges(Step(i, q), i) BY <1>4, <1>6, InsertedArranges
  <2> QED BY <1>3, <2>1
<1>7. F \in [(1..n) \X Q -> Q]
  <2>1. ASSUME NEW p \in (1..n) \X Q
        PROVE  (IF Len(p[2]) = p[1] - 1 THEN Step(p[1], p[2]) ELSE <<>>) \in Q
    <3>1. p[1] \in 1..n /\ p[2] \in Q OBVIOUS
    <3> HIDE DEF Step
    <3> QED BY <1>5, <1>6, <3>1
  <2> QED BY <2>1
<1>8. PICK g : Iterates(g, F, Q, <<>>, n) BY <1>1, <1>5, <1>7, IterationExists
<1> HIDE DEF Step
<1>9. \A i \in 0..n : g[i] \in Q /\ Len(g[i]) = i
  <2> DEFINE D == {i \in 0..n : g[i] \in Q /\ Len(g[i]) = i}
  <2>1. 0 \in D
    <3>1. g[0] = <<>> BY <1>8 DEF Iterates
    <3>2. Len(<<>>) = 0 BY EmptySeq
    <3> QED BY <1>1, <1>5, <3>1, <3>2
  <2>2. ASSUME NEW i \in 1..n, i - 1 \in D PROVE i \in D
    <3>1. g[i - 1] \in Q /\ Len(g[i - 1]) = i - 1 BY <2>2
    <3>2. g[i] = F[<<i, g[i - 1]>>] BY <1>8 DEF Iterates
    <3>3. g[i] = Step(i, g[i - 1]) BY <3>1, <3>2
    <3>4. g[i] \in Q /\ Len(g[i]) = i BY <1>6, <3>1, <3>3
    <3> QED BY <3>4
  <2> HIDE DEF D
  <2>3. \A i \in 0..n : i \in D BY <1>1, <2>1, <2>2, UpTo
  <2> QED BY <2>3 DEF D
<1>10. Rec(g)
  <2>1. ASSUME NEW i \in 0..n PROVE g[i] = IF i = 0 THEN <<>> ELSE Step(i, g[i - 1])
    <3>1. CASE i = 0 BY <1>8, <3>1 DEF Iterates
    <3>2. CASE i # 0
      <4>1. i \in 1..n /\ i - 1 \in 0..n BY <1>1, <3>2
      <4>2. g[i - 1] \in Q /\ Len(g[i - 1]) = i - 1 BY <1>9, <4>1
      <4>3. g[i] = F[<<i, g[i - 1]>>] BY <1>8, <4>1 DEF Iterates
      <4>4. g[i] = Step(i, g[i - 1]) BY <4>1, <4>2, <4>3
      <4> QED BY <3>2, <4>4
    <3> QED BY <3>1, <3>2
  <2>2. g = [i \in 0..n |-> g[i]] BY <1>8 DEF Iterates
  <2> HIDE DEF F
  <2> QED BY <2>1, <2>2
<1>11. Rec(order) BY <1>10
<1> HIDE DEF order, F
<1>12. order[0] = <<>> /\ \A i \in 1..n : order[i] = Step(i, order[i - 1])
  <2>1. \A i \in 1..n : i \in 0..n /\ i # 0 OBVIOUS
  <2>2. \A i \in 0..n : order[i] = IF i = 0 THEN <<>> ELSE Step(i, order[i - 1]) BY <1>11
  <2> QED BY <1>1, <2>1, <2>2
<1> DEFINE E == {i \in 0..n : Arranges(order[i], i)}
<1>13. 0 \in E BY <1>1, <1>2, <1>12
<1>14. ASSUME NEW i \in 1..n, i - 1 \in E PROVE i \in E
  <2>1. Arranges(order[i - 1], i - 1) /\ i \in Nat \ {0} /\ i \in 0..n BY <1>14
  <2>2. Arranges(Inserted(order[i - 1], key, i), i) BY <2>1, InsertedArranges
  <2>3. Arranges(order[i], i) BY <1>12, <2>2 DEF Step
  <2> QED BY <2>1, <2>3
<1> HIDE DEF E
<1>15. n \in E BY <1>1, <1>13, <1>14, UpTo
<1>16. Arranges(order[n], n) BY <1>15 DEF E
<1>17. Sorted(s, key) = [k \in DOMAIN s |-> s[order[n][k]]] BY DEF Sorted, order, Step, n
<1> QED BY <1>1, <1>16, <1>17 DEF Reorders, n

\* What a reordering of a sequence has in common with it.
LEMMA ReordersGives ==
  ASSUME NEW S, NEW s \in Seq(S), NEW t, Reorders(t, s)
  PROVE  /\ t \in Seq(S) /\ Len(t) = Len(s)
         /\ \A k \in 1..Len(s) : \E j \in 1..Len(s) : t[k] = s[j]
         /\ \A j \in 1..Len(s) : \E k \in 1..Len(s) : t[k] = s[j]
PROOF
<1>1. Len(s) \in Nat /\ \A k \in 1..Len(s) : s[k] \in S BY LenProperties, ElementOfSeq
<1>2. PICK p : Arranges(p, Len(s)) /\ t = [k \in 1..Len(s) |-> s[p[k]]] BY DEF Reorders
<1>3. \A k \in 1..Len(s) : p[k] \in 1..Len(s) BY <1>1, <1>2, ElementOfSeq DEF Arranges
<1>4. \A k \in 1..Len(s) : t[k] = s[p[k]] BY <1>2
<1>5. t \in [1..Len(s) -> S] BY <1>1, <1>2, <1>3
<1>6. t \in Seq(S) /\ Len(t) = Len(s) BY <1>1, <1>5, SeqDef, LenProperties
<1>7. \A j \in 1..Len(s) : \E k \in 1..Len(s) : p[k] = j BY <1>2 DEF Arranges
<1>8. \A k \in 1..Len(s) : \E j \in 1..Len(s) : t[k] = s[j] BY <1>3, <1>4
<1>9. ASSUME NEW j \in 1..Len(s) PROVE \E k \in 1..Len(s) : t[k] = s[j]
  <2>1. PICK k \in 1..Len(s) : p[k] = j BY <1>7
  <2>2. t[k] = s[j] BY <1>4, <2>1
  <2> QED BY <2>2
<1> QED BY <1>6, <1>8, <1>9

\* A finite set as a sequence.
LEMMA ListedSet ==
  ASSUME NEW S, IsFiniteSet(S)
  PROVE  /\ SetToSeq(S) \in Seq(S) /\ Len(SetToSeq(S)) = Cardinality(S)
         /\ \A x \in S : \E k \in 1..Cardinality(S) : SetToSeq(S)[k] = x
PROOF
<1> DEFINE n == Cardinality(S)
<1>1. n \in Nat /\ ExistsBijection(1..n, S) BY FS_CardinalityType
<1>2. \E f \in [1..n -> S] : IsInjective(f)
  BY <1>1 DEF ExistsBijection, Bijection, Injection
<1> DEFINE g == CHOOSE h \in [1..n -> S] : IsInjective(h)
<1>3. g \in [1..n -> S] /\ IsInjective(g) BY <1>2
<1>4. SetToSeq(S) = g BY DEF SetToSeq
<1> HIDE DEF g
<1>5. g \in Seq(S) /\ Len(g) = n BY <1>1, <1>3, SeqDef, LenProperties
<1>6. \A x \in S : \E k \in 1..n : g[k] = x
  <2>1. g \in Injection(1..n, S) BY <1>3 DEF Injection
  <2>2. IsFiniteSet(1..n) /\ Cardinality(1..n) = n BY <1>1, FS_Interval
  <2>3. g \in Surjection(1..n, S) BY <2>1, <2>2, FS_Injection
  <2> QED BY <2>3 DEF Surjection
<1> QED BY <1>4, <1>5, <1>6

-----------------------------------------------------------------------------
(* The rows of a query *)

RowSet == [source : Types, target : Types, kind : Kinds, member : Members \cup {None},
           static : BOOLEAN, usage : Nat, runtime : Nat]

\* The evidence of the two tables, and a graph a snapshot may hold.
IsEvidence(uses, seen) == uses \in [Members -> Nat] /\ seen \in [Members -> Nat]
IsGraph(edges) == edges \subseteq EdgeSet /\ IsFiniteSet(edges)

\* An edge the row was made of.
IsRowOf(r, e) ==
  <<e.source, e.target, e.kind, e.member, e.static>> = <<r.source, r.target, r.kind, r.member, r.static>>

RowsInto(s, edges, type, uses, seen) ==
  {Row(e, uses, seen) : e \in EdgesInto(s, edges, type)}

\* A row is that of an edge into the type.
IsRowFor(s, edges, type, r) ==
  r \in RowSet /\ r.target = type /\ r.kind \in Allowed(s) /\ \E e \in edges : IsRowOf(r, e)

\* All rows of a query are.
LEMMA RowsAreEdges ==
  ASSUME NEW s, NEW edges, IsGraph(edges), NEW uses, NEW seen, IsEvidence(uses, seen),
         NEW type, NEW r \in RowsInto(s, edges, type, uses, seen)
  PROVE  IsRowFor(s, edges, type, r)
PROOF
<1>1. PICK e \in EdgesInto(s, edges, type) : r = Row(e, uses, seen) BY DEF RowsInto
<1>2. e \in edges /\ e.target = type /\ e.kind \in Allowed(s) /\ e \in EdgeSet
  BY <1>1 DEF EdgesInto, IsGraph
<1>3. /\ e.source \in Types /\ e.target \in Types /\ e.kind \in Kinds
      /\ e.member \in Members \cup {None} /\ e.static \in BOOLEAN
  BY <1>2 DEF EdgeSet
<1> DEFINE u == IF e.member = None THEN 0 ELSE uses[e.member]
           w == IF e.member = None THEN 0 ELSE seen[e.member]
<1>4. u \in Nat /\ w \in Nat BY <1>3 DEF IsEvidence
<1> HIDE DEF u, w
<1>5. r = [source |-> e.source, target |-> e.target, kind |-> e.kind, member |-> e.member,
           static |-> e.static, usage |-> u, runtime |-> w]
  BY <1>1 DEF Row, u, w
<1>6. r \in RowSet BY <1>3, <1>4, <1>5 DEF RowSet
<1>7. IsRowOf(r, e) BY <1>5 DEF IsRowOf
<1>8. r.target = type /\ r.kind \in Allowed(s) BY <1>2, <1>5
<1> QED BY <1>2, <1>6, <1>7, <1>8 DEF IsRowFor

\* The rows of a query are made of edges into the type, and when no limit bites
\* of all of them.
LEMMA IncomingRows ==
  ASSUME NEW s, NEW edges, IsGraph(edges), NEW uses, NEW seen, NEW type
  PROVE  LET R == RowsInto(s, edges, type, uses, seen)
             rows == Incoming(s, edges, type, uses, seen)
             into == Cardinality(EdgesInto(s, edges, type))
         IN  /\ rows \in Seq(R)
             /\ into <= IncomingLimit /\ into <= CandidateLimit
                  => \A r \in R : \E k \in 1..Len(rows) : rows[k] = r
PROOF
<1> DEFINE R == RowsInto(s, edges, type, uses, seen)
           E == EdgesInto(s, edges, type)
           number(e) == IF e.member = None THEN 0 ELSE e.member
           place(e) == <<KindRank(e.kind), e.source, number(e)>>
           merit(e) == <<-e.runtime, IF s.usage THEN -e.usage ELSE 0>> \o place(e)
           a == SetToSeq(R)
           b == Sorted(a, [i \in DOMAIN a |-> place(a[i])])
           c == Take(b, CandidateLimit)
           d == Sorted(c, [i \in DOMAIN c |-> merit(c[i])])
           rows == Take(d, IncomingLimit)
<1>1. Incoming(s, edges, type, uses, seen) = rows BY DEF Incoming, RowsInto
<1>2. IncomingLimit \in Nat /\ CandidateLimit \in Nat BY LimitsOK
<1>3. IsFiniteSet(E)
  <2>1. E \in SUBSET edges BY DEF EdgesInto
  <2> QED BY <2>1, FS_Subset DEF IsGraph
<1>4. IsFiniteSet(R) /\ Cardinality(R) <= Cardinality(E)
  <2> DEFINE f == [e \in E |-> Row(e, uses, seen)]
  <2>1. f \in Surjection(E, R) BY DEF RowsInto, Surjection
  <2> HIDE DEF f
  <2> QED BY <1>3, <2>1, FS_Surjection
<1>5. Cardinality(E) \in Nat /\ Cardinality(R) \in Nat BY <1>3, <1>4, FS_CardinalityType
<1> HIDE DEF R, E
<1>6. /\ a \in Seq(R) /\ Len(a) = Cardinality(R)
      /\ \A r \in R : \E k \in 1..Len(a) : a[k] = r
  BY <1>4, ListedSet
<1> HIDE DEF a
<1>7. Reorders(b, a) BY <1>6, SortedReorders
<1> HIDE DEF b
<1>8. /\ b \in Seq(R) /\ Len(b) = Len(a)
      /\ \A j \in 1..Len(a) : \E k \in 1..Len(a) : b[k] = a[j]
  <2>1. a \in Seq(R) BY <1>6
  <2> QED BY <1>7, <2>1, ReordersGives
<1>9. c \in Seq(R) /\ (Len(b) <= CandidateLimit => c = b) BY <1>2, <1>8, TakeGives
<1> HIDE DEF c
<1>10. Reorders(d, c) BY <1>9, SortedReorders
<1> HIDE DEF d
<1>11. /\ d \in Seq(R) /\ Len(d) = Len(c)
       /\ \A j \in 1..Len(c) : \E k \in 1..Len(c) : d[k] = c[j]
  <2>1. c \in Seq(R) /\ Reorders(d, c) BY <1>9, <1>10
  <2> QED BY <2>1, ReordersGives
<1>12. rows \in Seq(R) /\ (Len(d) <= IncomingLimit => rows = d) BY <1>2, <1>11, TakeGives
<1> HIDE DEF rows
<1>13. ASSUME Cardinality(E) <= IncomingLimit, Cardinality(E) <= CandidateLimit, NEW r \in R
       PROVE  \E k \in 1..Len(rows) : rows[k] = r
  <2>1. Len(a) <= IncomingLimit /\ Len(a) <= CandidateLimit BY <1>2, <1>4, <1>5, <1>6, <1>13
  <2>2. c = b /\ Len(c) = Len(a) BY <1>8, <1>9, <2>1
  <2>3. rows = d /\ Len(rows) = Len(a) BY <1>11, <1>12, <2>1, <2>2
  <2>4. PICK j \in 1..Len(a) : a[j] = r BY <1>6
  <2>5. PICK k \in 1..Len(a) : b[k] = a[j] BY <1>8
  <2>6. PICK l \in 1..Len(a) : d[l] = c[k] BY <1>11, <2>2
  <2> QED BY <2>2, <2>3, <2>4, <2>5, <2>6
<1> QED BY <1>1, <1>12, <1>13 DEF R, E

-----------------------------------------------------------------------------
(* Paths *)

\* What a search needs of its arguments.
IsSearch(s) ==
  /\ s.target \in Types /\ s.depth \in Nat \ {0} /\ s.paths \in Nat \ {0}
  /\ Len(s.roots) \in Nat /\ DOMAIN s.roots = 1..Len(s.roots)

ItemSet == [type : Types, suffix : Seq(RowSet), visited : SUBSET Types]
FoundSet == [root : Nat, path : Seq(RowSet)]
StateSet == [found : Seq(FoundSet), queue : Seq(ItemSet), visits : [Types -> Nat], expanded : Nat]

\* An entry of the queue: a path from its type to the target that may still get
\* longer, with the types on it.
IsItem(edges, s, item) ==
  /\ IsPath(edges, s, item, item.suffix) /\ Len(item.suffix) < s.depth
  /\ item.visited = {s.target} \cup {item.suffix[i].source : i \in 1..Len(item.suffix)}

\* One element before a sequence.
LEMMA ConsGives ==
  ASSUME NEW S, NEW e \in S, NEW q \in Seq(S)
  PROVE  /\ <<e>> \o q \in Seq(S) /\ Len(<<e>> \o q) = Len(q) + 1 /\ (<<e>> \o q)[1] = e
         /\ \A k \in 1..Len(q) : (<<e>> \o q)[k + 1] = q[k]
         /\ \A k \in 2..Len(q) + 1 : (<<e>> \o q)[k] = q[k - 1]
PROOF
<1>1. <<e>> \in Seq(S) /\ Len(<<e>>) = 1 /\ <<e>>[1] = e OBVIOUS
<1>2. Len(q) \in Nat BY LenProperties
<1>3. /\ <<e>> \o q \in Seq(S) /\ Len(<<e>> \o q) = 1 + Len(q)
      /\ \A k \in 1..1 + Len(q) : (<<e>> \o q)[k] = IF k <= 1 THEN <<e>>[k] ELSE q[k - 1]
  BY <1>1, ConcatProperties
<1>4. \A k \in 1..Len(q) : k + 1 \in 1..1 + Len(q) /\ ~(k + 1 <= 1) /\ (k + 1) - 1 = k BY <1>2
<1>5. \A k \in 1..Len(q) : (<<e>> \o q)[k + 1] = q[k] BY <1>3, <1>4
<1>6. (<<e>> \o q)[1] = e BY <1>1, <1>2, <1>3
<1>7. \A k \in 2..Len(q) + 1 : k \in 1..1 + Len(q) /\ ~(k <= 1) BY <1>2
<1>8. \A k \in 2..Len(q) + 1 : (<<e>> \o q)[k] = q[k - 1] BY <1>3, <1>7
<1> QED BY <1>2, <1>3, <1>5, <1>6, <1>8

\* A step into the type of an item, from a type it has not met, makes a path.
LEMMA LongerPath ==
  ASSUME NEW edges, NEW s, IsSearch(s), NEW item \in ItemSet, IsItem(edges, s, item),
         NEW e \in RowSet, IsStep(edges, s, e), e.target = item.type,
         e.source \notin item.visited, NEW root, root.type = e.source
  PROVE  IsPath(edges, s, root, <<e>> \o item.suffix)
PROOF
<1> DEFINE q == item.suffix
           path == <<e>> \o q
           n == Len(q)
<1>1. q \in Seq(RowSet) /\ n \in Nat BY LenProperties DEF ItemSet
<1>2. /\ path \in Seq(RowSet) /\ Len(path) = n + 1 /\ path[1] = e
      /\ \A k \in 1..n : path[k + 1] = q[k]
      /\ \A k \in 2..n + 1 : path[k] = q[k - 1]
  BY <1>1, ConsGives
<1>3. DOMAIN path = 1..n + 1 /\ DOMAIN q = 1..n BY <1>1, <1>2, LenProperties
<1>4. /\ n < s.depth /\ s.depth \in Nat
      /\ item.visited = {s.target} \cup {q[i].source : i \in 1..n}
  BY DEF IsItem, IsSearch
<1>5. /\ \A i \in 1..n : IsStep(edges, s, q[i]) /\ q[i].source # s.target
      /\ \A i \in 1..n - 1 : q[i].target = q[i + 1].source
      /\ \A i, j \in 1..n : q[i].source = q[j].source => i = j
      /\ IF q = <<>> THEN item.type = s.target
         ELSE q[1].source = item.type /\ Last(q).target = s.target
  BY <1>3 DEF IsItem, IsPath
<1> HIDE DEF path, q
<1>6. \A i \in 1..n + 1 : i = 1 \/ (i \in 2..n + 1 /\ i - 1 \in 1..n) BY <1>1
<1>7. e.source # s.target /\ \A i \in 1..n : e.source # q[i].source BY <1>4
<1>8. Len(path) <= s.depth BY <1>1, <1>2, <1>4
<1>9. \A i \in 1..n + 1 : IsStep(edges, s, path[i]) /\ path[i].source # s.target
  BY <1>2, <1>5, <1>6, <1>7
<1>10. ASSUME NEW i \in 1..Len(path) - 1 PROVE path[i].target = path[i + 1].source
  <2>1. i \in 1..n /\ path[i + 1] = q[i] BY <1>1, <1>2
  <2>2. CASE i = 1
    <3>1. q # <<>> BY <1>1, <2>1, EmptySeq DEF q
    <3> QED BY <1>2, <1>5, <2>1, <2>2, <3>1
  <2>3. CASE i # 1
    <3>1. i - 1 \in 1..n - 1 /\ i \in 2..n + 1 /\ (i - 1) + 1 = i BY <1>1, <2>1, <2>3
    <3>2. path[i] = q[i - 1] BY <1>2, <3>1
    <3>3. q[i - 1].target = q[i].source BY <1>5, <3>1
    <3> QED BY <2>1, <3>2, <3>3
  <2> QED BY <2>2, <2>3
<1>11. ASSUME NEW i \in 1..n + 1, NEW j \in 1..n + 1, path[i].source = path[j].source PROVE i = j
  <2>1. ASSUME NEW k \in 2..n + 1 PROVE path[k] = q[k - 1] /\ k - 1 \in 1..n BY <1>1, <1>2
  <2>2. CASE i = 1 \/ j = 1 BY <1>2, <1>6, <1>7, <1>11, <2>1, <2>2
  <2>3. CASE i # 1 /\ j # 1
    <3>1. i \in 2..n + 1 /\ j \in 2..n + 1 BY <1>6, <2>3
    <3>2. i - 1 \in 1..n /\ j - 1 \in 1..n BY <2>1, <3>1
    <3>3. path[i] = q[i - 1] /\ path[j] = q[j - 1] BY <2>1, <3>1
    <3>4. i - 1 = j - 1 BY <1>5, <1>11, <3>2, <3>3
    <3> QED BY <3>1, <3>4
  <2> QED BY <2>2, <2>3
<1>12. path # <<>> /\ path[1].source = root.type /\ Last(path).target = s.target
  <2>1. path # <<>> BY <1>1, <1>2, EmptySeq
  <2>2. Last(path) = path[n + 1] BY <1>2 DEF Last
  <2>3. CASE n = 0
    <3>1. q = <<>> BY <1>1, <2>3, EmptySeq DEF q
    <3> QED BY <1>2, <1>5, <2>1, <2>2, <2>3, <3>1
  <2>4. CASE n # 0
    <3>1. q # <<>> /\ n \in 1..n BY <1>1, <2>4, EmptySeq DEF q
    <3>2. Last(q) = q[n] /\ path[n + 1] = q[n] BY <1>2, <3>1 DEF Last, q
    <3> QED BY <1>2, <1>5, <2>1, <2>2, <3>1, <3>2
  <2> QED BY <2>3, <2>4
<1>13. IsPath(edges, s, root, path)
  BY <1>3, <1>8, <1>9, <1>10, <1>11, <1>12 DEF IsPath
<1> QED BY <1>13 DEF path, q

-----------------------------------------------------------------------------
(* One edge *)

\* No root has two entries with the same path.
AreDistinct(found) ==
  \A j, k \in 1..Len(found) : j # k =>
     ~(found[j].root = found[k].root /\ PathKey(found[j].path) = PathKey(found[k].path))

\* Every entry is a path from its root.
AreFound(edges, s, found) ==
  \A k \in 1..Len(found) :
     found[k].root \in 1..Len(s.roots) /\ IsPath(edges, s, s.roots[found[k].root], found[k].path)

\* What is true of a search all along.
StateOK(edges, s, st) ==
  /\ st \in StateSet /\ Len(st.found) <= s.paths
  /\ AreDistinct(st.found) /\ AreFound(edges, s, st.found)
  /\ \A k \in 1..Len(st.queue) : IsItem(edges, s, st.queue[k])

\* The typing of a state of the search, field by field.
LEMMA StateTyped ==
  ASSUME NEW st \in StateSet
  PROVE  /\ st.found \in Seq(FoundSet) /\ st.queue \in Seq(ItemSet)
         /\ st.visits \in [Types -> Nat] /\ st.expanded \in Nat
         /\ Len(st.found) \in Nat /\ Len(st.queue) \in Nat
         /\ \A k \in 1..Len(st.found) : st.found[k] \in FoundSet
         /\ \A k \in 1..Len(st.queue) : st.queue[k] \in ItemSet
         /\ st = [found |-> st.found, queue |-> st.queue, visits |-> st.visits,
                  expanded |-> st.expanded]
PROOF
<1>1. /\ st.found \in Seq(FoundSet) /\ st.queue \in Seq(ItemSet)
      /\ st.visits \in [Types -> Nat] /\ st.expanded \in Nat
      /\ st = [found |-> st.found, queue |-> st.queue, visits |-> st.visits,
               expanded |-> st.expanded]
  BY DEF StateSet
<1> QED BY <1>1, LenProperties, ElementOfSeq

\* F has what was found, and the path for every root of its type, or enough.
IsExtended(s, old, path, F) ==
  /\ Len(old) <= Len(F) /\ Len(F) <= s.paths /\ \A k \in 1..Len(old) : F[k] = old[k]
  /\ \A k \in Len(old) + 1..Len(F) : F[k].path = path /\ F[k].root \in RootsOf(s, path[1].source)
  /\ \A i \in RootsOf(s, path[1].source) :
        \/ Len(F) >= s.paths
        \/ \E k \in 1..Len(F) : F[k].root = i /\ PathKey(F[k].path) = PathKey(path)

\* A longer path is added for every root of its type that has not got it, until
\* there are enough; what was found stays.
LEMMA FoundGives ==
  ASSUME NEW s, IsSearch(s), NEW st \in StateSet, Len(st.found) <= s.paths,
         NEW path \in Seq(RowSet)
  PROVE  /\ Found(s, st, path) \in Seq(FoundSet)
         /\ IsExtended(s, st.found, path, Found(s, st, path))
         /\ AreDistinct(st.found) => AreDistinct(Found(s, st, path))
PROOF
<1> DEFINE old == st.found
           L == Len(old)
           same(f) == PathKey(f.path) = PathKey(path)
           R == RootsOf(s, path[1].source)
           new == {i \in R : \A k \in DOMAIN old : ~(old[k].root = i /\ same(old[k]))}
           a == Ascending(Len(s.roots), new)
           b == [k \in DOMAIN a |-> [root |-> a[k], path |-> path]]
           all == old \o b
           F == Take(all, s.paths)
<1>1. F = Found(s, st, path) BY DEF Found
<1>2. /\ old \in Seq(FoundSet) /\ L \in Nat /\ s.paths \in Nat /\ DOMAIN old = 1..L
      /\ Len(s.roots) \in Nat /\ R \subseteq 1..Len(s.roots)
  BY StateTyped, LenProperties DEF IsSearch, RootsOf
<1> HIDE DEF old
<1>3. /\ a \in Seq(1..Len(s.roots)) /\ Range(a) = new \cap 1..Len(s.roots)
      /\ \A j, k \in DOMAIN a : a[j] = a[k] => j = k
  BY <1>2, AscendingLists
<1>4. new \cap 1..Len(s.roots) = new BY <1>2
<1> HIDE DEF new, R
<1> DEFINE N == Len(a)
<1>5. /\ N \in Nat /\ DOMAIN a = 1..N /\ \A k \in 1..N : a[k] \in 1..Len(s.roots)
      /\ \A k \in 1..N : a[k] \in new
      /\ \A i \in new : \E k \in 1..N : a[k] = i
  <2>1. N \in Nat /\ DOMAIN a = 1..N /\ \A k \in 1..N : a[k] \in 1..Len(s.roots)
    BY <1>3, LenProperties, ElementOfSeq
  <2>2. Range(a) = new BY <1>3, <1>4
  <2> HIDE DEF a
  <2> QED BY <2>1, <2>2 DEF Range
<1> HIDE DEF a
<1>6. b \in Seq(FoundSet) /\ Len(b) = N /\ \A k \in 1..N : b[k] = [root |-> a[k], path |-> path]
  <2>1. \A k \in 1..N : a[k] \in Nat BY <1>5
  <2>2. b \in [1..N -> FoundSet] BY <1>5, <2>1 DEF FoundSet
  <2> QED BY <1>5, <2>2, SeqDef, LenProperties
<1> HIDE DEF b
<1>7. /\ all \in Seq(FoundSet) /\ Len(all) = L + N
      /\ \A k \in 1..L + N : all[k] = IF k <= L THEN old[k] ELSE b[k - L]
  <2>1. old \in Seq(FoundSet) /\ b \in Seq(FoundSet) BY <1>2, <1>6
  <2>2. /\ old \o b \in Seq(FoundSet) /\ Len(old \o b) = Len(old) + Len(b)
        /\ \A k \in 1..Len(old) + Len(b) :
              (old \o b)[k] = IF k <= Len(old) THEN old[k] ELSE b[k - Len(old)]
    BY <2>1, ConcatProperties
  <2>3. Len(b) = N BY <1>6
  <2> QED BY <2>2, <2>3
<1> HIDE DEF all, L, N
<1>8. /\ F \in Seq(FoundSet) /\ Len(F) <= s.paths /\ Len(F) <= L + N
      /\ \A k \in 1..Len(F) : F[k] = all[k]
      /\ L + N <= s.paths => F = all
      /\ ~(L + N <= s.paths) => Len(F) = s.paths
  <2>1. all \in Seq(FoundSet) /\ s.paths \in Nat BY <1>2, <1>7
  <2>2. /\ F \in Seq(FoundSet) /\ Len(F) <= s.paths /\ Len(F) <= Len(all)
        /\ \A k \in 1..Len(F) : F[k] = all[k]
        /\ Len(all) <= s.paths => F = all
        /\ ~(Len(all) <= s.paths) => Len(F) = s.paths
    BY <2>1, TakeGives
  <2>3. Len(all) = L + N BY <1>7
  <2> HIDE DEF F
  <2> QED BY <2>2, <2>3
<1>9. Len(F) \in Nat BY <1>8, LenProperties
<1> HIDE DEF F
<1>10. L <= s.paths BY DEF L, old
<1>11. L <= Len(F) BY <1>2, <1>5, <1>7, <1>8, <1>10
<1>12. ASSUME NEW k \in 1..L PROVE F[k] = old[k]
  <2>1. k \in 1..Len(F) /\ k \in 1..L + N /\ k <= L BY <1>2, <1>5, <1>9, <1>11
  <2> QED BY <1>7, <1>8, <2>1
<1>13. ASSUME NEW k \in L + 1..Len(F)
       PROVE  k - L \in 1..N /\ F[k].path = path /\ F[k].root = a[k - L] /\ a[k - L] \in new
  <2>1. k - L \in 1..N /\ k \in 1..L + N /\ ~(k <= L) /\ k \in 1..Len(F)
    BY <1>2, <1>5, <1>8, <1>9
  <2>2. F[k] = b[k - L] BY <1>7, <1>8, <2>1
  <2>3. b[k - L] = [root |-> a[k - L], path |-> path] BY <1>6, <2>1
  <2> QED BY <1>5, <2>1, <2>2, <2>3
<1>14. \A i \in new : i \in R /\ \A k \in 1..L : ~(old[k].root = i /\ same(old[k]))
  BY <1>2 DEF new
<1>15. ASSUME AreDistinct(old), NEW j \in 1..Len(F), NEW k \in 1..Len(F), j # k,
              F[j].root = F[k].root, PathKey(F[j].path) = PathKey(F[k].path)
       PROVE  FALSE
  <2>1. \A m \in 1..Len(F) : m \in 1..L \/ m \in L + 1..Len(F) BY <1>2, <1>9
  <2>2. CASE j \in 1..L /\ k \in 1..L BY <1>12, <1>15, <2>2 DEF AreDistinct, L
  <2>3. CASE j \in L + 1..Len(F) /\ k \in L + 1..Len(F)
    <3>1. k - L = j - L BY <1>3, <1>5, <1>13, <1>15, <2>3
    <3> QED BY <1>2, <1>9, <1>15, <2>3, <3>1
  <2>4. ASSUME NEW x \in 1..L, NEW y \in L + 1..Len(F), F[x].root = F[y].root,
               PathKey(F[x].path) = PathKey(F[y].path)
        PROVE  FALSE
    <3>1. F[x] = old[x] /\ F[y].path = path /\ F[y].root \in new BY <1>12, <1>13
    <3> QED BY <1>14, <2>4, <3>1
  <2> QED BY <1>15, <2>1, <2>2, <2>3, <2>4
<1>16. ASSUME NEW i \in R, ~(Len(F) >= s.paths)
       PROVE  \E k \in 1..Len(F) : F[k].root = i /\ PathKey(F[k].path) = PathKey(path)
  <2>1. F = all /\ Len(F) = L + N BY <1>2, <1>5, <1>7, <1>8, <1>9, <1>16
  <2>2. CASE i \in new
    <3>1. PICK k \in 1..N : a[k] = i BY <1>5, <2>2
    <3>2. L + k \in L + 1..Len(F) /\ L + k \in 1..Len(F) /\ (L + k) - L = k BY <1>2, <1>5, <2>1
    <3>3. F[L + k].path = path /\ F[L + k].root = a[k] BY <1>13, <3>2
    <3> QED BY <3>1, <3>2, <3>3
  <2>3. CASE i \notin new
    <3>1. PICK k \in 1..L : old[k].root = i /\ same(old[k]) BY <1>2, <1>16, <2>3 DEF new
    <3>2. k \in 1..Len(F) BY <1>2, <1>5, <2>1
    <3> QED BY <1>12, <3>1, <3>2
  <2> QED BY <2>2, <2>3
<1>17. AreDistinct(old) => AreDistinct(F) BY <1>15 DEF AreDistinct
<1>18. \A k \in L + 1..Len(F) : F[k].path = path /\ F[k].root \in R BY <1>13, <1>14
<1> HIDE DEF same
<1>19. IsExtended(s, old, path, F) BY <1>8, <1>11, <1>12, <1>16, <1>18 DEF IsExtended, L, R
<1> QED BY <1>1, <1>8, <1>17, <1>19 DEF old

\* The path and the item an edge leads to.
PathOver(item, e) == <<e>> \o item.suffix

ItemOver(item, e) ==
  [type |-> e.source, suffix |-> PathOver(item, e), visited |-> item.visited \cup {e.source}]

\* The body of the loop over the rows breaks out, or adds what it found, or
\* also queues the item the edge leads to.
Breaks(s, item, st, e) == Len(st.found) >= s.paths \/ ~Passable(s, e) \/ LeadsBack(item, e)

Ends(s, st, e, path) ==
  Len(Found(s, st, path)) >= s.paths \/ AtDepth(s, path) \/ ~MayVisit(st, e.source)

AfterFound(F, st) ==
  [found |-> F, queue |-> st.queue, visits |-> st.visits, expanded |-> st.expanded]

AfterEntered(F, st, e, add) ==
  [found |-> F, queue |-> Append(st.queue, add), visits |-> [st.visits EXCEPT ![e.source] = @ + 1],
   expanded |-> st.expanded]

\* A visit is one of the three.
LEMMA VisitCases ==
  ASSUME NEW s, NEW item, NEW st \in StateSet, NEW e
  PROVE  \/ Breaks(s, item, st, e) /\ Visit(s, item, st, e) = st
         \/ /\ ~Breaks(s, item, st, e) /\ Ends(s, st, e, PathOver(item, e))
            /\ Visit(s, item, st, e) = AfterFound(Found(s, st, PathOver(item, e)), st)
         \/ /\ ~Breaks(s, item, st, e) /\ ~Ends(s, st, e, PathOver(item, e))
            /\ Visit(s, item, st, e)
                 = AfterEntered(Found(s, st, PathOver(item, e)), st, e, ItemOver(item, e))
PROOF
<1> DEFINE path == PathOver(item, e)
           r == Visit(s, item, st, e)
           F == Found(s, st, path)
           add == ItemOver(item, e)
           only == [st EXCEPT !.found = F]
<1>1. r = IF Breaks(s, item, st, e) THEN st
          ELSE IF Ends(s, st, e, path) THEN only ELSE AfterEntered(F, st, e, add)
  BY DEF Visit, ItemOver, PathOver, Breaks, Ends, AfterEntered
<1> HIDE DEF F, add
<1>2. st = AfterFound(st.found, st) BY StateTyped DEF AfterFound
<1>3. only = AfterFound(F, st) BY <1>2 DEF AfterFound
<1> HIDE DEF only
<1> QED BY <1>1, <1>3 DEF F, add

\* What the body of the loop needs of a row.
IsRowInto(edges, item, e) == e \in RowSet /\ e.target = item.type /\ \E x \in edges : IsRowOf(e, x)

\* An edge adds paths and items that are sound.
LEMMA VisitOK ==
  ASSUME NEW edges, NEW s, IsSearch(s), NEW item \in ItemSet, IsItem(edges, s, item),
         NEW e, IsRowInto(edges, item, e), NEW st, StateOK(edges, s, st)
  PROVE  StateOK(edges, s, Visit(s, item, st, e))
PROOF
<1> DEFINE path == PathOver(item, e)
           F == Found(s, st, path)
           r == Visit(s, item, st, e)
           add == ItemOver(item, e)
           n == Len(item.suffix)
<1>1. /\ st \in StateSet /\ Len(st.found) <= s.paths
      /\ AreDistinct(st.found) /\ AreFound(edges, s, st.found)
      /\ \A k \in 1..Len(st.queue) : IsItem(edges, s, st.queue[k])
  BY DEF StateOK
<1>2. /\ st.found \in Seq(FoundSet) /\ st.queue \in Seq(ItemSet)
      /\ st.visits \in [Types -> Nat] /\ st.expanded \in Nat
      /\ Len(st.found) \in Nat /\ Len(st.queue) \in Nat
  BY <1>1, StateTyped
<1>3. e \in RowSet /\ e.target = item.type /\ e.source \in Types /\ \E x \in edges : IsRowOf(e, x)
  BY DEF IsRowInto, RowSet
<1>4. item.suffix \in Seq(RowSet) /\ n \in Nat /\ item.visited \in SUBSET Types
  BY LenProperties DEF ItemSet
<1>5. /\ path \in Seq(RowSet) /\ Len(path) = n + 1 /\ path[1] = e
      /\ \A k \in 2..n + 1 : path[k] = item.suffix[k - 1]
  BY <1>3, <1>4, ConsGives DEF PathOver
<1>6. /\ F \in Seq(FoundSet) /\ Len(st.found) <= Len(F) /\ Len(F) <= s.paths
      /\ \A k \in 1..Len(st.found) : F[k] = st.found[k]
      /\ \A k \in Len(st.found) + 1..Len(F) :
            F[k].path = path /\ F[k].root \in RootsOf(s, path[1].source)
      /\ AreDistinct(st.found) => AreDistinct(F)
  <2>1. st \in StateSet /\ Len(st.found) <= s.paths BY <1>1
  <2>2. path \in Seq(RowSet) BY <1>5
  <2> HIDE DEF path
  <2> QED BY <2>1, <2>2, FoundGives DEF IsExtended
<1>7. Len(F) \in Nat BY <1>6, LenProperties
<1> HIDE DEF F
<1>8. ASSUME Passable(s, e), ~LeadsBack(item, e)
      PROVE  /\ \A root : root.type = e.source => IsPath(edges, s, root, path)
             /\ AreFound(edges, s, F)
  <2>1. IsStep(edges, s, e) BY <1>3, <1>8 DEF IsStep, IsRowOf
  <2>2. e.source \notin item.visited BY <1>8 DEF LeadsBack
  <2>3. \A root : root.type = e.source => IsPath(edges, s, root, path)
    BY <1>3, <2>1, <2>2, LongerPath DEF PathOver
  <2> HIDE DEF path
  <2>4. ASSUME NEW k \in 1..Len(F)
        PROVE  F[k].root \in 1..Len(s.roots) /\ IsPath(edges, s, s.roots[F[k].root], F[k].path)
    <3>1. k \in 1..Len(st.found) \/ k \in Len(st.found) + 1..Len(F) BY <1>2, <1>7
    <3>2. CASE k \in 1..Len(st.found) BY <1>1, <1>6, <3>2 DEF AreFound
    <3>3. CASE k \in Len(st.found) + 1..Len(F)
      <4>1. F[k].path = path /\ F[k].root \in RootsOf(s, e.source) BY <1>5, <1>6, <3>3
      <4>2. F[k].root \in 1..Len(s.roots) /\ s.roots[F[k].root].type = e.source
        BY <4>1 DEF RootsOf, IsSearch
      <4> QED BY <2>3, <4>1, <4>2
    <3> QED BY <3>1, <3>2, <3>3
  <2> QED BY <2>3, <2>4 DEF AreFound
<1>9. ASSUME ~AtDepth(s, path), Passable(s, e), ~LeadsBack(item, e)
      PROVE  add \in ItemSet /\ IsItem(edges, s, add)
  <2>1. add.type = e.source /\ add.suffix = path /\ add.visited = item.visited \cup {e.source}
    BY DEF ItemOver
  <2>2. add \in ItemSet BY <1>3, <1>4, <1>5 DEF ItemOver, ItemSet
  <2>3. Len(path) < s.depth BY <1>4, <1>5, <1>9 DEF AtDepth, IsSearch
  <2>4. item.visited = {s.target} \cup {item.suffix[i].source : i \in 1..n} BY DEF IsItem
  <2>5. {path[i].source : i \in 1..n + 1} = {e.source} \cup {item.suffix[i].source : i \in 1..n}
    <3>1. \A i \in 1..n + 1 : i = 1 \/ (i \in 2..n + 1 /\ i - 1 \in 1..n) BY <1>4
    <3>2. \A i \in 1..n : i + 1 \in 2..n + 1 /\ i + 1 \in 1..n + 1 /\ (i + 1) - 1 = i BY <1>4
    <3>3. 1 \in 1..n + 1 BY <1>4
    <3>4. \A i \in 1..n : path[i + 1] = item.suffix[i] BY <1>5, <3>2
    <3> HIDE DEF path, n
    <3>5. \A x \in {path[i].source : i \in 1..n + 1} :
             x \in {e.source} \cup {item.suffix[i].source : i \in 1..n}
      BY <1>5, <3>1
    <3>6. \A x \in {item.suffix[i].source : i \in 1..n} : x \in {path[i].source : i \in 1..n + 1}
      BY <3>2, <3>4
    <3>7. e.source \in {path[i].source : i \in 1..n + 1} BY <1>5, <3>3
    <3> QED BY <3>5, <3>6, <3>7
  <2>6. add.visited = {s.target} \cup {add.suffix[i].source : i \in 1..Len(add.suffix)}
    <3> HIDE DEF path, n, add
    <3>1. Len(add.suffix) = n + 1 BY <1>5, <2>1
    <3>2. {add.suffix[i].source : i \in 1..Len(add.suffix)} = {path[i].source : i \in 1..n + 1}
      BY <2>1, <3>1
    <3> QED BY <2>1, <2>4, <2>5, <3>2
  <2>7. IsPath(edges, s, add, add.suffix) BY <1>8, <1>9, <2>1
  <2> QED BY <2>1, <2>2, <2>3, <2>6, <2>7 DEF IsItem
<1> HIDE DEF add, path
<1> SUFFICES StateOK(edges, s, r) OBVIOUS
<1>10. r = st => StateOK(edges, s, r) OBVIOUS
<1> HIDE DEF r
<1>11. ASSUME ~Breaks(s, item, st, e), r = AfterFound(F, st) PROVE StateOK(edges, s, r)
  <2>1. Passable(s, e) /\ ~LeadsBack(item, e) BY <1>11 DEF Breaks
  <2>2. r \in StateSet /\ r.found = F /\ r.queue = st.queue
    BY <1>2, <1>6, <1>11 DEF StateSet, AfterFound
  <2> QED BY <1>1, <1>6, <1>8, <2>1, <2>2 DEF StateOK
<1>12. ASSUME ~Breaks(s, item, st, e), ~Ends(s, st, e, path), r = AfterEntered(F, st, e, add)
       PROVE  StateOK(edges, s, r)
  <2>0. Passable(s, e) /\ ~LeadsBack(item, e) /\ ~AtDepth(s, path) BY <1>12 DEF Breaks, Ends
  <2>1. add \in ItemSet /\ IsItem(edges, s, add) BY <1>9, <2>0
  <2>2. /\ Append(st.queue, add) \in Seq(ItemSet)
        /\ Len(Append(st.queue, add)) = Len(st.queue) + 1
        /\ \A k \in 1..Len(st.queue) : Append(st.queue, add)[k] = st.queue[k]
        /\ Append(st.queue, add)[Len(st.queue) + 1] = add
    BY <1>2, <2>1, AppendProperties
  <2>3. [st.visits EXCEPT ![e.source] = @ + 1] \in [Types -> Nat] BY <1>2, <1>3
  <2>4. r \in StateSet /\ r.found = F /\ r.queue = Append(st.queue, add)
    BY <1>2, <1>6, <1>12, <2>2, <2>3 DEF StateSet, AfterEntered
  <2>6. ASSUME NEW k \in 1..Len(r.queue) PROVE IsItem(edges, s, r.queue[k])
    <3>1. k \in 1..Len(st.queue) \/ k = Len(st.queue) + 1 BY <1>2, <2>2, <2>4
    <3> QED BY <1>1, <2>1, <2>2, <2>4, <3>1
  <2> QED BY <1>1, <1>6, <1>8, <2>0, <2>4, <2>6 DEF StateOK
<1>13. \/ r = st
       \/ ~Breaks(s, item, st, e) /\ r = AfterFound(F, st)
       \/ /\ ~Breaks(s, item, st, e) /\ ~Ends(s, st, e, path)
          /\ r = AfterEntered(F, st, e, add)
  BY <1>1, VisitCases DEF r, F, path, add
<1> QED BY <1>10, <1>11, <1>12, <1>13

-----------------------------------------------------------------------------
(* The loops *)

\* The states the loop over the rows goes through.
IsRowsRun(edges, s, item, rows, st, g) ==
  /\ g[0] = st /\ VisitAll(s, item, st, rows) = g[Len(rows)]
  /\ \A k \in 0..Len(rows) : StateOK(edges, s, g[k])
  /\ \A k \in 1..Len(rows) : g[k] = Visit(s, item, g[k - 1], rows[k])

\* Every state the loop over the rows goes through is sound.
LEMMA VisitAllRuns ==
  ASSUME NEW edges, NEW s, IsSearch(s), NEW item \in ItemSet, IsItem(edges, s, item),
         NEW rows, Len(rows) \in Nat, \A k \in 1..Len(rows) : IsRowInto(edges, item, rows[k]),
         NEW st, StateOK(edges, s, st)
  PROVE  \E g : IsRowsRun(edges, s, item, rows, st, g)
PROOF
<1> DEFINE n == Len(rows)
           S == {x \in StateSet : StateOK(edges, s, x)}
           Step(k, x) == Visit(s, item, x, rows[k])
           F == [p \in (1..n) \X S |-> Step(p[1], p[2])]
           Rec(g) == g = [k \in 0..n |-> IF k = 0 THEN st ELSE Step(k, g[k - 1])]
           after == CHOOSE g : Rec(g)
<1>1. \A x : StateOK(edges, s, x) <=> x \in S BY DEF StateOK
<1> HIDE DEF S
<1>2. \A k \in 1..n : \A x \in S : Step(k, x) \in S BY <1>1, VisitOK
<1> HIDE DEF Step
<1>3. F \in [(1..n) \X S -> S]
  <2>1. \A p \in (1..n) \X S : Step(p[1], p[2]) \in S BY <1>2
  <2> QED BY <2>1
<1>4. st \in S BY <1>1
<1>5. PICK h : Iterates(h, F, S, st, n) BY <1>3, <1>4, IterationExists
<1>6. ASSUME NEW k \in 1..n PROVE h[k] = Step(k, h[k - 1])
  <2>1. k - 1 \in 0..n OBVIOUS
  <2>2. h[k - 1] \in S BY <1>5, <2>1 DEF Iterates
  <2>3. h[k] = F[<<k, h[k - 1]>>] BY <1>5 DEF Iterates
  <2> QED BY <2>2, <2>3
<1>7. Rec(h)
  <2>1. \A k \in 0..n : h[k] = IF k = 0 THEN st ELSE Step(k, h[k - 1])
    BY <1>5, <1>6 DEF Iterates
  <2>2. h = [k \in 0..n |-> h[k]] BY <1>5 DEF Iterates
  <2> HIDE DEF F
  <2> QED BY <2>1, <2>2
<1>8. Rec(after) BY <1>7
<1>9. VisitAll(s, item, st, rows) = after[n] BY DEF VisitAll, Step
<1> HIDE DEF after, F
<1>10. after[0] = st /\ \A k \in 1..n : after[k] = Step(k, after[k - 1])
  <2>1. \A k \in 1..n : k \in 0..n /\ k # 0 OBVIOUS
  <2>2. \A k \in 0..n : after[k] = IF k = 0 THEN st ELSE Step(k, after[k - 1]) BY <1>8
  <2> QED BY <2>1, <2>2
<1> HIDE DEF Rec
<1> DEFINE D == {k \in 0..n : after[k] \in S}
<1>11. 0 \in D BY <1>4, <1>10
<1>12. ASSUME NEW k \in 1..n, k - 1 \in D PROVE k \in D
  <2>1. after[k - 1] \in S BY <1>12
  <2>2. after[k] \in S BY <1>2, <1>10, <2>1
  <2> QED BY <2>2
<1> HIDE DEF D
<1>13. \A k \in 0..n : k \in D BY <1>11, <1>12, UpTo
<1>14. \A k \in 0..n : StateOK(edges, s, after[k]) BY <1>1, <1>13 DEF D
<1>15. \A k \in 1..n : after[k] = Visit(s, item, after[k - 1], rows[k]) BY <1>10 DEF Step
<1> HIDE DEF n
<1> QED BY <1>9, <1>10, <1>14, <1>15 DEF n, IsRowsRun

\* The first element of a sequence and the others.
LEMMA TailGives ==
  ASSUME NEW S, NEW q \in Seq(S), q # <<>>
  PROVE  /\ Len(q) \in Nat \ {0} /\ Head(q) = q[1] /\ Head(q) \in S
         /\ Tail(q) \in Seq(S) /\ Len(Tail(q)) = Len(q) - 1
         /\ \A k \in 1..Len(q) - 1 : Tail(q)[k] = q[k + 1] /\ k + 1 \in 1..Len(q)
PROOF
<1>1. Len(q) \in Nat /\ Len(q) # 0 BY LenProperties, EmptySeq
<1>2. Head(q) = q[1] /\ Head(q) \in S /\ Tail(q) \in Seq(S) /\ Len(Tail(q)) = Len(q) - 1
      /\ \A k \in 1..Len(Tail(q)) : Tail(q)[k] = q[k + 1]
  BY HeadTailProperties
<1> QED BY <1>1, <1>2

\* No item is queued at the depth where nothing is expanded: a turn takes the
\* first item and goes over all its rows.
LEMMA ExpandIs ==
  ASSUME NEW edges, NEW s, IsSearch(s), NEW uses, NEW seen,
         NEW st, StateOK(edges, s, st), st.queue # <<>>
  PROVE  /\ Head(st.queue) \in ItemSet /\ IsItem(edges, s, Head(st.queue))
         /\ Head(st.queue) = st.queue[1] /\ StateOK(edges, s, Popped(st))
         /\ Expand(s, edges, uses, seen, st)
              = VisitAll(s, Head(st.queue), Popped(st),
                         Incoming(s, edges, Head(st.queue).type, uses, seen))
PROOF
<1> DEFINE item == Head(st.queue)
           L == Len(st.queue)
<1>1. /\ st \in StateSet /\ Len(st.found) <= s.paths
      /\ AreDistinct(st.found) /\ AreFound(edges, s, st.found)
      /\ \A k \in 1..L : IsItem(edges, s, st.queue[k])
  BY DEF StateOK
<1>2. /\ st.found \in Seq(FoundSet) /\ st.queue \in Seq(ItemSet)
      /\ st.visits \in [Types -> Nat] /\ st.expanded \in Nat
      /\ st = [found |-> st.found, queue |-> st.queue, visits |-> st.visits,
               expanded |-> st.expanded]
  BY <1>1, StateTyped
<1>3. /\ L \in Nat \ {0} /\ item = st.queue[1] /\ item \in ItemSet
      /\ Tail(st.queue) \in Seq(ItemSet) /\ Len(Tail(st.queue)) = L - 1
      /\ \A k \in 1..L - 1 : Tail(st.queue)[k] = st.queue[k + 1] /\ k + 1 \in 1..L
  BY <1>2, TailGives
<1> HIDE DEF item, L
<1>4. IsItem(edges, s, item) BY <1>1, <1>3
<1>5. Popped(st) \in StateSet BY <1>2, <1>3 DEF Popped, StateSet
<1>6. \A k \in 1..L - 1 : IsItem(edges, s, Tail(st.queue)[k]) BY <1>1, <1>3
<1>7. StateOK(edges, s, Popped(st))
  <2>1. Popped(st).found = st.found /\ Popped(st).queue = Tail(st.queue) BY DEF Popped
  <2> QED BY <1>1, <1>3, <1>5, <1>6, <2>1 DEF StateOK
<1>8. ~AtDepth(s, item.suffix)
  <2>1. Len(item.suffix) < s.depth /\ s.depth \in Nat BY <1>4 DEF IsItem, IsSearch
  <2>2. Len(item.suffix) \in Nat
    <3>1. item.suffix \in Seq(RowSet) BY <1>3 DEF ItemSet
    <3> QED BY <3>1, LenProperties
  <2> QED BY <2>1, <2>2 DEF AtDepth
<1>9. Expand(s, edges, uses, seen, st)
        = VisitAll(s, item, Popped(st), Incoming(s, edges, item.type, uses, seen))
  BY <1>8 DEF Expand, item
<1> QED BY <1>3, <1>4, <1>7, <1>9 DEF item

\* The rows of a query are what the loop needs.
LEMMA IncomingAreRows ==
  ASSUME NEW edges, IsGraph(edges), NEW uses, NEW seen, IsEvidence(uses, seen),
         NEW s, NEW item
  PROVE  LET rows == Incoming(s, edges, item.type, uses, seen)
         IN  Len(rows) \in Nat /\ \A k \in 1..Len(rows) : IsRowInto(edges, item, rows[k])
PROOF
<1> DEFINE rows == Incoming(s, edges, item.type, uses, seen)
           R == RowsInto(s, edges, item.type, uses, seen)
<1>1. rows \in Seq(R) BY IncomingRows
<1> HIDE DEF rows, R
<1>2. Len(rows) \in Nat /\ \A k \in 1..Len(rows) : rows[k] \in R BY <1>1, LenProperties, ElementOfSeq
<1>3. ASSUME NEW r \in R PROVE IsRowInto(edges, item, r)
  <2>1. r \in RowsInto(s, edges, item.type, uses, seen) BY DEF R
  <2> DEFINE type == item.type
  <2>2. r \in RowsInto(s, edges, type, uses, seen) BY <2>1
  <2> HIDE DEF type
  <2>3. IsRowFor(s, edges, type, r) BY <2>2, RowsAreEdges
  <2> QED BY <2>3 DEF IsRowFor, IsRowInto, type
<1> QED BY <1>2, <1>3 DEF rows

\* A turn of the while loop keeps a search sound.
LEMMA TurnOK ==
  ASSUME NEW edges, IsGraph(edges), NEW s, IsSearch(s), NEW uses, NEW seen,
         IsEvidence(uses, seen), NEW st, StateOK(edges, s, st)
  PROVE  StateOK(edges, s, Turn(s, edges, uses, seen, st))
PROOF
<1>1. CASE ~Goes(s, st) BY <1>1 DEF Turn
<1>2. CASE Goes(s, st)
  <2> DEFINE item == Head(st.queue)
             rows == Incoming(s, edges, item.type, uses, seen)
  <2>1. st.queue # <<>> BY <1>2 DEF Goes
  <2>2. /\ item \in ItemSet /\ IsItem(edges, s, item) /\ StateOK(edges, s, Popped(st))
        /\ Expand(s, edges, uses, seen, st) = VisitAll(s, item, Popped(st), rows)
    BY <2>1, ExpandIs
  <2>3. Len(rows) \in Nat /\ \A k \in 1..Len(rows) : IsRowInto(edges, item, rows[k])
    BY IncomingAreRows
  <2> HIDE DEF item, rows
  <2>4. PICK g : IsRowsRun(edges, s, item, rows, Popped(st), g) BY <2>2, <2>3, VisitAllRuns
  <2>5. Len(rows) \in 0..Len(rows) BY <2>3
  <2> QED BY <1>2, <2>2, <2>4, <2>5 DEF Turn, IsRowsRun
<1> QED BY <1>1, <1>2

\* A search starts with the roots that are the target itself.
LEMMA StartOK ==
  ASSUME NEW edges, NEW s, IsSearch(s)
  PROVE  /\ StateOK(edges, s, Start(s))
         /\ \A k \in 1..Len(Start(s).found) : Start(s).found[k].path = <<>>
         /\ \A i \in RootsOf(s, s.target) :
               \/ Len(Start(s).found) >= s.paths
               \/ \E k \in 1..Len(Start(s).found) : Start(s).found[k].root = i
PROOF
<1> DEFINE R == RootsOf(s, s.target)
           a == Ascending(Len(s.roots), R)
           here == Take(a, s.paths)
           found == [k \in DOMAIN here |-> [root |-> here[k], path |-> <<>>]]
           first == [type |-> s.target, suffix |-> <<>>, visited |-> {s.target}]
           queue == <<first>>
           visits == [t \in Types |-> IF t = s.target THEN 1 ELSE 0]
           st == Start(s)
<1>1. st = [found |-> found, queue |-> queue, visits |-> visits, expanded |-> 0] BY DEF Start
<1>2. /\ s.target \in Types /\ s.depth \in Nat \ {0} /\ s.paths \in Nat \ {0}
      /\ Len(s.roots) \in Nat /\ R \subseteq 1..Len(s.roots)
      /\ \A i \in R : s.roots[i].type = s.target
  BY DEF IsSearch, RootsOf
<1> HIDE DEF R, st
<1>3. /\ a \in Seq(1..Len(s.roots)) /\ Range(a) = R \cap 1..Len(s.roots)
      /\ \A j, k \in DOMAIN a : a[j] = a[k] => j = k
  BY <1>2, AscendingLists
<1> HIDE DEF a
<1>4. /\ here \in Seq(1..Len(s.roots)) /\ Len(here) <= s.paths /\ Len(here) <= Len(a)
      /\ \A k \in 1..Len(here) : here[k] = a[k]
      /\ Len(a) <= s.paths => here = a
      /\ ~(Len(a) <= s.paths) => Len(here) = s.paths
  BY <1>2, <1>3, TakeGives
<1> HIDE DEF here
<1>5. /\ Len(here) \in Nat /\ DOMAIN here = 1..Len(here) /\ Len(a) \in Nat /\ DOMAIN a = 1..Len(a)
      /\ \A k \in 1..Len(here) : here[k] \in 1..Len(s.roots)
  BY <1>3, <1>4, LenProperties, ElementOfSeq
<1>6. \A k \in 1..Len(a) : a[k] \in R BY <1>3, <1>5 DEF Range
<1>7. \A i \in R : \E k \in 1..Len(a) : a[k] = i
  <2>1. Range(a) = R BY <1>2, <1>3
  <2> QED BY <1>5, <2>1 DEF Range
<1>8. /\ found \in Seq(FoundSet) /\ Len(found) = Len(here)
      /\ \A k \in 1..Len(here) : found[k] = [root |-> here[k], path |-> <<>>]
  <2>1. <<>> \in Seq(RowSet) BY EmptySeq
  <2>2. found \in [1..Len(here) -> FoundSet] BY <1>5, <2>1 DEF FoundSet
  <2> QED BY <1>5, <2>2, SeqDef, LenProperties
<1> HIDE DEF found
<1>9. <<>> \in Seq(RowSet) /\ Len(<<>>) = 0 /\ DOMAIN <<>> = {} BY EmptySeq
<1>10. \A root : root.type = s.target => IsPath(edges, s, root, <<>>)
  BY <1>2, <1>9 DEF IsPath
<1>11. first \in ItemSet /\ IsItem(edges, s, first)
  <2>1. first \in ItemSet BY <1>2, <1>9 DEF ItemSet
  <2>2. first.type = s.target /\ first.suffix = <<>> /\ first.visited = {s.target} OBVIOUS
  <2>3. IsPath(edges, s, first, first.suffix) BY <1>10, <2>2
  <2>4. {first.suffix[i].source : i \in 1..Len(first.suffix)} = {} BY <1>9, <2>2
  <2> HIDE DEF first
  <2> QED BY <1>2, <1>9, <2>1, <2>2, <2>3, <2>4 DEF IsItem
<1> HIDE DEF first
<1>12. queue \in Seq(ItemSet) /\ Len(queue) = 1 /\ queue[1] = first BY <1>11
<1>13. visits \in [Types -> Nat] OBVIOUS
<1> HIDE DEF queue, visits
<1>14. st \in StateSet /\ st.found = found /\ st.queue = queue BY <1>1, <1>8, <1>12, <1>13 DEF StateSet
<1>15. ASSUME NEW k \in 1..Len(found)
       PROVE  /\ found[k].root = a[k] /\ found[k].path = <<>> /\ k \in 1..Len(a)
              /\ found[k].root \in 1..Len(s.roots) /\ s.roots[found[k].root].type = s.target
  <2>1. k \in 1..Len(here) /\ k \in 1..Len(a) BY <1>4, <1>5, <1>8
  <2>0. found[k] = [root |-> here[k], path |-> <<>>] BY <1>8, <2>1
  <2>2. found[k].root = here[k] /\ found[k].path = <<>> BY <2>0
  <2>3. here[k] = a[k] /\ here[k] \in 1..Len(s.roots) BY <1>4, <1>5, <2>1
  <2>4. s.roots[a[k]].type = s.target BY <1>2, <1>6, <2>1
  <2> QED BY <2>1, <2>2, <2>3, <2>4
<1>16. AreDistinct(found)
  <2>1. ASSUME NEW i \in 1..Len(found), NEW j \in 1..Len(found),
               found[i].root = found[j].root
        PROVE  i = j
    <3>1. a[i] = a[j] /\ i \in DOMAIN a /\ j \in DOMAIN a BY <1>5, <1>15, <2>1
    <3> QED BY <1>3, <3>1
  <2> QED BY <2>1 DEF AreDistinct
<1>17. AreFound(edges, s, found) BY <1>10, <1>15 DEF AreFound
<1>18. \A k \in 1..Len(queue) : IsItem(edges, s, queue[k]) BY <1>11, <1>12
<1>19. Len(found) <= s.paths BY <1>4, <1>8
<1>20. StateOK(edges, s, st) BY <1>14, <1>16, <1>17, <1>18, <1>19 DEF StateOK
<1>21. ASSUME NEW i \in R, ~(Len(found) >= s.paths) PROVE \E k \in 1..Len(found) : found[k].root = i
  <2>1. here = a BY <1>2, <1>4, <1>5, <1>8, <1>21
  <2>2. PICK k \in 1..Len(a) : a[k] = i BY <1>7
  <2>3. k \in 1..Len(found) BY <1>8, <2>1
  <2> QED BY <1>15, <2>2, <2>3
<1> QED BY <1>14, <1>15, <1>20, <1>21 DEF R, st

\* The states the while loop goes through.
IsLoopRun(edges, s, uses, seen, g) ==
  /\ g[0] = Start(s) /\ Loop(s, edges, uses, seen) = g[ExpansionLimit]
  /\ \A k \in 0..ExpansionLimit : StateOK(edges, s, g[k])
  /\ \A k \in 1..ExpansionLimit : g[k] = Turn(s, edges, uses, seen, g[k - 1])

\* Every state the while loop goes through is sound.
LEMMA LoopRuns ==
  ASSUME NEW edges, IsGraph(edges), NEW s, IsSearch(s), NEW uses, NEW seen,
         IsEvidence(uses, seen)
  PROVE  \E g : IsLoopRun(edges, s, uses, seen, g)
PROOF
<1> DEFINE n == ExpansionLimit
           S == {x \in StateSet : StateOK(edges, s, x)}
           st == Start(s)
           Step(k, x) == Turn(s, edges, uses, seen, x)
           F == [p \in (1..n) \X S |-> Step(p[1], p[2])]
           Rec(g) == g = [k \in 0..n |-> IF k = 0 THEN st ELSE Step(k, g[k - 1])]
           after == CHOOSE g : Rec(g)
<1>0. n \in Nat BY LimitsOK
<1>1. \A x : StateOK(edges, s, x) <=> x \in S BY DEF StateOK
<1> HIDE DEF S
<1>2. \A k \in 1..n : \A x \in S : Step(k, x) \in S BY <1>1, TurnOK
<1> HIDE DEF Step
<1>3. F \in [(1..n) \X S -> S]
  <2>1. \A p \in (1..n) \X S : Step(p[1], p[2]) \in S BY <1>2
  <2> QED BY <2>1
<1>4. st \in S BY <1>1, StartOK
<1>5. PICK h : Iterates(h, F, S, st, n) BY <1>0, <1>3, <1>4, IterationExists
<1>6. ASSUME NEW k \in 1..n PROVE h[k] = Step(k, h[k - 1])
  <2>1. k - 1 \in 0..n BY <1>0
  <2>2. h[k - 1] \in S BY <1>5, <2>1 DEF Iterates
  <2>3. h[k] = F[<<k, h[k - 1]>>] BY <1>5 DEF Iterates
  <2> QED BY <2>2, <2>3
<1>7. Rec(h)
  <2>1. \A k \in 0..n : h[k] = IF k = 0 THEN st ELSE Step(k, h[k - 1])
    BY <1>0, <1>5, <1>6 DEF Iterates
  <2>2. h = [k \in 0..n |-> h[k]] BY <1>5 DEF Iterates
  <2> HIDE DEF F
  <2> QED BY <2>1, <2>2
<1>8. Rec(after) BY <1>7
<1>9. Loop(s, edges, uses, seen) = after[n] BY DEF Loop, Step
<1> HIDE DEF after, F, st
<1>10. after[0] = st /\ \A k \in 1..n : after[k] = Step(k, after[k - 1])
  <2>1. \A k \in 1..n : k \in 0..n /\ k # 0 BY <1>0
  <2>2. \A k \in 0..n : after[k] = IF k = 0 THEN st ELSE Step(k, after[k - 1]) BY <1>8
  <2> QED BY <1>0, <2>1, <2>2
<1> HIDE DEF Rec
<1> DEFINE D == {k \in 0..n : after[k] \in S}
<1>11. 0 \in D BY <1>0, <1>4, <1>10
<1>12. ASSUME NEW k \in 1..n, k - 1 \in D PROVE k \in D
  <2>1. after[k - 1] \in S BY <1>12
  <2>2. after[k] \in S BY <1>2, <1>10, <2>1
  <2> QED BY <1>0, <2>2
<1> HIDE DEF D
<1>13. \A k \in 0..n : k \in D BY <1>0, <1>11, <1>12, UpTo
<1>14. \A k \in 0..n : StateOK(edges, s, after[k]) BY <1>1, <1>13 DEF D
<1>15. \A k \in 1..n : after[k] = Turn(s, edges, uses, seen, after[k - 1]) BY <1>10 DEF Step
<1> QED BY <1>9, <1>10, <1>14, <1>15 DEF st, IsLoopRun

-----------------------------------------------------------------------------
(* Distances *)

\* The sources of the edges that lead into a set of types.
Sources(edges, s, types) ==
  {e.source : e \in {x \in edges : Passable(s, x) /\ x.target \in types}}

\* Within is what its recursion says.
LEMMA WithinGives ==
  ASSUME NEW edges, IsGraph(edges), NEW s, IsSearch(s)
  PROVE  /\ Within(edges, s) \in [0..s.depth -> SUBSET Types]
         /\ Within(edges, s)[0] = {s.target}
         /\ \A n \in 1..s.depth : Within(edges, s)[n]
               = Within(edges, s)[n - 1] \cup Sources(edges, s, Within(edges, s)[n - 1])
PROOF
<1> DEFINE m == s.depth
           S == SUBSET Types
           x0 == {s.target}
           Step(X) == X \cup Sources(edges, s, X)
           F == [p \in (1..m) \X S |-> Step(p[2])]
           Rec(g) == g = [n \in 0..m |-> IF n = 0 THEN x0 ELSE Step(g[n - 1])]
           reach == CHOOSE g : Rec(g)
<1>1. m \in Nat /\ x0 \in S BY DEF IsSearch
<1>2. \A X \in S : Step(X) \in S
  <2>1. \A e \in edges : e.source \in Types BY DEF IsGraph, EdgeSet
  <2> QED BY <2>1 DEF Sources
<1> HIDE DEF S, Step, x0, m
<1>3. F \in [(1..m) \X S -> S] BY <1>2
<1>4. PICK h : Iterates(h, F, S, x0, m) BY <1>1, <1>3, IterationExists
<1>5. ASSUME NEW n \in 1..m PROVE h[n] = Step(h[n - 1])
  <2>1. n - 1 \in 0..m BY <1>1
  <2>2. h[n - 1] \in S /\ h[n] = F[<<n, h[n - 1]>>] BY <1>4, <2>1 DEF Iterates
  <2> QED BY <2>2
<1>6. Rec(h)
  <2>1. \A n \in 0..m : h[n] = IF n = 0 THEN x0 ELSE Step(h[n - 1])
    BY <1>1, <1>4, <1>5 DEF Iterates
  <2>2. h = [n \in 0..m |-> h[n]] BY <1>4 DEF Iterates
  <2> HIDE DEF F
  <2> QED BY <2>1, <2>2
<1>7. Rec(reach) BY <1>6
<1>8. Within(edges, s) = reach BY DEF Within, Step, Sources, x0, m
<1> HIDE DEF reach, F
<1>9. reach[0] = x0 /\ \A n \in 1..m : reach[n] = Step(reach[n - 1])
  <2>1. \A n \in 1..m : n \in 0..m /\ n # 0 BY <1>1
  <2>2. \A n \in 0..m : reach[n] = IF n = 0 THEN x0 ELSE Step(reach[n - 1]) BY <1>7
  <2> QED BY <1>1, <2>1, <2>2
<1>10. reach = [n \in 0..m |-> reach[n]] BY <1>7
<1> HIDE DEF Rec
<1> DEFINE D == {n \in 0..m : reach[n] \in S}
<1>11. 0 \in D BY <1>1, <1>9
<1>12. ASSUME NEW n \in 1..m, n - 1 \in D PROVE n \in D
  <2>1. reach[n - 1] \in S BY <1>12
  <2>2. reach[n] \in S BY <1>2, <1>9, <2>1
  <2> QED BY <1>1, <2>2
<1> HIDE DEF D
<1>13. \A n \in 0..m : n \in D BY <1>1, <1>11, <1>12, UpTo
<1>14. \A n \in 0..m : reach[n] \in S BY <1>13 DEF D
<1>15. reach \in [0..m -> S] BY <1>10, <1>14
<1> QED BY <1>8, <1>9, <1>15 DEF S, Step, x0, m

\* More steps reach no less.
LEMMA WithinGrows ==
  ASSUME NEW edges, IsGraph(edges), NEW s, IsSearch(s),
         NEW m \in Nat, NEW n \in 0..s.depth, m <= n
  PROVE  Within(edges, s)[m] \subseteq Within(edges, s)[n]
PROOF
<1> DEFINE W == Within(edges, s)
           D == {k \in 0..n : m <= k => W[m] \subseteq W[k]}
<1>1. \A k \in 1..s.depth : W[k - 1] \subseteq W[k] BY WithinGives
<1>2. n \in Nat /\ n <= s.depth /\ s.depth \in Nat BY DEF IsSearch
<1> HIDE DEF W
<1>3. 0 \in D
  <2>1. m <= 0 => m = 0 OBVIOUS
  <2> QED BY <1>2, <2>1
<1>4. ASSUME NEW k \in 1..n, k - 1 \in D PROVE k \in D
  <2>1. k \in 1..s.depth /\ k \in 0..n BY <1>2
  <2>2. m = k \/ ~(m <= k) \/ m <= k - 1 BY <1>2
  <2>3. CASE m <= k - 1
    <3>1. W[m] \subseteq W[k - 1] BY <1>4, <2>3
    <3> QED BY <1>1, <2>1, <3>1
  <2> QED BY <2>1, <2>2, <2>3
<1> HIDE DEF D
<1>5. \A k \in 0..n : k \in D BY <1>2, <1>3, <1>4, UpTo
<1>6. n \in D BY <1>2, <1>5
<1> QED BY <1>6 DEF D, W

\* A type is n steps away from the target.
At(edges, s, v, n) ==
  /\ n \in 0..s.depth /\ v \in Within(edges, s)[n]
  /\ n > 0 => v \notin Within(edges, s)[n - 1]

\* What can be reached in m steps is no further away.
LEMMA AtIsLeast ==
  ASSUME NEW edges, IsGraph(edges), NEW s, IsSearch(s), NEW v, NEW n, At(edges, s, v, n),
         NEW m \in 0..s.depth, v \in Within(edges, s)[m]
  PROVE  n \in Nat /\ n <= m
PROOF
<1>1. n \in 0..s.depth /\ s.depth \in Nat /\ (n > 0 => v \notin Within(edges, s)[n - 1])
  BY DEF At, IsSearch
<1> SUFFICES ASSUME ~(n <= m) PROVE FALSE BY <1>1
<1>2. m \in Nat /\ n - 1 \in 0..s.depth /\ m <= n - 1 /\ n > 0 BY <1>1
<1> DEFINE l == n - 1
<1>3. l \in 0..s.depth /\ m <= l BY <1>2
<1> HIDE DEF l
<1>4. Within(edges, s)[m] \subseteq Within(edges, s)[l] BY <1>2, <1>3, WithinGrows
<1> QED BY <1>1, <1>2, <1>4 DEF l

\* Only the target is no step away; from further away an edge leads nearer.
LEMMA AtSteps ==
  ASSUME NEW edges, IsGraph(edges), NEW s, IsSearch(s), NEW v, NEW n, At(edges, s, v, n)
  PROVE  /\ n = 0 => v = s.target
         /\ n # 0 => \E x \in edges : /\ Passable(s, x) /\ x.source = v
                                      /\ At(edges, s, x.target, n - 1)
PROOF
<1> DEFINE W == Within(edges, s)
<1>1. /\ n \in 0..s.depth /\ s.depth \in Nat /\ v \in W[n] /\ (n > 0 => v \notin W[n - 1])
  BY DEF At, IsSearch
<1>2. /\ W[0] = {s.target}
      /\ \A k \in 1..s.depth : W[k] = W[k - 1] \cup Sources(edges, s, W[k - 1])
  BY WithinGives
<1> HIDE DEF W
<1>3. n = 0 => v = s.target BY <1>1, <1>2
<1>4. ASSUME n # 0
      PROVE \E x \in edges : Passable(s, x) /\ x.source = v /\ At(edges, s, x.target, n - 1)
  <2>1. n \in 1..s.depth /\ n > 0 BY <1>1, <1>4
  <2>2. v \in Sources(edges, s, W[n - 1]) BY <1>1, <1>2, <2>1
  <2>3. PICK x \in edges : Passable(s, x) /\ x.target \in W[n - 1] /\ x.source = v
    BY <2>2 DEF Sources
  <2>4. ASSUME n - 1 > 0, x.target \in W[n - 1 - 1] PROVE FALSE
    <3>1. n - 1 \in 1..s.depth BY <1>1, <2>1, <2>4
    <3>2. x.source \in Sources(edges, s, W[n - 1 - 1]) BY <2>3, <2>4 DEF Sources
    <3>3. v \in W[n - 1] BY <1>2, <2>3, <3>1, <3>2
    <3> QED BY <1>1, <2>1, <3>3
  <2>5. n - 1 \in 0..s.depth BY <1>1, <2>1
  <2>6. At(edges, s, x.target, n - 1) BY <2>3, <2>4, <2>5 DEF At, W
  <2> QED BY <2>3, <2>6
<1> QED BY <1>3, <1>4

\* A path does not lead through types that are further away than it is long.
LEMMA PathWithin ==
  ASSUME NEW edges, IsGraph(edges), NEW s, IsSearch(s), NEW root,
         NEW path \in Seq(RowSet), IsPath(edges, s, root, path)
  PROVE  /\ Len(path) \in 0..s.depth /\ root.type \in Within(edges, s)[Len(path)]
         /\ s.target \in Within(edges, s)[Len(path)]
         /\ \A i \in 1..Len(path) : path[i].source \in Within(edges, s)[Len(path)]
PROOF
<1> DEFINE W == Within(edges, s)
           m == Len(path)
<1>1. m \in Nat /\ m <= s.depth /\ s.depth \in Nat /\ DOMAIN path = 1..m
  BY LenProperties DEF IsPath, IsSearch
<1>2. /\ \A i \in 1..m : IsStep(edges, s, path[i])
      /\ \A i \in 1..m - 1 : path[i].target = path[i + 1].source
      /\ IF path = <<>> THEN root.type = s.target
         ELSE path[1].source = root.type /\ Last(path).target = s.target
  BY <1>1 DEF IsPath
<1>3. /\ W[0] = {s.target}
      /\ \A k \in 1..s.depth : W[k] = W[k - 1] \cup Sources(edges, s, W[k - 1])
  BY WithinGives
<1> HIDE DEF W, m
<1>4. ASSUME NEW i \in 1..m, NEW k \in 1..s.depth, path[i].target \in W[k - 1]
      PROVE  path[i].source \in W[k]
  <2>1. IsStep(edges, s, path[i]) BY <1>2
  <2>2. PICK x \in edges : /\ x.source = path[i].source /\ x.target = path[i].target
                           /\ x.kind = path[i].kind /\ x.static = path[i].static
    BY <2>1 DEF IsStep
  <2>3. Passable(s, x) BY <2>1, <2>2 DEF IsStep, Passable
  <2>4. path[i].source \in Sources(edges, s, W[k - 1]) BY <1>4, <2>2, <2>3 DEF Sources
  <2> QED BY <1>3, <2>4
<1> DEFINE D == {k \in 0..m : k = 0 \/ path[m - k + 1].source \in W[k]}
<1>5. 0 \in D BY <1>1
<1>6. ASSUME NEW k \in 1..m, k - 1 \in D PROVE k \in D
  <2> DEFINE i == m - k + 1
  <2>1. i \in 1..m /\ k \in 1..s.depth /\ k \in 0..m BY <1>1
  <2>2. path[i].target \in W[k - 1]
    <3>1. CASE k = 1
      <4>1. path # <<>> /\ i = m BY <1>1, <3>1, EmptySeq DEF m
      <4>2. path[m].target = s.target BY <1>2, <4>1 DEF Last, m
      <4> QED BY <1>3, <3>1, <4>1, <4>2
    <3>2. CASE k # 1
      <4>1. i \in 1..m - 1 /\ i + 1 = m - (k - 1) + 1 BY <1>1, <3>2
      <4>2. path[m - (k - 1) + 1].source \in W[k - 1] BY <1>6, <3>2
      <4> HIDE DEF i
      <4>3. path[i].target = path[i + 1].source BY <1>2, <4>1
      <4> QED BY <4>1, <4>2, <4>3
    <3> QED BY <3>1, <3>2
  <2> HIDE DEF i
  <2>3. path[i].source \in W[k] BY <1>4, <2>1, <2>2
  <2> QED BY <2>1, <2>3 DEF i
<1> HIDE DEF D
<1>7. \A k \in 0..m : k \in D BY <1>1, <1>5, <1>6, UpTo
<1>8. \A k \in 1..m : path[m - k + 1].source \in W[k]
  <2>1. \A k \in 1..m : k \in 0..m /\ k # 0 BY <1>1
  <2> QED BY <1>7, <2>1 DEF D
<1>9. m \in 0..s.depth BY <1>1
<1>10. \A k \in 0..m : W[k] \subseteq W[m]
  <2>1. \A k \in 0..m : k \in Nat /\ k <= m BY <1>1
  <2> QED BY <1>9, <2>1, WithinGrows DEF W
<1>11. ASSUME NEW i \in 1..m PROVE path[i].source \in W[m]
  <2> DEFINE k == m - i + 1
  <2>1. k \in 1..m /\ k \in 0..m /\ m - k + 1 = i BY <1>1
  <2> HIDE DEF k
  <2>2. path[m - k + 1].source \in W[k] BY <1>8, <2>1
  <2> QED BY <1>10, <2>1, <2>2
<1>12. s.target \in W[m]
  <2>1. 0 \in 0..m BY <1>1
  <2> QED BY <1>3, <1>10, <2>1
<1>13. root.type \in W[m]
  <2>1. CASE m = 0
    <3>1. path = <<>> BY <2>1, EmptySeq DEF m
    <3> QED BY <1>2, <1>12, <3>1
  <2>2. CASE m # 0
    <3>1. path # <<>> /\ 1 \in 1..m BY <1>1, <2>2, EmptySeq DEF m
    <3> QED BY <1>2, <1>11, <3>1
  <2> QED BY <2>1, <2>2
<1> QED BY <1>9, <1>11, <1>12, <1>13 DEF W, m

-----------------------------------------------------------------------------
(* The order of the search *)

Full(s, st) == Len(st.found) >= s.paths

\* A path of d edges has been found from root i.
HasPath(found, i, d) == \E k \in 1..Len(found) : found[k].root = i /\ Len(found[k].path) = d

\* The roots of a type d steps away are found with shortest paths, and the type
\* has been queued if anything is to be expanded from it.
Covered(s, st, v, d) ==
  /\ \A i \in RootsOf(s, v) : HasPath(st.found, i, d)
  /\ d < s.depth => st.visits[v] >= 1

Queued(st, v, d) == \E k \in 1..Len(st.queue) : st.queue[k].type = v /\ Len(st.queue[k].suffix) = d

\* The edges into a type from further away have been gone over.
Done(edges, s, st, v, d) ==
  \A x \in edges : Passable(s, x) /\ x.target = v /\ At(edges, s, x.source, d + 1)
                     => Covered(s, st, x.source, d + 1)

\* A root d steps away has a shortest path, or there are enough that are no longer.
Settled(s, found, i, d) ==
  \/ HasPath(found, i, d)
  \/ Len(found) >= s.paths /\ \A k \in 1..Len(found) : Len(found[k].path) <= d

AllSettled(edges, s, found) ==
  \A i \in 1..Len(s.roots) : \A d \in 0..s.depth :
     At(edges, s, s.roots[i].type, d) => Settled(s, found, i, d)

\* The queue is in order of length, the shortest first and none much longer; a
\* type that has been queued is still there with a shortest path, or is done.
InOrder(edges, s, st) ==
  /\ Covered(s, st, s.target, 0)
  /\ \A j, k \in 1..Len(st.queue) : j <= k =>
        /\ Len(st.queue[j].suffix) <= Len(st.queue[k].suffix)
        /\ Len(st.queue[k].suffix) <= Len(st.queue[j].suffix) + 1
  /\ \A k \in 1..Len(st.found), j \in 1..Len(st.queue) :
        Len(st.found[k].path) <= Len(st.queue[j].suffix) + 1
  /\ \A v \in Types, d \in 0..s.depth :
        d < s.depth /\ At(edges, s, v, d) /\ st.visits[v] >= 1
          => Queued(st, v, d) \/ Done(edges, s, st, v, d)

NearestInv(edges, s, st) ==
  IF Full(s, st) THEN AllSettled(edges, s, st.found) ELSE InOrder(edges, s, st)

\* A state that has everything another has.
Extends(st, old) ==
  /\ Len(old.found) <= Len(st.found) /\ \A k \in 1..Len(old.found) : st.found[k] = old.found[k]
  /\ Len(old.queue) <= Len(st.queue) /\ \A k \in 1..Len(old.queue) : st.queue[k] = old.queue[k]
  /\ \A v \in Types : st.visits[v] >= old.visits[v]

\* What is covered, queued or done stays so.
LEMMA ExtendsKeeps ==
  ASSUME NEW edges, IsGraph(edges), NEW s, IsSearch(s), NEW old \in StateSet, NEW st \in StateSet,
         Extends(st, old), NEW v \in Types, NEW d
  PROVE  /\ Covered(s, old, v, d) => Covered(s, st, v, d)
         /\ Queued(old, v, d) => Queued(st, v, d)
         /\ Done(edges, s, old, v, d) => Done(edges, s, st, v, d)
PROOF
<1>1. /\ Len(old.found) \in Nat /\ Len(st.found) \in Nat /\ Len(old.queue) \in Nat
      /\ Len(st.queue) \in Nat /\ old.visits \in [Types -> Nat] /\ st.visits \in [Types -> Nat]
  BY StateTyped
<1>2. /\ \A k \in 1..Len(old.found) : k \in 1..Len(st.found) /\ st.found[k] = old.found[k]
      /\ \A k \in 1..Len(old.queue) : k \in 1..Len(st.queue) /\ st.queue[k] = old.queue[k]
      /\ \A u \in Types : st.visits[u] >= old.visits[u]
  BY <1>1 DEF Extends
<1>3. ASSUME NEW u \in Types, NEW n, Covered(s, old, u, n) PROVE Covered(s, st, u, n)
  <2>1. ASSUME NEW i \in RootsOf(s, u) PROVE HasPath(st.found, i, n)
    <3>1. HasPath(old.found, i, n) BY <1>3 DEF Covered
    <3> QED BY <1>2, <3>1 DEF HasPath
  <2>2. n < s.depth => st.visits[u] >= 1
    <3>1. n < s.depth => old.visits[u] >= 1 BY <1>3 DEF Covered
    <3>2. old.visits[u] \in Nat /\ st.visits[u] \in Nat /\ st.visits[u] >= old.visits[u]
      BY <1>1, <1>2
    <3> QED BY <3>1, <3>2
  <2> QED BY <2>1, <2>2 DEF Covered
<1>4. Queued(old, v, d) => Queued(st, v, d) BY <1>2 DEF Queued
<1>5. ASSUME Done(edges, s, old, v, d) PROVE Done(edges, s, st, v, d)
  <2> SUFFICES ASSUME NEW x \in edges, Passable(s, x), x.target = v, At(edges, s, x.source, d + 1)
               PROVE  Covered(s, st, x.source, d + 1)
    BY DEF Done
  <2>1. x.source \in Types BY DEF IsGraph, EdgeSet
  <2>2. Covered(s, old, x.source, d + 1) BY <1>5 DEF Done
  <2> QED BY <1>3, <2>1, <2>2
<1> QED BY <1>3, <1>4, <1>5

\* When nothing as short as n is queued, all types up to n away are covered.
LEMMA NearerAreCovered ==
  ASSUME NEW edges, IsGraph(edges), NEW s, IsSearch(s), NEW st, StateOK(edges, s, st),
         InOrder(edges, s, st), NEW n \in 0..s.depth,
         \A k \in 1..Len(st.queue) : n <= Len(st.queue[k].suffix)
  PROVE  \A v \in Types, d \in 0..n : At(edges, s, v, d) => Covered(s, st, v, d)
PROOF
<1>1. n \in Nat /\ s.depth \in Nat /\ n <= s.depth BY DEF IsSearch
<1>2. \A k \in 1..Len(st.queue) : Len(st.queue[k].suffix) \in Nat
  <2> SUFFICES ASSUME NEW k \in 1..Len(st.queue) PROVE Len(st.queue[k].suffix) \in Nat OBVIOUS
  <2>1. st.queue[k] \in ItemSet BY StateTyped DEF StateOK
  <2>2. st.queue[k].suffix \in Seq(RowSet) BY <2>1 DEF ItemSet
  <2> QED BY <2>2, LenProperties
<1> DEFINE D == {d \in 0..n : \A v \in Types : At(edges, s, v, d) => Covered(s, st, v, d)}
<1>3. 0 \in D
  <2>1. ASSUME NEW v \in Types, At(edges, s, v, 0) PROVE Covered(s, st, v, 0)
    <3>1. v = s.target BY <2>1, AtSteps
    <3> QED BY <3>1 DEF InOrder
  <2> QED BY <1>1, <2>1
<1>4. ASSUME NEW d \in 1..n, d - 1 \in D PROVE d \in D
  <2>1. ASSUME NEW v \in Types, At(edges, s, v, d) PROVE Covered(s, st, v, d)
    <3> DEFINE c == d - 1
    <3>1. d # 0 /\ c + 1 = d /\ c \in 0..s.depth /\ c < s.depth /\ c \in Nat /\ c < n
      BY <1>1
    <3>2. PICK x \in edges : Passable(s, x) /\ x.source = v /\ At(edges, s, x.target, c)
      BY <2>1, <3>1, AtSteps
    <3>3. x.target \in Types BY DEF IsGraph, EdgeSet
    <3>4. c \in D BY <1>4
    <3> HIDE DEF c
    <3>5. Covered(s, st, x.target, c) BY <3>2, <3>3, <3>4
    <3>6. st.visits[x.target] >= 1 BY <3>1, <3>5 DEF Covered
    <3>7. Queued(st, x.target, c) \/ Done(edges, s, st, x.target, c)
      BY <3>1, <3>2, <3>3, <3>6 DEF InOrder
    <3>8. ~Queued(st, x.target, c)
      <4> SUFFICES ASSUME NEW k \in 1..Len(st.queue), Len(st.queue[k].suffix) = c PROVE FALSE
        BY DEF Queued
      <4>1. n <= Len(st.queue[k].suffix) OBVIOUS
      <4> QED BY <1>1, <3>1, <4>1
    <3>9. Covered(s, st, x.source, c + 1) BY <2>1, <3>1, <3>2, <3>7, <3>8 DEF Done
    <3> QED BY <3>1, <3>2, <3>9
  <2> QED BY <1>1, <2>1
<1> HIDE DEF D
<1>5. \A d \in 0..n : d \in D BY <1>1, <1>3, <1>4, UpTo
<1> QED BY <1>5 DEF D

\* Types no further away than n are covered.
NearCovered(edges, s, st, n) ==
  \A v \in Types, d \in 0..n : At(edges, s, v, d) => Covered(s, st, v, d)

\* The lengths while an item of length n is expanded.
LengthsOK(st, n) ==
  /\ \A k \in 1..Len(st.found) : Len(st.found[k].path) <= n + 1
  /\ \A k \in 1..Len(st.queue) : Len(st.queue[k].suffix) \in n..n + 1
  /\ \A j, k \in 1..Len(st.queue) : j <= k => Len(st.queue[j].suffix) <= Len(st.queue[k].suffix)

\* A type that has been queued still is, or is done, or is being expanded.
PendingOK(edges, s, item, st) ==
  \A v \in Types, d \in 0..s.depth :
     d < s.depth /\ At(edges, s, v, d) /\ st.visits[v] >= 1
       => \/ Queued(st, v, d) \/ Done(edges, s, st, v, d)
          \/ v = item.type /\ d = Len(item.suffix)

\* The first n rows of an item have covered what is one step further away.
RowsDone(edges, s, item, rows, n, st) ==
  \/ Full(s, st)
  \/ \A j \in 1..n : /\ Passable(s, rows[j])
                     /\ At(edges, s, rows[j].source, Len(item.suffix) + 1)
                     => Covered(s, st, rows[j].source, Len(item.suffix) + 1)

\* What is true while the rows of an item are gone over, n of them so far.
RowsOK(edges, s, item, rows, n, st) ==
  /\ NearCovered(edges, s, st, Len(item.suffix))
  /\ LengthsOK(st, Len(item.suffix))
  /\ PendingOK(edges, s, item, st)
  /\ RowsDone(edges, s, item, rows, n, st)

\* What a row leaves behind when it is not passed by: the longer path for all
\* roots of its source, unless there are enough, and maybe one more item.
Passed(s, item, e, st, r) ==
  /\ Extends(r, st) /\ Len(r.found) \in Nat
  /\ \A k \in Len(st.found) + 1..Len(r.found) : Len(r.found[k].path) = Len(item.suffix) + 1
  /\ Full(s, r) \/ \A i \in RootsOf(s, e.source) : HasPath(r.found, i, Len(item.suffix) + 1)
  /\ \/ r.queue = st.queue /\ r.visits = st.visits
        /\ (Full(s, r) \/ Len(item.suffix) + 1 >= s.depth \/ st.visits[e.source] >= 2)
     \/ /\ r.queue = Append(st.queue, ItemOver(item, e)) /\ Len(item.suffix) + 1 < s.depth
        /\ r.visits = [st.visits EXCEPT ![e.source] = @ + 1]

\* A row is passed by, or it leaves behind what it should.
LEMMA VisitPasses ==
  ASSUME NEW edges, NEW s, IsSearch(s), NEW item \in ItemSet, IsItem(edges, s, item),
         NEW e, IsRowInto(edges, item, e), NEW st, StateOK(edges, s, st)
  PROVE  \/ Visit(s, item, st, e) = st /\ Breaks(s, item, st, e)
         \/ ~Breaks(s, item, st, e) /\ Passed(s, item, e, st, Visit(s, item, st, e))
PROOF
<1> DEFINE path == PathOver(item, e)
           F == Found(s, st, path)
           r == Visit(s, item, st, e)
           add == ItemOver(item, e)
           n == Len(item.suffix)
<1>1. st \in StateSet /\ Len(st.found) <= s.paths BY DEF StateOK
<1>2. /\ st.found \in Seq(FoundSet) /\ st.queue \in Seq(ItemSet)
      /\ st.visits \in [Types -> Nat] /\ Len(st.found) \in Nat /\ Len(st.queue) \in Nat
  BY <1>1, StateTyped
<1>3. e \in RowSet /\ e.source \in Types BY DEF IsRowInto, RowSet
<1>4. item.suffix \in Seq(RowSet) /\ n \in Nat BY LenProperties DEF ItemSet
<1>5. path \in Seq(RowSet) /\ Len(path) = n + 1 /\ path[1] = e
  BY <1>3, <1>4, ConsGives DEF PathOver
<1> HIDE DEF path
<1>6. /\ F \in Seq(FoundSet) /\ Len(st.found) <= Len(F)
      /\ \A k \in 1..Len(st.found) : F[k] = st.found[k]
      /\ \A k \in Len(st.found) + 1..Len(F) : F[k].path = path
      /\ \A i \in RootsOf(s, e.source) :
            \/ Len(F) >= s.paths
            \/ \E k \in 1..Len(F) : F[k].root = i /\ PathKey(F[k].path) = PathKey(path)
  <2>1. st \in StateSet /\ Len(st.found) <= s.paths /\ path \in Seq(RowSet) BY <1>1, <1>5
  <2>2. F \in Seq(FoundSet) /\ IsExtended(s, st.found, path, F) BY <2>1, FoundGives
  <2> HIDE DEF F
  <2> QED BY <1>5, <2>2 DEF IsExtended
<1> HIDE DEF F
<1>7. Len(F) \in Nat BY <1>6, LenProperties
<1>8. ASSUME NEW k \in 1..Len(F), PathKey(F[k].path) = PathKey(path) PROVE Len(F[k].path) = n + 1
  <2>1. F[k] \in FoundSet BY <1>6, ElementOfSeq
  <2>2. F[k].path \in Seq(RowSet) BY <2>1 DEF FoundSet
  <2>3. DOMAIN PathKey(F[k].path) = DOMAIN PathKey(path) BY <1>8
  <2>4. \A p : DOMAIN PathKey(p) = DOMAIN p BY DEF PathKey
  <2>5. /\ DOMAIN F[k].path = 1..Len(F[k].path) /\ Len(F[k].path) \in Nat
        /\ DOMAIN path = 1..Len(path) /\ Len(path) \in Nat
    BY <1>5, <2>2, LenProperties
  <2>6. 1..Len(F[k].path) = 1..Len(path) BY <2>3, <2>4, <2>5
  <2> QED BY <1>5, <2>5, <2>6
<1>9. Len(F) >= s.paths \/ \A i \in RootsOf(s, e.source) : HasPath(F, i, n + 1)
  BY <1>6, <1>8 DEF HasPath
<1>10. \A k \in Len(st.found) + 1..Len(F) : Len(F[k].path) = n + 1 BY <1>5, <1>6
<1> HIDE DEF r, add
<1>11. ASSUME r.found = F, r.queue = st.queue, r.visits = st.visits,
              Len(F) >= s.paths \/ n + 1 >= s.depth \/ st.visits[e.source] >= 2
       PROVE  Passed(s, item, e, st, r)
  <2>1. Extends(r, st) BY <1>2, <1>6, <1>11 DEF Extends
  <2> QED BY <1>7, <1>9, <1>10, <1>11, <2>1 DEF Passed, Full
<1>12. ASSUME r.found = F, r.queue = Append(st.queue, add), n + 1 < s.depth,
              r.visits = [st.visits EXCEPT ![e.source] = @ + 1]
       PROVE  Passed(s, item, e, st, r)
  <2>1. add \in ItemSet BY <1>3, <1>4, <1>5 DEF add, ItemOver, ItemSet, path
  <2>2. /\ Len(Append(st.queue, add)) = Len(st.queue) + 1
        /\ \A k \in 1..Len(st.queue) : Append(st.queue, add)[k] = st.queue[k]
    BY <1>2, <2>1, AppendProperties
  <2>3. \A v \in Types : r.visits[v] >= st.visits[v] BY <1>2, <1>3, <1>12
  <2>4. Extends(r, st) BY <1>2, <1>6, <1>12, <2>2, <2>3 DEF Extends
  <2> QED BY <1>7, <1>9, <1>10, <1>12, <2>4 DEF Passed, Full, add
<1>13. \/ Breaks(s, item, st, e) /\ r = st
       \/ /\ ~Breaks(s, item, st, e) /\ Ends(s, st, e, path) /\ r = AfterFound(F, st)
       \/ /\ ~Breaks(s, item, st, e) /\ ~Ends(s, st, e, path)
          /\ r = AfterEntered(F, st, e, add)
  BY <1>1, VisitCases DEF r, F, path, add
<1>14. ASSUME Ends(s, st, e, path)
       PROVE  Len(F) >= s.paths \/ n + 1 >= s.depth \/ st.visits[e.source] >= 2
  <2>1. st.visits[e.source] \in Nat BY <1>2, <1>3
  <2> QED BY <1>5, <1>14, <2>1 DEF Ends, AtDepth, MayVisit, F
<1>15. ASSUME ~Ends(s, st, e, path) PROVE n + 1 < s.depth
  BY <1>4, <1>5, <1>15 DEF Ends, AtDepth, IsSearch
<1>16. CASE r = AfterFound(F, st) /\ Ends(s, st, e, path)
  BY <1>11, <1>13, <1>14, <1>16 DEF AfterFound, r
<1>17. CASE r = AfterEntered(F, st, e, add) /\ ~Ends(s, st, e, path)
  BY <1>12, <1>13, <1>15, <1>17 DEF AfterEntered, r
<1> QED BY <1>13, <1>16, <1>17 DEF r

\* A row keeps what is true while the rows are gone over, and does its part.
LEMMA VisitKeeps ==
  ASSUME NEW edges, IsGraph(edges), NEW s, IsSearch(s),
         NEW item \in ItemSet, IsItem(edges, s, item), NEW rows, NEW n \in Nat \ {0},
         IsRowInto(edges, item, rows[n]), NEW st, StateOK(edges, s, st),
         RowsOK(edges, s, item, rows, n - 1, st)
  PROVE  RowsOK(edges, s, item, rows, n, Visit(s, item, st, rows[n]))
PROOF
<1> DEFINE e == rows[n]
           r == Visit(s, item, st, e)
           L == Len(item.suffix)
<1>1. /\ st \in StateSet /\ st.found \in Seq(FoundSet) /\ st.queue \in Seq(ItemSet)
      /\ Len(st.found) \in Nat /\ Len(st.queue) \in Nat /\ st.visits \in [Types -> Nat]
      /\ \A k \in 1..Len(st.queue) : st.queue[k] \in ItemSet
  BY StateTyped DEF StateOK
<1>2. e \in RowSet /\ e.source \in Types BY DEF IsRowInto, RowSet
<1>3. item.suffix \in Seq(RowSet) /\ L \in Nat BY LenProperties DEF ItemSet
<1>4. L < s.depth /\ s.depth \in Nat /\ L \in 0..s.depth /\ L + 1 \in 0..s.depth
  BY <1>3 DEF IsItem, IsSearch
<1> HIDE DEF e
<1>5. IsRowInto(edges, item, e) BY DEF e
<1> HIDE DEF r
<1>6. StateOK(edges, s, r) /\ (\/ r = st /\ Breaks(s, item, st, e)
                               \/ ~Breaks(s, item, st, e) /\ Passed(s, item, e, st, r))
  BY <1>5, VisitOK, VisitPasses DEF r
<1>7. /\ r \in StateSet /\ r.visits \in [Types -> Nat]
      /\ Len(r.found) \in Nat /\ Len(r.queue) \in Nat
  BY <1>6, StateTyped DEF StateOK
<1> HIDE DEF L
<1>8. /\ NearCovered(edges, s, st, L) /\ LengthsOK(st, L) /\ PendingOK(edges, s, item, st)
      /\ RowsDone(edges, s, item, rows, n - 1, st)
  BY DEF RowsOK, L
<1>9. \A j \in 1..n : j \in 1..n - 1 \/ rows[j] = e BY DEF e
<1>10. ASSUME LeadsBack(item, e), At(edges, s, e.source, L + 1) PROVE FALSE
  <2>1. /\ s.target \in Within(edges, s)[L]
        /\ \A i \in 1..L : item.suffix[i].source \in Within(edges, s)[L]
    BY <1>3, PathWithin DEF IsItem, L
  <2>2. item.visited = {s.target} \cup {item.suffix[i].source : i \in 1..L} BY DEF IsItem, L
  <2>3. e.source \in Within(edges, s)[L] BY <1>10, <2>1, <2>2 DEF LeadsBack
  <2>4. L + 1 <= L BY <1>4, <1>10, <2>3, AtIsLeast
  <2> QED BY <1>3, <2>4
<1>11. CASE r = st /\ Breaks(s, item, st, e)
  <2>1. RowsDone(edges, s, item, rows, n, st)
    <3>1. ASSUME ~Full(s, st), Passable(s, e), At(edges, s, e.source, L + 1) PROVE FALSE
      BY <1>10, <1>11, <3>1 DEF Breaks, Full
    <3> QED BY <1>8, <1>9, <3>1 DEF RowsDone, L
  <2> QED BY <1>8, <1>11, <2>1 DEF RowsOK, L, r, e
<1>12. CASE ~Breaks(s, item, st, e) /\ Passed(s, item, e, st, r)
  <2>1. Extends(r, st) BY <1>12 DEF Passed
  <2>2. \A v \in Types : \A d : /\ Covered(s, st, v, d) => Covered(s, r, v, d)
                                /\ Queued(st, v, d) => Queued(r, v, d)
                                /\ Done(edges, s, st, v, d) => Done(edges, s, r, v, d)
    BY <1>1, <1>7, <2>1, ExtendsKeeps
  <2>3. NearCovered(edges, s, r, L) BY <1>8, <2>2 DEF NearCovered
  <2> DEFINE add == ItemOver(item, e)
  <2>4. add \in ItemSet /\ add.type = e.source /\ Len(add.suffix) = L + 1
    <3>1. PathOver(item, e) \in Seq(RowSet) /\ Len(PathOver(item, e)) = L + 1
      BY <1>2, <1>3, ConsGives DEF PathOver, L
    <3> QED BY <1>2, <3>1 DEF ItemOver, ItemSet
  <2> HIDE DEF add
  <2>5. /\ Len(Append(st.queue, add)) = Len(st.queue) + 1
        /\ \A k \in 1..Len(st.queue) : Append(st.queue, add)[k] = st.queue[k]
        /\ Append(st.queue, add)[Len(st.queue) + 1] = add
    BY <1>1, <2>4, AppendProperties
  <2>6. \/ r.queue = st.queue /\ r.visits = st.visits
           /\ (Full(s, r) \/ L + 1 >= s.depth \/ st.visits[e.source] >= 2)
        \/ /\ r.queue = Append(st.queue, add) /\ L + 1 < s.depth
           /\ r.visits = [st.visits EXCEPT ![e.source] = @ + 1]
    BY <1>12 DEF Passed, add, L
  <2>7. LengthsOK(r, L)
    <3>1. ASSUME NEW k \in 1..Len(r.found) PROVE Len(r.found[k].path) <= L + 1
      <4>1. k \in 1..Len(st.found) \/ k \in Len(st.found) + 1..Len(r.found) BY <1>1, <1>7
      <4>2. CASE k \in 1..Len(st.found) BY <1>8, <2>1, <4>2 DEF Extends, LengthsOK
      <4>3. CASE k \in Len(st.found) + 1..Len(r.found) BY <1>3, <1>12, <4>3 DEF Passed, L
      <4> QED BY <4>1, <4>2, <4>3
    <3>2. CASE r.queue = st.queue BY <1>8, <3>1, <3>2 DEF LengthsOK
    <3>3. CASE r.queue = Append(st.queue, add)
      <4>1. ASSUME NEW k \in 1..Len(r.queue)
            PROVE  \/ k \in 1..Len(st.queue) /\ r.queue[k] = st.queue[k]
                   \/ k = Len(st.queue) + 1 /\ Len(r.queue[k].suffix) = L + 1
        <5>1. k \in 1..Len(st.queue) \/ k = Len(st.queue) + 1 BY <1>1, <2>5, <3>3
        <5> QED BY <2>4, <2>5, <3>3, <5>1
      <4>2. \A k \in 1..Len(st.queue) : Len(st.queue[k].suffix) \in L..L + 1
        BY <1>8 DEF LengthsOK
      <4>3. ASSUME NEW k \in 1..Len(r.queue) PROVE Len(r.queue[k].suffix) \in L..L + 1
        <5>1. L + 1 \in L..L + 1 BY <1>3
        <5>2. CASE k \in 1..Len(st.queue) /\ r.queue[k] = st.queue[k] BY <4>2, <5>2
        <5>3. CASE Len(r.queue[k].suffix) = L + 1 BY <5>1, <5>3
        <5> QED BY <4>1, <5>2, <5>3
      <4>4. ASSUME NEW j \in 1..Len(r.queue), NEW k \in 1..Len(r.queue), j <= k
            PROVE  Len(r.queue[j].suffix) <= Len(r.queue[k].suffix)
        <5>1. CASE k = Len(st.queue) + 1 /\ Len(r.queue[k].suffix) = L + 1
          BY <1>3, <4>3, <5>1
        <5>2. CASE k \in 1..Len(st.queue) /\ r.queue[k] = st.queue[k]
          <6>1. j \in 1..Len(st.queue) BY <1>1, <4>4, <5>2
          <6>2. r.queue[j] = st.queue[j] BY <1>1, <4>1, <6>1
          <6> QED BY <1>8, <4>4, <5>2, <6>1, <6>2 DEF LengthsOK
        <5> QED BY <4>1, <5>1, <5>2
      <4> QED BY <3>1, <4>3, <4>4 DEF LengthsOK
    <3> QED BY <2>6, <3>2, <3>3
  <2>8. PendingOK(edges, s, item, r)
    <3> SUFFICES ASSUME NEW v \in Types, NEW d \in 0..s.depth, d < s.depth, At(edges, s, v, d),
                        r.visits[v] >= 1
                 PROVE  Queued(r, v, d) \/ Done(edges, s, r, v, d) \/ (v = item.type /\ d = L)
      BY DEF PendingOK, L
    <3>1. CASE st.visits[v] >= 1 BY <1>8, <2>2, <3>1 DEF PendingOK, L
    <3>2. CASE ~(st.visits[v] >= 1)
      <4>1. v = e.source /\ r.queue = Append(st.queue, add) BY <1>1, <1>2, <2>6, <3>2
      <4>2. Len(r.queue) = Len(st.queue) + 1 /\ r.queue[Len(st.queue) + 1] = add BY <2>5, <4>1
      <4>3. IsItem(edges, s, add)
        <5>1. Len(st.queue) + 1 \in 1..Len(r.queue) BY <1>1, <4>2
        <5> QED BY <1>6, <4>2, <5>1 DEF StateOK
      <4>4. add.suffix \in Seq(RowSet) /\ IsPath(edges, s, add, add.suffix)
        BY <2>4, <4>3 DEF ItemSet, IsItem
      <4>5. v \in Within(edges, s)[L + 1] BY <2>4, <4>1, <4>4, PathWithin
      <4> DEFINE m == L + 1
      <4>6. m \in 0..s.depth /\ v \in Within(edges, s)[m] BY <1>4, <4>5
      <4> HIDE DEF m
      <4>7. d \in Nat /\ d <= m BY <4>6, AtIsLeast
      <4>8. ~(d <= L)
        <5> SUFFICES ASSUME d <= L PROVE FALSE OBVIOUS
        <5>1. d \in 0..L BY <1>3, <4>7
        <5>2. Covered(s, st, v, d) BY <1>8, <5>1 DEF NearCovered
        <5> QED BY <3>2, <5>2 DEF Covered
      <4>9. d = L + 1 BY <1>3, <4>7, <4>8 DEF m
      <4>10. Len(st.queue) + 1 \in 1..Len(r.queue) BY <1>1, <4>2
      <4>11. Queued(r, v, d) BY <2>4, <4>1, <4>2, <4>9, <4>10 DEF Queued
      <4> QED BY <4>11
    <3> QED BY <3>1, <3>2
  <2>9. RowsDone(edges, s, item, rows, n, r)
    <3> SUFFICES ASSUME ~Full(s, r), NEW j \in 1..n, Passable(s, rows[j]),
                        At(edges, s, rows[j].source, L + 1)
                 PROVE  Covered(s, r, rows[j].source, L + 1)
      BY DEF RowsDone, L
    <3>1. ~Full(s, st) BY <1>1, <1>7, <2>1 DEF Full, Extends, IsSearch
    <3>2. CASE rows[j] = e
      <4>1. \A i \in RootsOf(s, e.source) : HasPath(r.found, i, L + 1) BY <1>12 DEF Passed, L
      <4>2. ASSUME L + 1 < s.depth PROVE r.visits[e.source] >= 1
        BY <1>1, <1>2, <1>4, <2>6, <4>2
      <4> QED BY <3>2, <4>1, <4>2 DEF Covered
    <3>3. CASE j \in 1..n - 1 /\ rows[j] # e
      <4>1. Covered(s, st, rows[j].source, L + 1) BY <1>8, <3>1, <3>3 DEF RowsDone, L
      <4>2. rows[j].source \in Types
        <5>1. At(edges, s, rows[j].source, L + 1) OBVIOUS
        <5> QED BY <1>4, <5>1, WithinGives DEF At
      <4> QED BY <2>2, <4>1, <4>2
    <3> QED BY <1>9, <3>2, <3>3
  <2> QED BY <2>3, <2>7, <2>8, <2>9 DEF RowsOK, L, r, e
<1> QED BY <1>6, <1>11, <1>12

\* A row expands nothing by itself.
LEMMA VisitExpandsNone ==
  ASSUME NEW s, NEW item, NEW st \in StateSet, NEW e
  PROVE  Visit(s, item, st, e).expanded = st.expanded
PROOF
<1>1. \/ Visit(s, item, st, e) = st
      \/ \E F : Visit(s, item, st, e) = AfterFound(F, st)
      \/ \E F, add : Visit(s, item, st, e) = AfterEntered(F, st, e, add)
  BY VisitCases
<1>2. /\ \A F : AfterFound(F, st).expanded = st.expanded
      /\ \A F, add : AfterEntered(F, st, e, add).expanded = st.expanded
  BY DEF AfterFound, AfterEntered
<1> QED BY <1>1, <1>2

\* All rows together do what each one does.
LEMMA VisitAllKeeps ==
  ASSUME NEW edges, IsGraph(edges), NEW s, IsSearch(s),
         NEW item \in ItemSet, IsItem(edges, s, item),
         NEW rows, Len(rows) \in Nat, \A k \in 1..Len(rows) : IsRowInto(edges, item, rows[k]),
         NEW st, StateOK(edges, s, st), RowsOK(edges, s, item, rows, 0, st)
  PROVE  /\ RowsOK(edges, s, item, rows, Len(rows), VisitAll(s, item, st, rows))
         /\ VisitAll(s, item, st, rows).expanded = st.expanded
         /\ StateOK(edges, s, VisitAll(s, item, st, rows))
PROOF
<1> DEFINE n == Len(rows)
<1>1. PICK g : IsRowsRun(edges, s, item, rows, st, g) BY VisitAllRuns
<1> HIDE DEF n
<1>2. n \in Nat /\ \A k \in 1..n : IsRowInto(edges, item, rows[k]) BY DEF n
<1>3. /\ g[0] = st /\ VisitAll(s, item, st, rows) = g[n]
      /\ \A k \in 0..n : StateOK(edges, s, g[k])
      /\ \A k \in 1..n : g[k] = Visit(s, item, g[k - 1], rows[k])
  BY <1>1 DEF IsRowsRun, n
<1> DEFINE D == {k \in 0..n : /\ RowsOK(edges, s, item, rows, k, g[k])
                              /\ g[k].expanded = st.expanded}
<1>4. 0 \in D BY <1>2, <1>3
<1>5. ASSUME NEW k \in 1..n, k - 1 \in D PROVE k \in D
  <2>1. /\ RowsOK(edges, s, item, rows, k - 1, g[k - 1]) /\ g[k - 1].expanded = st.expanded
        /\ k - 1 \in 0..n
    BY <1>5
  <2>2. k \in Nat \ {0} /\ k \in 0..n BY <1>2
  <2>3. g[k] = Visit(s, item, g[k - 1], rows[k]) /\ StateOK(edges, s, g[k - 1]) BY <1>3, <2>1
  <2> DEFINE x == g[k - 1]
             y == g[k]
  <2>4. /\ StateOK(edges, s, x) /\ RowsOK(edges, s, item, rows, k - 1, x)
        /\ y = Visit(s, item, x, rows[k])
    BY <2>1, <2>3
  <2> HIDE DEF x, y
  <2>5. RowsOK(edges, s, item, rows, k, y) BY <1>2, <2>2, <2>4, VisitKeeps
  <2>6. y.expanded = x.expanded BY <2>4, VisitExpandsNone DEF StateOK
  <2> QED BY <2>1, <2>2, <2>5, <2>6 DEF x, y
<1> HIDE DEF D
<1>6. \A k \in 0..n : k \in D BY <1>2, <1>4, <1>5, UpTo
<1>7. n \in D /\ n \in 0..n BY <1>2, <1>6
<1>8. RowsOK(edges, s, item, rows, n, g[n]) /\ g[n].expanded = st.expanded BY <1>7 DEF D
<1> QED BY <1>7, <1>8, <1>3 DEF n

\* With the first item taken from the queue the rows can be gone over.
LEMMA PoppedIsReady ==
  ASSUME NEW edges, IsGraph(edges), NEW s, IsSearch(s), NEW st, StateOK(edges, s, st),
         InOrder(edges, s, st), st.queue # <<>>, NEW rows
  PROVE  RowsOK(edges, s, Head(st.queue), rows, 0, Popped(st))
PROOF
<1> DEFINE item == Head(st.queue)
           L == Len(item.suffix)
           n == Len(st.queue)
           p == Popped(st)
<1>1. /\ st \in StateSet /\ st.queue \in Seq(ItemSet) /\ Len(st.found) \in Nat
      /\ st.found \in Seq(FoundSet)
      /\ \A k \in 1..n : st.queue[k] \in ItemSet
      /\ \A k \in 1..Len(st.found) : st.found[k] \in FoundSet
  BY StateTyped DEF StateOK
<1>2. /\ n \in Nat \ {0} /\ item = st.queue[1] /\ item \in ItemSet
      /\ Len(Tail(st.queue)) = n - 1
      /\ \A k \in 1..n - 1 : Tail(st.queue)[k] = st.queue[k + 1] /\ k + 1 \in 1..n
  BY <1>1, TailGives
<1> HIDE DEF item
<1>3. p.found = st.found /\ p.visits = st.visits /\ p.queue = Tail(st.queue) BY DEF Popped
<1> HIDE DEF p
<1>4. \A k \in 1..n : Len(st.queue[k].suffix) \in Nat
  <2> SUFFICES ASSUME NEW k \in 1..n PROVE Len(st.queue[k].suffix) \in Nat OBVIOUS
  <2>1. st.queue[k].suffix \in Seq(RowSet) BY <1>1 DEF ItemSet
  <2> QED BY <2>1, LenProperties
<1>5. 1 \in 1..n /\ L \in Nat BY <1>2, <1>4
<1>6. L < s.depth /\ L \in 0..s.depth
  <2>1. IsItem(edges, s, item) BY <1>2, <1>5 DEF StateOK
  <2> QED BY <1>5, <2>1 DEF IsItem, IsSearch
<1> HIDE DEF L, n
<1>7. /\ \A k \in 1..n : L <= Len(st.queue[k].suffix) /\ Len(st.queue[k].suffix) <= L + 1
      /\ \A j, k \in 1..n : j <= k => Len(st.queue[j].suffix) <= Len(st.queue[k].suffix)
      /\ \A k \in 1..Len(st.found) : Len(st.found[k].path) <= L + 1
  <2>1. \A k \in 1..n : 1 <= k BY <1>2
  <2> QED BY <1>2, <1>5, <2>1 DEF InOrder, L, n
<1>8. \A v : \A d : Covered(s, st, v, d) => Covered(s, p, v, d) BY <1>3 DEF Covered
<1>9. NearCovered(edges, s, p, L)
  <2>1. \A k \in 1..Len(st.queue) : L <= Len(st.queue[k].suffix) BY <1>7 DEF n
  <2>2. \A v \in Types, d \in 0..L : At(edges, s, v, d) => Covered(s, st, v, d)
    BY <1>6, <2>1, NearerAreCovered
  <2> QED BY <1>8, <2>2 DEF NearCovered
<1>10. LengthsOK(p, L)
  <2>1. \A k \in 1..n - 1 : Len(p.queue[k].suffix) \in L..L + 1
    <3> SUFFICES ASSUME NEW k \in 1..n - 1 PROVE Len(p.queue[k].suffix) \in L..L + 1 OBVIOUS
    <3>1. k + 1 \in 1..n /\ p.queue[k] = st.queue[k + 1] BY <1>2, <1>3
    <3>2. /\ Len(st.queue[k + 1].suffix) \in Nat /\ L <= Len(st.queue[k + 1].suffix)
          /\ Len(st.queue[k + 1].suffix) <= L + 1
      BY <1>4, <1>7, <3>1 DEF n
    <3> QED BY <1>5, <3>1, <3>2
  <2>2. ASSUME NEW j \in 1..n - 1, NEW k \in 1..n - 1, j <= k
        PROVE  Len(p.queue[j].suffix) <= Len(p.queue[k].suffix)
    <3>1. /\ j + 1 \in 1..n /\ k + 1 \in 1..n /\ j + 1 <= k + 1
          /\ p.queue[j] = st.queue[j + 1] /\ p.queue[k] = st.queue[k + 1]
      BY <1>2, <1>3, <2>2
    <3> QED BY <1>7, <3>1
  <2>3. Len(p.queue) = n - 1 BY <1>2, <1>3
  <2> QED BY <1>3, <1>7, <2>1, <2>2, <2>3 DEF LengthsOK
<1>11. PendingOK(edges, s, item, p)
  <2> SUFFICES ASSUME NEW v \in Types, NEW d \in 0..s.depth, d < s.depth, At(edges, s, v, d),
                      p.visits[v] >= 1
               PROVE  Queued(p, v, d) \/ Done(edges, s, p, v, d) \/ (v = item.type /\ d = L)
    BY DEF PendingOK, L
  <2>1. Queued(st, v, d) \/ Done(edges, s, st, v, d) BY <1>3 DEF InOrder
  <2>2. CASE Queued(st, v, d)
    <3>1. PICK k \in 1..n : st.queue[k].type = v /\ Len(st.queue[k].suffix) = d
      BY <2>2 DEF Queued, n
    <3>2. CASE k = 1 BY <1>2, <3>1, <3>2 DEF L
    <3>3. CASE k # 1
      <4>1. k - 1 \in 1..n - 1 /\ (k - 1) + 1 = k BY <1>2, <3>3
      <4>2. p.queue[k - 1] = st.queue[k] /\ k - 1 \in 1..Len(p.queue) BY <1>2, <1>3, <4>1
      <4>3. Queued(p, v, d) BY <3>1, <4>2 DEF Queued
      <4> QED BY <4>3
    <3> QED BY <3>2, <3>3
  <2>3. CASE Done(edges, s, st, v, d) BY <1>8, <2>3 DEF Done
  <2> QED BY <2>1, <2>2, <2>3
<1>12. RowsDone(edges, s, item, rows, 0, p) BY DEF RowsDone
<1> QED BY <1>9, <1>10, <1>11, <1>12 DEF RowsOK, L, p, item

\* With all rows gone over, nothing is lost that is nearer than what is queued.
LEMMA RowsEnd ==
  ASSUME NEW edges, IsGraph(edges), NEW s, IsSearch(s), NEW uses, NEW seen,
         IsEvidence(uses, seen), NoLimitBites(edges, s),
         NEW item \in ItemSet, IsItem(edges, s, item), NEW rows,
         rows = Incoming(s, edges, item.type, uses, seen),
         NEW st, StateOK(edges, s, st), RowsOK(edges, s, item, rows, Len(rows), st)
  PROVE  NearestInv(edges, s, st)
PROOF
<1> DEFINE L == Len(item.suffix)
<1>1. item.suffix \in Seq(RowSet) /\ L \in Nat /\ item.type \in Types BY LenProperties DEF ItemSet
<1>2. L < s.depth /\ s.depth \in Nat BY DEF IsItem, IsSearch
<1> HIDE DEF L
<1>3. /\ NearCovered(edges, s, st, L) /\ LengthsOK(st, L) /\ PendingOK(edges, s, item, st)
      /\ RowsDone(edges, s, item, rows, Len(rows), st)
  BY DEF RowsOK, L
<1>4. /\ \A k \in 1..Len(st.found) : Len(st.found[k].path) \in Nat
      /\ \A k \in 1..Len(st.queue) : Len(st.queue[k].suffix) \in Nat
  <2>1. ASSUME NEW k \in 1..Len(st.found) PROVE Len(st.found[k].path) \in Nat
    <3>1. st.found[k] \in FoundSet BY StateTyped DEF StateOK
    <3>2. st.found[k].path \in Seq(RowSet) BY <3>1 DEF FoundSet
    <3> QED BY <3>2, LenProperties
  <2>2. ASSUME NEW k \in 1..Len(st.queue) PROVE Len(st.queue[k].suffix) \in Nat
    <3>1. st.queue[k] \in ItemSet BY StateTyped DEF StateOK
    <3>2. st.queue[k].suffix \in Seq(RowSet) BY <3>1 DEF ItemSet
    <3> QED BY <3>2, LenProperties
  <2> QED BY <2>1, <2>2
<1>5. ASSUME NEW v, NEW d, At(edges, s, v, d) PROVE v \in Types
  <2>1. d \in 0..s.depth /\ v \in Within(edges, s)[d] BY <1>5 DEF At
  <2>2. Within(edges, s) \in [0..s.depth -> SUBSET Types] BY WithinGives
  <2> QED BY <2>1, <2>2
<1>6. ASSUME Full(s, st) PROVE AllSettled(edges, s, st.found)
  <2> SUFFICES ASSUME NEW i \in 1..Len(s.roots), NEW d \in 0..s.depth,
                      At(edges, s, s.roots[i].type, d)
               PROVE  Settled(s, st.found, i, d)
    BY DEF AllSettled
  <2>1. CASE d <= L
    <3>1. d \in 0..L BY <1>1, <2>1
    <3>2. Covered(s, st, s.roots[i].type, d) BY <1>3, <1>5, <3>1 DEF NearCovered
    <3>3. i \in RootsOf(s, s.roots[i].type) BY DEF RootsOf, IsSearch
    <3>4. HasPath(st.found, i, d) BY <3>2, <3>3 DEF Covered
    <3> QED BY <3>4 DEF Settled
  <2>2. CASE ~(d <= L)
    <3>1. \A k \in 1..Len(st.found) : Len(st.found[k].path) <= L + 1 BY <1>3 DEF LengthsOK
    <3>2. L + 1 <= d /\ d \in Nat BY <1>1, <1>2, <2>2
    <3>3. ASSUME NEW k \in 1..Len(st.found) PROVE Len(st.found[k].path) <= d
      BY <1>1, <1>4, <3>1, <3>2
    <3> QED BY <1>6, <3>3 DEF Settled, Full
  <2> QED BY <2>1, <2>2
<1>7. ASSUME ~Full(s, st) PROVE InOrder(edges, s, st)
  <2>1. Covered(s, st, s.target, 0)
    <3>1. At(edges, s, s.target, 0) BY <1>2, WithinGives DEF At
    <3>2. 0 \in 0..L BY <1>1
    <3> QED BY <1>3, <1>5, <3>1, <3>2 DEF NearCovered
  <2>2. \A k \in 1..Len(st.queue) : L <= Len(st.queue[k].suffix) /\ Len(st.queue[k].suffix) <= L + 1
    <3>1. \A k \in 1..Len(st.queue) : Len(st.queue[k].suffix) \in L..L + 1
      BY <1>3 DEF LengthsOK
    <3> QED BY <1>1, <3>1
  <2>3. ASSUME NEW j \in 1..Len(st.queue), NEW k \in 1..Len(st.queue), j <= k
        PROVE  /\ Len(st.queue[j].suffix) <= Len(st.queue[k].suffix)
               /\ Len(st.queue[k].suffix) <= Len(st.queue[j].suffix) + 1
    <3>1. Len(st.queue[j].suffix) <= Len(st.queue[k].suffix) BY <1>3, <2>3 DEF LengthsOK
    <3>2. /\ Len(st.queue[k].suffix) <= L + 1 /\ L <= Len(st.queue[j].suffix)
          /\ Len(st.queue[j].suffix) \in Nat /\ Len(st.queue[k].suffix) \in Nat
      BY <1>4, <2>2
    <3> DEFINE a == Len(st.queue[j].suffix)
               b == Len(st.queue[k].suffix)
    <3>3. a \in Nat /\ b \in Nat /\ b <= L + 1 /\ L <= a BY <3>2
    <3> HIDE DEF a, b
    <3>4. b <= a + 1 BY <1>1, <3>3
    <3> QED BY <3>1, <3>4 DEF a, b
  <2>4. ASSUME NEW k \in 1..Len(st.found), NEW j \in 1..Len(st.queue)
        PROVE  Len(st.found[k].path) <= Len(st.queue[j].suffix) + 1
    <3>1. /\ Len(st.found[k].path) <= L + 1 /\ L <= Len(st.queue[j].suffix)
          /\ Len(st.queue[j].suffix) \in Nat /\ Len(st.found[k].path) \in Nat
      BY <1>3, <1>4, <2>2 DEF LengthsOK
    <3> DEFINE a == Len(st.queue[j].suffix)
               b == Len(st.found[k].path)
    <3>2. a \in Nat /\ b \in Nat /\ b <= L + 1 /\ L <= a BY <3>1
    <3> HIDE DEF a, b
    <3>3. b <= a + 1 BY <1>1, <3>2
    <3> QED BY <3>3 DEF a, b
  <2>5. Done(edges, s, st, item.type, L)
    <3> SUFFICES ASSUME NEW x \in edges, Passable(s, x), x.target = item.type,
                        At(edges, s, x.source, L + 1)
                 PROVE  Covered(s, st, x.source, L + 1)
      BY DEF Done
    <3> DEFINE type == item.type
               R == RowsInto(s, edges, type, uses, seen)
               row == Row(x, uses, seen)
    <3>1. x \in EdgesInto(s, edges, type) BY DEF EdgesInto, Passable
    <3>2. row \in R BY <3>1 DEF RowsInto
    <3>3. Cardinality(EdgesInto(s, edges, type)) <= IncomingLimit
          /\ Cardinality(EdgesInto(s, edges, type)) <= CandidateLimit
      BY <1>1 DEF NoLimitBites
    <3>4. row.source = x.source /\ row.kind = x.kind /\ row.static = x.static BY DEF Row
    <3>5. rows = Incoming(s, edges, type, uses, seen) OBVIOUS
    <3> HIDE DEF row, type
    <3>6. \A r \in R : \E k \in 1..Len(rows) : rows[k] = r BY <3>3, <3>5, IncomingRows
    <3>7. PICK k \in 1..Len(rows) : rows[k] = row BY <3>2, <3>6
    <3>8. Passable(s, row) BY <3>4 DEF Passable
    <3> QED BY <1>3, <1>7, <3>4, <3>7, <3>8 DEF RowsDone, L
  <2>6. ASSUME NEW v \in Types, NEW d \in 0..s.depth, d < s.depth, At(edges, s, v, d),
               st.visits[v] >= 1
        PROVE  Queued(st, v, d) \/ Done(edges, s, st, v, d)
    BY <1>3, <2>5, <2>6 DEF PendingOK, L
  <2> QED BY <2>1, <2>3, <2>4, <2>6 DEF InOrder
<1> QED BY <1>6, <1>7 DEF NearestInv

\* A turn of the while loop keeps the order, and expands one item.
LEMMA TurnKeeps ==
  ASSUME NEW edges, IsGraph(edges), NEW s, IsSearch(s), NEW uses, NEW seen,
         IsEvidence(uses, seen), NoLimitBites(edges, s),
         NEW st, StateOK(edges, s, st), NearestInv(edges, s, st)
  PROVE  /\ NearestInv(edges, s, Turn(s, edges, uses, seen, st))
         /\ ~Goes(s, st) => Turn(s, edges, uses, seen, st) = st
         /\ Goes(s, st) => Turn(s, edges, uses, seen, st).expanded = st.expanded + 1
PROOF
<1>1. CASE ~Goes(s, st) BY <1>1 DEF Turn
<1>2. CASE Goes(s, st)
  <2> DEFINE item == Head(st.queue)
             rows == Incoming(s, edges, item.type, uses, seen)
             p == Popped(st)
             r == VisitAll(s, item, p, rows)
  <2>1. st.queue # <<>> /\ Len(st.found) < s.paths BY <1>2 DEF Goes
  <2>2. Len(st.found) \in Nat /\ s.paths \in Nat BY StateTyped DEF StateOK, IsSearch
  <2>3. InOrder(edges, s, st) BY <2>1, <2>2 DEF NearestInv, Full
  <2>4. /\ item \in ItemSet /\ IsItem(edges, s, item) /\ StateOK(edges, s, p)
        /\ Expand(s, edges, uses, seen, st) = r
    BY <2>1, ExpandIs
  <2>5. Len(rows) \in Nat /\ \A k \in 1..Len(rows) : IsRowInto(edges, item, rows[k])
    BY IncomingAreRows
  <2> HIDE DEF rows
  <2>6. RowsOK(edges, s, item, rows, 0, p) BY <2>1, <2>3, PoppedIsReady
  <2>7. p.expanded = st.expanded + 1 BY DEF Popped
  <2> HIDE DEF item, p
  <2>8. /\ RowsOK(edges, s, item, rows, Len(rows), r) /\ r.expanded = p.expanded
        /\ StateOK(edges, s, r)
    BY <2>4, <2>5, <2>6, VisitAllKeeps
  <2> HIDE DEF r
  <2>9. NearestInv(edges, s, r) BY <2>4, <2>8, RowsEnd DEF rows
  <2>10. Turn(s, edges, uses, seen, st) = r BY <1>2, <2>4 DEF Turn
  <2> QED BY <1>2, <2>7, <2>8, <2>9, <2>10
<1> QED BY <1>1, <1>2

\* A search starts in order.
LEMMA StartInOrder ==
  ASSUME NEW edges, IsGraph(edges), NEW s, IsSearch(s)
  PROVE  NearestInv(edges, s, Start(s))
PROOF
<1> DEFINE st == Start(s)
           first == [type |-> s.target, suffix |-> <<>>, visited |-> {s.target}]
<1>1. /\ StateOK(edges, s, st)
      /\ \A k \in 1..Len(st.found) : st.found[k].path = <<>>
      /\ \A i \in RootsOf(s, s.target) :
            Len(st.found) >= s.paths \/ \E k \in 1..Len(st.found) : st.found[k].root = i
  BY StartOK
<1>2. st.queue = <<first>> /\ st.visits = [t \in Types |-> IF t = s.target THEN 1 ELSE 0]
  BY DEF Start
<1>3. Len(st.found) \in Nat BY <1>1, StateTyped DEF StateOK
<1>4. /\ Len(<<>>) = 0 /\ s.target \in Types /\ s.depth \in Nat \ {0} /\ s.paths \in Nat
      /\ 0 \in 0..s.depth
  BY EmptySeq DEF IsSearch
<1> HIDE DEF st
<1>5. /\ Len(st.queue) = 1 /\ st.queue[1] = first
      /\ first.type = s.target /\ first.suffix = <<>>
  BY <1>2
<1> HIDE DEF first
<1>6. \A k \in 1..Len(st.found) : Len(st.found[k].path) = 0 BY <1>1, <1>4
<1>7. ASSUME Full(s, st) PROVE AllSettled(edges, s, st.found)
  <2> SUFFICES ASSUME NEW i \in 1..Len(s.roots), NEW d \in 0..s.depth
               PROVE  Settled(s, st.found, i, d)
    BY DEF AllSettled
  <2>1. 0 <= d BY <1>4
  <2> QED BY <1>6, <1>7, <2>1 DEF Settled, Full
<1>8. ASSUME ~Full(s, st) PROVE InOrder(edges, s, st)
  <2>1. Covered(s, st, s.target, 0)
    <3>1. \A i \in RootsOf(s, s.target) : HasPath(st.found, i, 0)
      BY <1>1, <1>6, <1>8 DEF Full, HasPath
    <3>2. st.visits[s.target] = 1 BY <1>2, <1>4
    <3> QED BY <3>1, <3>2 DEF Covered
  <2>2. \A k \in 1..Len(st.queue) : k = 1 BY <1>5
  <2>3. \A k \in 1..Len(st.queue) : Len(st.queue[k].suffix) = 0 BY <1>4, <1>5, <2>2
  <2>4. ASSUME NEW v \in Types, NEW d \in 0..s.depth, At(edges, s, v, d), st.visits[v] >= 1
        PROVE  Queued(st, v, d)
    <3>1. v = s.target BY <1>2, <2>4
    <3>2. v \in Within(edges, s)[0] BY <3>1, WithinGives
    <3> DEFINE m == 0
    <3>3. m \in 0..s.depth /\ v \in Within(edges, s)[m] BY <1>4, <3>2
    <3> HIDE DEF m
    <3>4. d \in Nat /\ d <= m BY <2>4, <3>3, AtIsLeast
    <3>5. d = 0 BY <3>4 DEF m
    <3> QED BY <1>4, <1>5, <3>1, <3>5 DEF Queued
  <2>5. 0 <= 0 /\ 0 <= 0 + 1 OBVIOUS
  <2> QED BY <1>6, <2>1, <2>3, <2>4, <2>5 DEF InOrder
<1> QED BY <1>7, <1>8 DEF NearestInv, st

\* The loop ends, and unless it was cut off every root is settled.
LEMMA LoopSettles ==
  ASSUME NEW edges, IsGraph(edges), NEW s, IsSearch(s), NEW uses, NEW seen,
         IsEvidence(uses, seen), NoLimitBites(edges, s), NEW st,
         st = Loop(s, edges, uses, seen), ~(st.queue # <<>> /\ st.expanded >= ExpansionLimit)
  PROVE  AllSettled(edges, s, st.found)
PROOF
<1> DEFINE N == ExpansionLimit
<1>1. N \in Nat BY LimitsOK
<1>2. PICK g : IsLoopRun(edges, s, uses, seen, g) BY LoopRuns
<1>3. /\ g[0] = Start(s) /\ st = g[N] /\ \A k \in 0..N : StateOK(edges, s, g[k])
      /\ \A k \in 1..N : g[k] = Turn(s, edges, uses, seen, g[k - 1])
  BY <1>2 DEF IsLoopRun
<1> DEFINE D == {k \in 0..N : /\ NearestInv(edges, s, g[k])
                              /\ Goes(s, g[k]) => g[k].expanded = k}
<1> HIDE DEF N
<1>4. 0 \in D
  <2>1. Start(s).expanded = 0 BY DEF Start
  <2> QED BY <1>1, <1>3, <2>1, StartInOrder
<1>5. ASSUME NEW k \in 1..N, k - 1 \in D PROVE k \in D
  <2> DEFINE x == g[k - 1]
             y == g[k]
  <2>1. /\ NearestInv(edges, s, x) /\ (Goes(s, x) => x.expanded = k - 1)
        /\ StateOK(edges, s, x) /\ y = Turn(s, edges, uses, seen, x)
    BY <1>3, <1>5
  <2> HIDE DEF x, y
  <2>2. /\ NearestInv(edges, s, y) /\ (~Goes(s, x) => y = x)
        /\ (Goes(s, x) => y.expanded = x.expanded + 1)
    BY <2>1, TurnKeeps
  <2>3. Goes(s, y) => y.expanded = k BY <2>1, <2>2
  <2> QED BY <1>1, <2>2, <2>3 DEF y
<1> HIDE DEF D
<1>6. \A k \in 0..N : k \in D BY <1>1, <1>4, <1>5, UpTo
<1>7. N \in D /\ N \in 0..N BY <1>1, <1>6
<1>8. NearestInv(edges, s, st) /\ (Goes(s, st) => st.expanded = N) /\ StateOK(edges, s, st)
  BY <1>3, <1>7 DEF D
<1>9. ~Goes(s, st) BY <1>1, <1>8 DEF Goes, N
<1>10. Len(st.found) \in Nat /\ s.paths \in Nat /\ s.depth \in Nat /\ st.expanded \in Nat
  BY <1>8, StateTyped DEF StateOK, IsSearch
<1>11. Full(s, st) \/ st.queue = <<>> BY <1>1, <1>9, <1>10 DEF Goes, Full, N
<1>12. CASE Full(s, st) BY <1>8, <1>12 DEF NearestInv
<1>13. CASE ~Full(s, st) /\ st.queue = <<>>
  <2> DEFINE n == s.depth
  <2>1. InOrder(edges, s, st) BY <1>8, <1>13 DEF NearestInv
  <2>2. \A k \in 1..Len(st.queue) : n <= Len(st.queue[k].suffix) BY <1>13, EmptySeq
  <2>3. n \in 0..s.depth BY <1>10
  <2> HIDE DEF n
  <2>4. \A v \in Types, d \in 0..n : At(edges, s, v, d) => Covered(s, st, v, d)
    BY <1>8, <2>1, <2>2, <2>3, NearerAreCovered
  <2> SUFFICES ASSUME NEW i \in 1..Len(s.roots), NEW d \in 0..s.depth,
                      At(edges, s, s.roots[i].type, d)
               PROVE  Settled(s, st.found, i, d)
    BY DEF AllSettled
  <2>5. s.roots[i].type \in Types
    <3>1. s.roots[i].type \in Within(edges, s)[d] BY DEF At
    <3>2. Within(edges, s) \in [0..s.depth -> SUBSET Types] BY WithinGives
    <3> QED BY <3>1, <3>2
  <2>6. Covered(s, st, s.roots[i].type, d) BY <2>4, <2>5 DEF n
  <2>7. i \in RootsOf(s, s.roots[i].type) BY DEF RootsOf, IsSearch
  <2>8. HasPath(st.found, i, d) BY <2>6, <2>7 DEF Covered
  <2> QED BY <2>8 DEF Settled
<1> QED BY <1>11, <1>12, <1>13

-----------------------------------------------------------------------------
(* What a search returns *)

ResultSet == [found : Seq(FoundSet), truncated : BOOLEAN]

\* No more paths than wanted, each of them a path of a root, none twice, and
\* the nearest roots are among them unless the search was cut off.
ResultOK(g, s, result) ==
  /\ result \in ResultSet /\ Len(result.found) <= s.paths
  /\ AreDistinct(result.found) /\ AreFound(g, s, result.found)
  /\ NoLimitBites(g, s) /\ ~result.truncated => AllSettled(g, s, result.found)

\* Ordering what was found by its cost keeps it.
LEMMA OutcomeOK ==
  ASSUME NEW g, NEW s, NEW st, StateOK(g, s, st),
         NoLimitBites(g, s) /\ ~(st.queue # <<>> /\ st.expanded >= ExpansionLimit)
            => AllSettled(g, s, st.found)
  PROVE  ResultOK(g, s, Outcome(st))
PROOF
<1> DEFINE rank(f) == <<PathCost(f.path), f.root>>
           old == st.found
           key == [k \in DOMAIN old |-> rank(old[k])]
           new == Sorted(old, key)
           cut == st.queue # <<>> /\ st.expanded >= ExpansionLimit
<1>1. Outcome(st) = [found |-> new, truncated |-> cut] BY DEF Outcome
<1>2. /\ old \in Seq(FoundSet) /\ Len(old) <= s.paths /\ AreDistinct(old) /\ AreFound(g, s, old)
      /\ Len(old) \in Nat
  BY StateTyped DEF StateOK
<1>3. NoLimitBites(g, s) /\ ~cut => AllSettled(g, s, old) OBVIOUS
<1> HIDE DEF key, cut, old
<1>4. Reorders(new, old) BY <1>2, SortedReorders
<1> HIDE DEF new
<1>5. /\ new \in Seq(FoundSet) /\ Len(new) = Len(old)
      /\ \A j \in 1..Len(old) : \E k \in 1..Len(old) : new[k] = old[j]
  <2>1. old \in Seq(FoundSet) /\ Reorders(new, old) BY <1>2, <1>4
  <2> QED BY <2>1, ReordersGives
<1>6. PICK p : Arranges(p, Len(old)) /\ new = [k \in 1..Len(old) |-> old[p[k]]]
  BY <1>4 DEF Reorders
<1>7. \A k \in 1..Len(old) : p[k] \in 1..Len(old) /\ new[k] = old[p[k]]
  BY <1>2, <1>6, ElementOfSeq DEF Arranges
<1>8. AreDistinct(new)
  <2>1. \A j, k \in 1..Len(old) : p[j] = p[k] => j = k BY <1>6 DEF Arranges
  <2>2. ASSUME NEW j \in 1..Len(old), NEW k \in 1..Len(old), j # k
        PROVE  ~(new[j].root = new[k].root /\ PathKey(new[j].path) = PathKey(new[k].path))
    <3>1. p[j] # p[k] /\ p[j] \in 1..Len(old) /\ p[k] \in 1..Len(old) BY <1>7, <2>1, <2>2
    <3>2. ~(old[p[j]].root = old[p[k]].root /\ PathKey(old[p[j]].path) = PathKey(old[p[k]].path))
      BY <1>2, <3>1 DEF AreDistinct
    <3> QED BY <1>7, <3>2
  <2> QED BY <1>5, <2>2 DEF AreDistinct
<1>9. AreFound(g, s, new) BY <1>2, <1>5, <1>7 DEF AreFound
<1>10. Outcome(st) \in ResultSet BY <1>1, <1>5 DEF ResultSet, cut
<1>11. Outcome(st).found = new /\ Outcome(st).truncated = cut BY <1>1
<1>12. ASSUME AllSettled(g, s, old) PROVE AllSettled(g, s, new)
  <2>1. \A i, d : HasPath(old, i, d) => HasPath(new, i, d) BY <1>5 DEF HasPath
  <2>2. \A d : (\A k \in 1..Len(old) : Len(old[k].path) <= d)
                  => \A k \in 1..Len(new) : Len(new[k].path) <= d
    BY <1>5, <1>7
  <2>3. \A i, d : Settled(s, old, i, d) => Settled(s, new, i, d)
    BY <1>5, <2>1, <2>2 DEF Settled
  <2> QED BY <1>12, <2>3 DEF AllSettled
<1> QED BY <1>2, <1>5, <1>8, <1>9, <1>10, <1>11, <1>3, <1>12 DEF ResultOK

\* A search returns what it should, whatever the evidence is.
LEMMA ReverseBfsOK ==
  ASSUME NEW g, IsGraph(g), NEW s, IsSearch(s), NEW u, NEW w, IsEvidence(u, w)
  PROVE  ResultOK(g, s, ReverseBfs(s, g, u, w))
PROOF
<1> DEFINE st == Loop(s, g, u, w)
<1>1. StateOK(g, s, st)
  <2>1. PICK run : IsLoopRun(g, s, u, w, run) BY LoopRuns
  <2>2. ExpansionLimit \in 0..ExpansionLimit BY LimitsOK
  <2> QED BY <2>1, <2>2 DEF IsLoopRun
<1>2. ReverseBfs(s, g, u, w) = Outcome(st) BY DEF ReverseBfs
<1>3. NoLimitBites(g, s) /\ ~(st.queue # <<>> /\ st.expanded >= ExpansionLimit)
         => AllSettled(g, s, st.found)
  BY LoopSettles
<1> HIDE DEF st
<1> QED BY <1>1, <1>2, <1>3, OutcomeOK

-----------------------------------------------------------------------------
(* What the planner keeps *)

Refs == {None} \cup {x.ref : x \in LiveItems}

RootSet == [type : Types, kind : RootKinds, ref : Refs, confidence : Nat, verified : BOOLEAN]

SearchSet ==
  [roots : Seq(RootSet), target : Types, depth : Nat \ {0}, paths : Nat \ {0},
   getters : BOOLEAN, statics : BOOLEAN, usage : BOOLEAN]

\* An entry of the cache holds what the search of its key may return.
EntrySet(g) ==
  {x \in [key : SearchSet, result : ResultSet] : ResultOK(g, x.key, x.result)}

\* What the steps of the tool keep true of its state.
StateInv ==
  /\ graph \in Graphs
  /\ usage \in [Members -> Nat] /\ runtime \in [Members -> Nat]
  /\ hints \in [Types -> Nat] /\ live \in Seq(LiveItems)
  /\ cache \in Seq(EntrySet(graph))

\* A search of the planner is one.
LEMMA SearchSetIsSearch ==
  ASSUME NEW s \in SearchSet
  PROVE  IsSearch(s) /\ s.roots \in Seq(RootSet)
PROOF
<1>1. s.roots \in Seq(RootSet) /\ s.target \in Types /\ s.depth \in Nat \ {0} /\ s.paths \in Nat \ {0}
  BY DEF SearchSet
<1>2. Len(s.roots) \in Nat /\ DOMAIN s.roots = 1..Len(s.roots) BY <1>1, LenProperties
<1> QED BY <1>1, <1>2 DEF IsSearch

\* The graphs of the snapshots are graphs, whose steps have the members they use.
LEMMA GraphsAreGraphs ==
  ASSUME NEW g \in Graphs
  PROVE  /\ IsGraph(g)
         /\ \A e \in g : e.kind \notin {"INHERITS", "GENERIC_ARGUMENT"} => e.member # None
PROOF
<1> QED BY ConstantsOK DEF GraphsOK, IsGraph

\* A lookup in the cache returns what its search may return, and keeps it so.
LEMMA RootedPathsOK ==
  ASSUME StateInv, NEW entries \in Seq(EntrySet(graph)), NEW s \in SearchSet
  PROVE  /\ RootedPaths(entries, s).cache \in Seq(EntrySet(graph))
         /\ ResultOK(graph, s, RootedPaths(entries, s).result)
PROOF
<1> DEFINE E == EntrySet(graph)
           hits == {i \in DOMAIN entries : entries[i].key = Key(s)}
           fresh == ReverseBfs(s, graph, usage, runtime)
<1>1. IsGraph(graph) /\ IsEvidence(usage, runtime) /\ IsSearch(s)
  BY GraphsAreGraphs, SearchSetIsSearch DEF StateInv, IsEvidence
<1>2. ResultOK(graph, s, fresh) BY <1>1, ReverseBfsOK
<1> HIDE DEF fresh
<1>3. \A x \in E : x.key \in SearchSet /\ ResultOK(graph, x.key, x.result) BY DEF EntrySet
<1>4. [key |-> s, result |-> fresh] \in E BY <1>2 DEF EntrySet, ResultOK
<1>5. entries \in Seq(E) OBVIOUS
<1> HIDE DEF E
<1>6. CASE hits # {}
  <2> DEFINE i == CHOOSE j \in hits : TRUE
  <2>1. i \in hits BY <1>6
  <2>2. RootedPaths(entries, s) = [cache |-> entries, result |-> entries[i].result]
    BY <1>6 DEF RootedPaths
  <2> HIDE DEF i
  <2>3. entries[i].key = s /\ entries[i] \in E BY <1>5, <2>1, ElementOfSeq, LenProperties DEF Key
  <2>4. ResultOK(graph, s, entries[i].result) BY <1>3, <2>3
  <2> QED BY <1>5, <2>2, <2>4 DEF E
<1>7. CASE hits = {}
  <2> DEFINE room == IF Len(entries) >= CacheEntries THEN Tail(entries) ELSE entries
             new == [key |-> s, result |-> fresh]
  <2>1. room \in Seq(E)
    <3>1. CASE Len(entries) >= CacheEntries
      <4>1. CacheEntries \in Nat \ {0} BY ConstantsOK
      <4>2. Len(entries) # 0 BY <1>5, <3>1, <4>1, LenProperties
      <4>3. entries # <<>> BY <4>2, EmptySeq
      <4> QED BY <1>5, <3>1, <4>3, HeadTailProperties
    <3>2. CASE ~(Len(entries) >= CacheEntries) BY <1>5, <3>2
    <3> QED BY <3>1, <3>2
  <2>2. RootedPaths(entries, s) = [cache |-> Append(room, new), result |-> fresh]
    BY <1>7 DEF RootedPaths, Remembered, Key, fresh
  <2> HIDE DEF room, new
  <2>3. Append(room, new) \in Seq(E) BY <1>4, <2>1, AppendProperties DEF new
  <2> QED BY <1>2, <2>2, <2>3 DEF E
<1> QED BY <1>6, <1>7

-----------------------------------------------------------------------------
(* Roots *)

\* The kinds of roots.
LEMMA FourKinds ==
  RootKinds = {"hook_this", "managed_singleton", "provided_object", "static_type"}
PROOF
<1>1. DOMAIN KindOrder = {1, 2, 3, 4} BY DEF KindOrder
<1> QED BY <1>1 DEF RootKinds, KindOrder

\* A root of a list is one; so are those of what is sorted, chosen or cut from it.
LEMMA EligibleTyped ==
  ASSUME StateInv, NEW q \in Questions
  PROVE  Eligible(q) \in Seq(RootSet)
PROOF
<1>0. q \in QuestionSet BY ConstantsOK
<1>1. ASSUME NEW t \in Types, NEW kind \in RootKinds, NEW ref \in Refs, NEW c \in Nat, NEW v \in BOOLEAN
      PROVE  Root(t, kind, ref, c, v) \in RootSet
  BY DEF Root, RootSet
<1>2. None \in Refs /\ \A x \in LiveItems : x.type \in Types /\ x.ref \in Refs
  BY ConstantsOK DEF Refs
<1>3. Given(q.roots) \in Seq(RootSet)
  <2>1. q.roots \in Seq(Types) BY <1>0 DEF QuestionSet
  <2>2. Len(q.roots) \in Nat /\ DOMAIN q.roots = 1..Len(q.roots)
        /\ \A i \in 1..Len(q.roots) : q.roots[i] \in Types
    BY <2>1, LenProperties, ElementOfSeq
  <2> DEFINE r(t) == Root(t, IF hints[t] > 0 THEN "managed_singleton" ELSE "static_type",
                          None, 80, FALSE)
  <2>3. ASSUME NEW t \in Types PROVE r(t) \in RootSet
    <3> DEFINE kind == IF hints[t] > 0 THEN "managed_singleton" ELSE "static_type"
    <3>1. kind \in RootKinds /\ 80 \in Nat BY FourKinds
    <3> HIDE DEF kind
    <3>2. Root(t, kind, None, 80, FALSE) \in RootSet BY <1>1, <1>2, <3>1
    <3> QED BY <3>2 DEF kind
  <2>4. Given(q.roots) = [i \in 1..Len(q.roots) |-> r(q.roots[i])] BY <2>2 DEF Given
  <2> HIDE DEF r
  <2>5. Given(q.roots) \in [1..Len(q.roots) -> RootSet] BY <2>2, <2>3, <2>4
  <2> QED BY <2>2, <2>5, SeqDef
<1> DEFINE items == Chosen(live, {i \in DOMAIN live : q.hooks \/ live[i].node # "hook"})
           a == [i \in DOMAIN items |-> LiveRoot(items[i])]
           b == IF q.current THEN <<>> ELSE HintRoots
           all == a \o b
           found == Deduplicated(all)
           place(r) == <<-r.confidence, r.type, KindNumber(r.kind)>>
           sorted == Sorted(found, [i \in DOMAIN found |-> place(found[i])])
<1>4. a \in Seq(RootSet)
  <2>1. items \in Seq(LiveItems) BY ChosenGives DEF StateInv
  <2> HIDE DEF items
  <2>2. Len(items) \in Nat /\ DOMAIN items = 1..Len(items)
        /\ \A i \in 1..Len(items) : items[i] \in LiveItems
    BY <2>1, LenProperties, ElementOfSeq
  <2>3. ASSUME NEW x \in LiveItems PROVE LiveRoot(x) \in RootSet
    <3>1. x.type \in Types /\ x.ref \in Refs /\ None \in Refs BY <1>2
    <3>2. Root(x.type, "managed_singleton", None, 98, TRUE) \in RootSet BY <1>1, <3>1, FourKinds
    <3>3. Root(x.type, "hook_this", x.ref, 92, TRUE) \in RootSet BY <1>1, <3>1, FourKinds
    <3>4. Root(x.type, "provided_object", x.ref, 92, TRUE) \in RootSet BY <1>1, <3>1, FourKinds
    <3> QED BY <3>2, <3>3, <3>4 DEF LiveRoot
  <2>4. a \in [1..Len(items) -> RootSet] BY <2>2, <2>3
  <2> QED BY <2>2, <2>4, SeqDef
<1>5. b \in Seq(RootSet)
  <2> DEFINE H == {t \in Types : hints[t] > 0}
             hinted == SetToSeq(H)
             types == Sorted(hinted, [i \in DOMAIN hinted |-> <<-hints[hinted[i]], hinted[i]>>])
             r(t) == Root(t, "managed_singleton", None, AtMost(62 + 5 * hints[t], 90), FALSE)
  <2>1. H \in SUBSET Types OBVIOUS
  <2> HIDE DEF H
  <2>2. IsFiniteSet(H) BY <2>1, LimitsOK, FS_Subset
  <2>3. hinted \in Seq(H) BY <2>2, ListedSet
  <2> HIDE DEF hinted
  <2>4. Reorders(types, hinted) BY <2>3, SortedReorders
  <2> HIDE DEF types
  <2>5. types \in Seq(H) BY <2>3, <2>4, ReordersGives
  <2>6. Len(types) \in Nat /\ DOMAIN types = 1..Len(types)
        /\ \A i \in 1..Len(types) : types[i] \in Types
    BY <2>1, <2>5, LenProperties, ElementOfSeq
  <2>7. \A t \in Types : r(t) \in RootSet
    <3> SUFFICES ASSUME NEW t \in Types PROVE r(t) \in RootSet OBVIOUS
    <3> DEFINE c == AtMost(62 + 5 * hints[t], 90)
    <3>1. hints[t] \in Nat BY DEF StateInv
    <3>2. c \in Nat BY <3>1 DEF AtMost
    <3> HIDE DEF c
    <3>3. Root(t, "managed_singleton", None, c, FALSE) \in RootSet
      BY <1>1, <1>2, <3>2, FourKinds
    <3> QED BY <3>3 DEF c
  <2>8. HintRoots = [i \in 1..Len(types) |-> r(types[i])] BY <2>6 DEF HintRoots, types, hinted, H
  <2> HIDE DEF r
  <2>9. HintRoots \in [1..Len(types) -> RootSet] BY <2>6, <2>7, <2>8
  <2>10. HintRoots \in Seq(RootSet) BY <2>6, <2>9, SeqDef
  <2> QED BY <2>10, EmptySeq
<1> HIDE DEF a, b
<1>6. all \in Seq(RootSet) BY <1>4, <1>5, ConcatProperties
<1> HIDE DEF all
<1>7. found \in Seq(RootSet) BY <1>6, ChosenGives DEF Deduplicated
<1> HIDE DEF found
<1>8. Reorders(sorted, found) BY <1>7, SortedReorders
<1> HIDE DEF sorted
<1>9. sorted \in Seq(RootSet) BY <1>7, <1>8, ReordersGives
<1>10. Take(sorted, RootLimit) \in Seq(RootSet)
  <2>1. RootLimit \in Nat BY LimitsOK
  <2> QED BY <1>9, <2>1, TakeGives
<1>11. RootCandidates(q) = IF q.roots # <<>> THEN Given(q.roots) ELSE Take(sorted, RootLimit)
  BY DEF RootCandidates, sorted, found, all, a, b
<1>12. RootCandidates(q) \in Seq(RootSet) BY <1>3, <1>10, <1>11
<1> QED BY <1>12, ChosenGives DEF Eligible

\* The two kinds of search the planner makes.
LEMMA SearchesTyped ==
  ASSUME NEW q \in Questions, NEW roots \in Seq(RootSet)
  PROVE  /\ MainSearch(q, roots) \in SearchSet
         /\ \A type \in Types : ArgumentSearch(q, roots, type) \in SearchSet
PROOF
<1>1. q \in QuestionSet BY ConstantsOK
<1>2. /\ q.target \in Types /\ q.depth \in Int /\ q.paths \in Int /\ q.getters \in BOOLEAN
      /\ q.statics \in BOOLEAN /\ q.usage \in BOOLEAN
  BY <1>1 DEF QuestionSet
<1>3. \A n \in Int : Clamp(n, 1, 10) \in Nat \ {0} /\ Clamp(n, 1, 50) \in Nat \ {0}
                     /\ Clamp(n, 1, 8) \in Nat \ {0}
  BY DEF Clamp, AtMost
<1>4. Take(roots, 30) \in Seq(RootSet)
  <2>1. 30 \in Nat OBVIOUS
  <2> QED BY <2>1, TakeGives
<1>5. MainSearch(q, roots) \in SearchSet BY <1>2, <1>3 DEF MainSearch, SearchSet
<1>6. ASSUME NEW type \in Types PROVE ArgumentSearch(q, roots, type) \in SearchSet
  <2> DEFINE some == Take(roots, 30)
             depth == Clamp(q.depth, 1, 8)
  <2>1. some \in Seq(RootSet) /\ depth \in Nat \ {0} BY <1>2, <1>3, <1>4
  <2> HIDE DEF some, depth
  <2>2. [roots |-> some, target |-> type, depth |-> depth, paths |-> 1, getters |-> TRUE,
         statics |-> TRUE, usage |-> TRUE] \in SearchSet
    BY <2>1 DEF SearchSet
  <2> QED BY <2>2 DEF ArgumentSearch, some, depth
<1> QED BY <1>5, <1>6

-----------------------------------------------------------------------------
(* Nodes *)

NodePrefixes == {"root", "step", "arg", "arg_root", "arg_step", "target"}
ArgumentPrefixes == {"arg", "arg_root", "arg_step"}
IdSet == NodePrefixes \X Nat \X Nat

Operations ==
  {"resolve_root", "read_field", "read_property", "call_method", "call_static", "cast",
   "iterate", "bind_constant", "construct_list", "construct_object"}

NodeSet ==
  [id : IdSet, op : Operations, inputs : Seq(IdSet), arguments : Seq(IdSet), type : Types,
   member : Members \cup {None}, placeholder : BOOLEAN, evidence : Seq(Nat)]

\* What a node needs by itself, and which ones are left open.
NodeOK(n) ==
  /\ n.op \in {"read_field", "read_property", "call_method", "call_static"} => n.member # None
  /\ n.op \in {"read_field", "read_property", "call_method", "cast", "iterate"} => n.inputs # <<>>
  /\ n.placeholder <=> n.op \in {"bind_constant", "construct_object"}

\* A node before place i has the name x.
IsEarlier(nodes, i, x) == \E k \in 1..(i - 1) : nodes[k].id = x

\* Nodes with names of their own, each behind those it uses.
IsWhole(nodes) ==
  /\ nodes \in Seq(NodeSet)
  /\ \A j, k \in 1..Len(nodes) : nodes[j].id = nodes[k].id => j = k
  /\ \A k \in 1..Len(nodes) :
        /\ NodeOK(nodes[k])
        /\ \A x \in Range(nodes[k].inputs) \cup Range(nodes[k].arguments) : IsEarlier(nodes, k, x)

\* Nodes of one part of a plan: the names tell the part, none takes arguments.
ArePart(nodes, prefixes, numbers) ==
  \A k \in 1..Len(nodes) : /\ nodes[k].id[1] \in prefixes /\ nodes[k].id[2] \in numbers
                           /\ nodes[k].arguments = <<>>

\* Whole parts with different names make a whole.
LEMMA WholeJoined ==
  ASSUME NEW a, IsWhole(a), NEW b, IsWhole(b),
         \A j \in 1..Len(a), k \in 1..Len(b) : a[j].id # b[k].id
  PROVE  /\ IsWhole(a \o b) /\ Len(a \o b) = Len(a) + Len(b)
         /\ \A k \in 1..Len(a) : (a \o b)[k] = a[k]
         /\ \A k \in 1..Len(b) : (a \o b)[Len(a) + k] = b[k]
         /\ \A k \in 1..Len(a \o b) :
               \/ k \in 1..Len(a) /\ (a \o b)[k] = a[k]
               \/ k - Len(a) \in 1..Len(b) /\ (a \o b)[k] = b[k - Len(a)]
PROOF
<1> DEFINE c == a \o b
           m == Len(a)
           n == Len(b)
<1>1. /\ a \in Seq(NodeSet) /\ b \in Seq(NodeSet) /\ m \in Nat /\ n \in Nat
      /\ \A j, k \in 1..m : a[j].id = a[k].id => j = k
      /\ \A j, k \in 1..n : b[j].id = b[k].id => j = k
      /\ \A j \in 1..m, k \in 1..n : a[j].id # b[k].id
  BY LenProperties DEF IsWhole
<1>2. /\ c \in Seq(NodeSet) /\ Len(c) = m + n
      /\ \A k \in 1..m + n : c[k] = IF k <= m THEN a[k] ELSE b[k - m]
  BY <1>1, ConcatProperties
<1>3. \A k \in 1..m : NodeOK(a[k]) /\ \A x \in Range(a[k].inputs) \cup Range(a[k].arguments) :
                                         IsEarlier(a, k, x)
  BY DEF IsWhole
<1>4. \A k \in 1..n : NodeOK(b[k]) /\ \A x \in Range(b[k].inputs) \cup Range(b[k].arguments) :
                                         IsEarlier(b, k, x)
  BY DEF IsWhole
<1> HIDE DEF c, m, n
<1>5. \A k \in 1..m : k \in 1..m + n /\ c[k] = a[k] BY <1>1, <1>2
<1>6. \A k \in 1..n : m + k \in 1..m + n /\ c[m + k] = b[k]
  <2> SUFFICES ASSUME NEW k \in 1..n PROVE m + k \in 1..m + n /\ c[m + k] = b[k] OBVIOUS
  <2> DEFINE l == m + k
  <2>1. l \in 1..m + n /\ ~(l <= m) /\ l - m = k BY <1>1
  <2> HIDE DEF l
  <2>2. l \in 1..m + n /\ c[l] = b[k] BY <1>2, <2>1
  <2> QED BY <2>2 DEF l
<1>7. ASSUME NEW k \in 1..m + n
      PROVE  (k \in 1..m /\ c[k] = a[k]) \/ (k - m \in 1..n /\ c[k] = b[k - m])
  <2>1. k \in 1..m \/ (k - m \in 1..n /\ ~(k <= m)) BY <1>1
  <2> QED BY <1>2, <1>5, <2>1
<1>8. ASSUME NEW j \in 1..m + n, NEW k \in 1..m + n, c[j].id = c[k].id PROVE j = k
  <2>1. CASE j \in 1..m /\ k \in 1..m BY <1>1, <1>5, <1>8, <2>1
  <2>2. CASE j - m \in 1..n /\ c[j] = b[j - m] /\ k - m \in 1..n /\ c[k] = b[k - m]
    <3>1. j - m = k - m BY <1>1, <1>8, <2>2
    <3> QED BY <1>1, <3>1
  <2>3. CASE j \in 1..m /\ k - m \in 1..n /\ c[k] = b[k - m] BY <1>1, <1>5, <1>8, <2>3
  <2>4. CASE k \in 1..m /\ j - m \in 1..n /\ c[j] = b[j - m] BY <1>1, <1>5, <1>8, <2>4
  <2> QED BY <1>7, <2>1, <2>2, <2>3, <2>4
<1>9. ASSUME NEW k \in 1..m + n
      PROVE  /\ NodeOK(c[k])
             /\ \A x \in Range(c[k].inputs) \cup Range(c[k].arguments) : IsEarlier(c, k, x)
  <2>1. CASE k \in 1..m /\ c[k] = a[k]
    <3>1. ASSUME NEW x, IsEarlier(a, k, x) PROVE IsEarlier(c, k, x)
      <4>1. PICK i \in 1..(k - 1) : a[i].id = x BY <3>1 DEF IsEarlier
      <4>2. i \in 1..m BY <1>1, <2>1
      <4> QED BY <1>5, <4>1, <4>2 DEF IsEarlier
    <3> QED BY <1>3, <2>1, <3>1
  <2>2. CASE k - m \in 1..n /\ c[k] = b[k - m]
    <3>1. ASSUME NEW x, IsEarlier(b, k - m, x) PROVE IsEarlier(c, k, x)
      <4>1. PICK i \in 1..(k - m - 1) : b[i].id = x BY <3>1 DEF IsEarlier
      <4>2. i \in 1..n /\ m + i \in 1..(k - 1) BY <1>1, <2>2
      <4> QED BY <1>6, <4>1, <4>2 DEF IsEarlier
    <3> QED BY <1>4, <2>2, <3>1
  <2> QED BY <1>7, <2>1, <2>2
<1>10. IsWhole(c) BY <1>2, <1>8, <1>9 DEF IsWhole
<1> QED BY <1>2, <1>5, <1>6, <1>7, <1>10 DEF c, m, n

\* A step over an edge of the graph has an operation, and a member if it uses one.
LEMMA StepsHaveMembers ==
  ASSUME NEW g \in Graphs, NEW s, NEW e \in RowSet, IsStep(g, s, e)
  PROVE  /\ Operation[e.kind] \in {"read_field", "read_property", "call_method", "cast", "iterate"}
         /\ Operation[e.kind] \in {"read_field", "read_property", "call_method"} => e.member # None
PROOF
<1>1. /\ Kinds = {"FIELD_TYPE", "PROPERTY_TYPE", "REFLECTION_PROPERTY_TYPE", "RETURN_TYPE",
                  "REFLECTION_RETURN_TYPE", "INHERITS", "GENERIC_ARGUMENT", "RSZ_CONTAINS"}
      /\ \A kind \in Kinds :
            /\ Operation[kind] \in {"read_field", "read_property", "call_method", "cast", "iterate"}
            /\ Operation[kind] \in {"read_field", "read_property", "call_method"}
                 => kind \notin {"INHERITS", "GENERIC_ARGUMENT"}
  BY DEF Kinds, Operation
<1>2. e.kind \in Kinds BY DEF RowSet
<1> DEFINE op == Operation[e.kind]
<1>3. /\ op \in {"read_field", "read_property", "call_method", "cast", "iterate"}
      /\ op \in {"read_field", "read_property", "call_method"}
           => e.kind \notin {"INHERITS", "GENERIC_ARGUMENT"}
  BY <1>1, <1>2
<1>4. PICK x \in g : x.kind = e.kind /\ x.member = e.member BY DEF IsStep
<1>5. x.kind \notin {"INHERITS", "GENERIC_ARGUMENT"} => x.member # None BY GraphsAreGraphs
<1> HIDE DEF op
<1>6. op \in {"read_field", "read_property", "call_method"} => e.member # None BY <1>3, <1>4, <1>5
<1> QED BY <1>3, <1>6 DEF op

\* The evidence of an edge is a list of confidences.
LEMMA EvidenceTyped ==
  ASSUME NEW e \in RowSet
  PROVE  PathEvidence(e) \in Seq(Nat)
PROOF
<1> DEFINE a == IF e.usage > 0 THEN <<AtMost(650 + 40 * e.usage, 920)>> ELSE <<>>
           b == IF e.runtime > 0 THEN <<980 + 150>> ELSE <<>>
<1>1. e.usage \in Nat /\ e.runtime \in Nat BY DEF RowSet
<1>2. AtMost(650 + 40 * e.usage, 920) \in Nat BY <1>1 DEF AtMost
<1>3. a \in Seq(Nat) BY <1>2
<1>4. b \in Seq(Nat) OBVIOUS
<1>5. <<800>> \in Seq(Nat) OBVIOUS
<1> HIDE DEF a, b
<1>6. <<800>> \o a \in Seq(Nat) BY <1>3, <1>5, ConcatProperties
<1>7. (<<800>> \o a) \o b \in Seq(Nat) BY <1>4, <1>6, ConcatProperties
<1> QED BY <1>7 DEF PathEvidence, a, b

\* A part of a plan that ends with a node of the type.
IsReached(nodes, type, prefixes, i) ==
  /\ IsWhole(nodes) /\ Len(nodes) \in Nat \ {0} /\ nodes[Len(nodes)].type = type
  /\ ArePart(nodes, prefixes, {i})

\* The nodes from a root over a path are a whole part, and end at the target.
LEMMA ReachedOK ==
  ASSUME NEW g \in Graphs, NEW s, NEW root \in RootSet, NEW path \in Seq(RowSet),
         IsPath(g, s, root, path),
         NEW first \in NodePrefixes, NEW step \in NodePrefixes, first # step, NEW i \in Nat
  PROVE  IsReached(Reached(root, path, first, step, i), s.target, {first, step}, i)
PROOF
<1> DEFINE n == Len(path)
           head == RootNode(<<first, i, 0>>, root)
           rest == PathNodes(path, step, i, <<first, i, 0>>)
           nodes == Reached(root, path, first, step, i)
           from(k) == IF k = 1 THEN <<first, i, 0>> ELSE <<step, i, k - 1>>
           node(k) == [id |-> <<step, i, k>>, op |-> Operation[path[k].kind], inputs |-> <<from(k)>>,
                       arguments |-> <<>>, type |-> path[k].target, member |-> path[k].member,
                       placeholder |-> FALSE, evidence |-> PathEvidence(path[k])]
<1>1. n \in Nat /\ DOMAIN path = 1..n /\ \A k \in 1..n : path[k] \in RowSet
  BY LenProperties, ElementOfSeq
<1>2. /\ \A k \in 1..n : IsStep(g, s, path[k])
      /\ IF path = <<>> THEN root.type = s.target ELSE Last(path).target = s.target
  BY <1>1 DEF IsPath
<1>3. /\ head \in NodeSet /\ NodeOK(head) /\ head.inputs = <<>> /\ head.arguments = <<>>
      /\ head.id = <<first, i, 0>> /\ head.type = root.type
  <2>1. /\ root.type \in Types /\ root.confidence \in Nat
        /\ <<first, i, 0>> \in IdSet
    BY DEF RootSet, IdSet
  <2> DEFINE c == 10 * root.confidence + (IF root.verified THEN 150 ELSE 0)
  <2>2. c \in Nat BY <2>1
  <2>3. head = [id |-> <<first, i, 0>>, op |-> "resolve_root", inputs |-> <<>>, arguments |-> <<>>,
                type |-> root.type, member |-> None, placeholder |-> FALSE, evidence |-> <<c>>]
    BY DEF RootNode
  <2> HIDE DEF c, head
  <2>4. <<c>> \in Seq(Nat) /\ <<>> \in Seq(IdSet) BY <2>2, EmptySeq
  <2>5. head \in NodeSet BY <2>1, <2>3, <2>4 DEF NodeSet, Operations
  <2>6. NodeOK(head) BY <2>3 DEF NodeOK
  <2> QED BY <2>3, <2>5, <2>6
<1>4. ASSUME NEW k \in 1..n
      PROVE  /\ node(k) \in NodeSet /\ NodeOK(node(k)) /\ node(k).arguments = <<>>
             /\ node(k).id = <<step, i, k>> /\ node(k).type = path[k].target
             /\ Range(node(k).inputs) = {from(k)}
  <2> DEFINE op == Operation[path[k].kind]
             evidence == PathEvidence(path[k])
             id == from(k)
             m == node(k)
  <2>1. path[k] \in RowSet /\ IsStep(g, s, path[k]) BY <1>1, <1>2
  <2>2. /\ op \in {"read_field", "read_property", "call_method", "cast", "iterate"}
        /\ op \in {"read_field", "read_property", "call_method"} => path[k].member # None
    BY <2>1, StepsHaveMembers
  <2>3. evidence \in Seq(Nat) BY <2>1, EvidenceTyped
  <2>4. id \in IdSet /\ <<step, i, k>> \in IdSet
    <3>1. k = 1 \/ k - 1 \in Nat BY <1>1
    <3> QED BY <3>1, <1>1 DEF IdSet
  <2>5. path[k].target \in Types /\ path[k].member \in Members \cup {None} BY <2>1 DEF RowSet
  <2>6. m = [id |-> <<step, i, k>>, op |-> op, inputs |-> <<id>>, arguments |-> <<>>,
             type |-> path[k].target, member |-> path[k].member, placeholder |-> FALSE,
             evidence |-> evidence]
    OBVIOUS
  <2> HIDE DEF op, evidence, id, m
  <2>7. <<id>> \in Seq(IdSet) /\ <<>> \in Seq(IdSet) /\ <<id>> # <<>> /\ Range(<<id>>) = {id}
    BY <2>4 DEF Range
  <2>8. m \in NodeSet BY <2>2, <2>3, <2>4, <2>5, <2>6, <2>7 DEF NodeSet, Operations
  <2>9. NodeOK(m) BY <2>2, <2>6, <2>7 DEF NodeOK
  <2>10. /\ m.arguments = <<>> /\ m.id = <<step, i, k>> /\ m.type = path[k].target
         /\ Range(m.inputs) = {id}
    BY <2>6, <2>7
  <2> QED BY <2>8, <2>9, <2>10 DEF m, id
<1> HIDE DEF head
<1>5. rest \in Seq(NodeSet) /\ Len(rest) = n /\ \A k \in 1..n : rest[k] = node(k)
  <2>1. rest = [k \in 1..n |-> node(k)] BY <1>1 DEF PathNodes
  <2> HIDE DEF node, rest
  <2>2. rest \in [1..n -> NodeSet] BY <1>4, <2>1
  <2> QED BY <1>1, <2>1, <2>2, SeqDef, LenProperties
<1> HIDE DEF rest
<1>6. /\ nodes \in Seq(NodeSet) /\ Len(nodes) = n + 1 /\ nodes[1] = head
      /\ \A k \in 1..n : nodes[k + 1] = rest[k]
      /\ \A k \in 2..n + 1 : nodes[k] = rest[k - 1]
  <2>1. nodes = <<head>> \o rest BY DEF Reached, head, rest
  <2> HIDE DEF nodes
  <2>2. head \in NodeSet /\ rest \in Seq(NodeSet) /\ Len(rest) = n BY <1>3, <1>5
  <2> QED BY <2>1, <2>2, ConsGives
<1> HIDE DEF nodes, node
<1>7. \A k \in 1..n + 1 : k = 1 \/ (k \in 2..n + 1 /\ k - 1 \in 1..n /\ nodes[k] = node(k - 1))
  <2>1. ASSUME NEW k \in 1..n + 1, k # 1 PROVE k \in 2..n + 1 /\ k - 1 \in 1..n BY <1>1, <2>1
  <2>2. ASSUME NEW k \in 1..n + 1, k # 1 PROVE nodes[k] = node(k - 1)
    <3>1. k \in 2..n + 1 /\ k - 1 \in 1..n BY <2>1, <2>2
    <3>2. nodes[k] = rest[k - 1] BY <1>6, <3>1
    <3> QED BY <1>5, <3>1, <3>2
  <2> QED BY <2>1, <2>2
<1>8. \A k \in 1..n + 1 : nodes[k].id = IF k = 1 THEN <<first, i, 0>> ELSE <<step, i, k - 1>>
  BY <1>3, <1>4, <1>6, <1>7
<1>9. ASSUME NEW k \in 1..n + 1
       PROVE  /\ nodes[k].id[1] = IF k = 1 THEN first ELSE step
              /\ nodes[k].id[2] = i
              /\ nodes[k].id[3] = IF k = 1 THEN 0 ELSE k - 1
  <2>1. CASE k = 1
    <3>1. nodes[k].id = <<first, i, 0>> BY <1>8, <2>1
    <3> QED BY <2>1, <3>1
  <2>2. CASE k # 1
    <3>1. nodes[k].id = <<step, i, k - 1>> BY <1>8, <2>2
    <3> QED BY <2>2, <3>1
  <2> QED BY <2>1, <2>2
<1>10. ASSUME NEW j \in 1..n + 1, NEW k \in 1..n + 1, nodes[j].id = nodes[k].id PROVE j = k
  <2>1. nodes[j].id[1] = nodes[k].id[1] /\ nodes[j].id[3] = nodes[k].id[3] BY <1>10
  <2>2. (j = 1) = (k = 1) BY <1>9, <2>1
  <2>3. j # 1 /\ k # 1 => j - 1 = k - 1 BY <1>9, <2>1
  <2> QED BY <1>1, <2>2, <2>3
<1>11. ASSUME NEW k \in 1..n + 1
       PROVE  /\ NodeOK(nodes[k]) /\ nodes[k].arguments = <<>>
              /\ \A x \in Range(nodes[k].inputs) \cup Range(nodes[k].arguments) :
                    IsEarlier(nodes, k, x)
  <2>0. Range(<<>>) = {} BY DEF Range
  <2>1. CASE k = 1 BY <1>3, <1>6, <2>0, <2>1
  <2>2. CASE k # 1
    <3>1. nodes[k] = node(k - 1) /\ k - 1 \in 1..n BY <1>7, <2>2
    <3>2. /\ NodeOK(nodes[k]) /\ nodes[k].arguments = <<>>
          /\ Range(nodes[k].inputs) = {from(k - 1)}
      BY <1>4, <3>1
    <3>3. nodes[k - 1].id = from(k - 1)
      <4>1. k - 1 \in 1..n + 1 BY <1>1, <3>1
      <4> QED BY <1>8, <4>1
    <3>4. IsEarlier(nodes, k, from(k - 1)) BY <3>1, <3>3 DEF IsEarlier
    <3> HIDE DEF from
    <3> QED BY <2>0, <3>2, <3>4
  <2> QED BY <2>1, <2>2
<1>12. IsWhole(nodes) BY <1>6, <1>10, <1>11 DEF IsWhole
<1>13. ArePart(nodes, {first, step}, {i}) BY <1>6, <1>11, <1>9 DEF ArePart
<1>14. nodes[n + 1].type = s.target
  <2>1. CASE n = 0
    <3>1. path = <<>> BY <2>1, EmptySeq
    <3> QED BY <1>2, <1>3, <1>6, <2>1, <3>1
  <2>2. CASE n # 0
    <3>1. path # <<>> /\ n \in 1..n BY <1>1, <2>2, EmptySeq
    <3>2. nodes[n + 1] = node(n) BY <1>5, <1>6, <3>1
    <3>3. path[n].target = s.target BY <1>2, <3>1 DEF Last
    <3> QED BY <1>4, <3>1, <3>2, <3>3
  <2> QED BY <2>1, <2>2
<1> QED BY <1>1, <1>6, <1>12, <1>13, <1>14 DEF nodes, IsReached

-----------------------------------------------------------------------------
(* Arguments *)

\* The nodes of one argument; the last of them is the argument.
IsArgument(i, type, nodes) == IsReached(nodes, type, ArgumentPrefixes, i)

AccSet == [cache : Seq(EntrySet(graph)), nodes : Seq(NodeSet), ids : Seq(IdSet)]

\* The nodes of the first i arguments, and the name of the node of each.
ArgumentsOK(params, i, acc) ==
  /\ acc \in AccSet /\ IsWhole(acc.nodes) /\ Len(acc.ids) = i
  /\ ArePart(acc.nodes, ArgumentPrefixes, 1..i)
  /\ \A a \in 1..i : \E k \in 1..Len(acc.nodes) :
        acc.nodes[k].id = acc.ids[a] /\ acc.nodes[k].type = params[a]

\* A value is the only node of its argument.
LEMMA ValueOK ==
  ASSUME NEW i \in Nat, NEW op \in {"bind_constant", "construct_list", "construct_object"},
         NEW type \in Types, NEW c \in Nat, NEW open \in BOOLEAN, open <=> op # "construct_list"
  PROVE  IsArgument(i, type, Value(i, op, type, open, c))
PROOF
<1> DEFINE n == [id |-> <<"arg", i, 0>>, op |-> op, inputs |-> <<>>, arguments |-> <<>>,
                 type |-> type, member |-> None, placeholder |-> open, evidence |-> <<c>>]
           nodes == Value(i, op, type, open, c)
<1>1. nodes = <<n>> BY DEF Value
<1>2. <<"arg", i, 0>> \in IdSet BY DEF IdSet, NodePrefixes
<1>3. <<c>> \in Seq(Nat) /\ <<>> \in Seq(IdSet) /\ Range(<<>>) = {} BY EmptySeq DEF Range
<1>4. n \in NodeSet BY <1>2, <1>3 DEF NodeSet, Operations
<1>5. /\ n.id[1] = "arg" /\ n.id[2] = i /\ n.inputs = <<>> /\ n.arguments = <<>>
      /\ n.type = type /\ NodeOK(n)
  BY DEF NodeOK
<1> HIDE DEF n, nodes
<1>6. nodes \in Seq(NodeSet) /\ Len(nodes) = 1 /\ nodes[1] = n BY <1>1, <1>4
<1>7. IsWhole(nodes) BY <1>3, <1>5, <1>6 DEF IsWhole
<1>8. ArePart(nodes, ArgumentPrefixes, {i}) BY <1>5, <1>6 DEF ArePart, ArgumentPrefixes
<1> QED BY <1>5, <1>6, <1>7, <1>8 DEF IsArgument, IsReached, nodes

\* The values that are written down for an argument.
ListValue(i, type) == Value(i, "construct_list", type, FALSE, 600)
ConstantValue(i, type) == Value(i, "bind_constant", type, TRUE, 550)
ObjectValue(i, type) == Value(i, "construct_object", type, TRUE, 300)

\* The three values that need no root.
LEMMA ValuesOK ==
  ASSUME NEW i \in Nat, NEW type \in Types
  PROVE  /\ IsArgument(i, type, ListValue(i, type))
         /\ IsArgument(i, type, ConstantValue(i, type))
         /\ IsArgument(i, type, ObjectValue(i, type))
PROOF
<1>1. IsArgument(i, type, ListValue(i, type))
  <2> DEFINE op == "construct_list" open == FALSE c == 600
  <2>1. /\ op \in {"bind_constant", "construct_list", "construct_object"} /\ c \in Nat
        /\ open \in BOOLEAN /\ (open <=> op # "construct_list")
    OBVIOUS
  <2> HIDE DEF op, open, c
  <2>2. IsArgument(i, type, Value(i, op, type, open, c)) BY <2>1, ValueOK
  <2> QED BY <2>2 DEF op, open, c, ListValue
<1>2. IsArgument(i, type, ConstantValue(i, type))
  <2> DEFINE op == "bind_constant" open == TRUE c == 550
  <2>1. /\ op \in {"bind_constant", "construct_list", "construct_object"} /\ c \in Nat
        /\ open \in BOOLEAN /\ (open <=> op # "construct_list")
    OBVIOUS
  <2> HIDE DEF op, open, c
  <2>2. IsArgument(i, type, Value(i, op, type, open, c)) BY <2>1, ValueOK
  <2> QED BY <2>2 DEF op, open, c, ConstantValue
<1>3. IsArgument(i, type, ObjectValue(i, type))
  <2> DEFINE op == "construct_object" open == TRUE c == 300
  <2>1. /\ op \in {"bind_constant", "construct_list", "construct_object"} /\ c \in Nat
        /\ open \in BOOLEAN /\ (open <=> op # "construct_list")
    OBVIOUS
  <2> HIDE DEF op, open, c
  <2>2. IsArgument(i, type, Value(i, op, type, open, c)) BY <2>1, ValueOK
  <2> QED BY <2>2 DEF op, open, c, ObjectValue
<1> QED BY <1>1, <1>2, <1>3

\* An object that can be reached is the target of its search.
LEMMA ObjectOK ==
  ASSUME StateInv, NEW q \in Questions, NEW roots \in Seq(RootSet), NEW i \in Nat,
         NEW type \in Types, NEW result, ResultOK(graph, ArgumentSearch(q, roots, type), result)
  PROVE  IsArgument(i, type, ObjectNodes(roots, i, type, result.found))
PROOF
<1> DEFINE s == ArgumentSearch(q, roots, type)
           paths == result.found
           f == paths[1]
           root == roots[f.root]
<1>1. CASE paths = <<>>
  <2>1. i \in Nat /\ type \in Types OBVIOUS
  <2>2. IsArgument(i, type, ObjectValue(i, type)) BY <2>1, ValuesOK
  <2> QED BY <1>1, <2>2 DEF ObjectNodes, ObjectValue
<1>2. CASE paths # <<>>
  <2>1. paths \in Seq(FoundSet) /\ AreFound(graph, s, paths) BY DEF ResultOK, ResultSet
  <2>2. Len(paths) \in Nat \ {0} BY <1>2, <2>1, LenProperties, EmptySeq
  <2>3. /\ f \in FoundSet /\ f.root \in 1..Len(s.roots)
        /\ IsPath(graph, s, s.roots[f.root], f.path)
    BY <2>1, <2>2, ElementOfSeq DEF AreFound
  <2>4. s.roots = Take(roots, 30) /\ s.target = type BY DEF ArgumentSearch
  <2> HIDE DEF s, f
  <2>5. /\ Len(Take(roots, 30)) <= Len(roots) /\ Take(roots, 30) \in Seq(RootSet)
        /\ \A k \in 1..Len(Take(roots, 30)) : Take(roots, 30)[k] = roots[k]
    <3> DEFINE n == 30
    <3>1. n \in Nat OBVIOUS
    <3> HIDE DEF n
    <3>2. /\ Len(Take(roots, n)) <= Len(roots) /\ Take(roots, n) \in Seq(RootSet)
          /\ \A k \in 1..Len(Take(roots, n)) : Take(roots, n)[k] = roots[k]
      BY <3>1, TakeGives
    <3> QED BY <3>2 DEF n
  <2>6. root \in RootSet /\ s.roots[f.root] = root
    <3>1. Len(roots) \in Nat /\ Len(s.roots) \in Nat BY <2>4, <2>5, LenProperties
    <3>2. f.root \in 1..Len(roots) BY <2>3, <2>4, <2>5, <3>1
    <3>3. roots[f.root] \in RootSet BY <3>2, ElementOfSeq
    <3> QED BY <2>3, <2>4, <2>5, <3>3
  <2>7. f.path \in Seq(RowSet) /\ IsPath(graph, s, root, f.path) BY <2>3, <2>6 DEF FoundSet
  <2>8. graph \in Graphs /\ "arg_root" \in NodePrefixes /\ "arg_step" \in NodePrefixes
        /\ "arg_root" # "arg_step"
    BY DEF StateInv, NodePrefixes
  <2> DEFINE path == f.path
             nodes == Reached(root, path, "arg_root", "arg_step", i)
  <2>9. IsReached(nodes, s.target, {"arg_root", "arg_step"}, i)
    <3> DEFINE first == "arg_root"
               step == "arg_step"
    <3>1. path \in Seq(RowSet) /\ IsPath(graph, s, root, path) BY <2>7
    <3>2. first \in NodePrefixes /\ step \in NodePrefixes /\ first # step BY <2>8
    <3> HIDE DEF path, root, first, step
    <3>3. IsReached(Reached(root, path, first, step, i), s.target, {first, step}, i)
      BY <2>6, <2>8, <3>1, <3>2, ReachedOK
    <3> QED BY <3>3 DEF first, step
  <2>10. ObjectNodes(roots, i, type, result.found) = nodes BY <1>2 DEF ObjectNodes, f
  <2> HIDE DEF nodes
  <2>11. IsArgument(i, type, nodes)
    BY <2>4, <2>9 DEF IsArgument, IsReached, ArePart, ArgumentPrefixes
  <2> QED BY <2>10, <2>11
<1> QED BY <1>1, <1>2

\* One more argument.
LEMMA WithArgumentOK ==
  ASSUME NEW params, NEW i \in Nat \ {0}, NEW acc, ArgumentsOK(params, i - 1, acc),
         NEW nodes, IsArgument(i, params[i], nodes), NEW entries \in Seq(EntrySet(graph))
  PROVE  ArgumentsOK(params, i, WithArgument(acc, nodes, entries))
PROOF
<1> DEFINE all == acc.nodes \o nodes
           m == Len(acc.nodes)
           n == Len(nodes)
           id == Last(nodes).id
           ids == Append(acc.ids, id)
           new == WithArgument(acc, nodes, entries)
<1>1. new = [cache |-> entries, nodes |-> all, ids |-> ids] BY DEF WithArgument
<1>2. /\ acc.ids \in Seq(IdSet) /\ Len(acc.ids) = i - 1 /\ acc.nodes \in Seq(NodeSet)
      /\ IsWhole(acc.nodes) /\ m \in Nat
      /\ \A k \in 1..m : /\ acc.nodes[k].id[1] \in ArgumentPrefixes
                         /\ acc.nodes[k].id[2] \in 1..(i - 1) /\ acc.nodes[k].arguments = <<>>
      /\ \A a \in 1..(i - 1) : \E k \in 1..m :
            acc.nodes[k].id = acc.ids[a] /\ acc.nodes[k].type = params[a]
  BY LenProperties DEF ArgumentsOK, AccSet, ArePart
<1>3. /\ IsWhole(nodes) /\ n \in Nat \ {0} /\ nodes[n].type = params[i] /\ nodes \in Seq(NodeSet)
      /\ \A k \in 1..n : /\ nodes[k].id[1] \in ArgumentPrefixes
                         /\ nodes[k].id[2] = i /\ nodes[k].arguments = <<>>
  BY DEF IsArgument, IsReached, ArePart, IsWhole
<1>4. id = nodes[n].id /\ id \in IdSet
  <2>1. nodes[n] \in NodeSet BY <1>3, ElementOfSeq
  <2>2. Last(nodes) = nodes[n] BY DEF Last
  <2> QED BY <2>1, <2>2 DEF NodeSet
<1>5. /\ IsWhole(all) /\ Len(all) = m + n
      /\ \A k \in 1..m : all[k] = acc.nodes[k]
      /\ \A k \in 1..n : all[m + k] = nodes[k]
      /\ \A k \in 1..Len(all) : \/ k \in 1..m /\ all[k] = acc.nodes[k]
                                \/ k - m \in 1..n /\ all[k] = nodes[k - m]
  <2>1. \A j \in 1..m, k \in 1..n : acc.nodes[j].id # nodes[k].id
    <3> SUFFICES ASSUME NEW j \in 1..m, NEW k \in 1..n, acc.nodes[j].id = nodes[k].id PROVE FALSE
      OBVIOUS
    <3>1. acc.nodes[j].id[2] \in 1..(i - 1) /\ nodes[k].id[2] = i BY <1>2, <1>3
    <3> QED BY <3>1
  <2>2. IsWhole(acc.nodes) /\ IsWhole(nodes) BY <1>2, <1>3
  <2> HIDE DEF all, id, m, n, new
  <2> QED BY <2>1, <2>2, WholeJoined DEF all, m, n
<1> HIDE DEF all, id, m, n, new
<1>6. /\ ids \in Seq(IdSet) /\ Len(ids) = i /\ ids[i] = id
      /\ \A a \in 1..(i - 1) : ids[a] = acc.ids[a]
  <2> DEFINE old == acc.ids
  <2>1. old \in Seq(IdSet) /\ Len(old) = i - 1 /\ (i - 1) + 1 = i BY <1>2
  <2> HIDE DEF old
  <2>2. /\ Append(old, id) \in Seq(IdSet) /\ Len(Append(old, id)) = Len(old) + 1
        /\ Append(old, id)[Len(old) + 1] = id
        /\ \A a \in 1..Len(old) : Append(old, id)[a] = old[a]
    BY <1>4, <2>1, AppendProperties
  <2> QED BY <2>1, <2>2 DEF old
<1> HIDE DEF ids
<1>7. new \in AccSet BY <1>1, <1>5, <1>6 DEF AccSet, IsWhole
<1>8. ASSUME NEW k \in 1..Len(all)
      PROVE  all[k].id[1] \in ArgumentPrefixes /\ all[k].id[2] \in 1..i /\ all[k].arguments = <<>>
  <2>1. CASE k \in 1..m /\ all[k] = acc.nodes[k] BY <1>2, <2>1
  <2>2. CASE k - m \in 1..n /\ all[k] = nodes[k - m]
    <3> DEFINE b == k - m
    <3>1. b \in 1..n /\ all[k] = nodes[b] BY <2>2
    <3> HIDE DEF b
    <3>2. /\ nodes[b].id[1] \in ArgumentPrefixes /\ nodes[b].id[2] = i
          /\ nodes[b].arguments = <<>>
      BY <1>3, <3>1
    <3>3. i \in 1..i OBVIOUS
    <3> QED BY <3>1, <3>2, <3>3
  <2>3. \/ k \in 1..m /\ all[k] = acc.nodes[k]
        \/ k - m \in 1..n /\ all[k] = nodes[k - m]
    BY <1>5
  <2> QED BY <2>1, <2>2, <2>3
<1>9. ASSUME NEW a \in 1..i
      PROVE  \E k \in 1..Len(all) : all[k].id = ids[a] /\ all[k].type = params[a]
  <2>1. CASE a = i
    <3>1. m + n \in 1..Len(all) /\ n \in 1..n BY <1>2, <1>3, <1>5
    <3>2. all[m + n] = nodes[n] BY <1>5, <3>1
    <3> QED BY <1>3, <1>4, <1>6, <2>1, <3>1, <3>2
  <2>2. CASE a # i
    <3>1. a \in 1..(i - 1) BY <2>2
    <3>2. PICK k \in 1..m : acc.nodes[k].id = acc.ids[a] /\ acc.nodes[k].type = params[a]
      BY <1>2, <3>1
    <3>3. k \in 1..Len(all) BY <1>2, <1>3, <1>5
    <3> QED BY <1>5, <1>6, <3>1, <3>2, <3>3
  <2> QED BY <2>1, <2>2
<1>10. new.nodes = all /\ new.ids = ids BY <1>1
<1>11. ArgumentsOK(params, i, new) BY <1>5, <1>6, <1>7, <1>8, <1>9, <1>10 DEF ArgumentsOK, ArePart
<1> QED BY <1>11 DEF new

\* Whatever an argument is, it is added.
LEMMA BranchOK ==
  ASSUME StateInv, NEW q \in Questions, NEW roots \in Seq(RootSet), NEW params \in Seq(Types),
         NEW i \in 1..Len(params), NEW acc, ArgumentsOK(params, i - 1, acc)
  PROVE  ArgumentsOK(params, i, Branch(acc, q, roots, i, params[i]))
PROOF
<1> DEFINE type == params[i]
           s == ArgumentSearch(q, roots, type)
           looked == RootedPaths(acc.cache, s)
<1>1. i \in Nat \ {0} /\ type \in Types BY LenProperties, ElementOfSeq
<1>2. acc.cache \in Seq(EntrySet(graph)) BY DEF ArgumentsOK, AccSet
<1>3. CASE type \in Containers
  <2>0. i \in Nat /\ type \in Types BY <1>1
  <2>1. IsArgument(i, type, ListValue(i, type)) BY <2>0, ValuesOK
  <2> DEFINE nodes == ListValue(i, type)
             entries == acc.cache
  <2>2. IsArgument(i, params[i], nodes) /\ entries \in Seq(EntrySet(graph)) BY <1>2, <2>1
  <2> HIDE DEF nodes, entries
  <2>3. ArgumentsOK(params, i, WithArgument(acc, nodes, entries)) BY <1>1, <2>2, WithArgumentOK
  <2> QED BY <1>3, <2>3 DEF Branch, nodes, entries, ListValue
<1>4. CASE type \notin Containers /\ type \in Primitives
  <2>0. i \in Nat /\ type \in Types BY <1>1
  <2>1. IsArgument(i, type, ConstantValue(i, type)) BY <2>0, ValuesOK
  <2> DEFINE nodes == ConstantValue(i, type)
             entries == acc.cache
  <2>2. IsArgument(i, params[i], nodes) /\ entries \in Seq(EntrySet(graph)) BY <1>2, <2>1
  <2> HIDE DEF nodes, entries
  <2>3. ArgumentsOK(params, i, WithArgument(acc, nodes, entries)) BY <1>1, <2>2, WithArgumentOK
  <2> QED BY <1>4, <2>3 DEF Branch, nodes, entries, ConstantValue
<1>5. CASE type \notin Containers /\ type \notin Primitives
  <2>1. s \in SearchSet BY <1>1, SearchesTyped
  <2>2. looked.cache \in Seq(EntrySet(graph)) /\ ResultOK(graph, s, looked.result)
    BY <1>2, <2>1, RootedPathsOK
  <2> HIDE DEF looked
  <2> DEFINE result == looked.result
             nodes == ObjectNodes(roots, i, type, result.found)
  <2>3. IsArgument(i, type, nodes)
    <3>1. ResultOK(graph, ArgumentSearch(q, roots, type), result) BY <2>2
    <3> HIDE DEF result, type, s
    <3> QED BY <1>1, <3>1, ObjectOK
  <2> HIDE DEF nodes
  <2>4. ArgumentsOK(params, i, WithArgument(acc, nodes, looked.cache))
    BY <1>1, <2>2, <2>3, WithArgumentOK
  <2> QED BY <1>5, <2>4 DEF Branch, WithObject, nodes, looked
<1> QED BY <1>3, <1>4, <1>5

\* The loop over the parameters.
LEMMA BranchesOK ==
  ASSUME StateInv, NEW q \in Questions, q.member # None, NEW roots \in Seq(RootSet),
         NEW entries \in Seq(EntrySet(graph))
  PROVE  LET params == Signature[q.member].params
         IN  ArgumentsOK(params, Len(params), Branches(entries, q, roots))
PROOF
<1> DEFINE params == Signature[q.member].params
           n == Len(params)
           S == AccSet
           x0 == [cache |-> entries, nodes |-> <<>>, ids |-> <<>>]
           Step(i, acc) == Branch(acc, q, roots, i, params[i])
           F == [p \in (1..n) \X S |->
                   IF ArgumentsOK(params, p[1] - 1, p[2]) THEN Step(p[1], p[2]) ELSE x0]
           Rec(g) == g = [i \in 0..n |-> IF i = 0 THEN x0 ELSE Step(i, g[i - 1])]
           up == CHOOSE g : Rec(g)
<1>1. params \in Seq(Types)
  <2>1. q.member \in Members BY ConstantsOK DEF QuestionSet
  <2>2. Signature[q.member] \in SignatureSet BY <2>1, ConstantsOK
  <2> QED BY <2>2 DEF SignatureSet
<1> HIDE DEF params
<1>2. n \in Nat BY <1>1, LenProperties
<1>3. ArgumentsOK(params, 0, x0) /\ x0 \in S
  <2>1. /\ <<>> \in Seq(NodeSet) /\ <<>> \in Seq(IdSet) /\ Len(<<>>) = 0 BY EmptySeq
  <2>2. x0 \in S BY <2>1 DEF AccSet
  <2>3. x0.nodes = <<>> /\ x0.ids = <<>> OBVIOUS
  <2>4. IsWhole(<<>>) BY <2>1 DEF IsWhole
  <2> HIDE DEF x0
  <2> QED BY <2>1, <2>2, <2>3, <2>4 DEF ArgumentsOK, ArePart
<1> HIDE DEF x0
<1>4. ASSUME NEW i \in 1..n, NEW acc, ArgumentsOK(params, i - 1, acc)
      PROVE  ArgumentsOK(params, i, Step(i, acc)) /\ Step(i, acc) \in S
  <2>1. ArgumentsOK(params, i, Step(i, acc)) BY <1>1, <1>4, BranchOK
  <2> QED BY <2>1 DEF ArgumentsOK
<1> HIDE DEF S, Step
<1>5. F \in [(1..n) \X S -> S]
  <2>1. ASSUME NEW p \in (1..n) \X S
        PROVE  (IF ArgumentsOK(params, p[1] - 1, p[2]) THEN Step(p[1], p[2]) ELSE x0) \in S
    <3>1. p[1] \in 1..n OBVIOUS
    <3> QED BY <1>3, <1>4, <3>1
  <2> QED BY <2>1
<1>6. PICK h : Iterates(h, F, S, x0, n) BY <1>2, <1>3, <1>5, IterationExists
<1> DEFINE D == {i \in 0..n : ArgumentsOK(params, i, h[i])}
<1>7. \A i \in 0..n : i \in D
  <2>1. 0 \in D BY <1>2, <1>3, <1>6 DEF Iterates
  <2>2. ASSUME NEW i \in 1..n, i - 1 \in D PROVE i \in D
    <3>1. i - 1 \in 0..n /\ i \in 0..n BY <1>2
    <3>2. h[i - 1] \in S /\ h[i] = F[<<i, h[i - 1]>>] BY <1>6, <3>1 DEF Iterates
    <3>3. ArgumentsOK(params, i - 1, h[i - 1]) BY <2>2
    <3>4. h[i] = Step(i, h[i - 1]) BY <3>2, <3>3
    <3>5. ArgumentsOK(params, i, h[i]) BY <1>4, <3>3, <3>4
    <3> QED BY <3>1, <3>5
  <2> HIDE DEF D
  <2> QED BY <1>2, <2>1, <2>2, UpTo
<1>8. Rec(h)
  <2>1. ASSUME NEW i \in 0..n PROVE h[i] = IF i = 0 THEN x0 ELSE Step(i, h[i - 1])
    <3>1. CASE i = 0 BY <1>6, <3>1 DEF Iterates
    <3>2. CASE i # 0
      <4>1. i \in 1..n /\ i - 1 \in 0..n BY <1>2, <3>2
      <4>2. h[i - 1] \in S /\ h[i] = F[<<i, h[i - 1]>>] BY <1>6, <4>1 DEF Iterates
      <4>3. ArgumentsOK(params, i - 1, h[i - 1]) BY <1>7, <4>1
      <4>4. h[i] = Step(i, h[i - 1]) BY <4>1, <4>2, <4>3
      <4> QED BY <3>2, <4>4
    <3> QED BY <3>1, <3>2
  <2>2. h = [i \in 0..n |-> h[i]] BY <1>6 DEF Iterates
  <2> HIDE DEF F
  <2> QED BY <2>1, <2>2
<1>9. Rec(up) BY <1>8
<1>10. Branches(entries, q, roots) = up[n] BY DEF Branches, Step, x0, params
<1> HIDE DEF up, F, D
<1>11. up[0] = x0 /\ \A i \in 1..n : up[i] = Step(i, up[i - 1])
  <2>1. \A i \in 1..n : i \in 0..n /\ i # 0 BY <1>2
  <2>2. \A i \in 0..n : up[i] = IF i = 0 THEN x0 ELSE Step(i, up[i - 1]) BY <1>9
  <2> QED BY <1>2, <2>1, <2>2
<1> HIDE DEF Rec
<1> DEFINE E == {i \in 0..n : ArgumentsOK(params, i, up[i])}
<1>12. 0 \in E BY <1>2, <1>3, <1>11
<1>13. ASSUME NEW i \in 1..n, i - 1 \in E PROVE i \in E
  <2>1. ArgumentsOK(params, i - 1, up[i - 1]) BY <1>13
  <2>2. ArgumentsOK(params, i, up[i]) BY <1>4, <1>11, <2>1
  <2> QED BY <1>2, <2>2
<1> HIDE DEF E
<1>14. \A i \in 0..n : i \in E BY <1>2, <1>12, <1>13, UpTo
<1> QED BY <1>2, <1>10, <1>14 DEF E, params

-----------------------------------------------------------------------------
(* Plans *)

PlanSet == [nodes : Seq(NodeSet), open : SUBSET Nat]

\* What is true of a plan: IsProgram, and what makes its draft closed.
PlanOK(plan) ==
  /\ plan \in PlanSet /\ IsWhole(plan.nodes) /\ Len(plan.nodes) \in Nat \ {0}
  /\ LET target == plan.nodes[Len(plan.nodes)]
     IN  /\ target.arguments # <<>> => target.op \in {"call_method", "call_static"}
         /\ \A a \in 1..Len(target.arguments) : \A k \in 1..Len(plan.nodes) :
               plan.nodes[k].id = target.arguments[a] =>
                  /\ plan.nodes[k].type = Signature[target.member].params[a]
                  /\ (a \in plan.open) <=> plan.nodes[k].placeholder

\* The plan of a path alone.
LEMMA PathPlanOK ==
  ASSUME NEW nodes, NEW type, NEW prefixes, NEW i, IsReached(nodes, type, prefixes, i)
  PROVE  PlanOK([nodes |-> nodes, open |-> {}])
PROOF
<1>1. IsWhole(nodes) /\ Len(nodes) \in Nat \ {0} /\ nodes[Len(nodes)].arguments = <<>>
  BY DEF IsReached, ArePart
<1>2. Len(<<>>) = 0 BY EmptySeq
<1> DEFINE plan == [nodes |-> nodes, open |-> {}]
<1>3. plan.nodes = nodes /\ plan \in PlanSet BY <1>1 DEF PlanSet, IsWhole
<1> HIDE DEF plan
<1>4. PlanOK(plan) BY <1>1, <1>2, <1>3 DEF PlanOK
<1> QED BY <1>4 DEF plan

IsTarget(n, m, from, ids) ==
  /\ n \in NodeSet /\ NodeOK(n) /\ n.arguments = ids /\ n.member = m
  /\ n.id[1] = "target" /\ Range(n.inputs) \subseteq {from}
  /\ Signature[m].kind = "method" => n.op \in {"call_method", "call_static"}

\* The node for a member is a node, and uses arguments only if it calls.
LEMMA TargetNodeOK ==
  ASSUME NEW m \in Members, NEW from \in IdSet, NEW ids \in Seq(IdSet)
  PROVE  IsTarget(TargetNode(m, from, ids), m, from, ids)
PROOF
<1> DEFINE sig == Signature[m]
           op == CASE sig.kind = "field" -> "read_field" [] sig.kind = "property" -> "read_property"
                   [] sig.kind = "method" /\ sig.static -> "call_static" [] OTHER -> "call_method"
           inputs == IF op = "call_static" THEN <<>> ELSE <<from>>
           n == TargetNode(m, from, ids)
<1>1. sig \in SignatureSet BY ConstantsOK
<1>2. sig.type \in Types /\ sig.kind \in {"field", "property", "method"} BY <1>1 DEF SignatureSet
<1>3. /\ op \in {"read_field", "read_property", "call_static", "call_method"}
      /\ sig.kind = "method" => op \in {"call_method", "call_static"}
  BY <1>2
<1>4. n = [id |-> <<"target", 0, 0>>, op |-> op, type |-> sig.type, member |-> m,
           inputs |-> inputs, arguments |-> ids, placeholder |-> FALSE, evidence |-> <<900>>]
  BY DEF TargetNode
<1> HIDE DEF op, sig
<1>5. /\ inputs \in Seq(IdSet) /\ Range(inputs) \subseteq {from}
      /\ op # "call_static" => inputs # <<>>
  BY EmptySeq DEF Range
<1> HIDE DEF inputs, n
<1>6. <<"target", 0, 0>> \in IdSet /\ <<900>> \in Seq(Nat) BY DEF IdSet, NodePrefixes
<1>7. m # None BY LimitsOK
<1>8. n \in NodeSet BY <1>2, <1>3, <1>4, <1>5, <1>6 DEF NodeSet, Operations
<1>9. NodeOK(n) BY <1>3, <1>4, <1>5, <1>7 DEF NodeOK
<1>10. n.arguments = ids /\ n.member = m /\ n.id = <<"target", 0, 0>> /\ n.inputs = inputs /\ n.op = op
  BY <1>4
<1> QED BY <1>3, <1>5, <1>8, <1>9, <1>10 DEF n, sig, IsTarget

\* A path, the arguments and the member make a plan.
LEMMA WithTargetOK ==
  ASSUME NEW m \in Members, NEW path, NEW type, IsReached(path, type, {"root", "step"}, 0),
         NEW args, LET params == Signature[m].params IN ArgumentsOK(params, Len(params), args)
  PROVE  /\ WithTarget(m, path, args).cache \in Seq(EntrySet(graph))
         /\ PlanOK(WithTarget(m, path, args).plan)
PROOF
<1> DEFINE params == Signature[m].params
           n == Len(params)
           some == path \o args.nodes
           from == Last(path).id
           target == TargetNode(m, from, args.ids)
           nodes == Append(some, target)
           open == Open(some, args.ids)
           plan == [nodes |-> nodes, open |-> open]
           L == Len(some)
<1>1. WithTarget(m, path, args) = [cache |-> args.cache, plan |-> plan] BY DEF WithTarget
<1>2. params \in Seq(Types) /\ (Signature[m].kind # "method" => params = <<>>)
  <2>1. Signature[m] \in SignatureSet BY ConstantsOK
  <2> QED BY <2>1, ConstantsOK DEF SignatureSet
<1>3. /\ args \in AccSet /\ IsWhole(args.nodes) /\ Len(args.ids) = n
      /\ ArePart(args.nodes, ArgumentPrefixes, 1..n)
      /\ \A a \in 1..n : \E k \in 1..Len(args.nodes) :
            args.nodes[k].id = args.ids[a] /\ args.nodes[k].type = params[a]
  BY DEF ArgumentsOK
<1> HIDE DEF params
<1>4. n \in Nat /\ (n = 0 <=> params = <<>>) BY <1>2, LenProperties, EmptySeq
<1>5. args.cache \in Seq(EntrySet(graph)) /\ args.ids \in Seq(IdSet) /\ args.nodes \in Seq(NodeSet)
  BY <1>3 DEF AccSet
<1>6. IsWhole(path) /\ Len(path) \in Nat \ {0} /\ ArePart(path, {"root", "step"}, {0})
      /\ path \in Seq(NodeSet)
  BY DEF IsReached, IsWhole
<1>7. Len(args.nodes) \in Nat BY <1>5, LenProperties
<1>8. /\ IsWhole(some) /\ L = Len(path) + Len(args.nodes)
      /\ \A k \in 1..Len(path) : some[k] = path[k]
      /\ \A k \in 1..Len(args.nodes) : some[Len(path) + k] = args.nodes[k]
      /\ \A k \in 1..L : \/ k \in 1..Len(path) /\ some[k] = path[k]
                         \/ /\ k - Len(path) \in 1..Len(args.nodes)
                            /\ some[k] = args.nodes[k - Len(path)]
  <2>1. \A j \in 1..Len(path), k \in 1..Len(args.nodes) : path[j].id # args.nodes[k].id
    <3> SUFFICES ASSUME NEW j \in 1..Len(path), NEW k \in 1..Len(args.nodes),
                        path[j].id = args.nodes[k].id
                 PROVE  FALSE
      OBVIOUS
    <3>1. path[j].id[1] \in {"root", "step"} BY <1>6 DEF ArePart
    <3>2. args.nodes[k].id[1] \in {"arg", "arg_root", "arg_step"}
      BY <1>3 DEF ArePart, ArgumentPrefixes
    <3> QED BY <3>1, <3>2
  <2> DEFINE b == args.nodes
  <2>2. IsWhole(b) /\ \A j \in 1..Len(path), k \in 1..Len(b) : path[j].id # b[k].id
    BY <1>3, <2>1
  <2> HIDE DEF b
  <2>3. /\ IsWhole(path \o b) /\ Len(path \o b) = Len(path) + Len(b)
        /\ \A k \in 1..Len(path) : (path \o b)[k] = path[k]
        /\ \A k \in 1..Len(b) : (path \o b)[Len(path) + k] = b[k]
        /\ \A k \in 1..Len(path \o b) :
              \/ k \in 1..Len(path) /\ (path \o b)[k] = path[k]
              \/ k - Len(path) \in 1..Len(b) /\ (path \o b)[k] = b[k - Len(path)]
    BY <1>6, <2>2, WholeJoined
  <2> QED BY <2>3 DEF b
<1>9. ASSUME NEW k \in 1..L PROVE some[k].id[1] # "target"
  <2> HIDE DEF some
  <2>1. CASE k \in 1..Len(path) /\ some[k] = path[k]
    <3>1. path[k].id[1] \in {"root", "step"} BY <1>6, <2>1 DEF ArePart
    <3> QED BY <2>1, <3>1
  <2>2. CASE k - Len(path) \in 1..Len(args.nodes) /\ some[k] = args.nodes[k - Len(path)]
    <3>1. args.nodes[k - Len(path)].id[1] \in ArgumentPrefixes BY <1>3, <2>2 DEF ArePart
    <3> QED BY <2>2, <3>1 DEF ArgumentPrefixes
  <2> QED BY <1>8, <2>1, <2>2
<1>10. from = path[Len(path)].id /\ from \in IdSet /\ IsEarlier(some, L + 1, from)
  <2>1. from = path[Len(path)].id BY DEF Last
  <2>2. path[Len(path)] \in NodeSet BY <1>6, ElementOfSeq
  <2>3. Len(path) \in 1..(L + 1 - 1) /\ Len(path) \in 1..Len(path) BY <1>6, <1>7, <1>8
  <2>4. some[Len(path)] = path[Len(path)] BY <1>8, <2>3
  <2> QED BY <2>1, <2>2, <2>3, <2>4 DEF NodeSet, IsEarlier
<1> HIDE DEF from
<1>11. /\ target \in NodeSet /\ NodeOK(target) /\ target.arguments = args.ids /\ target.member = m
       /\ target.id[1] = "target" /\ Range(target.inputs) \subseteq {from}
       /\ Signature[m].kind = "method" => target.op \in {"call_method", "call_static"}
  <2> DEFINE ids == args.ids
  <2>1. ids \in Seq(IdSet) BY <1>5
  <2> HIDE DEF ids
  <2>2. IsTarget(TargetNode(m, from, ids), m, from, ids) BY <1>10, <2>1, TargetNodeOK
  <2> QED BY <2>2 DEF ids, IsTarget
<1> HIDE DEF target, some, open
<1>12. \A a \in 1..n : \E k \in 1..L : some[k].id = args.ids[a] /\ some[k].type = params[a]
  <2> SUFFICES ASSUME NEW a \in 1..n
               PROVE  \E k \in 1..L : some[k].id = args.ids[a] /\ some[k].type = params[a]
    OBVIOUS
  <2>1. PICK k \in 1..Len(args.nodes) : args.nodes[k].id = args.ids[a] /\ args.nodes[k].type = params[a]
    BY <1>3
  <2>2. Len(path) + k \in 1..L BY <1>6, <1>7, <1>8
  <2>3. some[Len(path) + k] = args.nodes[k] BY <1>8
  <2> QED BY <2>1, <2>2, <2>3
<1>13. L \in Nat /\ some \in Seq(NodeSet) BY <1>6, <1>7, <1>8 DEF IsWhole
<1> HIDE DEF L
<1>14. /\ nodes \in Seq(NodeSet) /\ Len(nodes) = L + 1 /\ nodes[L + 1] = target
       /\ \A k \in 1..L : nodes[k] = some[k]
  <2>1. /\ Append(some, target) \in Seq(NodeSet) /\ Len(Append(some, target)) = Len(some) + 1
        /\ Append(some, target)[Len(some) + 1] = target
        /\ \A k \in 1..Len(some) : Append(some, target)[k] = some[k]
    BY <1>11, <1>13, AppendProperties
  <2> QED BY <2>1 DEF L
<1> HIDE DEF nodes
<1>15. \A k \in 1..L + 1 : k = L + 1 \/ k \in 1..L BY <1>13
<1>16. ASSUME NEW k \in 1..L PROVE /\ NodeOK(some[k]) /\ some[k] \in NodeSet
                                   /\ \A x \in Range(some[k].inputs) \cup Range(some[k].arguments) :
                                         IsEarlier(some, k, x)
  <2>1. k \in 1..Len(some) BY DEF L
  <2> QED BY <1>8, <1>13, <2>1, ElementOfSeq DEF IsWhole
<1>17. \A j, k \in 1..L : some[j].id = some[k].id => j = k BY <1>8 DEF IsWhole, L
<1>18. ASSUME NEW j \in 1..L + 1, NEW k \in 1..L + 1, nodes[j].id = nodes[k].id PROVE j = k
  <2>1. CASE j \in 1..L /\ k \in 1..L BY <1>14, <1>17, <1>18, <2>1
  <2>2. CASE j = L + 1 /\ k \in 1..L BY <1>9, <1>11, <1>14, <1>18, <2>2
  <2>3. CASE k = L + 1 /\ j \in 1..L BY <1>9, <1>11, <1>14, <1>18, <2>3
  <2> QED BY <1>15, <2>1, <2>2, <2>3
<1>19. ASSUME NEW x, NEW k \in 1..L + 1, IsEarlier(some, k, x) PROVE IsEarlier(nodes, k, x)
  <2>1. PICK i \in 1..(k - 1) : some[i].id = x BY <1>19 DEF IsEarlier
  <2>2. i \in 1..L BY <1>13
  <2> QED BY <1>14, <2>1, <2>2 DEF IsEarlier
<1>20. ASSUME NEW k \in 1..L + 1
       PROVE  /\ NodeOK(nodes[k])
              /\ \A x \in Range(nodes[k].inputs) \cup Range(nodes[k].arguments) :
                    IsEarlier(nodes, k, x)
  <2>1. CASE k \in 1..L BY <1>14, <1>16, <1>19, <2>1
  <2>2. CASE k = L + 1
    <3>1. nodes[k] = target BY <1>14, <2>2
    <3>2. ASSUME NEW x \in Range(args.ids) PROVE IsEarlier(some, k, x)
      <4>1. DOMAIN args.ids = 1..n BY <1>3, <1>5, LenProperties
      <4>2. PICK a \in 1..n : args.ids[a] = x BY <4>1 DEF Range
      <4>3. PICK i \in 1..L : some[i].id = args.ids[a] BY <1>12
      <4>4. i \in 1..(k - 1) BY <1>13, <2>2
      <4> QED BY <4>2, <4>3, <4>4 DEF IsEarlier
    <3> QED BY <1>10, <1>11, <1>19, <2>2, <3>1, <3>2
  <2> QED BY <1>15, <2>1, <2>2
<1>21. IsWhole(nodes) BY <1>14, <1>18, <1>20 DEF IsWhole
<1>22. target.arguments # <<>> => target.op \in {"call_method", "call_static"}
  BY <1>2, <1>3, <1>4, <1>5, <1>11, EmptySeq, LenProperties
<1>23. ASSUME NEW a \in 1..n, NEW k \in 1..L + 1, nodes[k].id = args.ids[a]
       PROVE  nodes[k].type = params[a] /\ (a \in open <=> nodes[k].placeholder)
  <2>1. PICK i \in 1..L : some[i].id = args.ids[a] /\ some[i].type = params[a] BY <1>12
  <2>2. k = i
    <3>1. i \in 1..L + 1 /\ nodes[i] = some[i] BY <1>13, <1>14
    <3> QED BY <1>18, <1>23, <2>1, <3>1
  <2>3. nodes[k] = some[k] BY <1>14, <2>2
  <2>4. DOMAIN args.ids = 1..n /\ DOMAIN some = 1..L BY <1>3, <1>5, <1>13, LenProperties DEF L
  <2>5. some[k].placeholder \in BOOLEAN BY <1>16, <2>2 DEF NodeSet
  <2>6. open = {b \in 1..n : \E j \in 1..L : some[j].id = args.ids[b] /\ some[j].placeholder}
    BY <2>4 DEF open, Open, Range
  <2>7. \A j \in 1..L : some[j].id = args.ids[a] => j = k BY <1>17, <2>1, <2>2
  <2>8. a \in open <=> some[k].placeholder BY <2>1, <2>2, <2>6, <2>7
  <2> QED BY <2>1, <2>2, <2>3, <2>8
<1>24. plan.nodes = nodes /\ plan.open = open /\ plan \in PlanSet
  <2>1. open \in SUBSET Nat
    <3>1. DOMAIN args.ids = 1..n BY <1>3, <1>5, LenProperties
    <3> QED BY <1>4, <3>1 DEF open, Open
  <2> QED BY <1>14, <2>1 DEF PlanSet
<1> HIDE DEF plan
<1>25. PlanOK(plan)
  <2>1. Len(nodes) \in Nat \ {0} /\ nodes[Len(nodes)] = target BY <1>13, <1>14
  <2>2. target.arguments = args.ids /\ Len(args.ids) = n /\ Signature[target.member].params = params
    BY <1>3, <1>11 DEF params
  <2> QED BY <1>14, <1>21, <1>22, <1>23, <1>24, <2>1, <2>2 DEF PlanOK
<1>26. WithTarget(m, path, args).cache = args.cache /\ WithTarget(m, path, args).plan = plan
  BY <1>1
<1> QED BY <1>5, <1>25, <1>26

\* The plan of a path that was found.
LEMMA BuildPlanOK ==
  ASSUME StateInv, NEW q \in Questions, NEW roots \in Seq(RootSet), NEW f \in FoundSet,
         f.root \in 1..Len(roots), IsPath(graph, MainSearch(q, roots), roots[f.root], f.path),
         NEW entries \in Seq(EntrySet(graph))
  PROVE  /\ BuildPlan(entries, q, roots, f).cache \in Seq(EntrySet(graph))
         /\ PlanOK(BuildPlan(entries, q, roots, f).plan)
PROOF
<1> DEFINE s == MainSearch(q, roots)
           path == Reached(roots[f.root], f.path, "root", "step", 0)
           args == Branches(entries, q, roots)
<1>1. IsReached(path, s.target, {"root", "step"}, 0)
  <2> DEFINE root == roots[f.root]
             edges == f.path
             first == "root"
             step == "step"
             i == 0
  <2>1. root \in RootSet BY ElementOfSeq
  <2>2. edges \in Seq(RowSet) /\ IsPath(graph, s, root, edges) BY DEF FoundSet
  <2>3. first \in NodePrefixes /\ step \in NodePrefixes /\ first # step /\ i \in Nat
    BY DEF NodePrefixes
  <2>4. graph \in Graphs BY DEF StateInv
  <2> HIDE DEF root, edges, first, step, i, s
  <2>5. IsReached(Reached(root, edges, first, step, i), s.target, {first, step}, i)
    BY <2>1, <2>2, <2>3, <2>4, ReachedOK
  <2> QED BY <2>5 DEF root, edges, first, step, i
<1> HIDE DEF path, s
<1>2. CASE q.member = None
  <2>1. PlanOK([nodes |-> path, open |-> {}]) BY <1>1, PathPlanOK
  <2>2. BuildPlan(entries, q, roots, f) = [cache |-> entries, plan |-> [nodes |-> path, open |-> {}]]
    BY <1>2 DEF BuildPlan, path
  <2> QED BY <2>1, <2>2
<1>3. CASE q.member # None
  <2> DEFINE m == q.member
  <2>1. m \in Members BY <1>3, ConstantsOK DEF QuestionSet
  <2>2. LET params == Signature[m].params IN ArgumentsOK(params, Len(params), args)
    BY <1>3, BranchesOK
  <2>3. BuildPlan(entries, q, roots, f) = WithTarget(m, path, args)
    BY <1>3 DEF BuildPlan, path
  <2> HIDE DEF m, args
  <2>4. /\ WithTarget(m, path, args).cache \in Seq(EntrySet(graph))
        /\ PlanOK(WithTarget(m, path, args).plan)
    BY <1>1, <2>1, <2>2, WithTargetOK
  <2> QED BY <2>3, <2>4
<1> QED BY <1>2, <1>3

\* A plan as it is offered, with the path it is made of.
OfferSet == [from : Nat, root : RootSet, path : Seq(RowSet), plan : PlanSet]
OffersSet == [cache : Seq(EntrySet(graph)), plans : Seq(OfferSet)]

\* The plans for the first k of the paths found.
OffersOK(found, roots, k, acc) ==
  /\ acc \in OffersSet /\ Len(acc.plans) = k
  /\ \A i \in 1..k : /\ acc.plans[i].from = found[i].root /\ acc.plans[i].path = found[i].path
                     /\ acc.plans[i].root = roots[found[i].root] /\ PlanOK(acc.plans[i].plan)

\* One more plan.
LEMMA OfferOK ==
  ASSUME StateInv, NEW q \in Questions, NEW roots \in Seq(RootSet), NEW found \in Seq(FoundSet),
         NEW k \in 1..Len(found), found[k].root \in 1..Len(roots),
         IsPath(graph, MainSearch(q, roots), roots[found[k].root], found[k].path),
         NEW acc, OffersOK(found, roots, k - 1, acc)
  PROVE  OffersOK(found, roots, k, Offer(acc, q, roots, found[k]))
PROOF
<1> DEFINE f == found[k]
           entries == acc.cache
           built == BuildPlan(entries, q, roots, f)
           p == [from |-> f.root, root |-> roots[f.root], path |-> f.path, plan |-> built.plan]
           old == acc.plans
           plans == Append(old, p)
           new == Offer(acc, q, roots, f)
<1>1. f \in FoundSet /\ k \in Nat \ {0} BY ElementOfSeq
<1>2. entries \in Seq(EntrySet(graph)) /\ old \in Seq(OfferSet) /\ Len(old) = k - 1
  BY DEF OffersOK, OffersSet
<1>3. \A i \in 1..(k - 1) :
         /\ old[i].from = found[i].root /\ old[i].path = found[i].path
         /\ old[i].root = roots[found[i].root] /\ PlanOK(old[i].plan)
  BY DEF OffersOK
<1>4. new = [cache |-> built.cache, plans |-> plans] BY DEF Offer
<1>5. built.cache \in Seq(EntrySet(graph)) /\ PlanOK(built.plan)
  <2>1. f.root \in 1..Len(roots) /\ IsPath(graph, MainSearch(q, roots), roots[f.root], f.path)
    OBVIOUS
  <2> HIDE DEF f, entries
  <2> QED BY <1>1, <1>2, <2>1, BuildPlanOK
<1>6. roots[f.root] \in RootSet BY ElementOfSeq
<1> HIDE DEF f, entries, built
<1>7. p \in OfferSet BY <1>1, <1>5, <1>6 DEF OfferSet, FoundSet, PlanOK
<1>8. p.from = f.root /\ p.path = f.path /\ p.root = roots[f.root] /\ PlanOK(p.plan) BY <1>5
<1> HIDE DEF p, old
<1>9. /\ plans \in Seq(OfferSet) /\ Len(plans) = k /\ plans[k] = p
      /\ \A i \in 1..(k - 1) : plans[i] = old[i]
  <2>1. /\ plans \in Seq(OfferSet) /\ Len(plans) = Len(old) + 1 /\ plans[Len(old) + 1] = p
        /\ \A i \in 1..Len(old) : plans[i] = old[i]
    BY <1>2, <1>7, AppendProperties
  <2>2. Len(old) = k - 1 /\ (k - 1) + 1 = k BY <1>1, <1>2
  <2> HIDE DEF plans
  <2> QED BY <2>1, <2>2
<1> HIDE DEF plans, new
<1>10. new \in OffersSet /\ new.plans = plans BY <1>4, <1>5, <1>9 DEF OffersSet
<1>11. ASSUME NEW i \in 1..k
       PROVE  /\ plans[i].from = found[i].root /\ plans[i].path = found[i].path
              /\ plans[i].root = roots[found[i].root] /\ PlanOK(plans[i].plan)
  <2>1. i = k \/ i \in 1..(k - 1) BY <1>1
  <2>2. CASE i = k BY <1>8, <1>9, <2>2 DEF f
  <2>3. CASE i \in 1..(k - 1) BY <1>3, <1>9, <2>3
  <2> QED BY <2>1, <2>2, <2>3
<1>12. OffersOK(found, roots, k, new) BY <1>9, <1>10, <1>11 DEF OffersOK
<1> QED BY <1>12 DEF new, f

\* The plans for all paths.
LEMMA PlansForOK ==
  ASSUME StateInv, NEW q \in Questions, NEW roots \in Seq(RootSet), NEW looked,
         looked.cache \in Seq(EntrySet(graph)),
         ResultOK(graph, MainSearch(q, roots), looked.result)
  PROVE  OffersOK(looked.result.found, roots, Len(looked.result.found), PlansFor(q, roots, looked))
PROOF
<1> DEFINE found == looked.result.found
           n == Len(found)
           S == OffersSet
           x0 == [cache |-> looked.cache, plans |-> <<>>]
           Step(i, acc) == Offer(acc, q, roots, found[i])
           F == [p \in (1..n) \X S |->
                   IF OffersOK(found, roots, p[1] - 1, p[2]) THEN Step(p[1], p[2]) ELSE x0]
           Rec(g) == g = [i \in 0..n |-> IF i = 0 THEN x0 ELSE Step(i, g[i - 1])]
           up == CHOOSE g : Rec(g)
<1>1. /\ found \in Seq(FoundSet)
      /\ \A i \in 1..n : /\ found[i].root \in 1..Len(roots)
                         /\ IsPath(graph, MainSearch(q, roots), roots[found[i].root], found[i].path)
  <2>1. found \in Seq(FoundSet) /\ AreFound(graph, MainSearch(q, roots), found)
    BY DEF ResultOK, ResultSet
  <2>2. MainSearch(q, roots).roots = roots BY DEF MainSearch
  <2> HIDE DEF found
  <2> QED BY <2>1, <2>2 DEF AreFound
<1> HIDE DEF found
<1>2. n \in Nat BY <1>1, LenProperties
<1>3. OffersOK(found, roots, 0, x0) /\ x0 \in S
  <2>1. <<>> \in Seq(OfferSet) /\ Len(<<>>) = 0 BY EmptySeq
  <2>2. x0 \in S /\ x0.plans = <<>> BY <2>1 DEF OffersSet
  <2> HIDE DEF x0
  <2> QED BY <2>1, <2>2 DEF OffersOK
<1> HIDE DEF x0
<1>4. ASSUME NEW i \in 1..n, NEW acc, OffersOK(found, roots, i - 1, acc)
      PROVE  OffersOK(found, roots, i, Step(i, acc)) /\ Step(i, acc) \in S
  <2>1. OffersOK(found, roots, i, Step(i, acc)) BY <1>1, <1>4, OfferOK
  <2> QED BY <2>1 DEF OffersOK
<1> HIDE DEF S, Step
<1>5. F \in [(1..n) \X S -> S]
  <2>1. ASSUME NEW p \in (1..n) \X S
        PROVE  (IF OffersOK(found, roots, p[1] - 1, p[2]) THEN Step(p[1], p[2]) ELSE x0) \in S
    <3>1. p[1] \in 1..n OBVIOUS
    <3> QED BY <1>3, <1>4, <3>1
  <2> QED BY <2>1
<1>6. PICK h : Iterates(h, F, S, x0, n) BY <1>2, <1>3, <1>5, IterationExists
<1> DEFINE D == {i \in 0..n : OffersOK(found, roots, i, h[i])}
<1>7. \A i \in 0..n : i \in D
  <2>1. 0 \in D BY <1>2, <1>3, <1>6 DEF Iterates
  <2>2. ASSUME NEW i \in 1..n, i - 1 \in D PROVE i \in D
    <3>1. i - 1 \in 0..n /\ i \in 0..n BY <1>2
    <3>2. h[i - 1] \in S /\ h[i] = F[<<i, h[i - 1]>>] BY <1>6, <3>1 DEF Iterates
    <3>3. OffersOK(found, roots, i - 1, h[i - 1]) BY <2>2
    <3>4. h[i] = Step(i, h[i - 1]) BY <3>2, <3>3
    <3>5. OffersOK(found, roots, i, h[i]) BY <1>4, <3>3, <3>4
    <3> QED BY <3>1, <3>5
  <2> HIDE DEF D
  <2> QED BY <1>2, <2>1, <2>2, UpTo
<1>8. Rec(h)
  <2>1. ASSUME NEW i \in 0..n PROVE h[i] = IF i = 0 THEN x0 ELSE Step(i, h[i - 1])
    <3>1. CASE i = 0 BY <1>6, <3>1 DEF Iterates
    <3>2. CASE i # 0
      <4>1. i \in 1..n /\ i - 1 \in 0..n BY <1>2, <3>2
      <4>2. h[i - 1] \in S /\ h[i] = F[<<i, h[i - 1]>>] BY <1>6, <4>1 DEF Iterates
      <4>3. OffersOK(found, roots, i - 1, h[i - 1]) BY <1>7, <4>1
      <4>4. h[i] = Step(i, h[i - 1]) BY <4>1, <4>2, <4>3
      <4> QED BY <3>2, <4>4
    <3> QED BY <3>1, <3>2
  <2>2. h = [i \in 0..n |-> h[i]] BY <1>6 DEF Iterates
  <2> HIDE DEF F
  <2> QED BY <2>1, <2>2
<1>9. Rec(up) BY <1>8
<1>10. PlansFor(q, roots, looked) = up[n] BY DEF PlansFor, Step, x0, found
<1> HIDE DEF up, F, D
<1>11. up[0] = x0 /\ \A i \in 1..n : up[i] = Step(i, up[i - 1])
  <2>1. \A i \in 1..n : i \in 0..n /\ i # 0 BY <1>2
  <2>2. \A i \in 0..n : up[i] = IF i = 0 THEN x0 ELSE Step(i, up[i - 1]) BY <1>9
  <2> QED BY <1>2, <2>1, <2>2
<1> HIDE DEF Rec
<1> DEFINE E == {i \in 0..n : OffersOK(found, roots, i, up[i])}
<1>12. 0 \in E BY <1>2, <1>3, <1>11
<1>13. ASSUME NEW i \in 1..n, i - 1 \in E PROVE i \in E
  <2>1. OffersOK(found, roots, i - 1, up[i - 1]) BY <1>13
  <2>2. OffersOK(found, roots, i, up[i]) BY <1>4, <1>11, <2>1
  <2> QED BY <1>2, <2>2
<1> HIDE DEF E
<1>14. \A i \in 0..n : i \in E BY <1>2, <1>12, <1>13, UpTo
<1> QED BY <1>2, <1>10, <1>14 DEF E, found

-----------------------------------------------------------------------------
(* Answers and drafts *)

\* PathsAreReal of an answer.
AreReal(g, s, roots, plans) ==
  /\ Len(plans) <= s.paths
  /\ \A p \in Range(plans) : p.root \in Range(roots) /\ IsPath(g, s, p.root, p.path)
  /\ \A i, j \in DOMAIN plans : i # j => \/ plans[i].from # plans[j].from
                                         \/ PathKey(plans[i].path) # PathKey(plans[j].path)

\* Ranking keeps the plans, and they keep the paths.
LEMMA RankedAreReal ==
  ASSUME NEW s, NEW roots \in Seq(RootSet), s.roots = roots, NEW result,
         ResultOK(graph, s, result),
         NEW built, OffersOK(result.found, roots, Len(result.found), built)
  PROVE  AreReal(graph, s, roots, Ranked(built.plans))
PROOF
<1> DEFINE found == result.found
           n == Len(found)
           plans == built.plans
           ranked == Ranked(plans)
<1>1. /\ found \in Seq(FoundSet) /\ n <= s.paths /\ AreDistinct(found) /\ n \in Nat
      /\ \A k \in 1..n : /\ found[k].root \in 1..Len(roots)
                         /\ IsPath(graph, s, roots[found[k].root], found[k].path)
  BY LenProperties DEF ResultOK, ResultSet, AreFound
<1>2. /\ plans \in Seq(OfferSet) /\ Len(plans) = n
      /\ \A k \in 1..n : /\ plans[k].from = found[k].root /\ plans[k].path = found[k].path
                         /\ plans[k].root = roots[found[k].root]
  BY DEF OffersOK, OffersSet
<1> HIDE DEF n, found, plans
<1>3. Reorders(ranked, plans) BY <1>2, SortedReorders DEF Ranked
<1> HIDE DEF ranked
<1>4. PICK p : Arranges(p, n) /\ ranked = [k \in 1..n |-> plans[p[k]]] BY <1>2, <1>3 DEF Reorders
<1>5. Len(ranked) = n BY <1>2, <1>3, ReordersGives
<1>6. DOMAIN ranked = 1..n BY <1>4
<1>7. \A k \in 1..n : p[k] \in 1..n /\ ranked[k] = plans[p[k]]
  BY <1>1, <1>4, ElementOfSeq DEF Arranges
<1>8. DOMAIN roots = 1..Len(roots) BY LenProperties
<1>9. ASSUME NEW x \in Range(ranked)
      PROVE  x.root \in Range(roots) /\ IsPath(graph, s, x.root, x.path)
  <2>1. PICK k \in 1..n : x = ranked[k] BY <1>6 DEF Range
  <2>2. p[k] \in 1..n /\ x = plans[p[k]] BY <1>7, <2>1
  <2>3. x.root = roots[found[p[k]].root] /\ x.path = found[p[k]].path BY <1>2, <2>2
  <2>4. found[p[k]].root \in DOMAIN roots BY <1>1, <1>8, <2>2
  <2>5. x.root \in Range(roots) BY <2>3, <2>4 DEF Range
  <2> QED BY <1>1, <2>2, <2>3, <2>5
<1>10. ASSUME NEW i \in 1..n, NEW j \in 1..n, i # j, ranked[i].from = ranked[j].from,
              PathKey(ranked[i].path) = PathKey(ranked[j].path)
       PROVE  FALSE
  <2>1. p[i] # p[j] BY <1>4, <1>10 DEF Arranges
  <2>2. p[i] \in 1..n /\ p[j] \in 1..n BY <1>7
  <2>3. ranked[i] = plans[p[i]] /\ ranked[j] = plans[p[j]] BY <1>7
  <2>4. /\ plans[p[i]].from = plans[p[j]].from
        /\ PathKey(plans[p[i]].path) = PathKey(plans[p[j]].path)
    BY <1>10, <2>3
  <2>5. /\ found[p[i]].root = found[p[j]].root
        /\ PathKey(found[p[i]].path) = PathKey(found[p[j]].path)
    BY <1>2, <2>2, <2>4
  <2> QED BY <1>1, <2>1, <2>2, <2>5 DEF AreDistinct, n
<1>11. AreReal(graph, s, roots, ranked) BY <1>1, <1>5, <1>6, <1>9, <1>10 DEF AreReal
<1> QED BY <1>11 DEF ranked, plans

\* NearestAreFound of an answer.
Lengths(plans, r) == {Len(p.path) : p \in {x \in Range(plans) : x.root = r}}

AreNearest(g, s, roots, plans) ==
  \A r \in Range(roots) : \A n \in DOMAIN Within(g, s) :
     r.type \in Within(g, s)[n] /\ (n > 0 => r.type \notin Within(g, s)[n - 1]) =>
        \/ n \in Lengths(plans, r)
        \/ /\ Lengths(plans, r) = {} /\ Len(plans) = s.paths
           /\ \A p \in Range(plans) : Len(p.path) <= n

\* The plans keep what the search has settled.
LEMMA RankedAreNearest ==
  ASSUME NEW s, IsSearch(s), NEW roots \in Seq(RootSet), s.roots = roots, IsGraph(graph),
         NoLimitBites(graph, s), NEW result, ResultOK(graph, s, result), ~result.truncated,
         NEW built, OffersOK(result.found, roots, Len(result.found), built)
  PROVE  AreNearest(graph, s, roots, Ranked(built.plans))
PROOF
<1> DEFINE found == result.found
           n == Len(found)
           plans == built.plans
           ranked == Ranked(plans)
<1>1. /\ found \in Seq(FoundSet) /\ n <= s.paths /\ n \in Nat /\ AllSettled(graph, s, found)
      /\ \A k \in 1..n : /\ found[k].root \in 1..Len(roots)
                         /\ IsPath(graph, s, roots[found[k].root], found[k].path)
  BY LenProperties DEF ResultOK, ResultSet, AreFound
<1>2. /\ plans \in Seq(OfferSet) /\ Len(plans) = n
      /\ \A k \in 1..n : /\ plans[k].path = found[k].path
                         /\ plans[k].root = roots[found[k].root]
  BY DEF OffersOK, OffersSet
<1> HIDE DEF n, found, plans
<1>3. Reorders(ranked, plans) BY <1>2, SortedReorders DEF Ranked
<1> HIDE DEF ranked
<1>4. /\ ranked \in Seq(OfferSet) /\ Len(ranked) = n
      /\ \A k \in 1..n : \E j \in 1..n : ranked[k] = plans[j]
      /\ \A j \in 1..n : \E k \in 1..n : ranked[k] = plans[j]
  <2>1. plans \in Seq(OfferSet) /\ Reorders(ranked, plans) BY <1>2, <1>3
  <2>2. /\ ranked \in Seq(OfferSet) /\ Len(ranked) = Len(plans)
        /\ \A k \in 1..Len(plans) : \E j \in 1..Len(plans) : ranked[k] = plans[j]
        /\ \A j \in 1..Len(plans) : \E k \in 1..Len(plans) : ranked[k] = plans[j]
    BY <2>1, ReordersGives
  <2> QED BY <1>2, <2>2
<1>5. DOMAIN ranked = 1..n /\ DOMAIN roots = 1..Len(roots) BY <1>4, LenProperties
<1>6. ASSUME NEW x \in Range(ranked)
      PROVE  \E k \in 1..n : /\ x.path = found[k].path /\ x.root = roots[found[k].root]
                             /\ x.path \in Seq(RowSet) /\ Len(x.path) \in Nat
  <2>1. PICK k \in 1..n : x = ranked[k] BY <1>5 DEF Range
  <2>2. PICK j \in 1..n : x = plans[j] BY <1>4, <2>1
  <2>3. x \in OfferSet BY <1>2, <2>2, ElementOfSeq
  <2>4. x.path \in Seq(RowSet) BY <2>3 DEF OfferSet
  <2> QED BY <1>2, <2>2, <2>4, LenProperties
<1>7. s.paths \in Nat /\ s.depth \in Nat /\ DOMAIN Within(graph, s) = 0..s.depth
  BY WithinGives DEF IsSearch
<1>8. ASSUME NEW r \in Range(roots), NEW m \in DOMAIN Within(graph, s), At(graph, s, r.type, m),
             m \notin Lengths(ranked, r)
      PROVE  /\ Lengths(ranked, r) = {} /\ Len(ranked) = s.paths
             /\ \A x \in Range(ranked) : Len(x.path) <= m
  <2>1. PICK i \in 1..Len(roots) : r = roots[i] BY <1>5 DEF Range
  <2>2. m \in 0..s.depth /\ m \in Nat BY <1>7
  <2>3. Settled(s, found, i, m) BY <1>1, <1>8, <2>1, <2>2 DEF AllSettled
  <2>4. ~HasPath(found, i, m)
    <3> SUFFICES ASSUME NEW k \in 1..n, found[k].root = i, Len(found[k].path) = m PROVE FALSE
      BY DEF HasPath, n
    <3>1. plans[k].root = r /\ Len(plans[k].path) = m BY <1>2, <2>1
    <3>2. PICK j \in 1..n : ranked[j] = plans[k] BY <1>4
    <3>3. ranked[j] \in Range(ranked) BY <1>5 DEF Range
    <3> QED BY <1>8, <3>1, <3>2, <3>3 DEF Lengths
  <2>5. n >= s.paths /\ \A k \in 1..n : Len(found[k].path) <= m BY <2>3, <2>4 DEF Settled, n
  <2>6. Len(ranked) = s.paths BY <1>1, <1>4, <1>7, <2>5
  <2>7. ASSUME NEW x \in Range(ranked) PROVE Len(x.path) <= m BY <1>6, <2>5
  <2>8. ASSUME NEW x \in Range(ranked), x.root = r PROVE FALSE
    <3>1. PICK k \in 1..n : /\ x.path = found[k].path /\ x.root = roots[found[k].root]
                            /\ x.path \in Seq(RowSet) /\ Len(x.path) \in Nat
      BY <1>6
    <3> DEFINE path == x.path
               l == Len(path)
    <3>2. path \in Seq(RowSet) /\ IsPath(graph, s, r, path) BY <1>1, <2>8, <3>1
    <3> HIDE DEF path
    <3>3. l \in 0..s.depth /\ r.type \in Within(graph, s)[l] BY <3>2, PathWithin
    <3> HIDE DEF l
    <3>4. m <= l BY <1>8, <3>3, AtIsLeast
    <3>5. l <= m /\ l \in Nat BY <2>7, <3>1 DEF l, path
    <3>6. l = m BY <2>2, <3>4, <3>5
    <3>7. m \in Lengths(ranked, r) BY <2>8, <3>6 DEF Lengths, l, path
    <3> QED BY <1>8, <3>7
  <2>9. Lengths(ranked, r) = {} BY <2>8 DEF Lengths
  <2> QED BY <2>6, <2>7, <2>9
<1>9. AreNearest(graph, s, roots, ranked) BY <1>7, <1>8 DEF AreNearest, At
<1> QED BY <1>9 DEF ranked, plans

\* A plan is a program.
LEMMA PlansAreSound ==
  ASSUME NEW plan, PlanOK(plan)
  PROVE  IsProgram(plan) /\ IsClosed(Draft(plan))
PROOF
<1> DEFINE nodes == plan.nodes
           n == Len(nodes)
           target == nodes[n]
           lines == [i \in DOMAIN nodes |-> [declares |-> nodes[i].id, uses |-> Uses(nodes[i])]]
           d == Draft(plan)
<1>1. /\ nodes \in Seq(NodeSet) /\ n \in Nat \ {0} /\ DOMAIN nodes = 1..n
      /\ \A j, k \in 1..n : nodes[j].id = nodes[k].id => j = k
      /\ \A k \in 1..n :
            /\ NodeOK(nodes[k])
            /\ \A x \in Range(nodes[k].inputs) \cup Range(nodes[k].arguments) : IsEarlier(nodes, k, x)
      /\ target.arguments # <<>> => target.op \in {"call_method", "call_static"}
      /\ \A a \in 1..Len(target.arguments) : \A k \in 1..n :
            nodes[k].id = target.arguments[a] =>
               /\ nodes[k].type = Signature[target.member].params[a]
               /\ (a \in plan.open) <=> nodes[k].placeholder
  BY LenProperties DEF PlanOK, IsWhole
<1> HIDE DEF nodes, n
<1>2. ASSUME NEW k \in 1..n
      PROVE  /\ nodes[k].inputs \in Seq(IdSet) /\ nodes[k].arguments \in Seq(IdSet)
             /\ DOMAIN nodes[k].arguments = 1..Len(nodes[k].arguments)
  <2>1. nodes[k] \in NodeSet BY <1>1, ElementOfSeq DEF n
  <2>2. nodes[k].inputs \in Seq(IdSet) /\ nodes[k].arguments \in Seq(IdSet) BY <2>1 DEF NodeSet
  <2> QED BY <2>2, LenProperties
<1>3. n \in 1..n BY <1>1
<1>4. Last(nodes) = target BY DEF Last, n
<1> HIDE DEF target
<1>5. ASSUME NEW k \in 1..n, NEW x, IsEarlier(nodes, k, x) PROVE x \in {nodes[j].id : j \in 1..(k - 1)}
  BY <1>5 DEF IsEarlier
<1>6. IsProgram(plan)
  <2>1. \A i, j \in DOMAIN nodes : nodes[i].id = nodes[j].id => i = j BY <1>1
  <2>2. ASSUME NEW i \in DOMAIN nodes
        PROVE  /\ Range(nodes[i].inputs) \cup Range(nodes[i].arguments)
                    \subseteq {nodes[k].id : k \in 1..(i - 1)}
               /\ nodes[i].op \in {"read_field", "read_property", "call_method", "call_static"}
                    => nodes[i].member # None
    <3>1. i \in 1..n /\ NodeOK(nodes[i]) BY <1>1
    <3> QED BY <1>1, <1>5, <3>1 DEF NodeOK
  <2>3. ASSUME NEW a \in DOMAIN target.arguments, NEW m \in Range(nodes), m.id = target.arguments[a]
        PROVE  /\ m.type = Signature[target.member].params[a]
               /\ (a \in plan.open) <=> m.op \in {"bind_constant", "construct_object"}
    <3>1. PICK k \in 1..n : m = nodes[k] BY <1>1 DEF Range
    <3>2. a \in 1..Len(target.arguments) BY <1>2, <1>3 DEF target
    <3>3. /\ m.type = Signature[target.member].params[a]
          /\ (a \in plan.open) <=> m.placeholder
      BY <1>1, <2>3, <3>1, <3>2
    <3>4. NodeOK(m) BY <1>1, <3>1
    <3> QED BY <3>3, <3>4 DEF NodeOK
  <2> QED BY <1>4, <2>1, <2>2, <2>3 DEF IsProgram, nodes
<1>7. d = [plan |-> plan, lines |-> lines, emits |-> target.id] BY <1>4 DEF Draft, nodes
<1>8. /\ DOMAIN lines = 1..n
      /\ \A k \in 1..n : lines[k].declares = nodes[k].id /\ lines[k].uses = Uses(nodes[k])
  BY <1>1
<1>9. lines \in Seq({lines[k] : k \in 1..n}) /\ Len(lines) = n
  <2> DEFINE L == {lines[k] : k \in 1..n}
  <2>1. lines \in [1..n -> L] /\ n \in Nat BY <1>1, <1>8
  <2> HIDE DEF lines, L
  <2>2. lines \in Seq(L) BY <2>1, SeqDef
  <2>3. Len(lines) = n BY <1>8, <2>1, <2>2, LenProperties
  <2> QED BY <2>2, <2>3 DEF L
<1> HIDE DEF lines, d
<1>10. ASSUME NEW k \in 1..n
       PROVE  Uses(nodes[k]) \subseteq Range(nodes[k].inputs) \cup Range(nodes[k].arguments)
  <2>1. NodeOK(nodes[k]) /\ nodes[k].inputs \in Seq(IdSet) BY <1>1, <1>2
  <2>2. ASSUME nodes[k].inputs # <<>> PROVE nodes[k].inputs[1] \in Range(nodes[k].inputs)
    <3>1. Len(nodes[k].inputs) \in Nat \ {0} /\ DOMAIN nodes[k].inputs = 1..Len(nodes[k].inputs)
      BY <2>1, <2>2, LenProperties, EmptySeq
    <3>2. 1 \in DOMAIN nodes[k].inputs BY <3>1
    <3> QED BY <3>2 DEF Range
  <2> QED BY <2>1, <2>2 DEF Uses, NodeOK
<1>11. \A k \in 1..n : {lines[j].declares : j \in 1..(k - 1)} = {nodes[j].id : j \in 1..(k - 1)}
  <2> SUFFICES ASSUME NEW k \in 1..n
               PROVE {lines[j].declares : j \in 1..(k - 1)} = {nodes[j].id : j \in 1..(k - 1)}
    OBVIOUS
  <2>1. \A j \in 1..(k - 1) : j \in 1..n BY <1>1
  <2> QED BY <1>8, <2>1
<1>12. ASSUME NEW k \in 1..n PROVE lines[k].uses \subseteq {lines[j].declares : j \in 1..(k - 1)}
  <2>1. ASSUME NEW x \in Uses(nodes[k]) PROVE x \in {nodes[j].id : j \in 1..(k - 1)}
    <3>1. x \in Range(nodes[k].inputs) \cup Range(nodes[k].arguments) BY <1>10
    <3> QED BY <1>1, <1>5, <3>1
  <2>2. lines[k].uses = Uses(nodes[k]) BY <1>8
  <2> QED BY <1>11, <2>1, <2>2
<1>13. target.id \in {lines[j].declares : j \in 1..(n + 1 - 1)}
  <2>1. n \in 1..(n + 1 - 1) /\ lines[n].declares = target.id BY <1>1, <1>3, <1>8 DEF target
  <2> QED BY <2>1
<1>14. Range(target.arguments) \subseteq lines[n].uses
  <2>1. lines[n].uses = Uses(target) BY <1>3, <1>8 DEF target
  <2>2. CASE target.arguments = <<>> BY <2>2 DEF Range
  <2>3. CASE target.op \in {"call_method", "call_static"} BY <2>1, <2>3 DEF Uses
  <2> QED BY <1>1, <2>2, <2>3
<1>15. IsClosed(d)
  <2>1. Last(lines) = lines[n] BY <1>9 DEF Last
  <2>2. d.plan.nodes = nodes /\ d.lines = lines /\ d.emits = target.id BY <1>7 DEF nodes
  <2> QED BY <1>4, <1>8, <1>9, <1>12, <1>13, <1>14, <2>1, <2>2 DEF IsClosed
<1> QED BY <1>6, <1>15 DEF d

-----------------------------------------------------------------------------
(* The invariants *)

\* What is true of the last answer.
AnswerInv == PathsAreReal /\ NearestAreFound

\* What the steps preserve: the cache holds what its searches may return, the
\* answer is sound, saved plans can be turned into drafts, and the draft is closed.
PlannerInv ==
  /\ StateInv /\ AnswerInv
  /\ \A plan \in saved : PlanOK(plan)
  /\ draft # None => IsClosed(draft)

\* At the start there is nothing.
LEMMA PlannerInit == Init => PlannerInv
PROOF
<1> SUFFICES ASSUME Init PROVE PlannerInv OBVIOUS
<1>1. <<>> \in Seq(LiveItems) /\ <<>> \in Seq(EntrySet(graph)) BY EmptySeq
<1>2. StateInv BY <1>1 DEF Init, StateInv
<1>3. AnswerInv BY DEF Init, AnswerInv, PathsAreReal, NearestAreFound
<1> QED BY <1>2, <1>3 DEF Init, PlannerInv

\* What does not change the state of the tool keeps the invariant of the state.
LEMMA StateKept ==
  ASSUME StateInv, graph' = graph, cache' = cache,
         usage' \in [Members -> Nat], runtime' \in [Members -> Nat],
         hints' \in [Types -> Nat], live' \in Seq(LiveItems)
  PROVE  StateInv'
PROOF
<1> QED BY DEF StateInv, EntrySet

\* The answer stays sound, as the snapshot does not change.
LEMMA AnswerKept ==
  ASSUME AnswerInv, UNCHANGED <<graph, answer>>
  PROVE  AnswerInv'
PROOF
<1>1. PathsAreReal' BY DEF AnswerInv, PathsAreReal, Asked
<1>2. Asked' = Asked BY DEF Asked
<1>3. NearestAreFound'
  <2>1. graph' = graph /\ answer' = answer /\ NearestAreFound BY DEF AnswerInv
  <2> QED BY <1>2, <2>1 DEF NearestAreFound
<1> QED BY <1>1, <1>3 DEF AnswerInv

\* A question is answered.
LEMMA FindPathsKeeps ==
  ASSUME PlannerInv, NEW q \in Questions, FindPaths(q)
  PROVE  PlannerInv'
PROOF
<1>1. StateInv /\ \A plan \in saved : PlanOK(plan) BY DEF PlannerInv
<1> DEFINE roots == Eligible(q)
           s == MainSearch(q, roots)
           looked == RootedPaths(cache, s)
           built == PlansFor(q, roots, looked)
<1>2. /\ Answer(q, roots, looked, built)
      /\ UNCHANGED <<graph, usage, runtime, hints, live, draft>>
  BY DEF FindPaths
<1>3. roots \in Seq(RootSet) BY <1>1, EligibleTyped
<1> HIDE DEF roots
<1>4. s \in SearchSet BY <1>3, SearchesTyped
<1>5. s.roots = roots BY DEF MainSearch
<1>6. cache \in Seq(EntrySet(graph)) BY <1>1 DEF StateInv
<1>7. looked.cache \in Seq(EntrySet(graph)) /\ ResultOK(graph, s, looked.result)
  BY <1>1, <1>4, <1>6, RootedPathsOK
<1> HIDE DEF looked
<1>8. OffersOK(looked.result.found, roots, Len(looked.result.found), built)
  BY <1>1, <1>3, <1>7, PlansForOK
<1> HIDE DEF built
<1>9. AreReal(graph, s, roots, Ranked(built.plans))
  <2> DEFINE result == looked.result
  <2>1. ResultOK(graph, s, result) /\ OffersOK(result.found, roots, Len(result.found), built)
    BY <1>7, <1>8
  <2> HIDE DEF result, s
  <2> QED BY <1>3, <1>5, <2>1, RankedAreReal
<1>10. ASSUME NoLimitBites(graph, s), ~looked.result.truncated
       PROVE  AreNearest(graph, s, roots, Ranked(built.plans))
  <2> DEFINE result == looked.result
  <2>1. /\ ResultOK(graph, s, result) /\ OffersOK(result.found, roots, Len(result.found), built)
        /\ ~result.truncated
    BY <1>7, <1>8, <1>10
  <2>2. IsSearch(s) /\ IsGraph(graph) BY <1>1, <1>4, SearchSetIsSearch, GraphsAreGraphs DEF StateInv
  <2> HIDE DEF result, s
  <2> QED BY <1>3, <1>5, <1>10, <2>1, <2>2, RankedAreNearest
<1>11. /\ cache' = built.cache /\ saved' = saved \cup {p.plan : p \in Range(built.plans)}
       /\ answer' = [question |-> q, roots |-> roots, plans |-> Ranked(built.plans),
                     truncated |-> looked.result.truncated]
  BY <1>2 DEF Answer
<1>12. built.cache \in Seq(EntrySet(graph)) /\ built.plans \in Seq(OfferSet)
  BY <1>8 DEF OffersOK, OffersSet
<1>13. StateInv'
  <2>1. cache' \in Seq(EntrySet(graph)') BY <1>2, <1>11, <1>12 DEF EntrySet
  <2> QED BY <1>1, <1>2, <2>1 DEF StateInv
<1>14. AnswerInv'
  <2>1. answer'.question = q /\ answer'.roots = roots /\ answer'.plans = Ranked(built.plans)
    BY <1>11
  <2>2. Asked' = s BY <2>1 DEF Asked
  <2>3. AreReal(graph', Asked', answer'.roots, answer'.plans) BY <1>2, <1>9, <2>1, <2>2
  <2>4. PathsAreReal' BY <2>3 DEF PathsAreReal, AreReal
  <2>5. NoLimitBites(graph', Asked') /\ ~answer'.truncated
           => AreNearest(graph', Asked', answer'.roots, answer'.plans)
    BY <1>2, <1>11, <1>10, <2>1, <2>2
  <2>6. NearestAreFound' BY <2>5 DEF NearestAreFound, AreNearest, Lengths
  <2> QED BY <2>4, <2>6 DEF AnswerInv
<1>15. ASSUME NEW plan \in saved' PROVE PlanOK(plan)
  <2>1. CASE plan \in saved BY <1>1, <2>1
  <2>2. ASSUME NEW p \in Range(built.plans) PROVE PlanOK(p.plan)
    <3>1. DOMAIN built.plans = 1..Len(built.plans) BY <1>12, LenProperties
    <3>2. PICK k \in 1..Len(built.plans) : p = built.plans[k] BY <3>1 DEF Range
    <3> QED BY <1>8, <3>2 DEF OffersOK
  <2> QED BY <1>11, <2>1, <2>2
<1>16. draft' # None => IsClosed(draft') BY <1>2 DEF PlannerInv
<1> QED BY <1>13, <1>14, <1>15, <1>16 DEF PlannerInv

\* Every step keeps the invariant.
LEMMA PlannerStep == PlannerInv /\ [Next]_vars => PlannerInv'
PROOF
<1> SUFFICES ASSUME PlannerInv, [Next]_vars PROVE PlannerInv' OBVIOUS
<1>1. /\ StateInv /\ AnswerInv /\ (\A plan \in saved : PlanOK(plan))
      /\ (draft # None => IsClosed(draft))
  BY DEF PlannerInv
<1>2. /\ usage \in [Members -> Nat] /\ runtime \in [Members -> Nat]
      /\ hints \in [Types -> Nat] /\ live \in Seq(LiveItems)
  BY <1>1 DEF StateInv
<1>3. CASE UNCHANGED vars
  <2>1. UNCHANGED <<graph, usage, runtime, hints, live, cache, saved, answer, draft>>
    BY <1>3 DEF vars
  <2>2. StateInv' BY <1>1, <1>2, <2>1, StateKept
  <2>3. AnswerInv' BY <1>1, <2>1, AnswerKept
  <2> QED BY <1>1, <2>1, <2>2, <2>3 DEF PlannerInv
<1>4. ASSUME NEW q \in Questions, NoRoots(q) PROVE PlannerInv'
  <2>1. /\ UNCHANGED <<graph, usage, runtime, hints, live, cache, saved, draft>>
        /\ answer' = None
    BY <1>4 DEF NoRoots
  <2>2. StateInv' BY <1>1, <1>2, <2>1, StateKept
  <2>3. AnswerInv' BY <2>1 DEF AnswerInv, PathsAreReal, NearestAreFound
  <2> QED BY <1>1, <2>1, <2>2, <2>3 DEF PlannerInv
<1>5. ASSUME NEW q \in Questions, FindPaths(q) PROVE PlannerInv'
  BY <1>5, FindPathsKeeps
<1>6. ASSUME NEW plan \in saved, DraftLua(plan) PROVE PlannerInv'
  <2>1. /\ UNCHANGED <<graph, usage, runtime, hints, live, cache, saved, answer>>
        /\ draft' = Draft(plan)
    BY <1>6 DEF DraftLua
  <2>2. StateInv' BY <1>1, <1>2, <2>1, StateKept
  <2>3. AnswerInv' BY <1>1, <2>1, AnswerKept
  <2>4. IsClosed(Draft(plan)) BY <1>1, PlansAreSound
  <2> QED BY <1>1, <2>1, <2>2, <2>3, <2>4 DEF PlannerInv
<1>7. ASSUME UNCHANGED <<graph, cache, saved, answer, draft>>,
             usage' \in [Members -> Nat], runtime' \in [Members -> Nat],
             hints' \in [Types -> Nat], live' \in Seq(LiveItems)
      PROVE  PlannerInv'
  <2>1. StateInv' BY <1>1, <1>7, StateKept
  <2>2. AnswerInv' BY <1>1, <1>7, AnswerKept
  <2> QED BY <1>1, <1>7, <2>1, <2>2 DEF PlannerInv
<1>8. ASSUME NEW m \in Members, IndexUsage(m) PROVE PlannerInv'
  BY <1>2, <1>7, <1>8 DEF IndexUsage
<1>9. ASSUME NEW m \in Members, ObserveCall(m) PROVE PlannerInv'
  BY <1>2, <1>7, <1>9 DEF ObserveCall
<1>10. ASSUME NEW t \in Types, IndexHint(t) PROVE PlannerInv'
  BY <1>2, <1>7, <1>10 DEF IndexHint
<1>11. ASSUME NEW item \in LiveItems, ObserveObject(item) PROVE PlannerInv'
  <2>1. <<item>> \o live \in Seq(LiveItems) BY <1>2, ConsGives
  <2> QED BY <1>2, <1>7, <1>11, <2>1 DEF ObserveObject
<1> QED BY <1>3, <1>4, <1>5, <1>6, <1>8, <1>9, <1>10, <1>11 DEF Next

\* The cache holds for every key a result its search may return, whatever has
\* been indexed and observed since, and the state is of its types.
THEOREM CacheIsSound == Spec => []StateInv
PROOF
<1>1. PlannerInv => StateInv BY DEF PlannerInv
<1> QED BY <1>1, PlannerInit, PlannerStep, PTL DEF Spec

\* Every path offered is one of the snapshot, from a root that may be used to
\* the target, also when it comes from the cache, and no root has it twice.
THEOREM PathsStayReal == Spec => []PathsAreReal
PROOF
<1>1. PlannerInv => PathsAreReal BY DEF PlannerInv, AnswerInv
<1> QED BY <1>1, PlannerInit, PlannerStep, PTL DEF Spec

\* A root of the answer that reaches the target is offered with a shortest path
\* of its own, or stands back behind as many paths that are no longer.
THEOREM NearestStayFound == Spec => []NearestAreFound
PROOF
<1>1. PlannerInv => NearestAreFound BY DEF PlannerInv, AnswerInv
<1> QED BY <1>1, PlannerInit, PlannerStep, PTL DEF Spec

\* Every saved plan is a program, and the Lua drafted from it is closed.
THEOREM PlansStayPrograms == Spec => []PlansArePrograms
PROOF
<1>1. PlannerInv => PlansArePrograms BY PlansAreSound DEF PlannerInv, PlansArePrograms
<1> QED BY <1>1, PlannerInit, PlannerStep, PTL DEF Spec
=============================================================================
