------------------------ MODULE SnapshotStoreProofs ------------------------
(***************************************************************************)
(* Proofs about SnapshotStore for any dumps, any importers and any files,  *)
(* and about the rows an importer makes of a dump (DumpRows).              *)
(***************************************************************************)
EXTENDS SnapshotStore, SequenceTheorems, FiniteSetTheorems, WellFoundedInduction, TLAPS

\* The inductive invariant behind the properties.

Import == [pc : Steps, path : Paths \cup {None}, digest : Dumps \cup {None},
           seen : Seen, activate : BOOLEAN]

\* An import works on the dump it hashed, unless the file was overwritten, and
\* only goes on to write when it has not seen the snapshot complete.
Follows(r) ==
  r.pc # "idle" =>
    /\ r.path \in Paths /\ r.digest \in Dumps
    /\ rewrites = 0 => file[r.path] = r.digest
    /\ r.pc \in {"begin", "inserting", "failed"} => r.seen # "complete"
    /\ r.pc = "reuse" => StateOf(r.digest) = "complete" \/ lost # {}

ImportsFollowFiles == rewrites \in Nat /\ \A i \in Importers : Follows(imp[i])

\* Every complete snapshot could be the active one.
IsWhole(d) ==
  /\ row[d].dump \in Dumps \ Rejected
  /\ rewrites = 0 => row[d].dump = d
  /\ IsSearchable(d)

CompleteIsWhole ==
  /\ \A d \in Dumps : StateOf(d) = "complete" => IsWhole(d)
  /\ active # None => StateOf(active) = "complete"

\* All keys in use, and all that were handed out, are below the counter.
KeysAreOld ==
  /\ \A d \in Dumps : KeysOf(row[d]) \subseteq 1..lastKey
  /\ \A h \in held : h.snapshot \in Dumps /\ h.key \in 1..lastKey

IInv == TypeOK /\ ImportsFollowFiles /\ CompleteIsWhole /\ KeysAreOld /\ KeysDenoteOneMember

-----------------------------------------------------------------------------
(* FlattenSeq *)

\* A set of numbers has a least one.
LEMMA HasLeast ==
  ASSUME NEW D \in SUBSET Nat, D # {}
  PROVE  \E d \in D : \A e \in D : d <= e
PROOF
<1> DEFINE Less == {ss \in Nat \X Nat : ss[1] < ss[2]}
<1>1. IsWellFoundedOn(Less, Nat)
  <2>1. OpToRel(<, Nat) = Less BY DEF OpToRel
  <2> QED BY <2>1, NatLessThanWellFounded
<1> HIDE DEF Less
<1>2. PICK d \in D : \A e \in D : ~(<<e, d>> \in Less) BY <1>1, WFMin
<1>3. ASSUME NEW e \in D PROVE d <= e
  <2>1. e < d => <<e, d>> \in Less BY DEF Less
  <2> QED BY <1>2, <2>1
<1> QED BY <1>3

\* The concatenations of the first i sequences, for every i up to m.
Concatenates(g, seqs, m) ==
  g = [i \in 1..m |-> IF i = 1 THEN seqs[i] ELSE g[i - 1] \o seqs[i]]

\* There is such a function, so FlattenSeq is what its recursion says.
LEMMA ConcatenationExists ==
  ASSUME NEW seqs, NEW n \in Nat
  PROVE  \E g : Concatenates(g, seqs, n)
PROOF
<1> DEFINE D == {m \in 0..n : ~\E g : Concatenates(g, seqs, m)}
<1> SUFFICES ASSUME n \in D PROVE FALSE OBVIOUS
<1>1. D \in SUBSET Nat /\ D # {} OBVIOUS
<1>2. PICK m \in D : \A e \in D : m <= e BY <1>1, HasLeast
<1>3. m \in 0..n /\ ~\E g : Concatenates(g, seqs, m) OBVIOUS
<1>4. CASE m = 0
  <2> DEFINE g == [i \in 1..0 |-> 0]
  <2>1. Concatenates(g, seqs, 0) BY DEF Concatenates
  <2> QED BY <1>3, <1>4, <2>1
<1>5. CASE m # 0
  <2>1. m - 1 \in 0..n /\ ~(m <= m - 1) /\ m \in 1..n BY <1>3, <1>5
  <2>2. m - 1 \notin D BY <1>2, <2>1
  <2>3. PICK g : Concatenates(g, seqs, m - 1) BY <2>1, <2>2
  <2> DEFINE h == [i \in 1..m |-> IF i < m THEN g[i]
                                  ELSE IF i = 1 THEN seqs[i] ELSE g[i - 1] \o seqs[i]]
  <2>4. ASSUME NEW i \in 1..m
        PROVE  h[i] = IF i = 1 THEN seqs[i] ELSE h[i - 1] \o seqs[i]
    <3>1. i # 1 => i - 1 \in 1..m /\ i - 1 < m /\ h[i - 1] = g[i - 1] BY <2>1
    <3>2. CASE i < m
      <4>1. i \in 1..(m - 1) BY <3>2, <2>1
      <4>2. g[i] = IF i = 1 THEN seqs[i] ELSE g[i - 1] \o seqs[i] BY <2>3, <4>1 DEF Concatenates
      <4> QED BY <3>1, <3>2, <4>2
    <3>3. CASE ~(i < m)
      BY <3>1, <3>3
    <3> QED BY <3>2, <3>3
  <2>5. h = [i \in 1..m |-> h[i]] OBVIOUS
  <2> HIDE DEF h
  <2>6. Concatenates(h, seqs, m) BY <2>4, <2>5 DEF Concatenates
  <2> QED BY <1>3, <2>6
<1> QED BY <1>4, <1>5

\* The entries of flat are the entries of the first m sequences, each once: the
\* k-th one is at place o[k] of sequence b[k].
LaysAt(flat, seqs, m, b, o) ==
  /\ \A k \in 1..Len(flat) : /\ b[k] \in 1..m /\ o[k] \in 1..Len(seqs[b[k]])
                             /\ flat[k] = seqs[b[k]][o[k]]
  /\ \A j, k \in 1..Len(flat) : b[j] = b[k] /\ o[j] = o[k] => j = k

Lays(flat, seqs, m) == \E b, o \in [1..Len(flat) -> Nat] : LaysAt(flat, seqs, m, b, o)

\* The empty sequence has no entries to lay.
LEMMA LaysNothing ==
  ASSUME NEW S, NEW seqs, NEW m
  PROVE  <<>> \in Seq(S) /\ Lays(<<>>, seqs, m)
PROOF
<1>1. <<>> \in Seq(S) /\ Len(<<>>) = 0 BY EmptySeq
<1> DEFINE z == [k \in 1..0 |-> 0]
<1>2. z \in [1..Len(<<>>) -> Nat] BY <1>1
<1> HIDE DEF z
<1>3. LaysAt(<<>>, seqs, m, z, z) BY <1>1 DEF LaysAt
<1> QED BY <1>1, <1>2, <1>3 DEF Lays

\* A sequence after another: the entries of both, each once.
LEMMA LaysOneMore ==
  ASSUME NEW S, NEW seqs, NEW m \in Nat, NEW flat \in Seq(S), Lays(flat, seqs, m),
         seqs[m + 1] \in Seq(S)
  PROVE  flat \o seqs[m + 1] \in Seq(S) /\ Lays(flat \o seqs[m + 1], seqs, m + 1)
PROOF
<1> DEFINE next == seqs[m + 1]
           all == flat \o next
           L == Len(flat)
           N == Len(next)
<1>1. /\ all \in Seq(S) /\ Len(all) = L + N
      /\ \A i \in 1..L + N : all[i] = IF i <= L THEN flat[i] ELSE next[i - L]
  BY ConcatProperties
<1>2. L \in Nat /\ N \in Nat BY LenProperties
<1>3. PICK b, o \in [1..L -> Nat] :
        /\ \A k \in 1..L : /\ b[k] \in 1..m /\ o[k] \in 1..Len(seqs[b[k]])
                           /\ flat[k] = seqs[b[k]][o[k]]
        /\ \A j, k \in 1..L : b[j] = b[k] /\ o[j] = o[k] => j = k
  BY DEF Lays, LaysAt
<1> DEFINE c == [k \in 1..L + N |-> IF k <= L THEN b[k] ELSE m + 1]
           p == [k \in 1..L + N |-> IF k <= L THEN o[k] ELSE k - L]
<1> HIDE DEF next, all, L, N
<1>4. ASSUME NEW k \in 1..L + N
      PROVE  /\ c[k] \in 1..m + 1 /\ p[k] \in 1..Len(seqs[c[k]])
             /\ all[k] = seqs[c[k]][p[k]] /\ c[k] \in Nat /\ p[k] \in Nat
             /\ k <= L => k \in 1..L /\ c[k] = b[k] /\ p[k] = o[k] /\ c[k] # m + 1
             /\ ~(k <= L) => c[k] = m + 1 /\ p[k] = k - L
  <2>1. CASE k <= L
    <3>1. k \in 1..L BY <2>1, <1>2
    <3>2. c[k] = b[k] /\ p[k] = o[k] BY <2>1
    <3>3. b[k] \in 1..m /\ o[k] \in 1..Len(seqs[b[k]]) /\ flat[k] = seqs[b[k]][o[k]]
      BY <1>3, <3>1
    <3>4. b[k] \in 1..m + 1 /\ b[k] # m + 1 /\ b[k] \in Nat /\ o[k] \in Nat BY <3>1, <3>3
    <3>5. all[k] = flat[k] BY <1>1, <2>1
    <3> QED BY <2>1, <3>1, <3>2, <3>3, <3>4, <3>5
  <2>2. CASE ~(k <= L)
    <3>1. c[k] = m + 1 /\ p[k] = k - L BY <2>2
    <3>2. k - L \in 1..N BY <2>2, <1>2
    <3>3. all[k] = next[k - L] BY <1>1, <2>2
    <3> QED BY <2>2, <3>1, <3>2, <3>3 DEF next, N
  <2> QED BY <2>1, <2>2
<1>5. ASSUME NEW j \in 1..L + N, NEW k \in 1..L + N, c[j] = c[k], p[j] = p[k]
      PROVE  j = k
  <2> HIDE DEF c, p
  <2>1. j <= L <=> k <= L BY <1>4, <1>5
  <2>2. CASE j <= L
    <3>1. j \in 1..L /\ k \in 1..L /\ b[j] = b[k] /\ o[j] = o[k] BY <1>4, <1>5, <2>1, <2>2
    <3> QED BY <3>1, <1>3
  <2>3. CASE ~(j <= L)
    <3>1. j - L = k - L BY <1>4, <1>5, <2>1, <2>3
    <3> QED BY <3>1, <1>2
  <2> QED BY <2>2, <2>3
<1>6. c \in [1..L + N -> Nat] /\ p \in [1..L + N -> Nat]
  BY <1>4
<1> HIDE DEF c, p
<1>7. LaysAt(all, seqs, m + 1, c, p) BY <1>1, <1>4, <1>5 DEF LaysAt
<1>8. Lays(all, seqs, m + 1) BY <1>1, <1>6, <1>7 DEF Lays
<1> QED BY <1>1, <1>8 DEF all, next

\* FlattenSeq has the entries of all sequences, each once.
LEMMA Flattened ==
  ASSUME NEW S, NEW seqs \in Seq(Seq(S))
  PROVE  FlattenSeq(seqs) \in Seq(S) /\ Lays(FlattenSeq(seqs), seqs, Len(seqs))
PROOF
<1> DEFINE n == Len(seqs)
<1>1. n \in Nat /\ \A i \in 1..n : seqs[i] \in Seq(S) BY ElementOfSeq
<1>2. CASE n = 0
  <2>1. FlattenSeq(seqs) = <<>> BY <1>2, EmptySeq DEF FlattenSeq
  <2> QED BY <2>1, LaysNothing
<1>3. CASE n # 0
  <2> DEFINE f == CHOOSE g : Concatenates(g, seqs, n)
  <2>1. FlattenSeq(seqs) = f[n] BY <1>3 DEF FlattenSeq, Concatenates
  <2>2. Concatenates(f, seqs, n) BY <1>1, ConcatenationExists
  <2> HIDE DEF f
  <2>3. \A i \in 1..n : f[i] = IF i = 1 THEN seqs[i] ELSE f[i - 1] \o seqs[i]
    BY <2>2 DEF Concatenates
  <2> DEFINE Good(i) == f[i] \in Seq(S) /\ Lays(f[i], seqs, i)
             D == {i \in 1..n : ~Good(i)}
  <2>4. D = {}
    <3> SUFFICES ASSUME D # {} PROVE FALSE OBVIOUS
    <3>1. D \in SUBSET Nat BY <1>1
    <3>2. PICK i \in D : \A e \in D : i <= e BY <3>1, HasLeast
    <3>3. i \in 1..n /\ ~Good(i) OBVIOUS
    <3>4. CASE i = 1
      <4>1. f[1] = seqs[1] BY <2>3, <3>3, <3>4
      <4>2. <<>> \in Seq(S) /\ Lays(<<>>, seqs, 0) BY LaysNothing
      <4>3. seqs[0 + 1] \in Seq(S) BY <1>1, <3>3, <3>4
      <4>4. <<>> \o seqs[0 + 1] \in Seq(S) /\ Lays(<<>> \o seqs[0 + 1], seqs, 0 + 1)
        BY <4>2, <4>3, LaysOneMore
      <4>5. <<>> \o seqs[1] = seqs[1] BY <4>3, ConcatEmptySeq
      <4> QED BY <3>3, <3>4, <4>1, <4>4, <4>5
    <3>5. CASE i # 1
      <4>1. i - 1 \in 1..n /\ ~(i <= i - 1) /\ (i - 1) + 1 = i /\ i - 1 \in Nat BY <1>1, <3>3, <3>5
      <4>2. i - 1 \notin D BY <3>2, <4>1
      <4>3. Good(i - 1) BY <4>1, <4>2
      <4>4. seqs[(i - 1) + 1] \in Seq(S) BY <1>1, <3>3, <4>1
      <4> HIDE DEF D
      <4>5. /\ f[i - 1] \o seqs[(i - 1) + 1] \in Seq(S)
            /\ Lays(f[i - 1] \o seqs[(i - 1) + 1], seqs, (i - 1) + 1)
        BY <4>1, <4>3, <4>4, LaysOneMore
      <4>6. f[i] = f[i - 1] \o seqs[i] BY <2>3, <3>3, <3>5
      <4> QED BY <3>3, <4>1, <4>5, <4>6
    <3> QED BY <3>4, <3>5
  <2>5. n \in 1..n BY <1>1, <1>3
  <2>6. Good(n) BY <2>4, <2>5
  <2> QED BY <2>1, <2>6
<1> QED BY <1>2, <1>3

-----------------------------------------------------------------------------
(* Members of an entry *)

\* A function on 1..n is a list.
LEMMA ListOfFunction ==
  ASSUME NEW n \in Nat, NEW f, f = [i \in 1..n |-> f[i]]
  PROVE  IsList(f) /\ Len(f) = n /\ DOMAIN f = 1..n
PROOF
<1>1. f \in [1..n -> Range(f)] BY DEF Range
<1> QED BY <1>1 DEF IsList

\* A list after another is the list of the entries of both.
LEMMA ListOfBoth ==
  ASSUME NEW s, NEW t, IsList(s), IsList(t)
  PROVE  /\ IsList(s \o t) /\ Len(s \o t) = Len(s) + Len(t) /\ DOMAIN (s \o t) = 1..Len(s) + Len(t)
         /\ \A i \in 1..Len(s) + Len(t) :
              /\ i <= Len(s) => i \in DOMAIN s /\ (s \o t)[i] = s[i]
              /\ ~(i <= Len(s)) => i - Len(s) \in DOMAIN t /\ (s \o t)[i] = t[i - Len(s)]
PROOF
<1> DEFINE S == Range(s) \cup Range(t)
<1>1. s \in Seq(S) /\ t \in Seq(S) BY SeqMonotonic DEF IsList
<1>2. /\ Len(s) \in Nat /\ Len(t) \in Nat /\ DOMAIN s = 1..Len(s) /\ DOMAIN t = 1..Len(t)
  BY <1>1, LenProperties
<1> HIDE DEF S
<1>3. /\ s \o t \in Seq(S) /\ Len(s \o t) = Len(s) + Len(t)
      /\ \A i \in 1..Len(s) + Len(t) : (s \o t)[i] = IF i <= Len(s) THEN s[i] ELSE t[i - Len(s)]
  BY <1>1, ConcatProperties
<1>4. s \o t \in [1..Len(s) + Len(t) -> S] /\ DOMAIN (s \o t) = 1..Len(s) + Len(t)
  BY <1>3, LenProperties
<1>5. IsList(s \o t)
  <2>1. Len(s) + Len(t) \in Nat BY <1>2
  <2>2. s \o t = [i \in 1..Len(s) + Len(t) |-> (s \o t)[i]] BY <1>4
  <2> QED BY <2>1, <2>2, ListOfFunction
<1> QED BY <1>2, <1>3, <1>4, <1>5

\* Each of its entries is one of theirs.
LEMMA EntryOfOne ==
  ASSUME NEW s, NEW t, IsList(s), IsList(t)
  PROVE  \A j \in DOMAIN (s \o t) : \/ \E i \in DOMAIN s : (s \o t)[j] = s[i]
                                    \/ \E i \in DOMAIN t : (s \o t)[j] = t[i]
PROOF
<1>1. /\ DOMAIN (s \o t) = 1..Len(s) + Len(t)
      /\ \A i \in 1..Len(s) + Len(t) :
           /\ i <= Len(s) => i \in DOMAIN s /\ (s \o t)[i] = s[i]
           /\ ~(i <= Len(s)) => i - Len(s) \in DOMAIN t /\ (s \o t)[i] = t[i - Len(s)]
  BY ListOfBoth, SMTT(30)
<1> QED BY <1>1

\* What the importer calls a logical property: its type, its name and the types
\* of its indexes.
IsLogical(m) == m.kind \in {"tdb_property", "synthetic_property"}
Property(m) == <<m.owner, m.name, m.params>>

\* The members of one type, without a logical property that occurs twice.
OneEach(ms, owner) ==
  /\ IsList(ms) /\ \A j \in DOMAIN ms : ms[j].owner = owner
  /\ \A j, k \in DOMAIN ms :
       IsLogical(ms[j]) /\ IsLogical(ms[k]) /\ Property(ms[j]) = Property(ms[k]) => j = k

\* Two such lists make one when they share no logical property.
LEMMA OneEachOfBoth ==
  ASSUME NEW s, NEW t, NEW owner, OneEach(s, owner), OneEach(t, owner),
         \A j \in DOMAIN s, k \in DOMAIN t :
           IsLogical(s[j]) /\ IsLogical(t[k]) => Property(s[j]) # Property(t[k])
  PROVE  OneEach(s \o t, owner)
PROOF
<1> DEFINE L == Len(s)
           all == s \o t
<1>1. IsList(s) /\ IsList(t) BY DEF OneEach
<1>2. /\ IsList(all) /\ DOMAIN all = 1..L + Len(t)
      /\ \A i \in 1..L + Len(t) : /\ i <= L => i \in DOMAIN s /\ all[i] = s[i]
                                  /\ ~(i <= L) => i - L \in DOMAIN t /\ all[i] = t[i - L]
  BY <1>1, ListOfBoth
<1>3. L \in Nat BY <1>1, LenProperties DEF IsList
<1> HIDE DEF all, L
<1>4. \A j \in DOMAIN all : all[j].owner = owner BY <1>2 DEF OneEach
<1>5. ASSUME NEW j \in DOMAIN all, NEW k \in DOMAIN all,
             IsLogical(all[j]), IsLogical(all[k]), Property(all[j]) = Property(all[k])
      PROVE  j = k
  <2>1. CASE j <= L /\ k <= L
    <3>1. j \in DOMAIN s /\ k \in DOMAIN s /\ all[j] = s[j] /\ all[k] = s[k] BY <1>2, <2>1
    <3> QED BY <3>1, <1>5 DEF OneEach
  <2>2. CASE ~(j <= L) /\ ~(k <= L)
    <3>1. /\ j - L \in DOMAIN t /\ k - L \in DOMAIN t /\ all[j] = t[j - L] /\ all[k] = t[k - L]
      BY <1>2, <2>2
    <3>2. j - L = k - L BY <3>1, <1>5 DEF OneEach
    <3> QED BY <3>2, <1>2, <1>3
  <2>3. CASE j <= L /\ ~(k <= L)
    <3>1. j \in DOMAIN s /\ k - L \in DOMAIN t /\ all[j] = s[j] /\ all[k] = t[k - L] BY <1>2, <2>3
    <3> QED BY <3>1, <1>5
  <2>4. CASE ~(j <= L) /\ k <= L
    <3>1. j - L \in DOMAIN t /\ k \in DOMAIN s /\ all[j] = t[j - L] /\ all[k] = s[k] BY <1>2, <2>4
    <3> QED BY <3>1, <1>5
  <2> QED BY <2>1, <2>2, <2>3, <2>4
<1> QED BY <1>2, <1>4, <1>5 DEF OneEach, all

\* Rows without logical properties of their own.
LEMMA OneEachPlain ==
  ASSUME NEW ms, NEW owner, IsList(ms),
         \A j \in DOMAIN ms : ms[j].owner = owner /\ ~IsLogical(ms[j])
  PROVE  OneEach(ms, owner)
PROOF
<1> QED BY DEF OneEach

\* Lists of an entry have numbered places.
LEMMA ListDomain ==
  ASSUME NEW s, IsList(s)
  PROVE  Len(s) \in Nat /\ DOMAIN s = 1..Len(s)
PROOF
<1> QED BY LenProperties DEF IsList

\* A list of one row for each entry of a list.
LEMMA ListOfRows ==
  ASSUME NEW s, IsList(s), NEW f, f = [i \in DOMAIN s |-> f[i]]
  PROVE  IsList(f) /\ DOMAIN f = DOMAIN s
PROOF
<1> QED BY ListDomain, ListOfFunction

\* Rows of one kind that is no property's.
LEMMA PlainRows ==
  ASSUME NEW s, IsList(s), NEW f, f = [i \in DOMAIN s |-> f[i]],
         NEW owner, NEW kind, kind \notin {"tdb_property", "synthetic_property"},
         \A i \in DOMAIN s : f[i].owner = owner /\ f[i].kind = kind
  PROVE  OneEach(f, owner) /\ \A j \in DOMAIN f : ~IsLogical(f[j])
PROOF
<1>1. IsList(f) /\ DOMAIN f = DOMAIN s BY ListOfRows
<1>2. \A j \in DOMAIN f : f[j].owner = owner /\ ~IsLogical(f[j]) BY <1>1 DEF IsLogical
<1> QED BY <1>1, <1>2, OneEachPlain

\* Two lists of such rows make one.
LEMMA PlainAndPlain ==
  ASSUME NEW s, NEW t, NEW owner, OneEach(s, owner), OneEach(t, owner),
         \A j \in DOMAIN s : ~IsLogical(s[j]), \A j \in DOMAIN t : ~IsLogical(t[j])
  PROVE  OneEach(s \o t, owner) /\ \A j \in DOMAIN (s \o t) : ~IsLogical((s \o t)[j])
PROOF
<1>1. OneEach(s \o t, owner) /\ IsList(s) /\ IsList(t) BY OneEachOfBoth DEF OneEach
<1>2. ASSUME NEW j \in DOMAIN (s \o t) PROVE ~IsLogical((s \o t)[j])
  <2>1. \/ \E i \in DOMAIN s : (s \o t)[j] = s[i]
        \/ \E i \in DOMAIN t : (s \o t)[j] = t[i]
    BY <1>1, EntryOfOne
  <2> QED BY <2>1
<1> QED BY <1>1, <1>2

\* A sequence is a list of members of the set it is over.
LEMMA ListFromSeq ==
  ASSUME NEW S, NEW s \in Seq(S)
  PROVE  IsList(s) /\ \A i \in DOMAIN s : s[i] \in S
PROOF
<1>1. Len(s) \in Nat /\ s \in [1..Len(s) -> S] BY LenProperties
<1>2. s = [i \in 1..Len(s) |-> s[i]] /\ \A i \in DOMAIN s : s[i] \in S BY <1>1
<1> QED BY <1>1, <1>2, ListOfFunction

\* The loop over the methods makes no property.
LEMMA MethodRows ==
  ASSUME NEW e, IsEntry(e)
  PROVE  OneEach(Methods(e), e.name) /\ \A j \in DOMAIN Methods(e) : ~IsLogical(Methods(e)[j])
PROOF
<1> DEFINE RowOf(m) == Member("tdb_method", e.name, m.name, m.params, m.returns, <<"", m.id>>)
<1>1. IsList(e.methods) BY DEF IsEntry
<1>2. Methods(e) = [i \in DOMAIN e.methods |-> RowOf(e.methods[i])] BY DEF Methods, Mapped
<1>3. \A m : RowOf(m).owner = e.name /\ RowOf(m).kind = "tdb_method" BY DEF Member
<1> HIDE DEF RowOf
<1>4. Methods(e) = [i \in DOMAIN e.methods |-> Methods(e)[i]] BY <1>2
<1>5. \A i \in DOMAIN e.methods : Methods(e)[i].owner = e.name /\ Methods(e)[i].kind = "tdb_method"
  BY <1>2, <1>3
<1>6. "tdb_method" \notin {"tdb_property", "synthetic_property"} OBVIOUS
<1> QED BY <1>1, <1>4, <1>5, <1>6, PlainRows, SMTT(30)

\* Nor does the loop over the fields.
LEMMA FieldRows ==
  ASSUME NEW e, IsEntry(e)
  PROVE  OneEach(Fields(e), e.name) /\ \A j \in DOMAIN Fields(e) : ~IsLogical(Fields(e)[j])
PROOF
<1> DEFINE RowOf(f) == Member("tdb_field", e.name, f.name, <<>>, f.type, NoSlot)
<1>1. IsList(e.fields) BY DEF IsEntry
<1>2. Fields(e) = [i \in DOMAIN e.fields |-> RowOf(e.fields[i])] BY DEF Fields, Mapped
<1>3. \A f : RowOf(f).owner = e.name /\ RowOf(f).kind = "tdb_field" BY DEF Member
<1> HIDE DEF RowOf
<1>4. Fields(e) = [i \in DOMAIN e.fields |-> Fields(e)[i]] BY <1>2
<1>5. \A i \in DOMAIN e.fields : Fields(e)[i].owner = e.name /\ Fields(e)[i].kind = "tdb_field"
  BY <1>2, <1>3
<1>6. "tdb_field" \notin {"tdb_property", "synthetic_property"} OBVIOUS
<1> QED BY <1>1, <1>4, <1>5, <1>6, PlainRows, SMTT(30)

\* Declared properties have different names.
LEMMA PropertyRows ==
  ASSUME NEW e, IsEntry(e)
  PROVE  /\ OneEach(Properties(e), e.name)
         /\ \A j \in DOMAIN Properties(e) :
              /\ Properties(e)[j].params = <<>>
              /\ \E p \in Range(e.properties) : p.name = Properties(e)[j].name
PROOF
<1> DEFINE RowOf(p) == Member("tdb_property", e.name, p.name, <<>>, ReturnOf(e, p.getter), p.getter)
           ps == Properties(e)
<1>1. /\ IsList(e.properties)
      /\ \A i, j \in DOMAIN e.properties : e.properties[i].name = e.properties[j].name => i = j
  BY DEF IsEntry
<1>2. ps = [i \in DOMAIN e.properties |-> RowOf(e.properties[i])] BY DEF Properties, Mapped
<1>3. \A p : RowOf(p).owner = e.name /\ RowOf(p).name = p.name /\ RowOf(p).params = <<>>
  BY DEF Member
<1> HIDE DEF RowOf, ps
<1>4. ps = [i \in DOMAIN e.properties |-> ps[i]] BY <1>2
<1>5. IsList(ps) /\ DOMAIN ps = DOMAIN e.properties BY <1>1, <1>4, ListOfRows
<1>6. \A i \in DOMAIN ps : /\ ps[i].owner = e.name /\ ps[i].params = <<>>
                           /\ ps[i].name = e.properties[i].name
  BY <1>2, <1>3, <1>5
<1>7. OneEach(ps, e.name)
  <2>1. ASSUME NEW j \in DOMAIN ps, NEW k \in DOMAIN ps, Property(ps[j]) = Property(ps[k])
        PROVE  j = k
    <3>1. ps[j].name = ps[k].name BY <2>1 DEF Property
    <3> QED BY <3>1, <1>1, <1>5, <1>6
  <2> QED BY <2>1, <1>5, <1>6 DEF OneEach
<1>8. \A i \in DOMAIN ps : e.properties[i] \in Range(e.properties) BY <1>5 DEF Range
<1> QED BY <1>6, <1>7, <1>8 DEF ps

\* A list is the range of a function on finitely many numbers.
LEMMA RangeOfList ==
  ASSUME NEW s, IsList(s)
  PROVE  IsFiniteSet(Range(s))
PROOF
<1>1. Len(s) \in Nat /\ DOMAIN s = 1..Len(s) BY ListDomain
<1>2. IsFiniteSet(1..Len(s)) BY <1>1, FS_Interval
<1>3. s \in Surjection(1..Len(s), Range(s))
  BY <1>1 DEF Surjection, IsList, Range
<1> QED BY <1>2, <1>3, FS_Surjection

\* There are finitely many groups of accessors, so they can be listed.
LEMMA GroupsAreFinite ==
  ASSUME NEW e, IsEntry(e)
  PROVE  IsFiniteSet(Groups(e))
PROOF
<1> DEFINE A == Accessors(e)
           G == {GroupOf(m) : m \in A}
           f == [m \in A |-> GroupOf(m)]
<1>1. IsFiniteSet(Range(e.methods)) BY RangeOfList DEF IsEntry
<1>2. IsFiniteSet(A) BY <1>1, FS_Subset DEF Accessors
<1> HIDE DEF A
<1>3. f \in Surjection(A, G) BY DEF Surjection
<1> HIDE DEF f
<1>4. IsFiniteSet(G) BY <1>2, <1>3, FS_Surjection
<1>5. Groups(e) \subseteq G BY DEF Groups, A
<1> QED BY <1>4, <1>5, FS_Subset

\* SetToSeq lists the members of a finite set, each once.
LEMMA ListedSet ==
  ASSUME NEW S, IsFiniteSet(S)
  PROVE  /\ IsList(SetToSeq(S)) /\ \A i \in DOMAIN SetToSeq(S) : SetToSeq(S)[i] \in S
         /\ \A i, j \in DOMAIN SetToSeq(S) : SetToSeq(S)[i] = SetToSeq(S)[j] => i = j
PROOF
<1> DEFINE n == Cardinality(S)
           s == SetToSeq(S)
<1>1. n \in Nat /\ ExistsBijection(1..n, S) BY FS_CardinalityType
<1>2. \E f \in [1..n -> S] : IsInjective(f)
  BY <1>1 DEF ExistsBijection, Bijection, Injection
<1>3. s \in [1..n -> S] /\ IsInjective(s) BY <1>2 DEF SetToSeq
<1> HIDE DEF s, n
<1>4. IsList(s) /\ DOMAIN s = 1..n
  <2>1. s = [i \in 1..n |-> s[i]] BY <1>3
  <2> QED BY <1>1, <2>1, ListOfFunction
<1> QED BY <1>3, <1>4 DEF IsInjective, s

\* Inferred properties have different groups, and none is declared.
LEMMA SyntheticRows ==
  ASSUME NEW e, IsEntry(e)
  PROVE  /\ OneEach(SyntheticProperties(e), e.name)
         /\ \A j \in DOMAIN SyntheticProperties(e) :
              LET m == SyntheticProperties(e)[j]
              IN  ~(m.params = <<>> /\ \E p \in Range(e.properties) : p.name = m.name)
PROOF
<1> DEFINE RowOf(g) == Member("synthetic_property", e.name, g[1], g[2], ValueType(e, g), NoSlot)
           gs == SetToSeq(Groups(e))
           ms == SyntheticProperties(e)
<1>1. /\ IsList(gs) /\ \A i \in DOMAIN gs : gs[i] \in Groups(e)
      /\ \A i, j \in DOMAIN gs : gs[i] = gs[j] => i = j
  BY GroupsAreFinite, ListedSet
<1>2. ms = [i \in DOMAIN gs |-> RowOf(gs[i])] BY DEF SyntheticProperties, Mapped
<1>3. \A g : RowOf(g).owner = e.name /\ RowOf(g).name = g[1] /\ RowOf(g).params = g[2]
  BY DEF Member
<1>4. \A g \in Groups(e) : /\ g = <<g[1], g[2]>>
                           /\ ~(g[2] = <<>> /\ \E p \in Range(e.properties) : p.name = g[1])
  <2>1. \A m : GroupOf(m) = <<GroupOf(m)[1], GroupOf(m)[2]>> BY DEF GroupOf
  <2> QED BY <2>1 DEF Groups
<1> HIDE DEF RowOf, ms, gs
<1>5. ms = [i \in DOMAIN gs |-> ms[i]] BY <1>2
<1>6. IsList(ms) /\ DOMAIN ms = DOMAIN gs BY <1>1, <1>5, ListOfRows
<1>7. \A i \in DOMAIN ms : ms[i].owner = e.name /\ ms[i].name = gs[i][1] /\ ms[i].params = gs[i][2]
  BY <1>2, <1>3, <1>6
<1>8. OneEach(ms, e.name)
  <2>1. ASSUME NEW j \in DOMAIN ms, NEW k \in DOMAIN ms, Property(ms[j]) = Property(ms[k])
        PROVE  j = k
    <3>1. ms[j].name = ms[k].name /\ ms[j].params = ms[k].params BY <2>1 DEF Property
    <3>2. gs[j][1] = gs[k][1] /\ gs[j][2] = gs[k][2] BY <1>7, <3>1
    <3>3. gs[j] = <<gs[j][1], gs[j][2]>> /\ gs[k] = <<gs[k][1], gs[k][2]>> BY <1>1, <1>4, <1>6
    <3>4. gs[j] = gs[k] BY <3>2, <3>3
    <3> QED BY <3>4, <1>1, <1>6
  <2> QED BY <2>1, <1>6, <1>7 DEF OneEach
<1>9. ASSUME NEW j \in DOMAIN ms
      PROVE  ~(ms[j].params = <<>> /\ \E p \in Range(e.properties) : p.name = ms[j].name)
  BY <1>1, <1>4, <1>6, <1>7
<1> QED BY <1>8, <1>9 DEF ms

\* Reflection lists of its own.
LEMMA ReflectionRows ==
  ASSUME NEW e, IsEntry(e)
  PROVE  OneEach(Reflection(e), e.name) /\ \A j \in DOMAIN Reflection(e) : ~IsLogical(Reflection(e)[j])
PROOF
<1> DEFINE MethodRow(m) ==
             Member("reflection_method", e.name, m.name, m.params, m.returns, NoSlot)
           PropertyRow(p) == Member("reflection_property", e.name, p.name, <<>>, p.type, NoSlot)
           s == [i \in DOMAIN e.rmethods |-> MethodRow(e.rmethods[i])]
           t == [i \in DOMAIN e.rproperties |-> PropertyRow(e.rproperties[i])]
<1>1. IsList(e.rmethods) /\ IsList(e.rproperties) BY DEF IsEntry
<1>2. Reflection(e) = s \o t BY DEF Reflection, Mapped
<1>3. /\ \A m : MethodRow(m).owner = e.name /\ MethodRow(m).kind = "reflection_method"
      /\ \A p : PropertyRow(p).owner = e.name /\ PropertyRow(p).kind = "reflection_property"
  BY DEF Member
<1> HIDE DEF MethodRow, PropertyRow
<1>4. OneEach(s, e.name) /\ \A j \in DOMAIN s : ~IsLogical(s[j])
  <2>1. s = [i \in DOMAIN e.rmethods |-> s[i]] OBVIOUS
  <2>2. \A i \in DOMAIN e.rmethods : s[i].owner = e.name /\ s[i].kind = "reflection_method"
    BY <1>3
  <2>3. "reflection_method" \notin {"tdb_property", "synthetic_property"} OBVIOUS
  <2>4. IsList(e.rmethods) BY <1>1
  <2> HIDE DEF s
  <2> QED BY <2>1, <2>2, <2>3, <2>4, PlainRows
<1>5. OneEach(t, e.name) /\ \A j \in DOMAIN t : ~IsLogical(t[j])
  <2>1. t = [i \in DOMAIN e.rproperties |-> t[i]] OBVIOUS
  <2>2. \A i \in DOMAIN e.rproperties : t[i].owner = e.name /\ t[i].kind = "reflection_property"
    BY <1>3
  <2>3. "reflection_property" \notin {"tdb_property", "synthetic_property"} OBVIOUS
  <2>4. IsList(e.rproperties) BY <1>1
  <2> HIDE DEF t
  <2> QED BY <2>1, <2>2, <2>3, <2>4, PlainRows
<1> HIDE DEF s, t
<1> QED BY <1>2, <1>4, <1>5, PlainAndPlain

\* Values of the serialized form; FlattenSeq leaves out those without a type.
LEMMA RszRows ==
  ASSUME NEW e, IsEntry(e)
  PROVE  OneEach(Rsz(e), e.name) /\ \A j \in DOMAIN Rsz(e) : ~IsLogical(Rsz(e)[j])
PROOF
<1> DEFINE RowOf(v) == Member("rsz_field", e.name, v.name, <<>>, v.type, <<"", v.id>>)
           RowsOf(v) == IF v.type = Absent THEN <<>> ELSE <<RowOf(v)>>
           S == {RowOf(v) : v \in Range(e.rsz)}
           seqs == [i \in DOMAIN e.rsz |-> RowsOf(e.rsz[i])]
<1>1. IsList(e.rsz) BY DEF IsEntry
<1>2. Rsz(e) = FlattenSeq(seqs) BY DEF Rsz, Mapped
<1>3. \A m \in S : m.owner = e.name /\ m.kind = "rsz_field"
  <2>1. \A v : RowOf(v).owner = e.name /\ RowOf(v).kind = "rsz_field" BY DEF Member
  <2> HIDE DEF RowOf
  <2> QED BY <2>1
<1>4. seqs \in Seq(Seq(S))
  <2>1. \A i \in DOMAIN e.rsz : RowOf(e.rsz[i]) \in S BY DEF Range
  <2> HIDE DEF S, RowOf
  <2>2. \A i \in DOMAIN e.rsz : RowsOf(e.rsz[i]) \in Seq(S) BY <2>1
  <2>3. Len(e.rsz) \in Nat /\ DOMAIN e.rsz = 1..Len(e.rsz) BY <1>1, ListDomain
  <2> HIDE DEF RowsOf
  <2>4. seqs \in [1..Len(e.rsz) -> Seq(S)] BY <2>2, <2>3
  <2> HIDE DEF seqs
  <2> QED BY <2>3, <2>4
<1> HIDE DEF S, seqs
<1>5. Rsz(e) \in Seq(S) BY <1>2, <1>4, Flattened
<1>6. IsList(Rsz(e)) /\ \A j \in DOMAIN Rsz(e) : Rsz(e)[j] \in S BY <1>5, ListFromSeq
<1>7. \A j \in DOMAIN Rsz(e) : Rsz(e)[j].owner = e.name /\ ~IsLogical(Rsz(e)[j])
  BY <1>3, <1>6 DEF IsLogical
<1> QED BY <1>6, <1>7, OneEachPlain

\* The members of a type: no logical property occurs twice among them, for the
\* inferred ones leave out what is declared.
LEMMA TypeRows ==
  ASSUME NEW e, IsEntry(e)
  PROVE  OneEach(MembersOf(e), e.name)
PROOF
<1> DEFINE Declared(m) == m.params = <<>> /\ \E p \in Range(e.properties) : p.name = m.name
           plain == Methods(e) \o Fields(e)
           declared == plain \o Properties(e)
           inferred == declared \o SyntheticProperties(e)
           tdb == inferred \o Reflection(e)
<1>1. OneEach(plain, e.name) /\ \A j \in DOMAIN plain : ~IsLogical(plain[j])
  BY MethodRows, FieldRows, PlainAndPlain
<1>2. OneEach(Properties(e), e.name) /\ \A j \in DOMAIN Properties(e) : Declared(Properties(e)[j])
  BY PropertyRows
<1>3. /\ OneEach(SyntheticProperties(e), e.name)
      /\ \A j \in DOMAIN SyntheticProperties(e) : ~Declared(SyntheticProperties(e)[j])
  BY SyntheticRows
<1>4. \A m, n : Property(m) = Property(n) => (Declared(m) <=> Declared(n)) BY DEF Property
<1> HIDE DEF Declared, plain
<1>5. OneEach(declared, e.name) BY <1>1, <1>2, OneEachOfBoth
<1>6. \A j \in DOMAIN declared : IsLogical(declared[j]) => Declared(declared[j])
  <2>1. IsList(plain) /\ IsList(Properties(e)) BY <1>1, <1>2 DEF OneEach
  <2>2. \A j \in DOMAIN declared : \/ \E i \in DOMAIN plain : declared[j] = plain[i]
                                   \/ \E i \in DOMAIN Properties(e) :
                                        declared[j] = Properties(e)[i]
    BY <2>1, EntryOfOne
  <2> HIDE DEF declared
  <2> QED BY <2>2, <1>1, <1>2
<1> HIDE DEF declared
<1>7. OneEach(inferred, e.name)
  <2>1. \A j \in DOMAIN declared, k \in DOMAIN SyntheticProperties(e) :
          IsLogical(declared[j]) /\ IsLogical(SyntheticProperties(e)[k])
          => Property(declared[j]) # Property(SyntheticProperties(e)[k])
    BY <1>3, <1>4, <1>6
  <2> QED BY <1>3, <1>5, <2>1, OneEachOfBoth
<1> HIDE DEF inferred
<1>8. OneEach(tdb, e.name) BY <1>7, ReflectionRows, OneEachOfBoth
<1> HIDE DEF tdb
<1>9. OneEach(tdb \o Rsz(e), e.name) BY <1>8, RszRows, OneEachOfBoth
<1> QED BY <1>9 DEF MembersOf, plain, declared, inferred, tdb

-----------------------------------------------------------------------------
(* Members of a dump *)

\* The rows of a dump are the rows of its entries, each once.
LEMMA RowsOfEntries ==
  ASSUME NEW dump, IsDump(dump)
  PROVE  /\ IsList(Members(dump))
         /\ \E b, o \in [DOMAIN Members(dump) -> Nat] :
              /\ \A k \in DOMAIN Members(dump) :
                   /\ b[k] \in DOMAIN dump /\ o[k] \in DOMAIN MembersOf(dump[b[k]])
                   /\ Members(dump)[k] = MembersOf(dump[b[k]])[o[k]]
              /\ \A j, k \in DOMAIN Members(dump) : b[j] = b[k] /\ o[j] = o[k] => j = k
PROOF
<1> DEFINE n == Len(dump)
           seqs == [i \in DOMAIN dump |-> MembersOf(dump[i])]
           S == UNION {Range(seqs[i]) : i \in DOMAIN dump}
           ms == Members(dump)
<1>1. IsList(dump) /\ \A i \in DOMAIN dump : IsEntry(dump[i]) BY DEF IsDump, Range
<1>2. n \in Nat /\ DOMAIN dump = 1..n BY <1>1, ListDomain
<1>3. ms = FlattenSeq(seqs) BY DEF Members, Mapped
<1>4. \A i \in DOMAIN dump : seqs[i] = MembersOf(dump[i]) /\ IsList(seqs[i])
  BY <1>1, TypeRows DEF OneEach
<1> HIDE DEF n, ms
<1>5. seqs \in Seq(Seq(S)) /\ Len(seqs) = n
  <2>1. ASSUME NEW i \in DOMAIN dump PROVE seqs[i] \in Seq(S)
    <3>1. Range(seqs[i]) \subseteq S OBVIOUS
    <3>2. seqs[i] \in Seq(Range(seqs[i])) BY <1>4 DEF IsList
    <3> HIDE DEF S, seqs
    <3> QED BY <3>1, <3>2, SeqMonotonic
  <2> HIDE DEF S
  <2>2. seqs \in [1..n -> Seq(S)] BY <1>2, <2>1
  <2> HIDE DEF seqs
  <2> QED BY <1>2, <2>2
<1> HIDE DEF S, seqs
<1>6. ms \in Seq(S) /\ Lays(ms, seqs, n) BY <1>3, <1>5, Flattened
<1>7. IsList(ms) /\ DOMAIN ms = 1..Len(ms) BY <1>6, ListFromSeq, LenProperties
<1>8. PICK b, o \in [1..Len(ms) -> Nat] : LaysAt(ms, seqs, n, b, o) BY <1>6 DEF Lays
<1>9. ASSUME NEW k \in DOMAIN ms
      PROVE  /\ b[k] \in DOMAIN dump /\ o[k] \in DOMAIN MembersOf(dump[b[k]])
             /\ ms[k] = MembersOf(dump[b[k]])[o[k]]
  <2>1. b[k] \in 1..n /\ o[k] \in 1..Len(seqs[b[k]]) /\ ms[k] = seqs[b[k]][o[k]]
    BY <1>7, <1>8 DEF LaysAt
  <2>2. DOMAIN seqs[b[k]] = 1..Len(seqs[b[k]]) BY <1>2, <1>4, <2>1, ListDomain
  <2> QED BY <1>2, <1>4, <2>1, <2>2
<1>10. \A j, k \in DOMAIN ms : b[j] = b[k] /\ o[j] = o[k] => j = k
  BY <1>7, <1>8 DEF LaysAt
<1>11. b \in [DOMAIN ms -> Nat] /\ o \in [DOMAIN ms -> Nat] BY <1>7
<1> QED BY <1>7, <1>9, <1>10, <1>11 DEF ms

\* The rows of a dump are what the model calls Rows.
LEMMA RowsOfDump ==
  ASSUME NEW d \in Dumps
  PROVE  IsDump(Content[d]) /\ Rows[d] = Members(Content[d]) /\ Len(Rows[d]) \in Nat
         /\ IsList(Rows[d]) /\ DOMAIN Rows[d] = 1..Len(Rows[d])
PROOF
<1>1. IsDump(Content[d]) BY ConstantsOK
<1>2. Rows[d] = Members(Content[d]) BY DEF Rows
<1>3. IsList(Rows[d]) BY <1>1, <1>2, RowsOfEntries
<1> QED BY <1>1, <1>2, <1>3, ListDomain

\* In every dump that the schema accepts, each logical property has one row:
\* types have different names, and a type has each of its properties once.
LEMMA AcceptedPropertiesOnce ==
  ASSUME NEW d \in Dumps \ Rejected
  PROVE  PropertiesOnce(d)
PROOF
<1> DEFINE dump == Content[d]
           ms == Members(dump)
<1>1. IsDump(dump) /\ Rows[d] = ms BY RowsOfDump
<1>2. \A i, j \in DOMAIN dump : dump[i].name = dump[j].name => i = j BY DEF Rejected, Collides
<1>3. \A i \in DOMAIN dump : OneEach(MembersOf(dump[i]), dump[i].name)
  BY <1>1, TypeRows DEF IsDump, Range
<1> HIDE DEF dump, ms
<1>4. PICK b, o \in [DOMAIN ms -> Nat] :
        /\ \A k \in DOMAIN ms : /\ b[k] \in DOMAIN dump /\ o[k] \in DOMAIN MembersOf(dump[b[k]])
                                /\ ms[k] = MembersOf(dump[b[k]])[o[k]]
        /\ \A j, k \in DOMAIN ms : b[j] = b[k] /\ o[j] = o[k] => j = k
  BY <1>1, RowsOfEntries DEF ms
<1>5. ASSUME NEW j \in DOMAIN ms, NEW k \in DOMAIN ms, IsLogical(ms[j]), IsLogical(ms[k]),
             Property(ms[j]) = Property(ms[k])
      PROVE  j = k
  <2>1. ms[j].owner = dump[b[j]].name /\ ms[k].owner = dump[b[k]].name BY <1>3, <1>4 DEF OneEach
  <2>2. ms[j].owner = ms[k].owner BY <1>5 DEF Property
  <2>3. b[j] = b[k]
    <3>1. b[j] \in DOMAIN dump /\ b[k] \in DOMAIN dump BY <1>4
    <3> QED BY <1>2, <2>1, <2>2, <3>1
  <2>4. o[j] = o[k] BY <1>3, <1>4, <1>5, <2>3 DEF OneEach
  <2> QED BY <1>4, <2>3, <2>4
<1>6. \A j, k \in {k \in DOMAIN ms : IsLogical(ms[k])} :
        Property(ms[j]) = Property(ms[k]) => j = k
  BY <1>5
<1> QED BY <1>1, <1>6 DEF PropertiesOnce, IsLogical, Property

\* Edges that name a member join its type to a type of the member.
LEMMA AllEdgesJoin ==
  ASSUME NEW d \in Dumps
  PROVE  EdgesJoin(d)
PROOF
<1> DEFINE ms == Range(Rows[d])
<1>1. Range(Members(Content[d])) = ms BY RowsOfDump
<1>2. SUFFICES ASSUME NEW e \in Edges(Content[d]), e.member # <<>>
               PROVE  \E m \in ms : /\ StableKey(m) = e.member /\ m.owner = e.source
                                    /\ e.target \in {m.type} \cup Range(m.params)
  BY DEF EdgesJoin
<1> HIDE DEF ms
<1>3. CASE \E t \in Range(Content[d]) : e \in TypeEdges(t)
  <2>1. e.member = <<>> BY <1>3 DEF TypeEdges, Edge
  <2> QED BY <1>2, <2>1
<1>4. CASE \E m \in ms : e \in MemberEdges(m)
  <2>1. PICK m \in ms : e \in MemberEdges(m) BY <1>4
  <2>2. PICK t : t \in {m.type} \cup Range(m.params)
                 /\ \E kind : e = Edge(m.owner, t, kind, StableKey(m))
    BY <2>1 DEF MemberEdges
  <2>3. e.source = m.owner /\ e.target = t /\ e.member = StableKey(m) BY <2>2 DEF Edge
  <2> QED BY <2>2, <2>3
<1> QED BY <1>1, <1>2, <1>3, <1>4 DEF Edges

-----------------------------------------------------------------------------
(* The store *)

\* At first there is nothing.
LEMMA InitIInv == Init => IInv
PROOF
<1> SUFFICES ASSUME Init PROVE IInv OBVIOUS
<1>0. "idle" \in Steps /\ None \in Seen BY DEF Steps, Seen
<1>1. Idle \in Import /\ Idle.pc = "idle" BY <1>0 DEF Import, Idle
<1>2. TypeOK
  <2>1. imp \in [Importers -> Import] BY <1>1 DEF Init
  <2> QED BY <2>1 DEF Init, TypeOK, Import
<1>3. ImportsFollowFiles BY <1>1 DEF Init, ImportsFollowFiles, Follows
<1>4. \A d \in Dumps : StateOf(d) = "absent" /\ KeysOf(row[d]) = {}
  BY DEF Init, StateOf, KeysOf
<1>5. CompleteIsWhole BY <1>4 DEF Init, CompleteIsWhole
<1>6. KeysAreOld /\ KeysDenoteOneMember BY <1>4 DEF Init, KeysAreOld, KeysDenoteOneMember
<1> QED BY <1>2, <1>3, <1>5, <1>6 DEF IInv

\* The tables stay, and one importer has gone on to r.
LEMMA TablesStay ==
  ASSUME IInv, NEW i \in Importers, NEW r \in Import, Follows(r),
         imp' = [imp EXCEPT ![i] = r],
         lock' \in Importers \cup {None}, lock' # None => imp'[lock'].pc = "inserting",
         UNCHANGED <<file, row, active, lastKey, search, held, lost, rewrites>>
  PROVE  IInv'
PROOF
<1> USE DEF IInv
<1>1. imp' \in [Importers -> Import] BY DEF TypeOK, Import
<1>2. TypeOK' BY <1>1 DEF TypeOK, Import
<1>3. ImportsFollowFiles'
  <2>1. \A x : Follows(x)' <=> Follows(x) BY DEF Follows, StateOf
  <2>2. \A j \in Importers : imp'[j] = r \/ imp'[j] = imp[j] BY DEF TypeOK
  <2>3. \A j \in Importers : Follows(imp'[j]) BY <2>2 DEF ImportsFollowFiles
  <2>4. \A j \in Importers : Follows(imp[j])' BY <2>3 DEF Follows, StateOf
  <2> QED BY <2>4 DEF ImportsFollowFiles
<1>4. CompleteIsWhole' BY DEF CompleteIsWhole, IsWhole, IsSearchable, StateOf, KeysOf
<1>5. KeysAreOld' BY DEF KeysAreOld, KeysOf
<1>6. KeysDenoteOneMember' BY DEF KeysDenoteOneMember, MemberByPk, KeysOf
<1> QED BY <1>2, <1>3, <1>4, <1>5, <1>6

\* What is known of an importer that is under way.
LEMMA UnderWay ==
  ASSUME IInv, NEW i \in Importers
  PROVE  /\ imp[i] \in Import /\ Follows(imp[i]) /\ imp \in [Importers -> Import]
         /\ lock \in Importers \cup {None} /\ (lock # None => imp[lock].pc = "inserting")
         /\ imp[i].pc # "idle" => imp[i].digest \in Dumps /\ imp[i].path \in Paths
PROOF
<1> QED BY DEF IInv, TypeOK, Import, ImportsFollowFiles, Follows

\* An importer that has finished is idle again.
LEMMA IdleAgain == Idle \in Import /\ Follows(Idle) /\ Idle.pc = "idle"
PROOF
<1>1. "idle" \in Steps /\ None \in Seen BY DEF Steps, Seen
<1> QED BY <1>1 DEF Idle, Import, Follows

\* The lock stays with another importer, or is nobody's.
LEMMA LockStays ==
  ASSUME IInv, NEW i \in Importers, NEW r, imp' = [imp EXCEPT ![i] = r],
         lock' \in {lock, None}, lock' # i
  PROVE  lock' \in Importers \cup {None} /\ (lock' # None => imp'[lock'].pc = "inserting")
PROOF
<1>1. lock \in Importers \cup {None} /\ (lock # None => imp[lock].pc = "inserting")
      /\ imp \in [Importers -> Import]
  BY UnderWay
<1>2. ASSUME lock' # None PROVE imp'[lock'].pc = "inserting"
  <2>1. lock' = lock /\ lock \in Importers /\ lock # i BY <1>1, <1>2
  <2>2. imp'[lock] = imp[lock] BY <1>1, <2>1
  <2> QED BY <1>1, <1>2, <2>1, <2>2
<1> QED BY <1>1, <1>2

\* The file is hashed.
LEMMA HashIInv ==
  ASSUME IInv, NEW i \in Importers, NEW p \in Paths, NEW activate \in BOOLEAN, Hash(i, p, activate)
  PROVE  IInv'
PROOF
<1> DEFINE r == [pc |-> "hashed", path |-> p, digest |-> file[p], seen |-> None,
                 activate |-> activate]
<1>1. file[p] \in Dumps BY DEF IInv, TypeOK
<1>2. r \in Import /\ Follows(r)
  <2>1. "hashed" \in Steps /\ None \in Seen BY DEF Steps, Seen
  <2> QED BY <1>1, <2>1 DEF Import, Follows
<1>3. imp' = [imp EXCEPT ![i] = r] BY DEF Hash
<1>4. imp[i].pc = "idle" BY DEF Hash
<1> HIDE DEF r
<1>5. lock # i
  <2>1. i # None BY NoneIsApart
  <2> QED BY <1>4, <2>1, UnderWay
<1>6. lock' \in Importers \cup {None} /\ (lock' # None => imp'[lock'].pc = "inserting")
  BY <1>3, <1>5, LockStays DEF Hash
<1> QED BY <1>2, <1>3, <1>6, TablesStay DEF Hash

\* Its snapshot is looked at.
LEMMA ReadStateIInv ==
  ASSUME IInv, NEW i \in Importers, ReadState(i)
  PROVE  IInv'
PROOF
<1> DEFINE d == imp[i].digest
           r == [imp[i] EXCEPT !.seen = StateOf(d),
                               !.pc = IF Reusable(StateOf(d)) THEN "reuse" ELSE "begin"]
<1>1. imp[i].pc = "hashed" /\ d \in Dumps BY UnderWay DEF ReadState
<1>2. StateOf(d) \in {"absent", "complete", "failed"}
  BY <1>1 DEF IInv, TypeOK, StateOf, Row
<1>3. r \in Import /\ Follows(r)
  <2>1. {"reuse", "begin"} \subseteq Steps /\ StateOf(d) \in Seen BY <1>2 DEF Steps, Seen
  <2>2. imp[i] \in Import /\ Follows(imp[i]) BY UnderWay
  <2>3. /\ r.pc = IF StateOf(d) = "complete" THEN "reuse" ELSE "begin"
        /\ r.seen = StateOf(d) /\ r.path = imp[i].path /\ r.digest = d
    BY <2>2 DEF Import, Reusable
  <2>4. r \in Import BY <2>1, <2>2 DEF Import
  <2> HIDE DEF r
  <2> QED BY <1>1, <2>2, <2>3, <2>4 DEF Follows
<1>4. imp' = [imp EXCEPT ![i] = r] BY UnderWay DEF ReadState, Import
<1> HIDE DEF r
<1>5. lock # i
  <2>1. i # None BY NoneIsApart
  <2> QED BY <1>1, <2>1, UnderWay
<1>6. lock' \in Importers \cup {None} /\ (lock' # None => imp'[lock'].pc = "inserting")
  BY <1>4, <1>5, LockStays DEF ReadState
<1> QED BY <1>3, <1>4, <1>6, TablesStay DEF ReadState

\* An importer that may write goes on, or gives up.
LEMMA GoesOn ==
  ASSUME IInv, NEW i \in Importers, imp[i].pc \in {"begin", "inserting"},
         NEW pc \in {"inserting", "failed"}, Goto(i, pc),
         lock' \in Importers \cup {None}, lock' # None => lock' = i /\ pc = "inserting",
         UNCHANGED <<file, row, active, lastKey, search, held, lost, rewrites>>
  PROVE  IInv'
PROOF
<1> DEFINE r == [imp[i] EXCEPT !.pc = pc]
<1>1. r \in Import /\ Follows(r) /\ r.pc = pc
  <2>1. pc \in Steps BY DEF Steps
  <2>2. imp[i] \in Import /\ Follows(imp[i]) BY UnderWay
  <2>3. /\ r \in Import /\ r.pc = pc
        /\ r.path = imp[i].path /\ r.digest = imp[i].digest /\ r.seen = imp[i].seen
    BY <2>1, <2>2 DEF Import
  <2> HIDE DEF r
  <2> QED BY <2>2, <2>3 DEF Follows
<1>2. imp' = [imp EXCEPT ![i] = r] BY UnderWay DEF Goto
<1> HIDE DEF r
<1>3. lock' # None => imp'[lock'].pc = "inserting" BY <1>1, <1>2, UnderWay
<1> QED BY <1>1, <1>2, <1>3, TablesStay

\* An importer stops: it is idle, and does not hold the lock.
LEMMA Stops ==
  ASSUME IInv, NEW i \in Importers, Finish(i), lock' \in {lock, None}, lock' # i,
         UNCHANGED <<file, row, active, lastKey, search, held, lost, rewrites>>
  PROVE  IInv'
PROOF
<1>1. imp' = [imp EXCEPT ![i] = Idle] BY DEF Finish
<1>2. lock' \in Importers \cup {None} /\ (lock' # None => imp'[lock'].pc = "inserting")
  BY <1>1, LockStays
<1> QED BY <1>1, <1>2, IdleAgain, TablesStay

\* The lock is taken, or the row is there already.
LEMMA BeginIInv ==
  ASSUME IInv, NEW i \in Importers, Begin(i)
  PROVE  IInv'
PROOF
<1>0. i # None BY NoneIsApart
<1>1. CASE Goto(i, "inserting") /\ lock' = i BY <1>1, GoesOn DEF Begin
<1>2. CASE Finish(i) /\ lock' = lock BY <1>0, <1>2, Stops DEF Begin
<1> QED BY <1>1, <1>2 DEF Begin

\* The lock is not had in time.
LEMMA LockTimeoutIInv ==
  ASSUME IInv, NEW i \in Importers, LockTimeout(i)
  PROVE  IInv'
PROOF
<1> QED BY Stops DEF LockTimeout

\* An import raises.
LEMMA RollbackIInv ==
  ASSUME IInv, NEW i \in Importers, Rollback(i)
  PROVE  IInv'
PROOF
<1> QED BY GoesOn DEF Rollback

\* An importer dies.
LEMMA DieIInv ==
  ASSUME IInv, NEW i \in Importers, Die(i)
  PROVE  IInv'
PROOF
<1>1. i # None BY NoneIsApart
<1>2. lock' \in {lock, None} /\ lock' # i BY <1>1 DEF Die
<1> QED BY <1>2, Stops DEF Die

\* The snapshot is there already; only what is active may change.
LEMMA ReuseIInv ==
  ASSUME IInv, NEW i \in Importers, Reuse(i)
  PROVE  IInv'
PROOF
<1> DEFINE d == imp[i].digest
<1>1. imp[i].pc = "reuse" /\ d \in Dumps /\ i # None BY UnderWay, NoneIsApart DEF Reuse
<1>2. active' \in {active, None, d} /\ (active' = d => active = d \/ StateOf(d) = "complete")
  BY <1>1, NoneIsApart, ConstantsOK DEF Reuse, Activated, StateOf
<1>3. imp' = [imp EXCEPT ![i] = Idle] /\ lock' = lock /\ lock # i
  BY <1>1, UnderWay DEF Reuse, Finish
<1>4. lock' \in Importers \cup {None} /\ (lock' # None => imp'[lock'].pc = "inserting")
  BY <1>3, LockStays
<1>5. UNCHANGED <<file, row, lastKey, search, held, lost, rewrites>> BY DEF Reuse
<1>6. imp' \in [Importers -> Import] BY <1>3, IdleAgain, UnderWay
<1>7. TypeOK' BY <1>1, <1>2, <1>4, <1>5, <1>6 DEF IInv, TypeOK, Import
<1>8. ImportsFollowFiles'
  <2>1. \A j \in Importers : Follows(imp'[j])
    BY <1>3, IdleAgain, UnderWay DEF IInv, ImportsFollowFiles
  <2>2. \A j \in Importers : Follows(imp[j])' BY <1>5, <2>1 DEF Follows, StateOf
  <2> QED BY <1>5, <2>2 DEF IInv, ImportsFollowFiles
<1>9. CompleteIsWhole'
  <2>1. \A e \in Dumps : StateOf(e)' = StateOf(e) /\ (IsWhole(e)' <=> IsWhole(e))
    BY <1>5 DEF StateOf, IsWhole, IsSearchable, KeysOf
  <2>2. active # None => StateOf(active) = "complete" BY DEF IInv, CompleteIsWhole
  <2>3. active' # None => active' \in Dumps /\ StateOf(active') = "complete"
    BY <1>1, <1>2, <2>2 DEF IInv, TypeOK
  <2>4. active' # None => StateOf(active)' = "complete" BY <1>5, <2>3 DEF StateOf
  <2> QED BY <2>1, <2>4 DEF IInv, CompleteIsWhole
<1>10. KeysAreOld' BY <1>5 DEF IInv, KeysAreOld, KeysOf
<1>11. KeysDenoteOneMember' BY <1>5 DEF IInv, KeysDenoteOneMember, MemberByPk, KeysOf
<1> QED BY <1>7, <1>8, <1>9, <1>10, <1>11 DEF IInv

\* The row of the imported dump is replaced by r, whose keys are new: what the
\* end of an import, good or bad, does to the tables.
LEMMA RowReplaced ==
  ASSUME IInv, NEW i \in Importers, NEW d \in Dumps, NEW r \in Row, r # None,
         row' = [row EXCEPT ![d] = r],
         lost' = IF StateOf(d) = "complete" THEN lost \cup {d} ELSE lost,
         active' \in {active, None, d}, active' = d => r.state = "complete",
         r.state = "complete" =>
           /\ r.dump \in Dumps \ Rejected /\ (rewrites = 0 => r.dump = d)
           /\ \A key \in KeysOf(r) : [snapshot |-> d, key |-> key] \in search',
         \A s \in search' \ search : s.snapshot \in Dumps /\ s.key \in 1..lastKey',
         lastKey' \in Nat, lastKey <= lastKey', KeysOf(r) \subseteq lastKey + 1 .. lastKey',
         search \subseteq search', Finish(i), lock' \in {lock, None}, lock' # i,
         UNCHANGED <<file, held, rewrites>>
  PROVE  IInv'
PROOF
<1>1. d \in Dumps /\ d # None BY ConstantsOK
<1>2. /\ row' \in [Dumps -> Row \cup {None}] /\ row'[d] = r /\ r # None
      /\ \A e \in Dumps \ {d} : row'[e] = row[e]
  BY DEF IInv, TypeOK
<1>3. imp' = [imp EXCEPT ![i] = Idle] BY DEF Finish
<1>4. lock' \in Importers \cup {None} /\ (lock' # None => imp'[lock'].pc = "inserting")
  BY <1>3, LockStays
<1>5. imp' \in [Importers -> Import] BY <1>3, IdleAgain, UnderWay
<1>6. lost \subseteq lost' /\ lost' \subseteq Dumps /\ (StateOf(d) = "complete" => d \in lost')
  BY <1>1 DEF IInv, TypeOK
<1>7. 1..lastKey \subseteq 1..lastKey' BY DEF IInv, TypeOK
<1>8. active' \in {active, None, d} /\ (active' = d => r.state = "complete") OBVIOUS
<1>9. TypeOK'
  <2>1. \A s \in search' : s.snapshot \in Dumps /\ s.key \in 1..lastKey' BY <1>7 DEF IInv, TypeOK
  <2> QED BY <1>1, <1>2, <1>4, <1>5, <1>6, <1>8, <2>1 DEF IInv, TypeOK, Import
<1>10. \A e \in Dumps \ {d} : StateOf(e)' = StateOf(e) /\ KeysOf(row'[e]) = KeysOf(row[e])
  BY <1>2 DEF StateOf
<1>11. StateOf(d)' = r.state BY <1>2 DEF StateOf
<1>12. ImportsFollowFiles'
  <2>1. \A j \in Importers : Follows(imp'[j])
    BY <1>3, IdleAgain, UnderWay DEF IInv, ImportsFollowFiles
  <2>2. ASSUME NEW e \in Dumps, StateOf(e) = "complete"
        PROVE  StateOf(e)' = "complete" \/ lost' # {}
    BY <1>6, <1>10, <2>2
  <2>3. lost # {} => lost' # {} BY <1>6
  <2>4. ASSUME NEW y, Follows(y), y.pc # "idle"
        PROVE  /\ y.path \in Paths /\ y.digest \in Dumps
               /\ rewrites' = 0 => file'[y.path] = y.digest
               /\ y.pc \in {"begin", "inserting", "failed"} => y.seen # "complete"
               /\ y.pc = "reuse" => StateOf(y.digest)' = "complete" \/ lost' # {}
    BY <2>2, <2>3, <2>4 DEF Follows
  <2>5. \A j \in Importers : Follows(imp[j])' BY <2>1, <2>4 DEF Follows
  <2> QED BY <2>5 DEF IInv, ImportsFollowFiles
<1>13. CompleteIsWhole'
  <2>1. ASSUME NEW e \in Dumps, StateOf(e)' = "complete" PROVE IsWhole(e)'
    <3>1. CASE e = d
      <4>1. KeysOf(row[e])' = KeysOf(r) BY <1>2, <3>1 DEF KeysOf
      <4>2. /\ r.dump \in Dumps \ Rejected /\ (rewrites = 0 => r.dump = d)
            /\ \A key \in KeysOf(r) : [snapshot |-> d, key |-> key] \in search'
        BY <1>11, <2>1, <3>1
      <4> QED BY <1>2, <3>1, <4>1, <4>2 DEF IsWhole, IsSearchable
    <3>2. CASE e # d
      <4>1. IsWhole(e) BY <1>10, <2>1, <3>2 DEF IInv, CompleteIsWhole
      <4> QED BY <1>2, <3>2, <4>1 DEF IsWhole, IsSearchable, KeysOf
    <3> QED BY <3>1, <3>2
  <2>2. ASSUME active' # None PROVE StateOf(active)' = "complete"
    <3>1. CASE active' = d BY <1>2, <1>8, <3>1 DEF StateOf
    <3>2. CASE active' # d
      <4>1. active' = active /\ active \in Dumps \ {d} BY <1>8, <2>2, <3>2 DEF IInv, TypeOK
      <4>2. row'[active'] = row[active] BY <1>2, <4>1
      <4>3. StateOf(active) = "complete" BY <2>2, <4>1 DEF IInv, CompleteIsWhole
      <4> QED BY <4>1, <4>2, <4>3 DEF StateOf
    <3> QED BY <3>1, <3>2
  <2> QED BY <2>1, <2>2 DEF CompleteIsWhole
<1>14. KeysAreOld'
  <2>1. KeysOf(row[d])' \subseteq 1..lastKey'
    <3>1. KeysOf(row[d])' = KeysOf(r) BY <1>2 DEF KeysOf
    <3>2. lastKey + 1 .. lastKey' \subseteq 1..lastKey' BY DEF IInv, TypeOK
    <3> QED BY <3>1, <3>2
  <2>2. \A e \in Dumps \ {d} : KeysOf(row[e])' \subseteq 1..lastKey'
    BY <1>2, <1>7 DEF IInv, KeysAreOld, KeysOf
  <2>3. \A h \in held' : h.snapshot \in Dumps /\ h.key \in 1..lastKey'
    BY <1>7 DEF IInv, KeysAreOld
  <2> QED BY <2>1, <2>2, <2>3 DEF KeysAreOld
<1>15. KeysDenoteOneMember'
  <2>1. ASSUME NEW h \in held PROVE MemberByPk(h.snapshot, h.key)' \in {h.member, None}
    <3>1. h.snapshot \in Dumps /\ h.key \in 1..lastKey BY DEF IInv, KeysAreOld
    <3>2. CASE h.snapshot = d
      <4>1. h.key \notin KeysOf(r) BY <3>1 DEF IInv, TypeOK
      <4> QED BY <1>2, <3>2, <4>1 DEF MemberByPk, KeysOf
    <3>3. CASE h.snapshot # d
      <4>1. MemberByPk(h.snapshot, h.key)' = MemberByPk(h.snapshot, h.key)
        BY <1>2, <3>1, <3>3 DEF MemberByPk, KeysOf
      <4> QED BY <4>1 DEF IInv, KeysDenoteOneMember
    <3> QED BY <3>2, <3>3
  <2> QED BY <2>1 DEF KeysDenoteOneMember
<1> QED BY <1>9, <1>12, <1>13, <1>14, <1>15 DEF IInv

\* What is active after an import was committed.
LEMMA ActiveAfterImport ==
  ASSUME NEW i, NEW d, d = imp[i].digest
  PROVE  ActiveAfter(i) \in {active, None, d}
PROOF
<1> QED BY DEF ActiveAfter

\* An import is committed: its row is complete and its keys are new.
LEMMA CommitIInv ==
  ASSUME IInv, NEW i \in Importers, Commit(i)
  PROVE  IInv'
PROOF
<1> DEFINE d == imp[i].digest
           dump == file[imp[i].path]
           new == [state |-> "complete", dump |-> dump, base |-> lastKey]
<1>1. imp[i].pc = "inserting" /\ d \in Dumps /\ i # None BY UnderWay, NoneIsApart DEF Commit
<1>2. dump \in Dumps \ Rejected /\ (rewrites = 0 => dump = d)
  BY <1>1, UnderWay DEF Commit, Follows, IInv, TypeOK
<1>3. new \in Row /\ new # None /\ new.state = "complete" /\ new.dump = dump /\ new.base = lastKey
  BY <1>2, NoneIsApart DEF IInv, TypeOK, Row
<1>4. /\ row' = [row EXCEPT ![d] = new]
      /\ lastKey' = lastKey + Len(Rows[dump])
      /\ search' = search \cup {[snapshot |-> d, key |-> k] : k \in KeysOf(new)}
      /\ active' = ActiveAfter(i)
      /\ lost' = IF StateOf(d) = "complete" THEN lost \cup {d} ELSE lost
  BY DEF Commit, LastKey
<1>5. lock' = None /\ Finish(i) /\ UNCHANGED <<file, held, rewrites>> BY DEF Commit
<1>6. active' \in {active, None, d} BY <1>4, ActiveAfterImport
<1>7. lastKey \in Nat /\ Len(Rows[dump]) \in Nat BY <1>2, RowsOfDump DEF IInv, TypeOK
<1>8. dump # None BY <1>2, ConstantsOK
<1> HIDE DEF d, new, dump
<1>9. lastKey' \in Nat /\ lastKey <= lastKey' /\ KeysOf(new) = lastKey + 1 .. lastKey'
  BY <1>3, <1>4, <1>7, <1>8 DEF KeysOf
<1>10. /\ search \subseteq search'
       /\ \A key \in KeysOf(new) : [snapshot |-> d, key |-> key] \in search'
  BY <1>4
<1>11. \A s \in search' \ search : s.snapshot \in Dumps /\ s.key \in 1..lastKey'
  <2>1. \A s \in search' \ search : s.snapshot = d /\ s.key \in KeysOf(new) BY <1>4
  <2>2. lastKey + 1 .. lastKey' \subseteq 1..lastKey' BY <1>7
  <2> QED BY <1>1, <1>9, <2>1, <2>2
<1> QED BY <1>1, <1>2, <1>3, <1>4, <1>5, <1>6, <1>9, <1>10, <1>11, RowReplaced

\* A failure is recorded: the row is one of a failed import, which has no keys.
LEMMA RecordFailureIInv ==
  ASSUME IInv, NEW i \in Importers, RecordFailure(i)
  PROVE  IInv'
PROOF
<1> DEFINE d == imp[i].digest
           new == [state |-> "failed", dump |-> None, base |-> 0]
<1>1. imp[i].pc = "failed" /\ d \in Dumps /\ i # None /\ lock = None
  BY UnderWay, NoneIsApart DEF RecordFailure
<1>2. new \in Row /\ new # None /\ new.state = "failed" /\ new.dump = None
  BY NoneIsApart DEF Row
<1>3. /\ row' = [row EXCEPT ![d] = new]
      /\ active' = IF active = d THEN None ELSE active
      /\ lost' = IF StateOf(d) = "complete" THEN lost \cup {d} ELSE lost
  BY DEF RecordFailure
<1>4. lock' = lock /\ Finish(i) /\ UNCHANGED <<file, lastKey, search, held, rewrites>>
  BY DEF RecordFailure
<1>5. active' \in {active, None, d} /\ active' # d BY <1>1, <1>3, ConstantsOK
<1>6. lastKey \in Nat BY DEF IInv, TypeOK
<1> HIDE DEF d, new
<1>7. KeysOf(new) = {} BY <1>2 DEF KeysOf
<1>8. search' \ search = {} /\ search \subseteq search' BY <1>4
<1>9. lastKey' \in Nat /\ lastKey <= lastKey' BY <1>4, <1>6
<1> QED BY <1>1, <1>2, <1>3, <1>4, <1>5, <1>7, <1>8, <1>9, RowReplaced

\* A file is overwritten, and what imports read of it is no longer what they
\* hashed.
LEMMA RewriteIInv ==
  ASSUME IInv, NEW p \in Paths, NEW d \in Dumps, Rewrite(p, d)
  PROVE  IInv'
PROOF
<1>1. /\ rewrites' \in Nat /\ rewrites' # 0 /\ file' \in [Paths -> Dumps]
      /\ UNCHANGED <<row, active, lastKey, search, lock, imp, held, lost>>
  BY DEF Rewrite, IInv, TypeOK, ImportsFollowFiles
<1>2. TypeOK' BY <1>1 DEF IInv, TypeOK
<1>3. ImportsFollowFiles' BY <1>1 DEF IInv, ImportsFollowFiles, Follows, StateOf
<1>4. CompleteIsWhole' BY <1>1 DEF IInv, CompleteIsWhole, IsWhole, IsSearchable, StateOf, KeysOf
<1>5. KeysAreOld' BY <1>1 DEF IInv, KeysAreOld, KeysOf
<1>6. KeysDenoteOneMember' BY <1>1 DEF IInv, KeysDenoteOneMember, MemberByPk, KeysOf
<1> QED BY <1>2, <1>3, <1>4, <1>5, <1>6 DEF IInv

\* A member is found, and its key kept.
LEMMA LookUpIInv ==
  ASSUME IInv, NEW d \in Dumps, NEW key \in KeysOf(row[d]), LookUp(d, key)
  PROVE  IInv'
PROOF
<1>1. /\ held' = {[snapshot |-> d, key |-> key, member |-> MemberByPk(d, key)]}
      /\ UNCHANGED <<file, row, active, lastKey, search, lock, imp, lost, rewrites>>
  BY DEF LookUp
<1>2. TypeOK' BY <1>1 DEF IInv, TypeOK
<1>3. ImportsFollowFiles' BY <1>1 DEF IInv, ImportsFollowFiles, Follows, StateOf
<1>4. CompleteIsWhole' BY <1>1 DEF IInv, CompleteIsWhole, IsWhole, IsSearchable, StateOf, KeysOf
<1>5. KeysAreOld' BY <1>1 DEF IInv, KeysAreOld, KeysOf
<1>6. KeysDenoteOneMember'
  <2>1. MemberByPk(d, key)' = MemberByPk(d, key) BY <1>1 DEF MemberByPk, KeysOf
  <2> QED BY <1>1, <2>1 DEF KeysDenoteOneMember
<1> QED BY <1>2, <1>3, <1>4, <1>5, <1>6 DEF IInv

\* No step leaves the invariant.
LEMMA NextIInv == IInv /\ [Next]_vars => IInv'
PROOF
<1> SUFFICES ASSUME IInv, [Next]_vars PROVE IInv' OBVIOUS
<1>1. ASSUME NEW i \in Importers, NEW p \in Paths, NEW activate \in BOOLEAN, Hash(i, p, activate)
      PROVE  IInv'
  BY <1>1, HashIInv
<1>2. ASSUME NEW i \in Importers, ReadState(i) PROVE IInv' BY <1>2, ReadStateIInv
<1>3. ASSUME NEW i \in Importers, Reuse(i) PROVE IInv' BY <1>3, ReuseIInv
<1>4. ASSUME NEW i \in Importers, Begin(i) PROVE IInv' BY <1>4, BeginIInv
<1>5. ASSUME NEW i \in Importers, LockTimeout(i) PROVE IInv' BY <1>5, LockTimeoutIInv
<1>6. ASSUME NEW i \in Importers, Commit(i) PROVE IInv' BY <1>6, CommitIInv
<1>7. ASSUME NEW i \in Importers, Rollback(i) PROVE IInv' BY <1>7, RollbackIInv
<1>8. ASSUME NEW i \in Importers, RecordFailure(i) PROVE IInv' BY <1>8, RecordFailureIInv
<1>9. ASSUME NEW i \in Importers, Die(i) PROVE IInv' BY <1>9, DieIInv
<1>10. ASSUME NEW p \in Paths, NEW d \in Dumps, Rewrite(p, d) PROVE IInv' BY <1>10, RewriteIInv
<1>11. ASSUME NEW d \in Dumps, NEW key \in KeysOf(row[d]), LookUp(d, key) PROVE IInv'
  BY <1>11, LookUpIInv
<1>12. CASE UNCHANGED vars
  <2>1. UNCHANGED <<file, row, active, lastKey, search, lock, imp, held, lost, rewrites>>
    BY <1>12 DEF vars
  <2>2. TypeOK' BY <2>1 DEF IInv, TypeOK
  <2>3. ImportsFollowFiles' BY <2>1 DEF IInv, ImportsFollowFiles, Follows, StateOf
  <2>4. CompleteIsWhole' BY <2>1 DEF IInv, CompleteIsWhole, IsWhole, IsSearchable, StateOf, KeysOf
  <2>5. KeysAreOld' BY <2>1 DEF IInv, KeysAreOld, KeysOf
  <2>6. KeysDenoteOneMember' BY <2>1 DEF IInv, KeysDenoteOneMember, MemberByPk, KeysOf
  <2> QED BY <2>2, <2>3, <2>4, <2>5, <2>6 DEF IInv
<1> QED
  BY <1>1, <1>2, <1>3, <1>4, <1>5, <1>6, <1>7, <1>8, <1>9, <1>10, <1>11, <1>12 DEF Next

-----------------------------------------------------------------------------
(* Theorems *)

\* Every reachable state satisfies the inductive invariant: imports follow
\* their files, complete snapshots are whole, and keys are never given twice.
THEOREM InductiveInvariant == Spec => []IInv
PROOF
<1> QED BY InitIInv, NextIInv, PTL DEF Spec

\* A complete snapshot can be the active one.
LEMMA WholeIsSound == IInv => StoreIsSound
PROOF
<1> SUFFICES ASSUME IInv PROVE StoreIsSound OBVIOUS
<1>1. TypeOK /\ KeysDenoteOneMember BY DEF IInv
<1>2. ASSUME active # None
      PROVE  /\ row[active] # None /\ row[active].state = "complete"
             /\ rewrites = 0 => row[active].dump = active
             /\ IsSearchable(active) /\ EdgesJoin(row[active].dump)
             /\ PropertiesOnce(row[active].dump)
  <2>1. active \in Dumps /\ StateOf(active) = "complete"
    BY <1>2 DEF IInv, TypeOK, CompleteIsWhole
  <2>2. row[active] # None /\ row[active].state = "complete" BY <2>1 DEF StateOf
  <2>3. IsWhole(active) BY <2>1 DEF IInv, CompleteIsWhole
  <2>4. row[active].dump \in Dumps \ Rejected BY <2>3 DEF IsWhole
  <2>5. EdgesJoin(row[active].dump) /\ PropertiesOnce(row[active].dump)
    BY <2>4, AllEdgesJoin, AcceptedPropertiesOnce
  <2> QED BY <2>2, <2>3, <2>5 DEF IsWhole
<1> QED BY <1>1, <1>2 DEF StoreIsSound, ActiveIsWhole

\* For any dumps, importers and files: the tables have the declared form; what
\* is active is completely imported, is the dump it is named after unless a file
\* was overwritten, is known to the search index, and its edges and properties
\* hang together; and the key of a member that a query found never comes to
\* denote another one, whatever is imported, fails or dies since.
THEOREM StoreAlwaysSound == Spec => []StoreIsSound
PROOF
<1> QED BY InductiveInvariant, WholeIsSound, PTL

\* A row is only replaced at the end of an import of its dump that had not seen
\* it complete.
LEMMA NextKeepsComplete ==
  ASSUME IInv, [Next]_vars, NEW d \in Dumps, row'[d] # row[d]
  PROVE  \E i \in Importers : imp[i].digest = d /\ imp[i].seen # "complete"
PROOF
<1>1. CASE row' = row BY <1>1
<1>2. ASSUME NEW i \in Importers, Commit(i) \/ RecordFailure(i)
      PROVE  imp[i].digest = d /\ imp[i].seen # "complete"
  <2>1. imp[i].pc \in {"inserting", "failed"} BY <1>2 DEF Commit, RecordFailure
  <2>2. imp[i].seen # "complete" BY <2>1, UnderWay DEF Follows
  <2>3. \E r : row' = [row EXCEPT ![imp[i].digest] = r] BY <1>2 DEF Commit, RecordFailure
  <2>4. imp[i].digest = d BY <2>3 DEF IInv, TypeOK
  <2> QED BY <2>2, <2>4
<1> QED
  BY <1>1, <1>2 DEF Next, Hash, ReadState, Reuse, Begin, LockTimeout, Rollback, Die, Rewrite,
                    LookUp, vars

\* A complete snapshot is only replaced or removed by an import of its own dump
\* that had not seen it complete; no other import, no failure and no death of a
\* process touches it.
THEOREM CompleteAlwaysKept == Spec => CompleteIsKept
PROOF
<1>1. ASSUME IInv, [Next]_vars
      PROVE  [\A d \in Dumps : StateOf(d) = "complete" /\ row'[d] # row[d] =>
                \E i \in Importers : imp[i].digest = d /\ imp[i].seen # "complete"]_vars
  BY <1>1, NextKeepsComplete
<1> QED BY <1>1, InductiveInvariant, PTL DEF Spec, CompleteIsKept

\* A step leaves something active, or a complete snapshot has been lost.
LEMMA NextKeepsActive ==
  ASSUME IInv, [Next]_vars, active # None
  PROVE  active' # None \/ lost' # {}
PROOF
<1>1. active \in Dumps /\ StateOf(active) = "complete" BY DEF IInv, TypeOK, CompleteIsWhole
<1>2. CASE active' = active BY <1>2
<1>3. ASSUME NEW i \in Importers, Reuse(i) PROVE active' # None \/ lost' # {}
  <2>1. imp[i].digest \in Dumps /\ lost' = lost
        /\ (StateOf(imp[i].digest) = "complete" \/ lost # {})
    BY <1>3, UnderWay DEF Reuse, Follows
  <2>2. CASE StateOf(imp[i].digest) = "complete"
    <3>1. row[imp[i].digest] # None /\ row[imp[i].digest].state = "complete" BY <2>2 DEF StateOf
    <3>2. active' \in {imp[i].digest, active} BY <1>3, <3>1 DEF Reuse, Activated
    <3>3. imp[i].digest # None BY <2>1, ConstantsOK
    <3> QED BY <3>2, <3>3
  <2> QED BY <2>1, <2>2
<1>4. ASSUME NEW i \in Importers, Commit(i) \/ RecordFailure(i)
      PROVE  active' # None \/ lost' # {}
  <2>1. imp[i].digest \in Dumps BY <1>4, UnderWay DEF Commit, RecordFailure
  <2>2. imp[i].digest # None BY <2>1, ConstantsOK
  <2>3. active' = None => active = imp[i].digest
    BY <1>4, <2>2 DEF Commit, RecordFailure, ActiveAfter
  <2>4. StateOf(imp[i].digest) = "complete" => imp[i].digest \in lost'
    BY <1>4 DEF Commit, RecordFailure
  <2> QED BY <1>1, <2>3, <2>4
<1> QED
  BY <1>2, <1>3, <1>4 DEF Next, Hash, ReadState, Begin, LockTimeout, Rollback, Die, Rewrite,
                          LookUp, vars

\* From the first activation on there is an active snapshot, unless a complete
\* one has been removed by a second import of its dump.
THEOREM ActiveAlwaysKept == Spec => ActiveIsKept
PROOF
<1>1. ASSUME IInv, [Next]_vars
      PROVE  [active # None => active' # None \/ lost' # {}]_vars
  BY <1>1, NextKeepsActive
<1> QED BY <1>1, InductiveInvariant, PTL DEF Spec, ActiveIsKept
=============================================================================
