---- MODULE InductionLemmas ----
(***************************************************************************)
(* Induction over the natural numbers in a first-order form, and what it   *)
(* gives for functions and sequences that are written recursively: that    *)
(* they exist, and what their steps are.                                   *)
(***************************************************************************)
EXTENDS Integers, SequencesExt, SequenceTheorems, WellFoundedInduction, FiniteSetTheorems, TLAPS

----------------------------------------------------------------------------
(* The natural numbers                                                     *)

\* A set of naturals has a least member: the intervals below its members are
\* finite sets, and inclusion of those is well founded.
LEMMA LeastNat ==
    ASSUME NEW T \in SUBSET Nat, T # {}
    PROVE  \E x \in T : \A y \in T : x <= y
<1> DEFINE Below(n) == 0 .. n
           Sets == {Below(n) : n \in T}
<1>1. Sets \subseteq FiniteSubsetsOf(Nat) /\ Sets # {}
  <2>1. ASSUME NEW n \in T PROVE Below(n) \in SUBSET Nat /\ IsFiniteSet(Below(n))
    BY FS_Interval
  <2> QED
    BY <2>1 DEF FiniteSubsetsOf
<1>2. \E s \in Sets : \A t \in Sets : ~(<<t, s>> \in StrictSubsetOrdering(Nat))
  <2> HIDE DEF Sets
  <2> QED BY <1>1, FS_StrictSubsetOrderingWellFounded, WFMin
<1>3. ASSUME NEW x \in T, NEW y \in T, y < x
      PROVE  <<Below(y), Below(x)>> \in StrictSubsetOrdering(Nat)
  <2>1. Below(y) \subseteq Below(x) /\ x \in Below(x) /\ x \notin Below(y)
    BY <1>3
  <2>2. Below(x) \in SUBSET Nat /\ Below(y) \in SUBSET Nat
    OBVIOUS
  <2> HIDE DEF Below
  <2> QED
    BY <2>1, <2>2 DEF StrictSubsetOrdering
<1>4. PICK x \in T : \A y \in T : ~(<<Below(y), Below(x)>> \in StrictSubsetOrdering(Nat))
  BY <1>2
<1>5. ASSUME NEW y \in T, y < x PROVE FALSE
  <2> HIDE DEF Below
  <2> QED
    BY <1>3, <1>4, <1>5
<1>6. x \in Nat /\ T \subseteq Nat
  OBVIOUS
<1> QED
  BY <1>5, <1>6

\* A set with 0 and the successor of each of its numbers holds all naturals.
LEMMA NatSetInduction ==
    ASSUME NEW S, 0 \in S, \A n \in Nat : n \in S => n + 1 \in S
    PROVE  Nat \subseteq S
<1> DEFINE T == Nat \ S
<1>1. SUFFICES ASSUME T # {} PROVE FALSE
  OBVIOUS
<1>2. PICK x \in T : \A y \in T : x <= y
  BY <1>1, LeastNat
<1>3. x - 1 \in Nat /\ x - 1 \notin T /\ x = (x - 1) + 1
  BY <1>2
<1> QED
  BY <1>2, <1>3

\* The same over an interval.
LEMMA IntervalInduction ==
    ASSUME NEW m \in Nat, NEW n \in Nat, NEW S, m \in S,
           \A i \in m .. n - 1 : i \in S => i + 1 \in S
    PROVE  m .. n \subseteq S
<1> DEFINE T == {i \in Nat : m + i <= n => m + i \in S}
<1>1. 0 \in T
  BY m + 0 = m
<1>2. ASSUME NEW i \in Nat, i \in T PROVE i + 1 \in T
  <2>1. SUFFICES ASSUME m + (i + 1) <= n PROVE m + (i + 1) \in S
    OBVIOUS
  <2>2. m + i \in m .. n - 1 /\ m + (i + 1) = (m + i) + 1
    BY <2>1
  <2>3. m + i \in S
    BY <1>2, <2>2
  <2> QED
    BY <2>2, <2>3
<1>3. Nat \subseteq T
  <2> HIDE DEF T
  <2> QED
    BY <1>1, <1>2, NatSetInduction
<1>4. ASSUME NEW i \in m .. n PROVE i \in S
  <2>1. i - m \in Nat /\ m + (i - m) = i /\ m + (i - m) <= n
    OBVIOUS
  <2>2. i - m \in T
    <3> HIDE DEF T
    <3> QED
      BY <1>3, <2>1
  <2> QED
    BY <2>1, <2>2
<1> QED
  BY <1>4

----------------------------------------------------------------------------
(* Recursively written functions                                           *)

\* f starts with a, and each value follows from the one before.
Iterates(f, a, G, n) == f[0] = a /\ \A p \in 1 .. n : f[p] = G[p][f[p - 1]]

\* Such values form a function.
LEMMA Iteration ==
    ASSUME NEW A, NEW a \in A, NEW G \in [Nat -> [A -> A]], NEW n \in Nat
    PROVE  \E f \in [0 .. n -> A] : Iterates(f, a, G, n)
<1> DEFINE Steps(f, m) == Iterates(f, a, G, m)
           Exists(m) == \E f \in [0 .. m -> A] : Steps(f, m)
           S == {m \in Nat : Exists(m)}
<1>1. 0 \in S
  <2> DEFINE g == [p \in 0 .. 0 |-> a]
  <2>1. g \in [0 .. 0 -> A] /\ Steps(g, 0)
    BY DEF Iterates
  <2> HIDE DEF g, Steps
  <2>2. Exists(0)
    BY <2>1
  <2> QED
    BY <2>2
<1>2. ASSUME NEW m \in Nat, m \in S PROVE m + 1 \in S
  <2>1. PICK f \in [0 .. m -> A] : Steps(f, m)
    BY <1>2
  <2> DEFINE g == [p \in 0 .. m + 1 |-> IF p \in 0 .. m THEN f[p] ELSE G[m + 1][f[m]]]
  <2>2. g \in [0 .. m + 1 -> A]
    BY <2>1
  <2>3. Steps(g, m + 1)
    BY <2>1 DEF Iterates
  <2> HIDE DEF g, Steps
  <2>4. Exists(m + 1)
    BY <2>2, <2>3
  <2> QED
    BY <2>4
<1>3. Nat \subseteq S
  <2> HIDE DEF S
  <2> QED
    BY <1>1, <1>2, NatSetInduction
<1>4. Exists(n)
  <2> HIDE DEF Exists
  <2> QED
    BY <1>3
<1> QED
  BY <1>4

----------------------------------------------------------------------------
(* Sequences                                                               *)

LEMMA FunctionIsSeq ==
    ASSUME NEW S, NEW n \in Nat, NEW f \in [1 .. n -> S]
    PROVE  f \in Seq(S) /\ Len(f) = n /\ DOMAIN f = 1 .. n
OBVIOUS

LEMMA FirstReplaced ==
    ASSUME NEW S, NEW s \in Seq(S), NEW e \in S
    PROVE  /\ [s EXCEPT ![1] = e] \in Seq(S) /\ Len([s EXCEPT ![1] = e]) = Len(s)
           /\ [[s EXCEPT ![1] = e] EXCEPT ![1] = e] = [s EXCEPT ![1] = e]
<1> DEFINE n == Len(s)
           q == [s EXCEPT ![1] = e]
<1>1. s \in [1 .. n -> S] /\ n \in Nat
  OBVIOUS
<1> HIDE DEF n
<1>2. q \in [1 .. n -> S]
  BY <1>1
<1>3. [q EXCEPT ![1] = e] = q
  BY <1>1
<1>4. q \in Seq(S) /\ Len(q) = n
  <2> HIDE DEF q
  <2> QED
    BY <1>1, <1>2, FunctionIsSeq
<1> QED
  BY <1>3, <1>4 DEF n

LEMMA SameItems ==
    ASSUME NEW S, NEW s \in Seq(S), NEW t \in Seq(S), Len(s) = Len(t),
           \A k \in 1 .. Len(t) : s[k] = t[k]
    PROVE  s = t
OBVIOUS

\* A sequence of which each item is known to be in a smaller set.
LEMMA SeqOfSome ==
    ASSUME NEW S, NEW T, NEW s \in Seq(S), \A k \in 1 .. Len(s) : s[k] \in T
    PROVE  s \in Seq(T)
<1>1. s \in [1 .. Len(s) -> T] /\ Len(s) \in Nat
  OBVIOUS
<1> QED
  BY <1>1, FunctionIsSeq

LEMMA SingleIsSeq == ASSUME NEW S, NEW x \in S PROVE <<x>> \in Seq(S)
OBVIOUS

LEMMA PairIsSeq == ASSUME NEW S, NEW x \in S, NEW y \in S PROVE <<x, y>> \in Seq(S)
OBVIOUS

LEMMA AddedLast ==
    ASSUME NEW S, NEW q \in Seq(S), NEW e \in S
    PROVE  /\ Len(q \o <<e>>) = Len(q) + 1 /\ (q \o <<e>>)[Len(q) + 1] = e
           /\ \A j \in 1 .. Len(q) : (q \o <<e>>)[j] = q[j]
<1>1. <<e>> \in Seq(S) /\ Len(<<e>>) = 1 /\ <<e>>[1] = e
  OBVIOUS
<1>2. Len(q) \in Nat
  OBVIOUS
<1>3. /\ Len(q \o <<e>>) = Len(q) + 1
      /\ \A j \in 1 .. Len(q) + 1 :
            (q \o <<e>>)[j] = IF j <= Len(q) THEN q[j] ELSE <<e>>[j - Len(q)]
  BY <1>1, <1>2
<1> QED
  BY <1>1, <1>2, <1>3

\* Part of a sequence, from behind item a to item b.
LEMMA Part ==
    ASSUME NEW S, NEW q \in Seq(S), NEW a \in Nat, NEW b \in Nat, b <= Len(q)
    PROVE  /\ SubSeq(q, a + 1, b) \in Seq(S)
           /\ Len(SubSeq(q, a + 1, b)) = IF a <= b THEN b - a ELSE 0
           /\ \A i \in 1 .. b - a : SubSeq(q, a + 1, b)[i] = q[a + i]
<1>1. a + 1 \in Int /\ b \in Int /\ b - (a + 1) + 1 = b - a
  OBVIOUS
<1>2. \A i \in a + 1 .. b : q[i] \in S
  <2> TAKE i \in a + 1 .. b
  <2>1. i \in 1 .. Len(q)
    OBVIOUS
  <2> QED
    BY <2>1
<1>3. /\ SubSeq(q, a + 1, b) \in Seq(S)
      /\ Len(SubSeq(q, a + 1, b)) = IF a + 1 <= b THEN b - (a + 1) + 1 ELSE 0
      /\ \A i \in 1 .. b - (a + 1) + 1 : SubSeq(q, a + 1, b)[i] = q[(a + 1) + i - 1]
  BY <1>1, <1>2, SubSeqProperties
<1>4. \A i \in 1 .. b - a : (a + 1) + i - 1 = a + i
  OBVIOUS
<1> QED
  BY <1>1, <1>3, <1>4

LEMMA ConcatKeepsFirst ==
    ASSUME NEW S, NEW s \in Seq(S), NEW t \in Seq(S)
    PROVE  /\ Len(s) \in Nat /\ Len(s \o t) \in Nat /\ Len(s) <= Len(s \o t)
           /\ \A j \in 1 .. Len(s) : (s \o t)[j] = s[j]
OBVIOUS

----------------------------------------------------------------------------
(* Flattening                                                              *)

\* f holds what FlattenSeq has put together after each sequence of seqs.
Flattens(f, seqs, S) ==
    /\ f \in [1 .. Len(seqs) -> Seq(S)]
    /\ f[1] = seqs[1]
    /\ \A i \in 2 .. Len(seqs) : f[i] = f[i - 1] \o seqs[i]
    /\ FlattenSeq(seqs) = f[Len(seqs)]

LEMMA FlattenNone == FlattenSeq(<<>>) = <<>>
BY DEF FlattenSeq

LEMMA FlattenSteps ==
    ASSUME NEW S, NEW seqs \in Seq(Seq(S)), seqs # <<>>
    PROVE  \E f : Flattens(f, seqs, S)
<1> DEFINE n == Len(seqs)
           G == [i \in Nat |-> [s \in Seq(S) |-> IF i \in 1 .. n - 1 THEN s \o seqs[i + 1] ELSE s]]
<1>1. n \in Nat /\ n - 1 \in Nat /\ \A i \in 1 .. n : seqs[i] \in Seq(S)
  OBVIOUS
<1>2. G \in [Nat -> [Seq(S) -> Seq(S)]] /\ seqs[1] \in Seq(S)
  BY <1>1
<1> HIDE DEF n
<1>3. PICK h \in [0 .. n - 1 -> Seq(S)] : Iterates(h, seqs[1], G, n - 1)
  <2> DEFINE A == Seq(S)
             m == n - 1
             a == seqs[1]
  <2>1. a \in A /\ G \in [Nat -> [A -> A]] /\ m \in Nat
    BY <1>1, <1>2
  <2> HIDE DEF A, m, a, G
  <2>2. \E h \in [0 .. m -> A] : Iterates(h, a, G, m)
    BY <2>1, Iteration
  <2> QED
    BY <2>2 DEF A, m, a
<1> DEFINE f == [i \in 1 .. n |-> h[i - 1]]
           Def(g) == g = [i \in 1 .. n |-> IF i = 1 THEN seqs[i] ELSE g[i - 1] \o seqs[i]]
<1>4. f \in [1 .. n -> Seq(S)] /\ f[1] = seqs[1]
  BY <1>1, <1>3 DEF Iterates
<1>5. ASSUME NEW i \in 2 .. n PROVE f[i] = f[i - 1] \o seqs[i]
  <2>1. i - 1 \in 1 .. n - 1 /\ (i - 1) - 1 \in 0 .. n - 1 /\ (i - 1) + 1 = i
    BY <1>1
  <2>2. h[i - 1] = G[i - 1][h[(i - 1) - 1]] /\ h[(i - 1) - 1] \in Seq(S)
    BY <1>3, <2>1 DEF Iterates
  <2>3. \A k \in 1 .. n - 1, s \in Seq(S) : G[k][s] = s \o seqs[k + 1]
    <3>1. \A k \in 1 .. n - 1 : k \in Nat
      BY <1>1
    <3> QED
      BY <3>1, Zenon
  <2>4. h[i - 1] = h[(i - 1) - 1] \o seqs[i]
    <3> HIDE DEF G
    <3> QED
      BY <2>1, <2>2, <2>3
  <2>5. f[i] = h[i - 1] /\ f[i - 1] = h[(i - 1) - 1]
    <3>1. i \in 1 .. n /\ i - 1 \in 1 .. n
      BY <1>1
    <3> QED
      BY <3>1
  <2> QED
    BY <2>4, <2>5
<1> HIDE DEF f, G
<1>6. \E g : Def(g)
  <2>1. \A i \in 1 .. n : i # 1 => i \in 2 .. n
    BY <1>1
  <2>2. \A i \in 1 .. n : f[i] = IF i = 1 THEN seqs[i] ELSE f[i - 1] \o seqs[i]
    BY <1>4, <1>5, <2>1
  <2>3. f = [i \in 1 .. n |-> f[i]]
    BY <1>4
  <2>4. Def(f)
    BY <2>2, <2>3
  <2> HIDE DEF Def
  <2> QED
    BY <2>4
<1> DEFINE g == CHOOSE x : Def(x)
<1>7. FlattenSeq(seqs) = g[n]
  BY <1>1 DEF FlattenSeq, n
<1>8. Def(g)
  <2> HIDE DEF Def
  <2> QED
    BY <1>6
<1> HIDE DEF g
<1>9. DOMAIN g = 1 .. n /\ \A i \in 1 .. n : g[i] = IF i = 1 THEN seqs[i] ELSE g[i - 1] \o seqs[i]
  BY <1>8
<1>10. \A i \in 1 .. n : g[i] \in Seq(S)
  <2> DEFINE T == {m \in Nat : m + 1 \in 1 .. n => g[m + 1] \in Seq(S)}
  <2>1. 0 \in T
    <3>1. 1 \in 1 .. n => g[1] = seqs[1]
      BY <1>9, Zenon
    <3> QED
      BY <1>1, <3>1
  <2>2. ASSUME NEW m \in Nat, m \in T PROVE m + 1 \in T
    <3>1. SUFFICES ASSUME (m + 1) + 1 \in 1 .. n PROVE g[(m + 1) + 1] \in Seq(S)
      OBVIOUS
    <3>2. ((m + 1) + 1) - 1 = m + 1 /\ m + 1 \in 1 .. n /\ (m + 1) + 1 # 1
      BY <1>1, <3>1
    <3>3. g[m + 1] \in Seq(S) /\ g[(m + 1) + 1] = g[m + 1] \o seqs[(m + 1) + 1]
      BY <1>9, <2>2, <3>1, <3>2
    <3> QED
      BY <1>1, <3>1, <3>3
  <2>3. Nat \subseteq T
    <3> HIDE DEF T
    <3> QED
      BY <2>1, <2>2, NatSetInduction
  <2> TAKE i \in 1 .. n
  <2>4. i - 1 \in Nat /\ (i - 1) + 1 = i
    BY <1>1
  <2> QED
    BY <2>3, <2>4
<1>11. g \in [1 .. n -> Seq(S)]
  <2>1. g = [i \in 1 .. n |-> IF i = 1 THEN seqs[i] ELSE g[i - 1] \o seqs[i]]
    BY <1>8
  <2> QED
    BY <1>9, <1>10, <2>1
<1>12. 1 \in 1 .. n
  BY <1>1
<1>13. \A i \in 2 .. n : i \in 1 .. n /\ i # 1
  BY <1>1
<1> QED
  BY <1>7, <1>9, <1>11, <1>12, <1>13 DEF Flattens, n

\* Flattening keeps to the items of the sequences.
LEMMA FlattenType ==
    ASSUME NEW S, NEW seqs \in Seq(Seq(S))
    PROVE  FlattenSeq(seqs) \in Seq(S)
<1>1. CASE seqs = <<>>
  BY <1>1, FlattenNone, EmptySeq
<1>2. CASE seqs # <<>>
  <2>1. PICK f : Flattens(f, seqs, S)
    BY <1>2, FlattenSteps
  <2>2. Len(seqs) \in 1 .. Len(seqs)
    BY <1>2
  <2> QED
    BY <2>1, <2>2 DEF Flattens
<1> QED
  BY <1>1, <1>2

\* Where only the first sequence has items, they are all there is.
LEMMA FlattenFirst ==
    ASSUME NEW S, NEW seqs \in Seq(Seq(S)), seqs # <<>>,
           \A k \in 2 .. Len(seqs) : seqs[k] = <<>>
    PROVE  FlattenSeq(seqs) = seqs[1]
<1>1. PICK f : Flattens(f, seqs, S)
  BY FlattenSteps
<1> DEFINE n == Len(seqs)
           T == {k \in Nat : f[k] = seqs[1]}
<1>2. n \in Nat /\ n >= 1 /\ seqs[1] \in Seq(S)
  OBVIOUS
<1>3. f[1] = seqs[1] /\ FlattenSeq(seqs) = f[n] /\ f \in [1 .. n -> Seq(S)]
  BY <1>1 DEF Flattens
<1>4. ASSUME NEW k \in 1 .. n - 1, k \in T PROVE k + 1 \in T
  <2>1. k + 1 \in 2 .. n /\ (k + 1) - 1 = k /\ k + 1 \in Nat
    BY <1>2
  <2>2. f[k + 1] = f[k] \o seqs[k + 1] /\ seqs[k + 1] = <<>>
    BY <1>1, <2>1 DEF Flattens
  <2> QED
    BY <1>2, <1>4, <2>1, <2>2
<1>5. 1 .. n \subseteq T
  <2>1. 1 \in T
    BY <1>3
  <2> HIDE DEF T, n
  <2> QED
    BY <1>2, <1>4, <2>1, IntervalInduction
<1> QED
  BY <1>2, <1>3, <1>5

\* The slices of a sequence put it together again.
LEMMA FlattenSlices ==
    ASSUME NEW S, NEW q \in Seq(S), NEW n \in Nat, n >= 1, NEW w \in [0 .. n -> Nat],
           w[0] = 0, \A k \in 1 .. n : w[k - 1] <= w[k] /\ w[k] <= Len(q),
           NEW seqs \in Seq(Seq(S)), Len(seqs) = n,
           \A k \in 1 .. n : seqs[k] = SubSeq(q, w[k - 1] + 1, w[k])
    PROVE  FlattenSeq(seqs) = SubSeq(q, 1, w[n])
<1>1. ASSUME NEW k \in 1 .. n
      PROVE  /\ seqs[k] = SubSeq(q, w[k - 1] + 1, w[k]) /\ seqs[k] \in Seq(S)
             /\ w[k - 1] \in Nat /\ w[k] \in Nat /\ w[k - 1] <= w[k] /\ w[k] <= Len(q)
  <2>1. w[k - 1] \in Nat /\ w[k] \in Nat /\ w[k - 1] <= w[k] /\ w[k] <= Len(q)
    <3>1. k - 1 \in 0 .. n /\ k \in 0 .. n
      OBVIOUS
    <3> QED
      BY <3>1
  <2>2. seqs[k] \in Seq(S)
    BY ElementOfSeq
  <2> QED
    BY <2>1, <2>2
<1>2. seqs \in Seq(Seq(S)) /\ Len(seqs) = n /\ seqs # <<>>
  <2>1. Len(<<>>) = 0 /\ n # 0
    OBVIOUS
  <2> QED
    BY <2>1, Zenon
<1>3. PICK f : Flattens(f, seqs, S)
  BY <1>2, FlattenSteps
<1> DEFINE T == {k \in Nat : f[k] = SubSeq(q, 1, w[k])}
<1>4. f[1] = seqs[1] /\ FlattenSeq(seqs) = f[n]
      /\ \A k \in 2 .. n : f[k] = f[k - 1] \o seqs[k]
  BY <1>2, <1>3 DEF Flattens
<1>5. 1 \in T
  <2>1. 1 \in 1 .. n /\ 1 - 1 = 0 /\ 0 + 1 = 1
    OBVIOUS
  <2>2. seqs[1] = SubSeq(q, w[1 - 1] + 1, w[1])
    BY <1>1, <2>1, Zenon
  <2> QED
    BY <1>4, <2>1, <2>2
<1>6. ASSUME NEW k \in 1 .. n - 1, k \in T PROVE k + 1 \in T
  <2>1. k + 1 \in 2 .. n /\ k + 1 \in 1 .. n /\ k \in 1 .. n /\ (k + 1) - 1 = k /\ k + 1 \in Nat
    OBVIOUS
  <2>2. f[k + 1] = SubSeq(q, 1, w[k]) \o SubSeq(q, w[k] + 1, w[k + 1])
    BY <1>1, <1>4, <1>6, <2>1
  <2>3. w[k] \in Nat /\ w[k + 1] \in Nat /\ w[k] <= w[k + 1] /\ w[k + 1] <= Len(q)
    BY <1>1, <2>1
  <2>4. SubSeq(q, 1, w[k]) \o SubSeq(q, w[k] + 1, w[k + 1]) = SubSeq(q, 1, w[k + 1])
    <3>1. /\ 1 \in 1 .. Len(q) + 1 /\ w[k] \in 1 - 1 .. Len(q)
          /\ w[k + 1] \in w[k] .. Len(q)
      BY <2>3
    <3> QED
      BY <3>1, ConcatAdjacentSubSeq
  <2> QED
    BY <2>1, <2>2, <2>4
<1>7. 1 .. n \subseteq T
  <2> HIDE DEF T
  <2> QED
    BY <1>5, <1>6, IntervalInduction
<1>8. n \in T
  <2> HIDE DEF T
  <2> QED
    BY <1>7
<1> QED
  BY <1>2, <1>4, <1>8

\* What is put together first stays where it is.
LEMMA FlattenPrefix ==
    ASSUME NEW S, NEW seqs \in Seq(Seq(S)), NEW more \in Seq(Seq(S)),
           Len(seqs) <= Len(more), \A k \in 1 .. Len(seqs) : more[k] = seqs[k]
    PROVE  /\ Len(FlattenSeq(seqs)) <= Len(FlattenSeq(more))
           /\ \A j \in 1 .. Len(FlattenSeq(seqs)) : FlattenSeq(more)[j] = FlattenSeq(seqs)[j]
<1> DEFINE m == Len(seqs)
           n == Len(more)
<1>1. m \in Nat /\ n \in Nat /\ m <= n
  OBVIOUS
<1>2. CASE seqs = <<>>
  BY <1>2, FlattenNone, FlattenType
<1>3. CASE seqs # <<>>
  <2>1. m >= 1 /\ more # <<>>
    BY <1>3
  <2>2. PICK f : Flattens(f, seqs, S)
    BY <1>3, FlattenSteps
  <2>3. PICK g : Flattens(g, more, S)
    BY <2>1, FlattenSteps
  <2> DEFINE T == {k \in Nat : g[k] = f[k]}
             U == {k \in Nat : /\ Len(g[m]) <= Len(g[k])
                               /\ \A j \in 1 .. Len(g[m]) : g[k][j] = g[m][j]}
  <2>4. /\ f \in [1 .. m -> Seq(S)] /\ g \in [1 .. n -> Seq(S)]
        /\ f[1] = seqs[1] /\ g[1] = more[1]
        /\ FlattenSeq(seqs) = f[m] /\ FlattenSeq(more) = g[n]
        /\ \A k \in 2 .. m : f[k] = f[k - 1] \o seqs[k]
        /\ \A k \in 2 .. n : g[k] = g[k - 1] \o more[k]
    BY <2>2, <2>3 DEF Flattens
  <2>5. 1 .. m \subseteq T
    <3>1. 1 \in T
      BY <2>1, <2>4
    <3>2. ASSUME NEW k \in 1 .. m - 1, k \in T PROVE k + 1 \in T
      <4>1. /\ k + 1 \in 2 .. m /\ k + 1 \in 2 .. n /\ k + 1 \in 1 .. m
            /\ (k + 1) - 1 = k /\ k + 1 \in Nat
        <5> HIDE DEF m, n
        <5> QED
          BY <1>1
      <4>2. f[k + 1] = f[k] \o seqs[k + 1] /\ g[k + 1] = g[k] \o more[k + 1]
            /\ more[k + 1] = seqs[k + 1]
        BY <2>4, <4>1
      <4> QED
        BY <3>2, <4>1, <4>2
    <3> HIDE DEF T, m
    <3> QED
      BY <1>1, <3>1, <3>2, IntervalInduction
  <2>6. m .. n \subseteq U
    <3>1. m \in U
      BY <1>1, <2>1, <2>4
    <3>2. ASSUME NEW k \in m .. n - 1, k \in U PROVE k + 1 \in U
      <4>1. k + 1 \in 2 .. n /\ k \in 1 .. n /\ m \in 1 .. n /\ (k + 1) - 1 = k /\ k + 1 \in Nat
        BY <1>1, <2>1
      <4>2. g[k + 1] = g[k] \o more[k + 1] /\ more[k + 1] \in Seq(S) /\ g[k] \in Seq(S)
            /\ g[m] \in Seq(S)
        <5> HIDE DEF m
        <5>1. k + 1 \in 1 .. n
          BY <4>1
        <5>2. more[k + 1] \in Seq(S)
          BY <5>1
        <5> HIDE DEF n
        <5> QED
          BY <2>4, <4>1, <5>2
      <4>3. Len(g[m]) <= Len(g[k]) /\ \A j \in 1 .. Len(g[m]) : g[k][j] = g[m][j]
        BY <3>2
      <4> HIDE DEF m, n
      <4>4. Len(g[k]) <= Len(g[k + 1]) /\ \A j \in 1 .. Len(g[k]) : g[k + 1][j] = g[k][j]
        <5> HIDE DEF U, T
        <5>1. Len(g[k]) <= Len(g[k] \o more[k + 1])
              /\ \A j \in 1 .. Len(g[k]) : (g[k] \o more[k + 1])[j] = g[k][j]
          BY <4>2, ConcatKeepsFirst
        <5> QED
          BY <4>2, <5>1
      <4>5. \A j \in 1 .. Len(g[m]) : j \in 1 .. Len(g[k])
        BY <4>2, <4>3
      <4>6. Len(g[m]) <= Len(g[k + 1])
        <5>1. Len(g[m]) \in Nat /\ Len(g[k]) \in Nat /\ Len(g[k + 1]) \in Nat
          BY <4>2, ConcatKeepsFirst, ZenonT(60)
        <5> QED
          BY <4>3, <4>4, <5>1
      <4> QED
        BY <4>1, <4>3, <4>4, <4>5, <4>6
    <3> HIDE DEF U, m, n
    <3> QED
      BY <1>1, <3>1, <3>2, IntervalInduction
  <2>7. g[m] = f[m] /\ m \in Nat /\ n \in U
    <3>1. m \in T
      <4> HIDE DEF T, m, n
      <4> QED
        BY <1>1, <2>1, <2>5
    <3>2. n \in U
      <4> HIDE DEF U, m, n
      <4> QED
        BY <1>1, <2>6
    <3> QED
      BY <3>1, <3>2
  <2> QED
    BY <2>4, <2>7
<1> QED
  BY <1>2, <1>3
====
