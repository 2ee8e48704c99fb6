--------------------------- MODULE OwnStepProofs ---------------------------
(***************************************************************************)
(* The inductive invariant of the tree of objects (Own), for any objects,  *)
(* threads, pipes and interleavings of their steps; and the steps of own_t,*)
(* of the pipes and of the handlers that make no object and no pipe.       *)
(***************************************************************************)
EXTENDS Own, FiniteSetTheorems, SequenceTheorems, TLAPS
-----------------------------------------------------------------------------
(* Counting positions of sequences *)

B(b) == IF b THEN 1 ELSE 0

\* The number of positions of s that hold an element of D.
Spots(s, D) == {i \in DOMAIN s : s[i] \in D}
SeqCount(s, D) == Cardinality(Spots(s, D))

\* The same over a function f to sequences.
Places(f, D) == {x \in UNION {{t} \X DOMAIN f[t] : t \in DOMAIN f} : f[x[1]][x[2]] \in D}
Count(f, D) == Cardinality(Places(f, D))

\* A set of positions is finite, and empty when no element is in D.
LEMMA SeqCountType ==
    ASSUME NEW S, NEW s \in Seq(S), NEW D
    PROVE  /\ IsFiniteSet(Spots(s, D)) /\ SeqCount(s, D) \in Nat
           /\ SeqCount(s, D) = 0 <=> \A i \in DOMAIN s : s[i] \notin D
<1>1. DOMAIN s = 1..Len(s) /\ Len(s) \in Nat
  BY LenProperties
<1>2. IsFiniteSet(1..Len(s))
  BY <1>1, FS_Interval
<1>3. Spots(s, D) \in SUBSET (1..Len(s))
  BY <1>1 DEF Spots
<1>4. IsFiniteSet(Spots(s, D))
  BY <1>2, <1>3, FS_Subset
<1>5. SeqCount(s, D) \in Nat
  BY <1>4, FS_CardinalityType DEF SeqCount
<1>6. SeqCount(s, D) = 0 <=> Spots(s, D) = {}
  BY <1>4, FS_EmptySet DEF SeqCount
<1> QED
  BY <1>4, <1>5, <1>6 DEF Spots

\* Nothing is counted in an empty sequence.
LEMMA CountEmptySeq ==
    ASSUME NEW D
    PROVE  SeqCount(<<>>, D) = 0
<1>1. Spots(<<>>, D) = {}
  BY DEF Spots
<1> QED
  BY <1>1, FS_EmptySet DEF SeqCount

\* A sequence of one element.
LEMMA CountSingle ==
    ASSUME NEW a, NEW D
    PROVE  SeqCount(<<a>>, D) = B(a \in D)
<1>1. Spots(<<a>>, D) = IF a \in D THEN {1} ELSE {}
  BY DEF Spots
<1> QED
  BY <1>1, FS_EmptySet, FS_Singleton DEF SeqCount, B

\* A bijection keeps the number of elements.
LEMMA ShiftCount ==
    ASSUME NEW I \in SUBSET Nat, IsFiniteSet(I), NEW k \in Nat
    PROVE  /\ IsFiniteSet({i + k : i \in I})
           /\ Cardinality({i + k : i \in I}) = Cardinality(I)
<1> DEFINE J == {i + k : i \in I}
           f == [i \in I |-> i + k]
<1>1. f \in Injection(I, J)
  BY DEF Injection, IsInjective
<1>2. f \in Surjection(I, J)
  BY DEF Surjection
<1>3. ExistsBijection(I, J)
  BY <1>1, <1>2 DEF ExistsBijection, Bijection
<1> QED
  BY <1>3, FS_Bijection

\* Two sequences put together count what both count.
LEMMA CountConcat ==
    ASSUME NEW S, NEW s \in Seq(S), NEW u \in Seq(S), NEW D
    PROVE  SeqCount(s \o u, D) = SeqCount(s, D) + SeqCount(u, D)
<1> DEFINE I == Spots(s, D)
           J == Spots(u, D)
           K == {i + Len(s) : i \in J}
<1>1. /\ Len(s) \in Nat /\ Len(u) \in Nat
      /\ DOMAIN s = 1..Len(s) /\ DOMAIN u = 1..Len(u)
      /\ s \o u \in Seq(S) /\ Len(s \o u) = Len(s) + Len(u)
      /\ DOMAIN (s \o u) = 1..(Len(s) + Len(u))
  BY ConcatProperties, LenProperties
<1>2. \A i \in 1..(Len(s) + Len(u)) : (s \o u)[i] = IF i <= Len(s) THEN s[i] ELSE u[i - Len(s)]
  BY ConcatProperties
<1>3. Spots(s \o u, D) = I \cup K
  <2>1. ASSUME NEW i \in Spots(s \o u, D) PROVE i \in I \cup K
    <3>1. i \in 1..(Len(s) + Len(u)) /\ (s \o u)[i] \in D
      BY <1>1 DEF Spots
    <3>2. CASE i <= Len(s)
      BY <3>1, <3>2, <1>1, <1>2 DEF Spots
    <3>3. CASE ~(i <= Len(s))
      <4>1. i - Len(s) \in 1..Len(u) /\ u[i - Len(s)] \in D
        BY <3>1, <3>3, <1>1, <1>2
      <4>2. i - Len(s) \in J
        BY <4>1, <1>1 DEF Spots
      <4>3. i = (i - Len(s)) + Len(s)
        BY <3>1, <1>1
      <4> QED
        BY <4>2, <4>3
    <3> QED
      BY <3>2, <3>3
  <2>2. ASSUME NEW i \in I PROVE i \in Spots(s \o u, D)
    <3>1. i \in 1..Len(s) /\ s[i] \in D
      BY <1>1 DEF Spots
    <3>2. i \in 1..(Len(s) + Len(u)) /\ (s \o u)[i] = s[i]
      BY <3>1, <1>1, <1>2
    <3> QED
      BY <3>1, <3>2, <1>1 DEF Spots
  <2>3. ASSUME NEW j \in J PROVE j + Len(s) \in Spots(s \o u, D)
    <3>1. j \in 1..Len(u) /\ u[j] \in D
      BY <1>1 DEF Spots
    <3>2. j + Len(s) \in 1..(Len(s) + Len(u)) /\ ~(j + Len(s) <= Len(s)) /\ (j + Len(s)) - Len(s) = j
      BY <3>1, <1>1
    <3>3. (s \o u)[j + Len(s)] = u[j]
      BY <3>2, <1>2
    <3> QED
      BY <3>1, <3>2, <3>3, <1>1 DEF Spots
  <2> QED
    BY <2>1, <2>2, <2>3
<1>4. IsFiniteSet(I) /\ IsFiniteSet(J) /\ Cardinality(I) \in Nat /\ Cardinality(J) \in Nat
  BY SeqCountType DEF SeqCount
<1>5. J \in SUBSET Nat
  BY <1>1 DEF Spots
<1>6. IsFiniteSet(K) /\ Cardinality(K) = Cardinality(J)
  BY <1>1, <1>4, <1>5, ShiftCount
<1>7. I \cap K = {}
  BY <1>1 DEF Spots
<1>8. Cardinality(I \cup K) = Cardinality(I) + Cardinality(K) - Cardinality(I \cap K)
  BY <1>4, <1>6, FS_Union
<1>9. Cardinality(I \cap K) = 0
  BY <1>7, FS_EmptySet
<1> QED
  BY <1>3, <1>4, <1>6, <1>8, <1>9 DEF SeqCount

\* One more element at the end.
LEMMA CountAppend ==
    ASSUME NEW S, NEW s \in Seq(S), NEW a \in S, NEW D
    PROVE  SeqCount(Append(s, a), D) = SeqCount(s, D) + B(a \in D)
<1>1. Append(s, a) = s \o <<a>> /\ <<a>> \in Seq(S)
  OBVIOUS
<1>2. SeqCount(s \o <<a>>, D) = SeqCount(s, D) + SeqCount(<<a>>, D)
  BY <1>1, CountConcat
<1>3. SeqCount(<<a>>, D) = B(a \in D)
  BY CountSingle
<1> QED
  BY <1>1, <1>2, <1>3

\* The first element, and the rest.
LEMMA CountTail ==
    ASSUME NEW S, NEW s \in Seq(S), s # <<>>, NEW D
    PROVE  SeqCount(s, D) = B(Head(s) \in D) + SeqCount(Tail(s), D)
<1>1. s = <<Head(s)>> \o Tail(s) /\ <<Head(s)>> \in Seq(S) /\ Tail(s) \in Seq(S)
  OBVIOUS
<1>2. SeqCount(<<Head(s)>> \o Tail(s), D) = SeqCount(<<Head(s)>>, D) + SeqCount(Tail(s), D)
  BY <1>1, CountConcat
<1> QED
  BY <1>1, <1>2, CountSingle

\* Sequences of two,
LEMMA CountTwo ==
    ASSUME NEW a, NEW b, NEW D
    PROVE  SeqCount(<<a, b>>, D) = B(a \in D) + B(b \in D)
<1>1. <<a>> \in Seq({a, b}) /\ <<a, b>> = Append(<<a>>, b)
  OBVIOUS
<1>2. SeqCount(Append(<<a>>, b), D) = SeqCount(<<a>>, D) + B(b \in D)
  <2>1. b \in {a, b}
    OBVIOUS
  <2> QED
    BY <1>1, <2>1, CountAppend
<1> QED
  BY <1>1, <1>2, CountSingle

\* three
LEMMA CountThree ==
    ASSUME NEW a, NEW b, NEW c, NEW D
    PROVE  SeqCount(<<a, b, c>>, D) = B(a \in D) + B(b \in D) + B(c \in D)
<1>1. <<a, b>> \in Seq({a, b, c}) /\ <<a, b, c>> = Append(<<a, b>>, c)
  OBVIOUS
<1>2. SeqCount(Append(<<a, b>>, c), D) = SeqCount(<<a, b>>, D) + B(c \in D)
  <2>1. c \in {a, b, c}
    OBVIOUS
  <2> QED
    BY <1>1, <2>1, CountAppend
<1> QED
  BY <1>1, <1>2, CountTwo

\* and four elements.
LEMMA CountFour ==
    ASSUME NEW a, NEW b, NEW c, NEW d, NEW D
    PROVE  SeqCount(<<a, b, c, d>>, D) = B(a \in D) + B(b \in D) + B(c \in D) + B(d \in D)
<1>1. <<a, b, c>> \in Seq({a, b, c, d}) /\ <<a, b, c, d>> = Append(<<a, b, c>>, d)
  OBVIOUS
<1>2. SeqCount(Append(<<a, b, c>>, d), D) = SeqCount(<<a, b, c>>, D) + B(d \in D)
  <2>1. d \in {a, b, c, d}
    OBVIOUS
  <2> QED
    BY <1>1, <2>1, CountAppend
<1>3. SeqCount(<<a, b, c>>, D) = B(a \in D) + B(b \in D) + B(c \in D)
  BY CountThree
<1> QED
  BY <1>1, <1>2, <1>3

\* A set as a sequence: a sequence of its elements, each of them once.
LEMMA SetToSeqCount ==
    ASSUME NEW S, IsFiniteSet(S), NEW D
    PROVE  /\ SetToSeq(S) \in Seq(S)
           /\ \A i \in DOMAIN SetToSeq(S) : SetToSeq(S)[i] \in S
           /\ SeqCount(SetToSeq(S), D) = Cardinality(S \cap D)
<1> DEFINE n == Cardinality(S)
           q == SetToSeq(S)
<1>1. n \in Nat /\ ExistsBijection(1..n, S)
  BY FS_CardinalityType
<1>2. \E f \in [1..n -> S] : IsInjective(f)
  BY <1>1 DEF ExistsBijection, Bijection, Injection
<1>3. q \in [1..n -> S] /\ IsInjective(q)
  BY <1>2 DEF SetToSeq
<1>4. q \in Seq(S) /\ DOMAIN q = 1..n
  BY <1>1, <1>3
<1>5. q \in Injection(1..n, S)
  BY <1>3 DEF Injection
<1>6. IsFiniteSet(1..n) /\ Cardinality(1..n) = n
  BY <1>1, FS_Interval
<1>7. q \in Surjection(1..n, S)
  BY <1>5, <1>6, FS_Injection
<1> HIDE DEF q
<1> DEFINE I == Spots(q, D)
           J == S \cap D
           g == [i \in I |-> q[i]]
<1>8. g \in Injection(I, J)
  BY <1>3, <1>4 DEF Injection, IsInjective, Spots
<1>9. \A y \in S : \E x \in 1..n : q[x] = y
  BY <1>7 DEF Surjection
<1>10. g \in Surjection(I, J)
  <2>1. g \in [I -> J]
    BY <1>8 DEF Injection
  <2>2. ASSUME NEW y \in J PROVE \E x \in I : g[x] = y
    BY <1>9, <1>4 DEF Spots
  <2> QED
    BY <2>1, <2>2 DEF Surjection
<1>11. ExistsBijection(I, J)
  BY <1>8, <1>10 DEF ExistsBijection, Bijection
<1>12. IsFiniteSet(I)
  BY <1>4, SeqCountType
<1>13. Cardinality(J) = Cardinality(I)
  BY <1>11, <1>12, FS_Bijection
<1> QED
  BY <1>3, <1>4, <1>13 DEF SeqCount, q

\* The places of a thread t, and those of the others.
Rest(f, t, D) == {x \in Places(f, D) : x[1] # t}

\* f gives a sequence to every member of a finite set.
Family(T, S, f) == IsFiniteSet(T) /\ f \in [T -> Seq(S)]

\* A family of sequences has finitely many places.
LEMMA PlacesFinite ==
    ASSUME NEW T, NEW S, NEW f, Family(T, S, f), NEW D
    PROVE  /\ IsFiniteSet(Places(f, D)) /\ Count(f, D) \in Nat
           /\ \A x : x \in Places(f, D) <=>
                 x = <<x[1], x[2]>> /\ x[1] \in T /\ x[2] \in DOMAIN f[x[1]] /\ f[x[1]][x[2]] \in D
<1> IsFiniteSet(T) /\ f \in [T -> Seq(S)]
  BY DEF Family
<1> DEFINE P(t) == {t} \X DOMAIN f[t]
           W == {P(t) : t \in T}
           g == [t \in T |-> P(t)]
<1>1. DOMAIN f = T
  OBVIOUS
<1>2. ASSUME NEW t \in T PROVE IsFiniteSet(P(t))
  <2>1. f[t] \in Seq(S)
    OBVIOUS
  <2>2. DOMAIN f[t] = 1..Len(f[t]) /\ Len(f[t]) \in Nat
    BY <2>1, LenProperties
  <2>3. IsFiniteSet(DOMAIN f[t])
    BY <2>2, FS_Interval
  <2> QED
    BY <2>3, FS_Singleton, FS_Product
<1>3. g \in Surjection(T, W)
  BY DEF Surjection
<1>4. IsFiniteSet(W)
  BY <1>3, FS_Surjection
<1>5. \A Q \in W : IsFiniteSet(Q)
  BY <1>2
<1>6. IsFiniteSet(UNION W)
  BY <1>4, <1>5, FS_UNION
<1>7. Places(f, D) = {x \in UNION W : f[x[1]][x[2]] \in D}
  BY <1>1 DEF Places
<1>8. IsFiniteSet(Places(f, D))
  BY <1>6, <1>7, FS_Subset
<1>9. Count(f, D) \in Nat
  BY <1>8, FS_CardinalityType DEF Count
<1>10. \A x : x \in Places(f, D) <=> x = <<x[1], x[2]>> /\ x[1] \in T /\ x[2] \in DOMAIN f[x[1]] /\ f[x[1]][x[2]] \in D
  BY <1>7
<1> QED
  BY <1>8, <1>9, <1>10

\* What is counted over a family is what t has and what the others have.
LEMMA CountSplit ==
    ASSUME NEW T, NEW S, NEW f, Family(T, S, f), NEW D, NEW t \in T
    PROVE  /\ Cardinality(Rest(f, t, D)) \in Nat
           /\ Count(f, D) = Cardinality(Rest(f, t, D)) + SeqCount(f[t], D)
<1> IsFiniteSet(T) /\ f \in [T -> Seq(S)]
  BY DEF Family
<1> DEFINE P == Places(f, D)
           R == Rest(f, t, D)
           I == Spots(f[t], D)
           Q == {t} \X I
           h == [i \in I |-> <<t, i>>]
<1>1. /\ IsFiniteSet(P)
      /\ \A x : x \in P <=> x = <<x[1], x[2]>> /\ x[1] \in T /\ x[2] \in DOMAIN f[x[1]] /\ f[x[1]][x[2]] \in D
  BY PlacesFinite
<1>2. IsFiniteSet(I)
  BY SeqCountType
<1>3. h \in Injection(I, Q) /\ h \in Surjection(I, Q)
  BY DEF Injection, IsInjective, Surjection
<1>4. ExistsBijection(I, Q)
  BY <1>3 DEF ExistsBijection, Bijection
<1>5. IsFiniteSet(Q) /\ Cardinality(Q) = Cardinality(I)
  BY <1>2, <1>4, FS_Bijection
<1>6. R \in SUBSET P
  BY DEF Rest
<1>7. IsFiniteSet(R)
  BY <1>1, <1>6, FS_Subset
<1>8. P = R \cup Q
  <2>1. ASSUME NEW x \in P PROVE x \in R \cup Q
    <3>1. x = <<x[1], x[2]>> /\ x[1] \in T /\ x[2] \in DOMAIN f[x[1]] /\ f[x[1]][x[2]] \in D
      BY <1>1
    <3>2. CASE x[1] = t
      <4>1. x[2] \in I
        BY <3>1, <3>2 DEF Spots
      <4> QED
        BY <3>1, <3>2, <4>1
    <3>3. CASE x[1] # t
      BY <3>1, <3>3 DEF Rest
    <3> QED
      BY <3>2, <3>3
  <2>2. ASSUME NEW x \in Q PROVE x \in P
    <3>1. PICK i \in I : x = <<t, i>>
      OBVIOUS
    <3>2. i \in DOMAIN f[t] /\ f[t][i] \in D
      BY DEF Spots
    <3> QED
      BY <3>1, <3>2, <1>1
  <2> QED
    BY <2>1, <2>2, <1>6
<1>9. R \cap Q = {}
  BY DEF Rest
<1>10. Cardinality(R \cup Q) = Cardinality(R) + Cardinality(Q) - Cardinality(R \cap Q)
  BY <1>5, <1>7, FS_Union
<1>11. Cardinality(R \cap Q) = 0
  BY <1>9, FS_EmptySet
<1>12. Cardinality(R) \in Nat /\ Cardinality(I) \in Nat
  BY <1>2, <1>7, FS_CardinalityType
<1> QED
  BY <1>5, <1>8, <1>10, <1>11, <1>12 DEF Count, SeqCount

\* g is f with another sequence at t.
Moves(T, S, f, g, t) ==
    /\ IsFiniteSet(T) /\ t \in T /\ f \in [T -> Seq(S)] /\ g \in [T -> Seq(S)]
    /\ \A u \in T : u # t => g[u] = f[u]

\* The count when one sequence of the family is replaced.
LEMMA CountUpdate ==
    ASSUME NEW T, NEW S, NEW f, NEW g, NEW t, NEW D, Moves(T, S, f, g, t)
    PROVE  /\ Count(f, D) \in Nat /\ SeqCount(f[t], D) \in Nat /\ SeqCount(g[t], D) \in Nat
           /\ Count(g, D) = (Count(f, D) - SeqCount(f[t], D)) + SeqCount(g[t], D)
<1> IsFiniteSet(T)
  BY DEF Moves
<1> Family(T, S, f)
  BY DEF Moves, Family
<1> t \in T
  BY DEF Moves
<1> f \in [T -> Seq(S)]
  BY DEF Moves
<1>1. g \in [T -> Seq(S)] /\ Family(T, S, g)
  BY DEF Moves, Family
<1>2. \A u \in T : u # t => g[u] = f[u]
  BY DEF Moves
<1>3. \A x : x \in Places(f, D) <=> x = <<x[1], x[2]>> /\ x[1] \in T /\ x[2] \in DOMAIN f[x[1]] /\ f[x[1]][x[2]] \in D
  BY PlacesFinite
<1>4. \A x : x \in Places(g, D) <=> x = <<x[1], x[2]>> /\ x[1] \in T /\ x[2] \in DOMAIN g[x[1]] /\ g[x[1]][x[2]] \in D
  BY <1>1, PlacesFinite
<1>5. ASSUME NEW x PROVE x \in Rest(f, t, D) <=> x \in Rest(g, t, D)
  <2>1. ASSUME x \in Rest(f, t, D) PROVE x \in Rest(g, t, D)
    <3>1. x \in Places(f, D) /\ x[1] # t
      BY <2>1 DEF Rest
    <3>2. x = <<x[1], x[2]>> /\ x[1] \in T /\ x[2] \in DOMAIN f[x[1]] /\ f[x[1]][x[2]] \in D
      BY <3>1, <1>3
    <3>3. g[x[1]] = f[x[1]]
      BY <3>1, <3>2, <1>2
    <3>4. x \in Places(g, D)
      BY <3>2, <3>3, <1>4
    <3> QED
      BY <3>1, <3>4 DEF Rest
  <2>2. ASSUME x \in Rest(g, t, D) PROVE x \in Rest(f, t, D)
    <3>1. x \in Places(g, D) /\ x[1] # t
      BY <2>2 DEF Rest
    <3>2. x = <<x[1], x[2]>> /\ x[1] \in T /\ x[2] \in DOMAIN g[x[1]] /\ g[x[1]][x[2]] \in D
      BY <3>1, <1>4
    <3>3. g[x[1]] = f[x[1]]
      BY <3>1, <3>2, <1>2
    <3>4. x \in Places(f, D)
      BY <3>2, <3>3, <1>3
    <3> QED
      BY <3>1, <3>4 DEF Rest
  <2> QED
    BY <2>1, <2>2
<1>6. Rest(f, t, D) = Rest(g, t, D)
  BY <1>5
<1>7. Cardinality(Rest(f, t, D)) \in Nat /\ Count(f, D) = Cardinality(Rest(f, t, D)) + SeqCount(f[t], D)
  BY CountSplit
<1>8. Count(g, D) = Cardinality(Rest(g, t, D)) + SeqCount(g[t], D)
  BY <1>1, CountSplit
<1>9. Count(f, D) \in Nat
  BY PlacesFinite
<1>10. SeqCount(f[t], D) \in Nat
  <2>1. f[t] \in Seq(S)
    OBVIOUS
  <2> QED
    BY <2>1, SeqCountType
<1>11. SeqCount(g[t], D) \in Nat
  <2>1. g[t] \in Seq(S)
    BY <1>1
  <2> QED
    BY <2>1, SeqCountType
<1> QED
  BY <1>6, <1>7, <1>8, <1>9, <1>10, <1>11

\* Nothing is counted when no element is in D, and something otherwise.
LEMMA CountZero ==
    ASSUME NEW T, NEW S, NEW f, Family(T, S, f), NEW D
    PROVE  /\ Count(f, D) \in Nat
           /\ Count(f, D) = 0 <=> \A t \in T : \A i \in DOMAIN f[t] : f[t][i] \notin D
<1> IsFiniteSet(T) /\ f \in [T -> Seq(S)]
  BY DEF Family
<1>1. /\ IsFiniteSet(Places(f, D)) /\ Count(f, D) \in Nat
      /\ \A x : x \in Places(f, D) <=> x = <<x[1], x[2]>> /\ x[1] \in T /\ x[2] \in DOMAIN f[x[1]] /\ f[x[1]][x[2]] \in D
  BY PlacesFinite
<1>2. Count(f, D) = 0 <=> Places(f, D) = {}
  BY <1>1, FS_EmptySet DEF Count
<1>3. Places(f, D) = {} <=> \A t \in T : \A i \in DOMAIN f[t] : f[t][i] \notin D
  <2>1. ASSUME Places(f, D) = {}, NEW t \in T, NEW i \in DOMAIN f[t] PROVE f[t][i] \notin D
    <3>1. <<t, i>> \notin Places(f, D)
      BY <2>1
    <3> QED
      BY <1>1, <3>1
  <2>2. ASSUME \A t \in T : \A i \in DOMAIN f[t] : f[t][i] \notin D PROVE Places(f, D) = {}
    <3> SUFFICES ASSUME NEW x \in Places(f, D) PROVE FALSE
      OBVIOUS
    <3>1. x = <<x[1], x[2]>> /\ x[1] \in T /\ x[2] \in DOMAIN f[x[1]] /\ f[x[1]][x[2]] \in D
      BY <1>1
    <3> QED
      BY <3>1, <2>2
  <2> QED
    BY <2>1, <2>2
<1> QED
  BY <1>1, <1>2, <1>3

\* A larger set counts at least as much.
LEMMA CountMono ==
    ASSUME NEW T, NEW S, NEW f, Family(T, S, f), NEW D, NEW E,
           D \subseteq E
    PROVE  Count(f, D) <= Count(f, E)
<1> IsFiniteSet(T) /\ f \in [T -> Seq(S)]
  BY DEF Family
<1>1. IsFiniteSet(Places(f, E))
  BY PlacesFinite
<1>2. Places(f, D) \in SUBSET Places(f, E)
  BY DEF Places
<1> QED
  BY <1>1, <1>2, FS_Subset DEF Count
-----------------------------------------------------------------------------
(* Commands in flight: in a mailbox, or about to be sent *)

Arg == Object \cup Pipe \cup {None, 0, Linger}
Cmd == [to: Object, type: CommandType, arg: Arg]
SendStep == [op: {"send"}, to: Object, type: CommandType, arg: Arg, inc: {0, 1}]
OwnStep == [op: {"inc", "check", "delete"}, to: Object]
Work == SendStep \cup OwnStep

Com(o, type, a) == [to |-> o, type |-> type, arg |-> a]
Sends(D) == {st \in SendStep : Com(st.to, st.type, st.arg) \in D}

Flight(D) == Count(mailbox, D) + Count(todo, Sends(D))

\* The announcements for o among the steps.
Ann(o) == {st \in Work : st.to = o /\ (st.op = "inc" \/ (st.op = "send" /\ st.inc = 1))}
NAnn(o) == Count(todo, Ann(o))

QType == mailbox \in [Thread -> Seq(Cmd)] /\ todo \in [Thread -> Seq(Work)]

\* There are finitely many threads, and every object runs in one.
LEMMA ThreadFacts ==
    /\ IsFiniteSet(Thread)
    /\ \A o \in Object : Tid[o] \in Thread
<1> DEFINE g == [o \in Object |-> Tid[o]]
<1>1. g \in Surjection(Object, Thread)
  BY DEF Surjection, Thread
<1>2. IsFiniteSet(Thread)
  BY <1>1, FS_Surjection, OwnAssumption
<1> QED
  BY <1>2 DEF Thread

\* The mailboxes and the steps of the threads are such families.
LEMMA Families ==
    ASSUME QType
    PROVE  Family(Thread, Cmd, mailbox) /\ Family(Thread, Work, todo)
BY ThreadFacts DEF QType, Family

\* What the step constructors make.
LEMMA StepFacts ==
    ASSUME NEW o \in Object, NEW type \in CommandType, NEW a \in Arg
    PROVE  /\ send_command(o, type, a) \in Work /\ send_announced(o, type, a) \in Work
           /\ send_command(o, type, a) = [op |-> "send", to |-> o, type |-> type, arg |-> a, inc |-> 0]
           /\ send_announced(o, type, a) = [op |-> "send", to |-> o, type |-> type, arg |-> a, inc |-> 1]
           /\ \A D : send_command(o, type, a) \in Sends(D) <=> Com(o, type, a) \in D
           /\ \A D : send_announced(o, type, a) \in Sends(D) <=> Com(o, type, a) \in D
           /\ \A x : send_command(o, type, a) \notin Ann(x)
           /\ \A x : send_announced(o, type, a) \in Ann(x) <=> x = o
           /\ Com(o, type, a) \in Cmd
<1>1. send_command(o, type, a) = [op |-> "send", to |-> o, type |-> type, arg |-> a, inc |-> 0]
  BY DEF send_command
<1>2. send_announced(o, type, a) = [op |-> "send", to |-> o, type |-> type, arg |-> a, inc |-> 1]
  BY DEF send_command, send_announced
<1>3. send_command(o, type, a) \in SendStep /\ send_announced(o, type, a) \in SendStep
  BY <1>1, <1>2 DEF SendStep
<1>4. Com(o, type, a) \in Cmd
  BY DEF Com, Cmd
<1>5. \A D : /\ send_command(o, type, a) \in Sends(D) <=> Com(o, type, a) \in D
             /\ send_announced(o, type, a) \in Sends(D) <=> Com(o, type, a) \in D
  BY <1>1, <1>2, <1>3 DEF Sends
<1>6. \A x : send_command(o, type, a) \notin Ann(x) /\ (send_announced(o, type, a) \in Ann(x) <=> x = o)
  BY <1>1, <1>2, <1>3 DEF Ann, Work
<1> QED
  BY <1>1, <1>2, <1>3, <1>4, <1>5, <1>6 DEF Work

\* An increment, a check and a deletion send nothing, and only the first announces.
LEMMA OwnStepFacts ==
    ASSUME NEW o \in Object
    PROVE  /\ inc_seqnum(o) \in Work /\ check_acks(o) \in Work /\ delete(o) \in Work
           /\ inc_seqnum(o) = [op |-> "inc", to |-> o]
           /\ check_acks(o) = [op |-> "check", to |-> o]
           /\ delete(o) = [op |-> "delete", to |-> o]
           /\ \A D : inc_seqnum(o) \notin Sends(D) /\ check_acks(o) \notin Sends(D) /\ delete(o) \notin Sends(D)
           /\ \A x : inc_seqnum(o) \in Ann(x) <=> x = o
           /\ \A x : check_acks(o) \notin Ann(x) /\ delete(o) \notin Ann(x)
<1>1. inc_seqnum(o) \in OwnStep /\ check_acks(o) \in OwnStep /\ delete(o) \in OwnStep
  BY DEF inc_seqnum, check_acks, delete, OwnStep
<1>2. \A D : \A st \in Sends(D) : st.op = "send"
  BY DEF Sends, SendStep
<1>3. inc_seqnum(o).op = "inc" /\ check_acks(o).op = "check" /\ delete(o).op = "delete"
  BY DEF inc_seqnum, check_acks, delete
<1>4. \A D : inc_seqnum(o) \notin Sends(D) /\ check_acks(o) \notin Sends(D) /\ delete(o) \notin Sends(D)
  BY <1>2, <1>3
<1>5. \A x : inc_seqnum(o) \in Ann(x) <=> x = o
  BY <1>1 DEF Ann, Work, inc_seqnum
<1>6. \A x : check_acks(o) \notin Ann(x) /\ delete(o) \notin Ann(x)
  BY <1>3 DEF Ann
<1> QED
  BY <1>1, <1>4, <1>5, <1>6 DEF inc_seqnum, check_acks, delete, Work

\* The numbers of commands in flight,
LEMMA FlightType ==
    ASSUME QType, NEW D
    PROVE  Flight(D) \in Nat /\ Count(mailbox, D) \in Nat /\ Count(todo, Sends(D)) \in Nat
<1>1. Count(mailbox, D) \in Nat
  BY Families, PlacesFinite
<1>2. Count(todo, Sends(D)) \in Nat
  BY Families, PlacesFinite
<1> QED
  BY <1>1, <1>2 DEF Flight

\* and of announcements, are natural.
LEMMA AnnType ==
    ASSUME QType, NEW o
    PROVE  NAnn(o) \in Nat
BY Families, PlacesFinite DEF NAnn

\* Nothing is in flight when no mailbox and no thread has any.
LEMMA FlightZero ==
    ASSUME QType, NEW D
    PROVE  Flight(D) = 0 <=>
             /\ \A t \in Thread : \A i \in DOMAIN mailbox[t] : mailbox[t][i] \notin D
             /\ \A t \in Thread : \A i \in DOMAIN todo[t] : todo[t][i] \notin Sends(D)
<1>1. /\ Count(mailbox, D) \in Nat
      /\ Count(mailbox, D) = 0 <=> \A t \in Thread : \A i \in DOMAIN mailbox[t] : mailbox[t][i] \notin D
  BY Families, CountZero
<1>2. /\ Count(todo, Sends(D)) \in Nat
      /\ Count(todo, Sends(D)) = 0 <=> \A t \in Thread : \A i \in DOMAIN todo[t] : todo[t][i] \notin Sends(D)
  BY Families, CountZero
<1>3. Flight(D) = 0 <=> Count(mailbox, D) = 0 /\ Count(todo, Sends(D)) = 0
  BY <1>1, <1>2 DEF Flight
<1> QED
  BY <1>1, <1>2, <1>3

\* More kinds of commands, more of them in flight.
LEMMA FlightMono ==
    ASSUME QType, NEW D, NEW E, D \subseteq E
    PROVE  Flight(D) <= Flight(E)
<1>1. Count(mailbox, D) <= Count(mailbox, E)
  BY Families, CountMono
<1>2. Sends(D) \subseteq Sends(E)
  BY DEF Sends
<1>3. Count(todo, Sends(D)) <= Count(todo, Sends(E))
  BY <1>2, Families, CountMono
<1> QED
  BY <1>1, <1>3, FlightType DEF Flight

-----------------------------------------------------------------------------
\* The thread of o takes the head of its mailbox, or nothing, and has 'steps' to do.
Takes(o) == mailbox[Tid[o]] # <<>> /\ mailbox' = [mailbox EXCEPT ![Tid[o]] = Tail(@)]
Plans(o, steps) == Idle(Tid[o]) /\ todo' = [todo EXCEPT ![Tid[o]] = steps]
Msg(o) == Head(mailbox[Tid[o]])

\* The steps counted when an idle thread plans some,
LEMMA PlansCount ==
    ASSUME QType, NEW o \in Object, NEW steps \in Seq(Work), Plans(o, steps), NEW D
    PROVE  /\ todo' \in [Thread -> Seq(Work)]
           /\ Count(todo', D) = Count(todo, D) + SeqCount(steps, D)
           /\ SeqCount(steps, D) \in Nat
<1>1. Tid[o] \in Thread /\ IsFiniteSet(Thread)
  BY ThreadFacts
<1>2. todo \in [Thread -> Seq(Work)]
  BY DEF QType
<1> DEFINE g == todo'
<1>6. g \in [Thread -> Seq(Work)] /\ g[Tid[o]] = steps /\ Moves(Thread, Work, todo, g, Tid[o])
  BY <1>1, <1>2 DEF Plans, Moves
<1> HIDE DEF g
<1>3. Count(todo, D) \in Nat /\ SeqCount(g[Tid[o]], D) \in Nat
  BY <1>6, CountUpdate
<1>7. Count(g, D) = (Count(todo, D) - SeqCount(todo[Tid[o]], D)) + SeqCount(g[Tid[o]], D)
  BY <1>6, CountUpdate
<1>4. todo[Tid[o]] = <<>>
  BY DEF Plans, Idle
<1>5. SeqCount(todo[Tid[o]], D) = 0
  BY <1>4, CountEmptySeq
<1> QED
  BY <1>3, <1>5, <1>6, <1>7 DEF g

\* the commands waiting when it takes one,
LEMMA TakesCount ==
    ASSUME QType, NEW o \in Object, Takes(o), NEW D
    PROVE  /\ mailbox' \in [Thread -> Seq(Cmd)]
           /\ Count(mailbox', D) = Count(mailbox, D) - B(Msg(o) \in D)
           /\ Msg(o) \in Cmd
<1>1. Tid[o] \in Thread /\ IsFiniteSet(Thread)
  BY ThreadFacts
<1>2. mailbox \in [Thread -> Seq(Cmd)]
  BY DEF QType
<1> DEFINE q == mailbox[Tid[o]]
<1>3. q \in Seq(Cmd) /\ q # <<>>
  BY <1>1, <1>2 DEF Takes
<1>4. Tail(q) \in Seq(Cmd) /\ Head(q) \in Cmd
  BY <1>3, HeadTailProperties
<1>5. SeqCount(q, D) = B(Head(q) \in D) + SeqCount(Tail(q), D)
  BY <1>3, CountTail
<1> DEFINE g == mailbox'
<1>8. g \in [Thread -> Seq(Cmd)] /\ g[Tid[o]] = Tail(q) /\ Moves(Thread, Cmd, mailbox, g, Tid[o])
  BY <1>1, <1>2, <1>4 DEF Takes, Moves
<1> HIDE DEF g
<1>6. Count(mailbox, D) \in Nat /\ SeqCount(g[Tid[o]], D) \in Nat
  BY <1>8, CountUpdate
<1>9. Count(g, D) = (Count(mailbox, D) - SeqCount(mailbox[Tid[o]], D)) + SeqCount(g[Tid[o]], D)
  BY <1>8, CountUpdate
<1>7. B(Head(q) \in D) \in Nat
  BY DEF B
<1> QED
  BY <1>4, <1>5, <1>6, <1>7, <1>8, <1>9 DEF Msg, g

\* A handler, and an event that is not a command.
LEMMA HandledFlight ==
    ASSUME QType, NEW o \in Object, NEW steps \in Seq(Work), Plans(o, steps), Takes(o), NEW D
    PROVE  /\ QType'
           /\ Flight(D)' = (Flight(D) - B(Msg(o) \in D)) + SeqCount(steps, Sends(D))
<1>1. /\ todo' \in [Thread -> Seq(Work)]
      /\ Count(todo', Sends(D)) = Count(todo, Sends(D)) + SeqCount(steps, Sends(D))
      /\ SeqCount(steps, Sends(D)) \in Nat
  BY PlansCount
<1>2. /\ mailbox' \in [Thread -> Seq(Cmd)]
      /\ Count(mailbox', D) = Count(mailbox, D) - B(Msg(o) \in D)
  BY TakesCount
<1>3. B(Msg(o) \in D) \in Nat
  BY DEF B
<1>4. QType'
  BY <1>1, <1>2 DEF QType
<1>5. Flight(D)' = Count(mailbox', D) + Count(todo', Sends(D))
  BY DEF Flight
<1> QED
  BY <1>1, <1>2, <1>3, <1>4, <1>5, FlightType DEF Flight

\* the commands in flight when it acts by itself,
LEMMA ActsFlight ==
    ASSUME QType, NEW o \in Object, NEW steps \in Seq(Work), Plans(o, steps), mailbox' = mailbox, NEW D
    PROVE  /\ QType'
           /\ Flight(D)' = Flight(D) + SeqCount(steps, Sends(D))
<1>1. /\ todo' \in [Thread -> Seq(Work)]
      /\ Count(todo', Sends(D)) = Count(todo, Sends(D)) + SeqCount(steps, Sends(D))
      /\ SeqCount(steps, Sends(D)) \in Nat
  BY PlansCount
<1>4. QType'
  BY <1>1 DEF QType
<1>5. Flight(D)' = Count(mailbox', D) + Count(todo', Sends(D))
  BY DEF Flight
<1> QED
  BY <1>1, <1>4, <1>5, FlightType DEF Flight

\* and the announcements.
LEMMA PlansAnn ==
    ASSUME QType, NEW o \in Object, NEW steps \in Seq(Work), Plans(o, steps), NEW x
    PROVE  NAnn(x)' = NAnn(x) + SeqCount(steps, Ann(x))
<1>1. Count(todo', Ann(x)) = Count(todo, Ann(x)) + SeqCount(steps, Ann(x))
  BY PlansCount
<1>2. NAnn(x)' = Count(todo', Ann(x))
  BY DEF NAnn
<1> QED
  BY <1>1, <1>2 DEF NAnn
-----------------------------------------------------------------------------
(* The inductive invariant *)

\* An object that exists, and one that no thread is about to delete.
Made(o) == own[o].life # "none"
Going(o) == delete(o) \in Range(todo[Tid[o]])
Alive(o) == own[o].life = "live" /\ ~Going(o)

\* The commands of a type to an object, about an object or a pipe, about a pipe
\* to one of its ends, and the ones that process_seqnum () follows.
To(o, type) == {m \in Cmd : m.to = o /\ m.type = type}
About(a, type) == {m \in Cmd : m.arg = a /\ m.type = type}
ToEnd(p, x, type) == {m \in Cmd : m.arg = p /\ m.type = type /\ (m.to = Socket <=> x = "socket")}
SeqTo(o) == {m \in Cmd : m.to = o /\ m.type \in SeqCommand}

Plugs(o) == Flight(To(o, "plug"))
Attaches(o) == Flight(To(o, "attach"))
Terms(o) == Flight(To(o, "term"))
Acks(o) == Flight(To(o, "term_ack"))
Owns(c) == Flight(About(c, "own"))
Binds(p) == Flight(About(p, "bind"))
Hiccups(p) == Flight(About(p, "hiccup"))
PT(p, x) == Flight(ToEnd(p, x, "pipe_term"))
PA(p, x) == Flight(ToEnd(p, x, "pipe_term_ack"))
NSeq(o) == Flight(SeqTo(o))

OwnRecord == [life: {"none", "live", "deleted"}, owner: Object \cup {None},
              terminating: BOOLEAN, sent_seqnum: Nat, processed_seqnum: Nat,
              owned: SUBSET Object, term_acks: Int]

Typed ==
    /\ own \in [Object -> OwnRecord]
    /\ polled \subseteq Listener \cup Connecter
    /\ engine \subseteq Session /\ pending \subseteq Session
    /\ pipe \in [Session -> Pipe \cup {None}]
    /\ pstate \in [Pipe \X {"socket", "session"} -> PState]
    /\ psession \in [Pipe -> Session \cup {None}]
    /\ endpoints \subseteq (Listener \cup Connected) \X (Pipe \cup {None})
    /\ closed \in BOOLEAN /\ immediate \in Immediate
    /\ QType

\* Who owns what.
OwnersOf(c) == IF c \in Listener \cup Connected THEN {Socket}
               ELSE IF c \in Accepted THEN Listener ELSE Connected
Tree ==
    /\ own[Socket].owner = None /\ Made(Socket) /\ own[Socket].terminating = closed
    /\ \A c \in Object \ {Socket} :
          IF Made(c) THEN own[c].owner \in OwnersOf(c) /\ Made(own[c].owner)
          ELSE own[c] = [own_t EXCEPT !.life = "none"]
    /\ \A o \in Object : /\ own[o].terminating => own[o].owned = {}
                         /\ \A c \in own[o].owned : Made(c) /\ own[c].owner = o

\* Who is active, and what the sessions and the pipes know of each other.
Links ==
    /\ \A o \in polled : Alive(o) /\ ~own[o].terminating
    /\ \A s \in engine : own[s].life = "live"
    /\ \A s \in pending : OtherPipes(s, {}) # {}
    /\ \A s \in Session : pipe[s] # None =>
          psession[pipe[s]] = s /\ pstate[<<pipe[s], "session">>] \notin {"none", "gone"}
    /\ \A p \in Pipe : psession[p] # None => Made(psession[p])
    /\ \A s \in Session : own[s].terminating => OtherPipes(s, {}) = {}
    /\ closed => \A p \in Pipe : pstate[<<p, "socket">>] \notin {"active", "waiting_for_delimiter"}
    /\ \A e \in endpoints : e[2] # None => psession[e[2]] # None

\* The two counters of an object.
Seqnums == \A o \in Object : own[o].sent_seqnum + NAnn(o) = own[o].processed_seqnum + NSeq(o)

\* A command in a mailbox is for a living object of that thread, ...
CommandOK(m, t) ==
    /\ m.to \in Object /\ Alive(m.to) /\ Tid[m.to] = t
    /\ m.type \in {"plug", "attach", "term"} => m.to # Socket
    /\ m.type = "attach" => m.to \in Session
    /\ m.type \in {"own", "term_req"} => m.arg \in Object /\ Made(m.arg) /\ own[m.arg].owner = m.to
    /\ m.type \in {"bind", "hiccup"} => m.to = Socket
    /\ m.type \in {"bind", "hiccup", "pipe_term", "pipe_term_ack"} =>
          m.arg \in Pipe /\ psession[m.arg] # None /\ m.to \in {Socket, psession[m.arg]}
Commands == \A t \in Thread : \A i \in DOMAIN mailbox[t] : CommandOK(mailbox[t][i], t)

\* ... and so is one that a thread t with the steps s is about to send; it comes
\* from the thread that may send it.
SendOK(s, i, t) ==
    LET st == s[i] IN
    /\ CommandOK(Com(st.to, st.type, st.arg), Tid[st.to])
    /\ st.inc = 1 <=> st.type \in {"plug", "own"}
    /\ st.type = "own" => Tid[st.to] = t
    /\ st.type = "term_req" => Tid[st.arg] = t /\ Alive(st.arg)
    /\ st.type = "plug" => /\ i + 1 \in DOMAIN s /\ s[i + 1].op = "send"
                           /\ s[i + 1].type = "own" /\ s[i + 1].arg = st.to
    /\ st.type \in {"bind", "hiccup"} => Tid[psession[st.arg]] = t
    /\ st.type \in {"pipe_term", "pipe_term_ack"} =>
          t = Tid[IF st.to = Socket THEN psession[st.arg] ELSE Socket]

\* A thread that increments a counter will send the command, and something keeps
\* the object there until then.
Keeps(s, t) ==
    LET o == s[1].to IN
    \/ o \in Accepted /\ \E j \in DOMAIN s : s[j].op = "send" /\ s[j].type = "own" /\ s[j].arg = o
    \/ o \in Connected /\ \E c \in Object : own[c].owner = o /\ Alive(c) /\ Tid[c] = t
    \/ o = Socket /\ \E c \in Session : Alive(c) /\ Tid[c] = t
IncOK(s, i, t) ==
    /\ i = 1 /\ Alive(s[1].to) /\ Keeps(s, t)
    /\ \E j \in DOMAIN s : /\ s[j].op = "send" /\ s[j].to = s[1].to
                           /\ s[j].type \in SeqCommand /\ s[j].inc = 0

\* The check, or the deletion it leads to, is all that a thread still does for an
\* object, apart from answers of pipes.
LastOK(s, i, t) ==
    /\ Made(s[i].to) /\ own[s[i].to].life = "live" /\ Tid[s[i].to] = t
    /\ \A j \in DOMAIN s : j > i => s[j].op = "send" /\ s[j].type = "pipe_term_ack"

StepOK(s, i, t) ==
    /\ s[i].op = "inc" => IncOK(s, i, t)
    /\ s[i].op = "send" => SendOK(s, i, t)
    /\ s[i].op \in {"check", "delete"} => LastOK(s, i, t)
StepsOK(s, t) == \A i \in DOMAIN s : StepOK(s, i, t)
Todo == \A t \in Thread : StepsOK(todo[t], t)

\* The stations of a child: its owner is told of it, owns it, tells it to go; it
\* waits for its pipes, it is going.  It is at one of them.
ChildOK(c) ==
    IF Alive(c) THEN Owns(c) + B(c \in own[own[c].owner].owned) + Terms(c)
                       + B(c \in pending) + B(own[c].terminating) = 1
    ELSE /\ Owns(c) = 0 /\ Terms(c) = 0
         /\ c \notin own[own[c].owner].owned /\ c \notin pending
Children == \A c \in Object \ {Socket} : Made(c) => ChildOK(c)

\* The acknowledgements an object waits for: of the children it has told to go, of
\* the ones that have gone, and of the pipes of a closed socket.
Kids(o) == {c \in Object : own[c].owner = o /\ Alive(c) /\ Owns(c) = 0 /\ c \notin own[o].owned}
AwaitedPipes(o) == IF o = Socket /\ closed THEN pipes ELSE {}
Awaited == \A o \in Object :
    own[o].term_acks = Cardinality(Kids(o)) + Acks(o) + Cardinality(AwaitedPipes(o))

\* An object that is being deleted or has been.
GoneOK(o) ==
    /\ own[o].terminating /\ own[o].term_acks = 0
    /\ \A c \in Object : own[c].owner = o => ~Alive(c)
    /\ o = Socket => \A p \in Pipe : pstate[<<p, "socket">>] \in {"none", "gone"}
Gone == \A o \in Object : Made(o) /\ ~Alive(o) => GoneOK(o)

\* An object that can go is about to be checked.
Checked == \A o \in Object : Alive(o) /\ CanGo(own[o]) => check_acks(o) \in Range(todo[Tid[o]])

\* Of the plug of a session, its connecters, an attach and its engine there is
\* one at most.
Active(c) == Plugs(c) >= 1 \/ c \in polled
Engines ==
    /\ \A o \in Listener \cup Connecter : Plugs(o) + B(o \in polled) <= 1
    /\ \A s \in Session : /\ Attaches(s) + B(s \in engine) <= 1
                          /\ s \in Connected => Plugs(s) + Attaches(s) + B(s \in engine) <= 1
    /\ \A c \in Connecter : Active(c) =>
         /\ Plugs(own[c].owner) = 0 /\ Attaches(own[c].owner) = 0 /\ own[c].owner \notin engine
         /\ \A d \in Connecter : Active(d) /\ own[d].owner = own[c].owner => d = c

\* A plug is the first command an object gets.
PlugFirst == \A c \in Object \ {Socket} : Plugs(c) >= 1 => ~own[c].terminating /\ c \notin pending

\* The joint states of the two ends of a pipe, and the commands under way: bind,
\* pipe_term to the socket and to the session, pipe_term_ack to the socket and to
\* the session.
Joint(a, b, n, ts, tn, as, an) ==
    \/ a = "none" /\ b = "none" /\ n = 0 /\ ts = 0 /\ tn = 0 /\ as = 0 /\ an = 0
    \/ a = "active" /\ b = "unbound" /\ n = 1 /\ ts = 0 /\ tn = 0 /\ as = 0 /\ an = 0
    \/ a = "term_req_sent1" /\ b = "unbound" /\ n = 1 /\ ts = 1 /\ tn = 0 /\ as = 0 /\ an = 0
    \/ n = 0 /\
       \/ a = "active" /\ b = "active" /\ ts = 0 /\ tn = 0 /\ as = 0 /\ an = 0
       \/ a = "active" /\ b = "term_req_sent1" /\ ts = 0 /\ tn = 1 /\ as = 0 /\ an = 0
       \/ a = "term_req_sent1" /\ b = "active" /\ ts = 1 /\ tn = 0 /\ as = 0 /\ an = 0
       \/ a = "term_req_sent1" /\ b = "waiting_for_delimiter" /\ ts = 0 /\ tn = 0 /\ as = 0 /\ an = 0
       \/ a = "waiting_for_delimiter" /\ b = "term_req_sent1" /\ ts = 0 /\ tn = 0 /\ as = 0 /\ an = 0
       \/ a = "term_req_sent1" /\ b = "term_ack_sent" /\ ts = 0 /\ tn = 0 /\ as = 0 /\ an = 1
       \/ a = "term_ack_sent" /\ b = "term_req_sent1" /\ ts = 0 /\ tn = 0 /\ as = 1 /\ an = 0
       \/ a = "gone" /\ b = "term_ack_sent" /\ ts = 0 /\ tn = 0 /\ as = 1 /\ an = 0
       \/ a = "term_ack_sent" /\ b = "gone" /\ ts = 0 /\ tn = 0 /\ as = 0 /\ an = 1
       \/ a = "term_req_sent1" /\ b = "term_req_sent1" /\ ts = 1 /\ tn = 1 /\ as = 0 /\ an = 0
       \/ a = "term_req_sent1" /\ b = "term_req_sent2" /\ ts = 0 /\ tn = 1 /\ as = 0 /\ an = 1
       \/ a = "term_req_sent2" /\ b = "term_req_sent1" /\ ts = 1 /\ tn = 0 /\ as = 1 /\ an = 0
       \/ a = "term_req_sent2" /\ b = "term_req_sent2" /\ ts = 0 /\ tn = 0 /\ as = 1 /\ an = 1
       \/ a = "gone" /\ b = "term_req_sent2" /\ ts = 0 /\ tn = 0 /\ as = 1 /\ an = 0
       \/ a = "term_req_sent2" /\ b = "gone" /\ ts = 0 /\ tn = 0 /\ as = 0 /\ an = 1
       \/ a = "gone" /\ b = "gone" /\ ts = 0 /\ tn = 0 /\ as = 0 /\ an = 0
PipeOK(p) ==
    /\ psession[p] = None <=> pstate[<<p, "session">>] = "none"
    /\ Joint(pstate[<<p, "session">>], pstate[<<p, "socket">>], Binds(p),
             PT(p, "socket"), PT(p, "session"), PA(p, "socket"), PA(p, "session"))
    /\ Hiccups(p) >= 1 => PT(p, "socket") = 1
Pipes == \A p \in Pipe : PipeOK(p)

\* The commands about a pipe come in the order of the protocol, and a plug before
\* a term.
Rank(type) == CASE type = "bind" -> 0 [] type = "hiccup" -> 1
                [] type = "pipe_term" -> 2 [] type = "pipe_term_ack" -> 3
PipeCommand == {"bind", "hiccup", "pipe_term", "pipe_term_ack"}
Sorted(m, n) ==
    m.to = n.to /\ m.arg = n.arg /\ m.type \in PipeCommand /\ n.type \in PipeCommand
      => Rank(m.type) <= Rank(n.type)
Order ==
    /\ \A t \in Thread : \A i, j \in DOMAIN mailbox[t] : i < j =>
          /\ Sorted(mailbox[t][i], mailbox[t][j])
          /\ ~(mailbox[t][i].type = "term" /\ mailbox[t][j].type = "plug" /\ mailbox[t][i].to = mailbox[t][j].to)
    /\ \A t \in Thread : \A k \in DOMAIN todo[t] : todo[t][k].op = "send" =>
          /\ \A j \in DOMAIN mailbox[Tid[todo[t][k].to]] :
                Sorted(mailbox[Tid[todo[t][k].to]][j], todo[t][k])
          /\ \A j \in DOMAIN todo[t] : j < k /\ todo[t][j].op = "send" => Sorted(todo[t][j], todo[t][k])

\* An object that has asked to go is alive, or its acknowledgement comes later.
Requests == \A t \in Thread : \A i \in DOMAIN mailbox[t] : mailbox[t][i].type = "term_req" =>
    \/ Alive(mailbox[t][i].arg)
    \/ \E j \in DOMAIN mailbox[t] : j > i /\ mailbox[t][j] \in To(mailbox[t][i].to, "term_ack")
    \/ \E u \in Thread : \E j \in DOMAIN todo[u] : todo[u][j] \in Sends(To(mailbox[t][i].to, "term_ack"))

IInv == /\ Typed /\ Tree /\ Links /\ Seqnums /\ Commands /\ Todo /\ Children /\ Awaited
        /\ Gone /\ Checked /\ Engines /\ PlugFirst /\ Pipes /\ Order /\ Requests /\ failed = {}
-----------------------------------------------------------------------------
(* Frames: what a step leaves alone *)

\* Objects come and are never forgotten, and a pipe keeps its session.
Grows ==
    /\ \A x \in Object : Alive(x) => Alive(x)'
    /\ \A x \in Object : Made(x) => /\ Made(x)' /\ own'[x].owner = own[x].owner
                                    /\ own'[x].life = own[x].life
    /\ \A p \in Pipe : psession[p] # None => psession'[p] = psession[p]

\* A command stays well formed as long as objects live on and pipes keep their session.
LEMMA CommandFrame ==
    ASSUME Grows, NEW m, NEW t, CommandOK(m, t)
    PROVE  CommandOK(m, t)'
BY DEF Grows, CommandOK

\* The planned steps of a thread, in a new state.
LEMMA StepsFrame ==
    ASSUME Grows, NEW t, NEW s \in Seq(Work), StepsOK(s, t)
    PROVE  StepsOK(s, t)'
<1> SUFFICES ASSUME NEW i \in DOMAIN s PROVE StepOK(s, i, t)'
  BY DEF StepsOK
<1>1. StepOK(s, i, t)
  BY DEF StepsOK
<1>0. s[i] \in Work
  BY ElementOfSeq, LenProperties
<1>2. ASSUME s[i].op = "inc" PROVE IncOK(s, i, t)'
  <2>1. IncOK(s, i, t)
    BY <1>1, <1>2 DEF StepOK
  <2>2. i = 1 /\ Alive(s[1].to) /\ s[1].to \in Object
    BY <2>1, <1>0 DEF IncOK, Work, SendStep, OwnStep
  <2>3. Keeps(s, t)'
    <3>1. Keeps(s, t)
      BY <2>1 DEF IncOK
    <3>2. ASSUME NEW c \in Object, Alive(c) PROVE Alive(c)' /\ own'[c].owner = own[c].owner
      BY <3>2 DEF Grows, Alive, Made
    <3>3. Session \subseteq Object
      BY DEF Object
    <3> QED
      BY <3>1, <3>2, <3>3 DEF Keeps
  <2> QED
    BY <2>1, <2>2, <2>3 DEF IncOK, Grows
<1>3. ASSUME s[i].op = "send" PROVE SendOK(s, i, t)'
  <2>1. SendOK(s, i, t)
    BY <1>1, <1>3 DEF StepOK
  <2>2. CommandOK(Com(s[i].to, s[i].type, s[i].arg), Tid[s[i].to])'
    <3>1. CommandOK(Com(s[i].to, s[i].type, s[i].arg), Tid[s[i].to])
      BY <2>1 DEF SendOK
    <3> QED
      BY <3>1, CommandFrame
  <2>3. s[i].type = "term_req" => s[i].arg \in Object /\ Alive(s[i].arg)
    BY <2>1 DEF SendOK, CommandOK, Com
  <2>4. s[i].type = "term_req" => Alive(s[i].arg)'
    BY <2>3 DEF Grows
  <2>5. s[i].type \in {"bind", "hiccup", "pipe_term", "pipe_term_ack"} => psession'[s[i].arg] = psession[s[i].arg]
    BY <2>1 DEF SendOK, CommandOK, Com, Grows
  <2> QED
    BY <2>1, <2>2, <2>4, <2>5 DEF SendOK
<1>4. ASSUME s[i].op \in {"check", "delete"} PROVE LastOK(s, i, t)'
  <2>1. LastOK(s, i, t) /\ s[i].to \in Object
    BY <1>0, <1>1, <1>4 DEF StepOK, Work, SendStep, OwnStep
  <2> QED
    BY <2>1 DEF LastOK, Grows
<1> QED
  BY <1>2, <1>3, <1>4 DEF StepOK

-----------------------------------------------------------------------------
(* A turn of a thread: it takes a command or none and plans steps *)

NoDelete(s) == \A i \in DOMAIN s : s[i].op # "delete"
Turn(o, steps) ==
    /\ QType /\ o \in Object /\ steps \in Seq(Work) /\ NoDelete(steps)
    /\ Plans(o, steps) /\ (Takes(o) \/ mailbox' = mailbox)

\* What the threads have to do after a turn of one of them.
LEMMA TurnTodo ==
    ASSUME NEW o, NEW steps, Turn(o, steps)
    PROVE  /\ todo'[Tid[o]] = steps /\ todo[Tid[o]] = <<>> /\ Tid[o] \in Thread
           /\ \A t \in Thread : t # Tid[o] => todo'[t] = todo[t]
           /\ \A t \in Thread : todo[t] \in Seq(Work) /\ mailbox[t] \in Seq(Cmd)
BY ThreadFacts DEF Turn, Plans, Idle, QType

\* What is still in the mailbox was there before.
LEMMA TurnMailbox ==
    ASSUME NEW o, NEW steps, Turn(o, steps), NEW t \in Thread
    PROVE  \/ mailbox'[t] = mailbox[t]
           \/ /\ Len(mailbox'[t]) + 1 = Len(mailbox[t]) /\ mailbox'[t] \in Seq(Cmd) /\ mailbox[t] \in Seq(Cmd)
              /\ \A i \in DOMAIN mailbox'[t] : i + 1 \in DOMAIN mailbox[t] /\ mailbox'[t][i] = mailbox[t][i + 1]
<1>1. mailbox[t] \in Seq(Cmd) /\ Tid[o] \in Thread
  BY TurnTodo
<1>2. CASE mailbox' = mailbox
  BY <1>2
<1>3. CASE Takes(o) /\ t # Tid[o]
  BY <1>3 DEF Takes, Turn, QType
<1>4. CASE Takes(o) /\ t = Tid[o]
  <2>1. mailbox[t] # <<>> /\ mailbox'[t] = Tail(mailbox[t])
    BY <1>4 DEF Takes, Turn, QType
  <2>2. /\ Tail(mailbox[t]) \in Seq(Cmd) /\ Len(Tail(mailbox[t])) = Len(mailbox[t]) - 1
        /\ \A i \in 1..Len(Tail(mailbox[t])) : Tail(mailbox[t])[i] = mailbox[t][i + 1]
    BY <1>1, <2>1, HeadTailProperties
  <2>3. Len(mailbox[t]) \in Nat /\ DOMAIN mailbox[t] = 1..Len(mailbox[t])
    BY <1>1, LenProperties
  <2>4. DOMAIN Tail(mailbox[t]) = 1..(Len(mailbox[t]) - 1)
    BY <2>2, LenProperties
  <2> QED
    BY <1>1, <2>1, <2>2, <2>3, <2>4
<1> QED
  BY <1>2, <1>3, <1>4 DEF Turn

\* A turn deletes nothing and plans no deletion.
LEMMA TurnGoing ==
    ASSUME NEW o, NEW steps, Turn(o, steps)
    PROVE  \A x \in Object : Going(x)' <=> Going(x)
<1> SUFFICES ASSUME NEW x \in Object PROVE Going(x)' <=> Going(x)
  OBVIOUS
<1>1. Tid[x] \in Thread
  BY ThreadFacts
<1>2. CASE Tid[x] # Tid[o]
  BY <1>1, <1>2, TurnTodo DEF Going
<1>3. CASE Tid[x] = Tid[o]
  <2>1. todo[Tid[x]] = <<>> /\ todo'[Tid[x]] = steps
    BY <1>3, TurnTodo
  <2>2. ~Going(x)
    BY <2>1 DEF Going, Range
  <2>3. delete(x) \notin Range(steps)
    BY DEF Turn, NoDelete, Range, delete
  <2> QED
    BY <2>1, <2>2, <2>3 DEF Going
<1> QED
  BY <1>2, <1>3

\* The thread of o is not about to delete anything.
LEMMA TurnAlive ==
    ASSUME NEW o, NEW steps, Turn(o, steps)
    PROVE  /\ \A x \in Object : Alive(x)' <=> own'[x].life = "live" /\ ~Going(x)
           /\ \A x \in Object : Tid[x] = Tid[o] => ~Going(x)
<1>1. \A x \in Object : Tid[x] = Tid[o] => ~Going(x)
  BY TurnTodo DEF Going, Range
<1> QED
  BY <1>1, TurnGoing DEF Alive

\* Commands and steps stay well formed when the planned steps are.
LEMMA TurnCommands ==
    ASSUME NEW o, NEW steps, Turn(o, steps), Grows, Commands, Todo, StepsOK(steps, Tid[o])'
    PROVE  Commands' /\ Todo'
<1>1. Commands'
  <2> SUFFICES ASSUME NEW t \in Thread, NEW i \in DOMAIN mailbox'[t], NEW m, m = mailbox'[t][i]
               PROVE  CommandOK(m, t)'
    BY DEF Commands
  <2>1. PICK j \in DOMAIN mailbox[t] : m = mailbox[t][j]
    BY TurnMailbox
  <2>2. CommandOK(m, t)
    BY <2>1 DEF Commands
  <2> QED
    BY <2>2, CommandFrame
<1>2. Todo'
  <2> SUFFICES ASSUME NEW t \in Thread, NEW s, s = todo'[t]
               PROVE  StepsOK(s, t)'
    BY DEF Todo
  <2>1. CASE t = Tid[o]
    BY <2>1, TurnTodo
  <2>2. CASE t # Tid[o]
    <3>1. s = todo[t] /\ s \in Seq(Work)
      BY <2>2, TurnTodo
    <3>2. StepsOK(s, t)
      BY <3>1 DEF Todo
    <3> QED
      BY <3>1, <3>2, StepsFrame
  <2> QED
    BY <2>1, <2>2
<1> QED
  BY <1>1, <1>2

\* New steps keep the order when they come after what is on its way.
InOrder(steps) ==
    \A k \in DOMAIN steps : steps[k].op = "send" =>
       /\ \A j \in DOMAIN mailbox[Tid[steps[k].to]] : Sorted(mailbox[Tid[steps[k].to]][j], steps[k])
       /\ \A j \in DOMAIN steps : j < k /\ steps[j].op = "send" => Sorted(steps[j], steps[k])

\* The commands about a pipe stay in order when the planned ones are,
LEMMA TurnOrder ==
    ASSUME NEW o, NEW steps, Turn(o, steps), Order, InOrder(steps)
    PROVE  Order'
<1>1. ASSUME NEW t \in Thread, NEW i \in DOMAIN mailbox'[t], NEW j \in DOMAIN mailbox'[t], i < j
      PROVE  /\ Sorted(mailbox'[t][i], mailbox'[t][j])
             /\ ~(mailbox'[t][i].type = "term" /\ mailbox'[t][j].type = "plug" /\ mailbox'[t][i].to = mailbox'[t][j].to)
  <2>1. CASE mailbox'[t] = mailbox[t]
    BY <1>1, <2>1 DEF Order
  <2>2. CASE mailbox'[t] # mailbox[t]
    <3>1. /\ mailbox'[t] \in Seq(Cmd)
          /\ \A k \in DOMAIN mailbox'[t] : k + 1 \in DOMAIN mailbox[t] /\ mailbox'[t][k] = mailbox[t][k + 1]
      BY <2>2, TurnMailbox
    <3>2. i \in Nat /\ j \in Nat
      BY <3>1, LenProperties
    <3>3. i + 1 < j + 1
      BY <1>1, <3>2
    <3> QED
      BY <3>1, <3>3 DEF Order
  <2> QED
    BY <2>1, <2>2
<1>2. ASSUME NEW st, NEW j \in DOMAIN mailbox'[Tid[st.to]], Tid[st.to] \in Thread,
             \A i \in DOMAIN mailbox[Tid[st.to]] : Sorted(mailbox[Tid[st.to]][i], st)
      PROVE  Sorted(mailbox'[Tid[st.to]][j], st)
  <2>1. PICK i \in DOMAIN mailbox[Tid[st.to]] : mailbox'[Tid[st.to]][j] = mailbox[Tid[st.to]][i]
    BY <1>2, TurnMailbox
  <2> QED
    BY <1>2, <2>1
<1>3. ASSUME NEW t \in Thread, NEW k \in DOMAIN todo'[t], todo'[t][k].op = "send"
      PROVE  /\ \A j \in DOMAIN mailbox'[Tid[todo'[t][k].to]] :
                   Sorted(mailbox'[Tid[todo'[t][k].to]][j], todo'[t][k])
             /\ \A j \in DOMAIN todo'[t] : j < k /\ todo'[t][j].op = "send" => Sorted(todo'[t][j], todo'[t][k])
  <2> DEFINE st == todo'[t][k]
  <2>1. todo'[t] \in Seq(Work)
    BY TurnTodo DEF Turn
  <2>2. st \in Work
    BY <2>1, ElementOfSeq, LenProperties
  <2>3. st.to \in Object /\ Tid[st.to] \in Thread
    BY <2>2, ThreadFacts DEF Work, SendStep, OwnStep
  <2>4. /\ \A j \in DOMAIN mailbox[Tid[st.to]] : Sorted(mailbox[Tid[st.to]][j], st)
        /\ \A j \in DOMAIN todo'[t] : j < k /\ todo'[t][j].op = "send" => Sorted(todo'[t][j], st)
    <3>1. CASE t = Tid[o]
      <4>1. todo'[t] = steps
        BY <3>1, TurnTodo
      <4> QED
        BY <1>3, <4>1 DEF InOrder
    <3>2. CASE t # Tid[o]
      <4>1. todo'[t] = todo[t]
        BY <3>2, TurnTodo
      <4> QED
        BY <1>3, <4>1 DEF Order
    <3> QED
      BY <3>1, <3>2
  <2>5. \A j \in DOMAIN mailbox'[Tid[st.to]] : Sorted(mailbox'[Tid[st.to]][j], st)
    BY <1>2, <2>3, <2>4
  <2> QED
    BY <2>4, <2>5
<1> QED
  BY <1>1, <1>3 DEF Order

\* Steps that send no bind, hiccup or pipe_term keep the order.
Calm(steps) == \A k \in DOMAIN steps : steps[k].op = "send" =>
                  steps[k].type \notin {"bind", "hiccup", "pipe_term"}

\* which answers and commands to objects always are.
LEMMA CalmOrder ==
    ASSUME NEW o, NEW steps, Turn(o, steps), Order, Calm(steps)
    PROVE  Order'
<1>1. \A m : \A n : n.type \notin {"bind", "hiccup", "pipe_term"} => Sorted(m, n)
  BY DEF Sorted, Rank, PipeCommand
<1>2. InOrder(steps)
  BY <1>1 DEF InOrder, Calm
<1> QED
  BY <1>2, TurnOrder

\* An object that asked to go still is alive or has its end on the way.
LEMMA TurnRequests ==
    ASSUME NEW o, NEW steps, Turn(o, steps), Grows, Commands, Requests
    PROVE  Requests'
<1> SUFFICES ASSUME NEW t \in Thread, NEW i \in DOMAIN mailbox'[t], NEW m, m = mailbox'[t][i], m.type = "term_req"
             PROVE  \/ Alive(m.arg)'
                    \/ \E j \in DOMAIN mailbox'[t] : j > i /\ mailbox'[t][j] \in To(m.to, "term_ack")
                    \/ \E u \in Thread : \E j \in DOMAIN todo'[u] : todo'[u][j] \in Sends(To(m.to, "term_ack"))
  BY DEF Requests
<1> DEFINE D == To(m.to, "term_ack")
<1>1. PICK k \in DOMAIN mailbox[t] :
         /\ m = mailbox[t][k]
         /\ \A j \in DOMAIN mailbox[t] : j > k => \E l \in DOMAIN mailbox'[t] : l > i /\ mailbox'[t][l] = mailbox[t][j]
  <2>1. CASE mailbox'[t] = mailbox[t]
    BY <2>1
  <2>2. CASE mailbox'[t] # mailbox[t]
    <3>1. /\ Len(mailbox'[t]) + 1 = Len(mailbox[t]) /\ mailbox'[t] \in Seq(Cmd) /\ mailbox[t] \in Seq(Cmd)
          /\ \A l \in DOMAIN mailbox'[t] : l + 1 \in DOMAIN mailbox[t] /\ mailbox'[t][l] = mailbox[t][l + 1]
      BY <2>2, TurnMailbox
    <3>2. /\ Len(mailbox'[t]) \in Nat /\ DOMAIN mailbox'[t] = 1..Len(mailbox'[t])
          /\ DOMAIN mailbox[t] = 1..Len(mailbox[t])
      BY <3>1, LenProperties
    <3>3. i + 1 \in DOMAIN mailbox[t] /\ m = mailbox[t][i + 1]
      BY <3>1
    <3>4. ASSUME NEW j \in DOMAIN mailbox[t], j > i + 1
          PROVE  j - 1 \in DOMAIN mailbox'[t] /\ j - 1 > i /\ mailbox'[t][j - 1] = mailbox[t][j]
      <4>1. j - 1 \in DOMAIN mailbox'[t] /\ j - 1 > i /\ (j - 1) + 1 = j
        BY <3>1, <3>2, <3>4
      <4> QED
        BY <3>1, <4>1
    <3> QED
      BY <3>3, <3>4
  <2> QED
    BY <2>1, <2>2
<1>2. \/ Alive(m.arg)
      \/ \E j \in DOMAIN mailbox[t] : j > k /\ mailbox[t][j] \in D
      \/ \E u \in Thread : \E j \in DOMAIN todo[u] : todo[u][j] \in Sends(D)
  BY <1>1 DEF Requests
<1>3. CASE Alive(m.arg)
  <2>1. m.arg \in Object
    BY <1>1 DEF Commands, CommandOK
  <2> QED
    BY <1>3, <2>1 DEF Grows
<1>4. CASE \E j \in DOMAIN mailbox[t] : j > k /\ mailbox[t][j] \in D
  BY <1>1, <1>4
<1>5. CASE \E u \in Thread : \E j \in DOMAIN todo[u] : todo[u][j] \in Sends(D)
  <2>1. PICK u \in Thread : \E j \in DOMAIN todo[u] : todo[u][j] \in Sends(D)
    BY <1>5
  <2>2. u # Tid[o]
    BY <2>1, TurnTodo
  <2>3. todo'[u] = todo[u]
    BY <2>2, TurnTodo
  <2> QED
    BY <2>1, <2>3
<1> QED
  BY <1>2, <1>3, <1>4, <1>5

\* An object that may go after a turn could go before it, or is checked in it.
LEMMA TurnChecked ==
    ASSUME NEW o, NEW steps, Turn(o, steps), Checked,
           \A x \in Object : Alive(x)' /\ CanGo(own'[x]) =>
               \/ Alive(x) /\ CanGo(own[x])
               \/ x = o /\ check_acks(o) \in Range(steps)
    PROVE  Checked'
<1> SUFFICES ASSUME NEW x \in Object, Alive(x)', CanGo(own'[x])
             PROVE  check_acks(x) \in Range(todo'[Tid[x]])
  BY DEF Checked
<1>1. CASE x = o /\ check_acks(o) \in Range(steps)
  BY <1>1, TurnTodo
<1>2. CASE Alive(x) /\ CanGo(own[x])
  <2>1. check_acks(x) \in Range(todo[Tid[x]])
    BY <1>2 DEF Checked
  <2>2. Tid[x] # Tid[o]
    BY <2>1, TurnTodo DEF Range
  <2>3. Tid[x] \in Thread
    BY ThreadFacts
  <2> QED
    BY <2>1, <2>2, <2>3, TurnTodo
<1> QED
  BY <1>1, <1>2

\* The steps announce for every object as many commands as they send.
Balanced(steps) == \A x \in Object : SeqCount(steps, Ann(x)) = SeqCount(steps, Sends(SeqTo(x)))

\* The counters agree after a handler that counts its command,
LEMMA HandledSeqnums ==
    ASSUME NEW o, NEW steps, Turn(o, steps), Takes(o), Seqnums, Balanced(steps),
           own \in [Object -> OwnRecord], own' \in [Object -> OwnRecord],
           \A x \in Object : /\ own'[x].sent_seqnum = own[x].sent_seqnum
                             /\ own'[x].processed_seqnum = own[x].processed_seqnum + B(Msg(o) \in SeqTo(x))
    PROVE  Seqnums'
<1> SUFFICES ASSUME NEW x \in Object
             PROVE own'[x].sent_seqnum + NAnn(x)' = own'[x].processed_seqnum + NSeq(x)'
  BY DEF Seqnums
<1>1. own[x].sent_seqnum + NAnn(x) = own[x].processed_seqnum + NSeq(x)
  BY DEF Seqnums
<1>2. NAnn(x)' = NAnn(x) + SeqCount(steps, Ann(x))
  BY PlansAnn DEF Turn
<1>3. NSeq(x)' = (NSeq(x) - B(Msg(o) \in SeqTo(x))) + SeqCount(steps, Sends(SeqTo(x)))
  BY HandledFlight DEF Turn, NSeq
<1>4. SeqCount(steps, Ann(x)) = SeqCount(steps, Sends(SeqTo(x)))
  BY DEF Balanced
<1>5. NAnn(x) \in Nat /\ NSeq(x) \in Nat /\ SeqCount(steps, Ann(x)) \in Nat
  BY AnnType, FlightType, SeqCountType DEF Turn, NSeq
<1>6. own[x].sent_seqnum \in Nat /\ own[x].processed_seqnum \in Nat
  BY DEF OwnRecord
<1>7. B(Msg(o) \in SeqTo(x)) \in Nat
  BY DEF B
<1> QED
  BY <1>1, <1>2, <1>3, <1>4, <1>5, <1>6, <1>7

\* and after an event.
LEMMA ActsSeqnums ==
    ASSUME NEW o, NEW steps, Turn(o, steps), mailbox' = mailbox, Seqnums, Balanced(steps),
           own \in [Object -> OwnRecord], own' \in [Object -> OwnRecord],
           \A x \in Object : /\ own'[x].sent_seqnum = own[x].sent_seqnum
                             /\ own'[x].processed_seqnum = own[x].processed_seqnum
    PROVE  Seqnums'
<1> SUFFICES ASSUME NEW x \in Object
             PROVE own'[x].sent_seqnum + NAnn(x)' = own'[x].processed_seqnum + NSeq(x)'
  BY DEF Seqnums
<1>1. own[x].sent_seqnum + NAnn(x) = own[x].processed_seqnum + NSeq(x)
  BY DEF Seqnums
<1>2. NAnn(x)' = NAnn(x) + SeqCount(steps, Ann(x))
  BY PlansAnn DEF Turn
<1>3. NSeq(x)' = NSeq(x) + SeqCount(steps, Sends(SeqTo(x)))
  BY ActsFlight DEF Turn, NSeq
<1>4. SeqCount(steps, Ann(x)) = SeqCount(steps, Sends(SeqTo(x)))
  BY DEF Balanced
<1>5. NAnn(x) \in Nat /\ NSeq(x) \in Nat /\ SeqCount(steps, Ann(x)) \in Nat
  BY AnnType, FlightType, SeqCountType DEF Turn, NSeq
<1>6. own[x].sent_seqnum \in Nat /\ own[x].processed_seqnum \in Nat
  BY DEF OwnRecord
<1> QED
  BY <1>1, <1>2, <1>3, <1>4, <1>5, <1>6
-----------------------------------------------------------------------------
(* What a turn does to the numbers of commands in flight *)

\* Which of the counted sets a command belongs to.
LEMMA ComIn ==
    ASSUME NEW o \in Object, NEW type \in CommandType, NEW a \in Arg
    PROVE  /\ \A x, ty : Com(o, type, a) \in To(x, ty) <=> x = o /\ ty = type
           /\ \A b, ty : Com(o, type, a) \in About(b, ty) <=> b = a /\ ty = type
           /\ \A p, x, ty : Com(o, type, a) \in ToEnd(p, x, ty) <=> p = a /\ ty = type /\ (o = Socket <=> x = "socket")
           /\ \A x : Com(o, type, a) \in SeqTo(x) <=> x = o /\ type \in SeqCommand
BY DEF Com, To, About, ToEnd, SeqTo, Cmd

\* A handler takes a turn.
LEMMA HandlerTurn ==
    ASSUME NEW o \in Object, NEW type \in CommandType, NEW steps \in Seq(Work), NoDelete(steps),
           QType, Handles(o, type), Handled(o, steps)
    PROVE  /\ Turn(o, steps) /\ Takes(o) /\ Plans(o, steps)
           /\ Msg(o) = Com(o, type, arg(o)) /\ Msg(o) \in Cmd /\ arg(o) \in Arg
<1>1. Takes(o) /\ Plans(o, steps)
  BY DEF Handles, Handled, Takes, Plans
<1>2. mailbox[Tid[o]] \in Seq(Cmd) /\ mailbox[Tid[o]] # <<>>
  BY ThreadFacts DEF QType, Handles
<1>3. Msg(o) \in Cmd
  BY <1>2, HeadTailProperties DEF Msg
<1>4. Msg(o).to = o /\ Msg(o).type = type /\ Msg(o).arg = arg(o)
  BY DEF Handles, Msg, arg
<1>5. Msg(o) = Com(o, type, arg(o)) /\ arg(o) \in Arg
  BY <1>3, <1>4 DEF Cmd, Com
<1> QED
  BY <1>1, <1>3, <1>5 DEF Turn

\* An event that is not a command is a turn, too.
LEMMA EventTurn ==
    ASSUME NEW o \in Object, NEW steps \in Seq(Work), NoDelete(steps),
           QType, Idle(Tid[o]), Acts(o, steps)
    PROVE  Turn(o, steps) /\ mailbox' = mailbox /\ Plans(o, steps)
BY DEF Acts, Plans, Turn

\* The command that a handler takes is in order.
LEMMA MsgOK ==
    ASSUME NEW o \in Object, QType, Takes(o), Commands
    PROVE  CommandOK(Msg(o), Tid[o]) /\ 1 \in DOMAIN mailbox[Tid[o]] /\ Msg(o) = mailbox[Tid[o]][1]
<1>1. mailbox[Tid[o]] \in Seq(Cmd) /\ mailbox[Tid[o]] # <<>> /\ Tid[o] \in Thread
  BY ThreadFacts DEF QType, Takes
<1>2. 1 \in DOMAIN mailbox[Tid[o]] /\ Msg(o) = mailbox[Tid[o]][1]
  BY <1>1 DEF Msg
<1> QED
  BY <1>1, <1>2 DEF Commands

\* What can be counted at all.
LEMMA SomeInFlight ==
    ASSUME NEW o \in Object, QType, Takes(o), NEW D, Msg(o) \in D
    PROVE  Flight(D) >= 1
<1>1. mailbox[Tid[o]] \in Seq(Cmd) /\ mailbox[Tid[o]] # <<>> /\ Tid[o] \in Thread
  BY ThreadFacts DEF QType, Takes
<1>2. 1 \in DOMAIN mailbox[Tid[o]] /\ mailbox[Tid[o]][1] \in D
  BY <1>1 DEF Msg
<1>3. Flight(D) # 0
  BY <1>1, <1>2, FlightZero
<1> QED
  BY <1>3, FlightType

\* A command that a thread will send is in flight,
LEMMA PlannedInFlight ==
    ASSUME QType, NEW t \in Thread, NEW i \in DOMAIN todo[t], NEW D, todo[t][i] \in Sends(D)
    PROVE  Flight(D) >= 1
<1>1. Flight(D) # 0
  BY FlightZero
<1> QED
  BY <1>1, FlightType

\* and so is one in a mailbox.
LEMMA WaitingInFlight ==
    ASSUME QType, NEW t \in Thread, NEW i \in DOMAIN mailbox[t], NEW D, mailbox[t][i] \in D
    PROVE  Flight(D) >= 1
<1>1. Flight(D) # 0
  BY FlightZero
<1> QED
  BY <1>1, FlightType

\* Commands of other types than T are as many as before.
SameCounts(T) ==
    /\ "plug" \notin T => \A x : Plugs(x)' = Plugs(x)
    /\ "attach" \notin T => \A x : Attaches(x)' = Attaches(x)
    /\ "term" \notin T => \A x : Terms(x)' = Terms(x)
    /\ "term_ack" \notin T => \A x : Acks(x)' = Acks(x)
    /\ "own" \notin T => \A x : Owns(x)' = Owns(x)
    /\ "bind" \notin T => \A p : Binds(p)' = Binds(p)
    /\ "hiccup" \notin T => \A p : Hiccups(p)' = Hiccups(p)
    /\ "pipe_term" \notin T => \A p, x : PT(p, x)' = PT(p, x)
    /\ "pipe_term_ack" \notin T => \A p, x : PA(p, x)' = PA(p, x)

Only(steps, T) == \A i \in DOMAIN steps : steps[i].op = "send" => steps[i].type \in T

\* No command of the type is sent.
LEMMA QuietSteps ==
    ASSUME NEW steps \in Seq(Work), NEW T, Only(steps, T), NEW D, \A m \in D : m.type \notin T
    PROVE  SeqCount(steps, Sends(D)) = 0
<1>1. ASSUME NEW i \in DOMAIN steps PROVE steps[i] \notin Sends(D)
  <2>1. CASE steps[i].op = "send"
    <3>1. Com(steps[i].to, steps[i].type, steps[i].arg).type \in T
      BY <2>1 DEF Only, Com
    <3> QED
      BY <3>1 DEF Sends
  <2>2. CASE steps[i].op # "send"
    BY <2>2 DEF Sends, SendStep
  <2> QED
    BY <2>1, <2>2
<1> QED
  BY <1>1, SeqCountType

\* Commands of other types than the turn deals with stay in flight.
LEMMA QuietFlight ==
    ASSUME NEW o, NEW steps, Turn(o, steps), NEW T, Only(steps, T),
           (Takes(o) /\ Msg(o).type \in T) \/ mailbox' = mailbox,
           NEW D, \A m \in D : m.type \notin T
    PROVE  Flight(D)' = Flight(D)
<1>1. SeqCount(steps, Sends(D)) = 0
  BY QuietSteps DEF Turn
<1>2. CASE mailbox' = mailbox
  <2>1. Flight(D)' = Flight(D) + SeqCount(steps, Sends(D))
    BY <1>2, ActsFlight DEF Turn
  <2> QED
    BY <1>1, <2>1, FlightType DEF Turn
<1>3. CASE Takes(o) /\ Msg(o).type \in T
  <2>1. Flight(D)' = (Flight(D) - B(Msg(o) \in D)) + SeqCount(steps, Sends(D))
    BY <1>3, HandledFlight DEF Turn
  <2>2. Msg(o) \notin D
    BY <1>3
  <2> QED
    BY <1>1, <2>1, <2>2, FlightType DEF Turn, B
<1> QED
  BY <1>2, <1>3

\* The same, for all numbers of the invariant.
LEMMA QuietCounts ==
    ASSUME NEW o, NEW steps, Turn(o, steps), NEW T, Only(steps, T),
           (Takes(o) /\ Msg(o).type \in T) \/ mailbox' = mailbox
    PROVE  SameCounts(T)
<1>1. \A x, ty : \A m \in To(x, ty) : m.type = ty
  BY DEF To
<1>2. \A x, ty : \A m \in About(x, ty) : m.type = ty
  BY DEF About
<1>3. \A p, x, ty : \A m \in ToEnd(p, x, ty) : m.type = ty
  BY DEF ToEnd
<1>4. ASSUME NEW ty, ty \notin T, NEW x PROVE Flight(To(x, ty))' = Flight(To(x, ty))
  <2>1. \A m \in To(x, ty) : m.type \notin T
    BY <1>1, <1>4
  <2> QED
    BY <2>1, QuietFlight
<1>5. ASSUME NEW ty, ty \notin T, NEW x PROVE Flight(About(x, ty))' = Flight(About(x, ty))
  <2>1. \A m \in About(x, ty) : m.type \notin T
    BY <1>2, <1>5
  <2> QED
    BY <2>1, QuietFlight
<1>6. ASSUME NEW ty, ty \notin T, NEW p, NEW x PROVE Flight(ToEnd(p, x, ty))' = Flight(ToEnd(p, x, ty))
  <2>1. \A m \in ToEnd(p, x, ty) : m.type \notin T
    BY <1>3, <1>6
  <2> QED
    BY <2>1, QuietFlight
<1>7. /\ "plug" \notin T => \A x : Plugs(x)' = Plugs(x)
      /\ "attach" \notin T => \A x : Attaches(x)' = Attaches(x)
      /\ "term" \notin T => \A x : Terms(x)' = Terms(x)
      /\ "term_ack" \notin T => \A x : Acks(x)' = Acks(x)
  BY <1>4 DEF Plugs, Attaches, Terms, Acks
<1>8. /\ "own" \notin T => \A x : Owns(x)' = Owns(x)
      /\ "bind" \notin T => \A p : Binds(p)' = Binds(p)
      /\ "hiccup" \notin T => \A p : Hiccups(p)' = Hiccups(p)
  BY <1>5 DEF Owns, Binds, Hiccups
<1>9. /\ "pipe_term" \notin T => \A p, x : PT(p, x)' = PT(p, x)
      /\ "pipe_term_ack" \notin T => \A p, x : PA(p, x)' = PA(p, x)
  BY <1>6 DEF PT, PA
<1> QED
  BY <1>7, <1>8, <1>9 DEF SameCounts

\* Steps that announce nothing and send nothing announced.
Plain(steps) ==
    \A i \in DOMAIN steps : \/ steps[i].op = "check"
                            \/ steps[i].op = "send" /\ steps[i].type \notin SeqCommand /\ steps[i].inc = 0

\* Steps that announce nothing are balanced,
LEMMA PlainBalanced ==
    ASSUME NEW steps \in Seq(Work), Plain(steps)
    PROVE  Balanced(steps)
<1> SUFFICES ASSUME NEW x \in Object
             PROVE SeqCount(steps, Ann(x)) = SeqCount(steps, Sends(SeqTo(x)))
  BY DEF Balanced
<1>1. \A i \in DOMAIN steps : steps[i] \notin Ann(x)
  BY DEF Plain, Ann
<1>2. \A i \in DOMAIN steps : steps[i] \notin Sends(SeqTo(x))
  BY DEF Plain, Sends, SendStep, SeqTo, Com
<1>3. SeqCount(steps, Ann(x)) = 0 /\ SeqCount(steps, Sends(SeqTo(x))) = 0
  BY <1>1, <1>2, SeqCountType
<1> QED
  BY <1>3

\* and so are two balanced lists together.
LEMMA BalancedConcat ==
    ASSUME NEW s \in Seq(Work), NEW u \in Seq(Work), Balanced(s), Balanced(u)
    PROVE  Balanced(s \o u)
<1> SUFFICES ASSUME NEW x \in Object
             PROVE SeqCount(s \o u, Ann(x)) = SeqCount(s \o u, Sends(SeqTo(x)))
  BY DEF Balanced
<1>1. SeqCount(s \o u, Ann(x)) = SeqCount(s, Ann(x)) + SeqCount(u, Ann(x))
  BY CountConcat
<1>2. SeqCount(s \o u, Sends(SeqTo(x))) = SeqCount(s, Sends(SeqTo(x))) + SeqCount(u, Sends(SeqTo(x)))
  BY CountConcat
<1> QED
  BY <1>1, <1>2 DEF Balanced
-----------------------------------------------------------------------------
(* Parts of the invariant that a step leaves alone *)

SameAlive == \A x \in Object : Alive(x)' <=> Alive(x)
SameShape == \A x \in Object :
    /\ own'[x].life = own[x].life /\ own'[x].owner = own[x].owner
    /\ own'[x].owned = own[x].owned /\ own'[x].terminating = own[x].terminating
    /\ ~Made(x) => own'[x] = own[x]

\* The kinds of objects.
LEMMA SocketIn == Socket \in Object /\ Session \subseteq Object /\ Listener \subseteq Object /\ Connecter \subseteq Object
  /\ Connected \subseteq Session /\ Accepted \subseteq Session
BY DEF Object, Session

\* Nothing goes when nothing changes.
LEMMA SameGrows ==
    ASSUME SameAlive, SameShape, \A p \in Pipe : psession[p] # None => psession'[p] = psession[p]
    PROVE  Grows
BY DEF SameAlive, SameShape, Grows, Made

\* The tree depends on the shape of the objects only,
LEMMA TreeFrame ==
    ASSUME Typed, Tree, SameShape, closed' = closed
    PROVE  Tree'
<1>1. \A x \in Object : own'[x].life # "none" <=> own[x].life # "none"
  BY DEF SameShape
<1>2. own'[Socket].owner = None /\ own'[Socket].life # "none" /\ own'[Socket].terminating = closed'
  BY <1>1, SocketIn DEF Tree, SameShape, Made
<1>3. \A o \in Object : own'[o].terminating => own'[o].owned = {}
  BY DEF Tree, SameShape
<1>4. \A c \in Object \ {Socket} : ~(own'[c].life # "none") => own'[c] = [own_t EXCEPT !.life = "none"]
  BY <1>1 DEF Tree, SameShape, Made
<1>5. ASSUME NEW c \in Object \ {Socket}, own'[c].life # "none"
      PROVE  own'[c].owner \in OwnersOf(c) /\ own'[own'[c].owner].life # "none"
  <2>1. own'[c].owner = own[c].owner
    BY DEF SameShape
  <2>2. own[c].owner \in OwnersOf(c) /\ own[own[c].owner].life # "none"
    BY <1>1, <1>5 DEF Tree, Made
  <2>3. own[c].owner \in Object
    BY <2>2, SocketIn DEF OwnersOf
  <2> QED
    BY <1>1, <2>1, <2>2, <2>3
<1>6. ASSUME NEW o \in Object, NEW c \in own'[o].owned
      PROVE  own'[c].life # "none" /\ own'[c].owner = o
  <2>1. c \in own[o].owned
    BY <1>6 DEF SameShape
  <2>2. c \in Object
    BY <2>1 DEF Typed, OwnRecord
  <2> QED
    BY <1>1, <2>1, <2>2 DEF SameShape, Tree, Made
<1> QED
  BY <1>2, <1>3, <1>4, <1>5, <1>6 DEF Tree, Made

\* the links on the pipes and on who is alive,
LEMMA LinksFrame ==
    ASSUME Links, SameAlive, SameShape, Typed, UNCHANGED <<lvars, evars, svars>>
    PROVE  Links'
<1>1. \A s : OtherPipes(s, {})' = OtherPipes(s, {})
  BY DEF OtherPipes, evars
<1>2. UNCHANGED <<polled, engine, pending, pipe, pstate, psession, endpoints, closed, immediate>>
  BY DEF lvars, evars, svars
<1>3. Session \subseteq Object /\ polled \subseteq Object /\ engine \subseteq Object
  BY SocketIn DEF Typed
<1>4. /\ \A o \in polled' : Alive(o)' /\ ~own'[o].terminating
      /\ \A s \in engine' : own'[s].life = "live"
  BY <1>2, <1>3 DEF Links, SameAlive, SameShape
<1>5. \A p \in Pipe : psession'[p] # None => Made(psession[p])'
  <2> SUFFICES ASSUME NEW p \in Pipe, psession[p] # None PROVE own'[psession[p]].life # "none"
    BY <1>2 DEF Made
  <2>1. psession[p] \in Object /\ own[psession[p]].life # "none"
    BY <1>3 DEF Typed, Links, Made
  <2> QED
    BY <2>1 DEF SameShape
<1>6. \A s \in Session : own'[s].terminating => OtherPipes(s, {})' = {}
  BY <1>1, <1>3 DEF Links, SameShape
<1>7. \A s \in pending' : OtherPipes(s, {})' # {}
  BY <1>1, <1>2 DEF Links
<1> QED
  BY <1>2, <1>4, <1>5, <1>6, <1>7 DEF Links

\* the stations of the children on the own and term commands,
LEMMA ChildrenFrame ==
    ASSUME Typed, Tree, Children, SameAlive, SameShape, pending' = pending,
           \A x \in Object : Owns(x)' = Owns(x) /\ Terms(x)' = Terms(x)
    PROVE  Children'
<1> SUFFICES ASSUME NEW c \in Object \ {Socket}, Made(c)' PROVE ChildOK(c)'
  BY DEF Children
<1>1. Made(c) /\ ChildOK(c)
  BY DEF Made, SameShape, Children
<1>2. own'[c].owner = own[c].owner /\ own'[c].terminating = own[c].terminating
  BY DEF SameShape
<1>3. own[c].owner \in Object
  BY <1>1, SocketIn DEF Tree, OwnersOf
<1>4. own'[own'[c].owner].owned = own[own[c].owner].owned
  BY <1>2, <1>3 DEF SameShape
<1> QED
  BY <1>1, <1>2, <1>4 DEF ChildOK, SameAlive

\* The objects that have been told to go stay the same ones.
LEMMA KidsFrame ==
    ASSUME SameAlive, SameShape, \A x \in Object : Owns(x)' = Owns(x), NEW o \in Object
    PROVE  Kids(o)' = Kids(o)
BY DEF Kids, SameAlive, SameShape

\* the awaited acknowledgements on the commands that bring them,
LEMMA AwaitedFrame ==
    ASSUME Awaited, SameAlive, SameShape, closed' = closed, pstate' = pstate,
           \A x \in Object : /\ own'[x].term_acks = own[x].term_acks
                             /\ Owns(x)' = Owns(x) /\ Acks(x)' = Acks(x)
    PROVE  Awaited'
<1>1. \A o \in Object : Kids(o)' = Kids(o)
  BY KidsFrame
<1>2. \A o \in Object : AwaitedPipes(o)' = AwaitedPipes(o)
  BY DEF AwaitedPipes, pipes
<1> QED
  BY <1>1, <1>2 DEF Awaited

\* Objects that are going, or gone, are left alone.
LEMMA GoneFrame ==
    ASSUME Gone, SameAlive, SameShape, pstate' = pstate,
           \A x \in Object : Made(x) /\ ~Alive(x) => own'[x].term_acks = own[x].term_acks
    PROVE  Gone'
BY DEF Gone, GoneOK, SameAlive, SameShape, Made

\* the engines on the plug and attach commands,
LEMMA EnginesFrame ==
    ASSUME Typed, Engines, SameShape, polled' = polled, engine' = engine,
           \A x : Plugs(x)' = Plugs(x) /\ Attaches(x)' = Attaches(x)
    PROVE  Engines'
<1>1. \A c \in Connecter : own'[c].owner = own[c].owner
  BY SocketIn DEF SameShape
<1>2. \A c : Active(c)' <=> Active(c)
  BY DEF Active
<1> QED
  BY <1>1, <1>2 DEF Engines

\* the plugs on themselves,
LEMMA PlugFrame ==
    ASSUME PlugFirst, SameShape, pending' = pending,
           \A x : Plugs(x)' = Plugs(x)
    PROVE  PlugFirst'
BY DEF PlugFirst, SameShape

\* and the pipes on the commands about pipes.
LEMMA PipesFrame ==
    ASSUME Pipes, pstate' = pstate, psession' = psession,
           SameCounts({"plug", "attach", "term", "term_ack", "own"})
    PROVE  Pipes'
<1> SUFFICES ASSUME NEW p \in Pipe PROVE PipeOK(p)'
  BY DEF Pipes
<1>1. PipeOK(p)
  BY DEF Pipes
<1>2. Binds(p)' = Binds(p) /\ Hiccups(p)' = Hiccups(p)
  BY DEF SameCounts
<1>3. \A x : PT(p, x)' = PT(p, x) /\ PA(p, x)' = PA(p, x)
  BY DEF SameCounts
<1> QED
  BY <1>1, <1>2, <1>3 DEF PipeOK
-----------------------------------------------------------------------------
(* The operations on the fields of an object *)

\* Everything but the counters and the children.
Kept(q, r) == q.life = r.life /\ q.owner = r.owner /\ q.sent_seqnum = r.sent_seqnum

\* process_seqnum () and unregister_term_ack (),
LEMMA OwnOps ==
    ASSUME NEW r \in OwnRecord
    PROVE  /\ process_seqnum(r) \in OwnRecord /\ Kept(process_seqnum(r), r)
           /\ process_seqnum(r).processed_seqnum = r.processed_seqnum + 1
           /\ process_seqnum(r).terminating = r.terminating /\ process_seqnum(r).owned = r.owned
           /\ process_seqnum(r).term_acks = r.term_acks
           /\ unregister_term_ack(r) \in OwnRecord /\ Kept(unregister_term_ack(r), r)
           /\ unregister_term_ack(r).processed_seqnum = r.processed_seqnum
           /\ unregister_term_ack(r).terminating = r.terminating /\ unregister_term_ack(r).owned = r.owned
           /\ unregister_term_ack(r).term_acks = r.term_acks - 1
BY DEF process_seqnum, unregister_term_ack, OwnRecord, Kept

\* register_term_acks (),
LEMMA RegisterOps ==
    ASSUME NEW r \in OwnRecord, NEW n \in Int
    PROVE  /\ register_term_acks(r, n) \in OwnRecord /\ Kept(register_term_acks(r, n), r)
           /\ register_term_acks(r, n).processed_seqnum = r.processed_seqnum
           /\ register_term_acks(r, n).terminating = r.terminating /\ register_term_acks(r, n).owned = r.owned
           /\ register_term_acks(r, n).term_acks = r.term_acks + n
BY DEF register_term_acks, OwnRecord, Kept

\* the children of an object,
LEMMA OwnedFinite ==
    ASSUME NEW r \in OwnRecord
    PROVE  IsFiniteSet(r.owned) /\ Cardinality(r.owned) \in Nat
BY FS_Subset, FS_CardinalityType, OwnAssumption DEF OwnRecord

\* process_term (),
LEMMA TerminatedOps ==
    ASSUME NEW r \in OwnRecord
    PROVE  /\ Terminated(r) \in OwnRecord /\ Kept(Terminated(r), r)
           /\ Terminated(r).processed_seqnum = r.processed_seqnum
           /\ Terminated(r).terminating = TRUE /\ Terminated(r).owned = {}
           /\ Terminated(r).term_acks = r.term_acks + Cardinality(r.owned)
<1> DEFINE q == register_term_acks(r, Cardinality(r.owned))
<1>1. /\ q \in OwnRecord /\ Kept(q, r)
      /\ q.processed_seqnum = r.processed_seqnum /\ q.term_acks = r.term_acks + Cardinality(r.owned)
  BY OwnedFinite, RegisterOps
<1>2. Terminated(r) = [q EXCEPT !.owned = {}, !.terminating = TRUE]
  BY DEF Terminated
<1> HIDE DEF q
<1> QED
  BY <1>1, <1>2 DEF OwnRecord, Kept

\* term_child (),
LEMMA TermChildOps ==
    ASSUME NEW r \in OwnRecord, NEW c
    PROVE  /\ TermChild(r, c) \in OwnRecord /\ Kept(TermChild(r, c), r)
           /\ TermChild(r, c).processed_seqnum = r.processed_seqnum
           /\ TermChild(r, c).terminating = r.terminating /\ TermChild(r, c).owned = r.owned \ {c}
           /\ TermChild(r, c).term_acks = r.term_acks + 1
<1> DEFINE q == [r EXCEPT !.owned = @ \ {c}]
<1>1. q \in OwnRecord /\ Kept(q, r) /\ q.processed_seqnum = r.processed_seqnum
      /\ q.terminating = r.terminating /\ q.owned = r.owned \ {c} /\ q.term_acks = r.term_acks
  BY DEF OwnRecord, Kept
<1>2. TermChild(r, c) = register_term_acks(q, 1)
  BY DEF TermChild
<1> HIDE DEF q
<1> QED
  BY <1>1, <1>2, RegisterOps DEF Kept

\* process_own () of an owner that stays,
LEMMA AdoptOps ==
    ASSUME NEW r \in OwnRecord, NEW c \in Object
    PROVE  LET q == process_seqnum(Adopted(r, c))
           IN /\ q \in OwnRecord /\ Kept(q, r)
              /\ q.processed_seqnum = r.processed_seqnum + 1
              /\ q.terminating = r.terminating /\ q.owned = r.owned \cup {c}
              /\ q.term_acks = r.term_acks
<1> DEFINE p == Adopted(r, c)
<1>1. p \in OwnRecord /\ Kept(p, r) /\ p.processed_seqnum = r.processed_seqnum
      /\ p.terminating = r.terminating /\ p.owned = r.owned \cup {c} /\ p.term_acks = r.term_acks
  BY DEF OwnRecord, Kept, Adopted
<1> HIDE DEF p
<1>2. /\ process_seqnum(p) \in OwnRecord /\ Kept(process_seqnum(p), r)
      /\ process_seqnum(p).processed_seqnum = r.processed_seqnum + 1
      /\ process_seqnum(p).terminating = r.terminating /\ process_seqnum(p).owned = r.owned \cup {c}
      /\ process_seqnum(p).term_acks = r.term_acks
  BY <1>1, OwnOps DEF Kept
<1> QED
  BY <1>2 DEF p

\* process_own () of an owner that goes,
LEMMA LateOps ==
    ASSUME NEW r \in OwnRecord
    PROVE  LET q == process_seqnum(register_term_acks(r, 1))
           IN /\ q \in OwnRecord /\ Kept(q, r)
              /\ q.processed_seqnum = r.processed_seqnum + 1
              /\ q.terminating = r.terminating /\ q.owned = r.owned
              /\ q.term_acks = r.term_acks + 1
<1> DEFINE p == register_term_acks(r, 1)
<1>1. p \in OwnRecord /\ Kept(p, r) /\ p.processed_seqnum = r.processed_seqnum
      /\ p.terminating = r.terminating /\ p.owned = r.owned /\ p.term_acks = r.term_acks + 1
  BY RegisterOps
<1> HIDE DEF p
<1>2. /\ process_seqnum(p) \in OwnRecord /\ Kept(process_seqnum(p), r)
      /\ process_seqnum(p).processed_seqnum = r.processed_seqnum + 1
      /\ process_seqnum(p).terminating = r.terminating /\ process_seqnum(p).owned = r.owned
      /\ process_seqnum(p).term_acks = r.term_acks + 1
  BY <1>1, OwnOps DEF Kept
<1> QED
  BY <1>2 DEF p

\* and the constructor.
LEMMA NewOwn ==
    ASSUME NEW o \in Object
    PROVE  /\ [own_t EXCEPT !.owner = o] \in OwnRecord
           /\ [own_t EXCEPT !.owner = o].life = "live" /\ [own_t EXCEPT !.owner = o].owner = o
           /\ [own_t EXCEPT !.owner = o].sent_seqnum = 0 /\ [own_t EXCEPT !.owner = o].processed_seqnum = 0
           /\ [own_t EXCEPT !.owner = o].terminating = FALSE /\ [own_t EXCEPT !.owner = o].owned = {}
           /\ [own_t EXCEPT !.owner = o].term_acks = 0
<1>1. own_t \in OwnRecord
  BY DEF own_t, OwnRecord
<1>2. /\ own_t.life = "live" /\ own_t.sent_seqnum = 0 /\ own_t.processed_seqnum = 0
      /\ own_t.terminating = FALSE /\ own_t.owned = {} /\ own_t.term_acks = 0
  BY DEF own_t
<1> QED
  BY <1>1, <1>2 DEF OwnRecord

\* One object changes.
LEMMA OneOwn ==
    ASSUME own \in [Object -> OwnRecord], NEW o \in Object, NEW r \in OwnRecord, own' = [own EXCEPT ![o] = r]
    PROVE  /\ own' \in [Object -> OwnRecord] /\ own'[o] = r
           /\ \A x \in Object : x # o => own'[x] = own[x]
OBVIOUS
-----------------------------------------------------------------------------
(* Handlers that take a command and check *)

\* A command of a type that is not sent.
LEMMA TakenFlight ==
    ASSUME NEW o, NEW steps, Turn(o, steps), Takes(o), NEW T, Only(steps, T), NEW D, \A m \in D : m.type \notin T
    PROVE  Flight(D)' = Flight(D) - B(Msg(o) \in D)
<1>1. SeqCount(steps, Sends(D)) = 0
  BY QuietSteps DEF Turn
<1>2. Flight(D)' = (Flight(D) - B(Msg(o) \in D)) + SeqCount(steps, Sends(D))
  BY HandledFlight DEF Turn
<1>3. Flight(D) \in Nat /\ B(Msg(o) \in D) \in Nat
  BY FlightType DEF Turn, B
<1> QED
  BY <1>1, <1>2, <1>3

\* The numbers of the invariant are natural.
LEMMA CountsType ==
    ASSUME QType
    PROVE  /\ \A x : Plugs(x) \in Nat /\ Attaches(x) \in Nat /\ Terms(x) \in Nat /\ Acks(x) \in Nat
           /\ \A x : Owns(x) \in Nat /\ Binds(x) \in Nat /\ Hiccups(x) \in Nat
           /\ \A p, x : PT(p, x) \in Nat /\ PA(p, x) \in Nat
BY FlightType DEF Plugs, Attaches, Terms, Acks, Owns, Binds, Hiccups, PT, PA

\* The check alone is a well-formed list of steps.
LEMMA CheckStep ==
    ASSUME NEW o \in Object
    PROVE  /\ <<check_acks(o)>> \in Seq(Work) /\ NoDelete(<<check_acks(o)>>) /\ Plain(<<check_acks(o)>>)
           /\ \A T : Only(<<check_acks(o)>>, T)
           /\ Calm(<<check_acks(o)>>) /\ check_acks(o) \in Range(<<check_acks(o)>>)
           /\ (Alive(o) => StepsOK(<<check_acks(o)>>, Tid[o]))
<1> DEFINE c == check_acks(o)
<1>1. c \in Work /\ c = [op |-> "check", to |-> o]
  BY OwnStepFacts
<1>2. c.op = "check" /\ c.to = o
  BY <1>1
<1>3. <<c>> \in Seq(Work) /\ Len(<<c>>) = 1 /\ DOMAIN <<c>> = {1} /\ <<c>>[1] = c
  BY <1>1
<1> HIDE DEF c
<1>4. NoDelete(<<c>>) /\ Plain(<<c>>) /\ Calm(<<c>>)
  BY <1>2, <1>3 DEF NoDelete, Plain, Calm
<1>5. \A T : Only(<<c>>, T)
  BY <1>2, <1>3 DEF Only
<1>6. ASSUME Alive(o) PROVE StepsOK(<<c>>, Tid[o])
  BY <1>2, <1>3, <1>6 DEF StepsOK, StepOK, LastOK, Alive, Made
<1>7. c \in Range(<<c>>)
  BY <1>3 DEF Range
<1> QED
  BY <1>3, <1>4, <1>5, <1>6, <1>7 DEF c

\* The counters of o advance by the command it takes, everything else stays.
LEMMA SeqnumOwn ==
    ASSUME own \in [Object -> OwnRecord], NEW o \in Object, Alive(o), own' = [own EXCEPT ![o] = process_seqnum(@)]
    PROVE  /\ own' \in [Object -> OwnRecord] /\ SameShape
           /\ \A x \in Object : own'[x].term_acks = own[x].term_acks /\ own'[x].sent_seqnum = own[x].sent_seqnum
           /\ \A x \in Object : own'[x].processed_seqnum = own[x].processed_seqnum + B(x = o)
           /\ \A x \in Object : x # o => own'[x] = own[x]
<1> DEFINE r == process_seqnum(own[o])
<1>1. own[o] \in OwnRecord
  OBVIOUS
<1>2. /\ r \in OwnRecord /\ Kept(r, own[o]) /\ r.processed_seqnum = own[o].processed_seqnum + 1
      /\ r.terminating = own[o].terminating /\ r.owned = own[o].owned /\ r.term_acks = own[o].term_acks
  BY <1>1, OwnOps
<1>3. own' = [own EXCEPT ![o] = r]
  OBVIOUS
<1> HIDE DEF r
<1>4. own' \in [Object -> OwnRecord] /\ own'[o] = r /\ \A x \in Object : x # o => own'[x] = own[x]
  BY <1>2, <1>3, OneOwn
<1>5. \A x \in Object : own[x] \in OwnRecord
  OBVIOUS
<1>6. Made(o)
  BY DEF Alive, Made
<1>7. SameShape
  BY <1>2, <1>4, <1>6 DEF SameShape, Kept
<1>8. \A x \in Object : own'[x].processed_seqnum = own[x].processed_seqnum + B(x = o)
  BY <1>2, <1>4, <1>5 DEF B, OwnRecord
<1>9. \A x \in Object : own'[x].term_acks = own[x].term_acks /\ own'[x].sent_seqnum = own[x].sent_seqnum
  BY <1>2, <1>4 DEF Kept
<1> QED
  BY <1>4, <1>7, <1>8, <1>9

\* What all handlers of a plug that only check have in common.
LEMMA PlugTaken ==
    ASSUME IInv, NEW o \in Object, Handles(o, "plug"), Handled(o, <<check_acks(o)>>),
           own' = [own EXCEPT ![o] = process_seqnum(@)],
           UNCHANGED <<engine, pending, evars, svars, failed>>,
           polled' \subseteq Listener \cup Connecter
    PROVE  /\ Typed' /\ Tree' /\ Seqnums' /\ Commands' /\ Todo' /\ Children' /\ Awaited'
           /\ Gone' /\ Checked' /\ PlugFirst' /\ Pipes' /\ Order' /\ Requests' /\ failed' = {}
           /\ SameShape /\ SameAlive /\ Alive(o) /\ o # Socket /\ Plugs(o) >= 1
           /\ \A x : Plugs(x)' = Plugs(x) - B(x = o)
           /\ \A x : Attaches(x)' = Attaches(x)
<1> DEFINE steps == <<check_acks(o)>>
           T == {"plug"}
<1>0. /\ Typed /\ Tree /\ Links /\ Seqnums /\ Commands /\ Todo /\ Children /\ Awaited
      /\ Gone /\ Checked /\ Engines /\ PlugFirst /\ Pipes /\ Order /\ Requests /\ failed = {} /\ QType
  BY DEF IInv, Typed
<1>1. /\ steps \in Seq(Work) /\ NoDelete(steps) /\ Plain(steps) /\ Calm(steps)
      /\ Only(steps, T) /\ Only(steps, {}) /\ check_acks(o) \in Range(steps)
      /\ (Alive(o) => StepsOK(steps, Tid[o]))
  BY CheckStep
<1>2. "plug" \in CommandType /\ "plug" \in SeqCommand
  BY DEF CommandType, SeqCommand
<1> HIDE DEF steps
<1>3. /\ Turn(o, steps) /\ Takes(o) /\ Plans(o, steps)
      /\ Msg(o) = Com(o, "plug", arg(o)) /\ Msg(o) \in Cmd /\ arg(o) \in Arg
  BY <1>0, <1>1, <1>2, HandlerTurn DEF steps
<1>4. CommandOK(Msg(o), Tid[o])
  BY <1>0, <1>3, MsgOK
<1>5. Alive(o) /\ o # Socket
  BY <1>3, <1>4 DEF CommandOK, Com
<1>6. /\ own' \in [Object -> OwnRecord] /\ SameShape
      /\ \A x \in Object : own'[x].term_acks = own[x].term_acks /\ own'[x].sent_seqnum = own[x].sent_seqnum
      /\ \A x \in Object : own'[x].processed_seqnum = own[x].processed_seqnum + B(x = o)
      /\ \A x \in Object : x # o => own'[x] = own[x]
  BY <1>0, <1>5, SeqnumOwn DEF Typed
<1>7. SameAlive
  BY <1>3, <1>6, TurnAlive DEF SameAlive, SameShape, Alive
<1>8. UNCHANGED <<engine, pending, pipe, pstate, psession, endpoints, closed, immediate, failed>>
  BY DEF evars, svars
<1>9. Grows
  BY <1>6, <1>7, <1>8, SameGrows
<1>10. Msg(o).type \in T
  BY <1>3 DEF Com
<1>11. SameCounts(T)
  BY <1>1, <1>3, <1>10, QuietCounts
<1>12. \A x : Attaches(x)' = Attaches(x) /\ Owns(x)' = Owns(x) /\ Terms(x)' = Terms(x) /\ Acks(x)' = Acks(x)
  BY <1>11 DEF SameCounts
<1>13. \A x : Plugs(x)' = Plugs(x) - B(x = o)
  <2> SUFFICES ASSUME NEW x PROVE Plugs(x)' = Plugs(x) - B(x = o)
    OBVIOUS
  <2>1. Flight(To(x, "plug"))' = Flight(To(x, "plug")) - B(Msg(o) \in To(x, "plug"))
    <3>1. \A m \in To(x, "plug") : m.type \notin {}
      OBVIOUS
    <3> QED
      BY <1>1, <1>3, <3>1, TakenFlight
  <2>2. Msg(o) \in To(x, "plug") <=> x = o
    BY <1>2, <1>3, ComIn
  <2> QED
    BY <2>1, <2>2 DEF Plugs, B
<1>14. Plugs(o) >= 1
  <2>1. Msg(o) \in To(o, "plug")
    BY <1>2, <1>3, ComIn
  <2> QED
    BY <1>0, <1>3, <2>1, SomeInFlight DEF Plugs
<1>15. QType'
  BY <1>3, HandledFlight DEF Turn
<1>16. Typed'
  BY <1>0, <1>6, <1>8, <1>15 DEF Typed
<1>17. Tree'
  BY <1>0, <1>6, <1>8, TreeFrame
<1>18. Seqnums'
  <2>1. Balanced(steps)
    BY <1>1, PlainBalanced
  <2>2. \A x : Msg(o) \in SeqTo(x) <=> x = o
    BY <1>2, <1>3, ComIn
  <2>3. \A x : B(Msg(o) \in SeqTo(x)) = B(x = o)
    BY <2>2 DEF B
  <2>4. own \in [Object -> OwnRecord]
    BY <1>0 DEF Typed
  <2> QED
    BY <1>0, <1>3, <1>6, <2>1, <2>3, <2>4, HandledSeqnums
<1>19. Commands' /\ Todo'
  <2>1. StepsOK(steps, Tid[o])'
    BY <1>1, <1>5, <1>9, StepsFrame
  <2> QED
    BY <1>0, <1>3, <1>9, <2>1, TurnCommands
<1>20. Children'
  BY <1>0, <1>6, <1>7, <1>8, <1>12, ChildrenFrame
<1>21. Awaited'
  BY <1>0, <1>6, <1>7, <1>8, <1>12, AwaitedFrame
<1>22. Gone'
  BY <1>0, <1>6, <1>7, <1>8, GoneFrame
<1>23. Checked'
  <2>1. \A x \in Object : Alive(x)' /\ CanGo(own'[x]) =>
               \/ Alive(x) /\ CanGo(own[x])
               \/ x = o /\ check_acks(o) \in Range(steps)
    BY <1>1, <1>6, <1>7 DEF SameAlive
  <2> QED
    BY <1>0, <1>3, <2>1, TurnChecked
<1>24. PlugFirst'
  <2>1. \A x : Plugs(x)' >= 1 => Plugs(x) >= 1
    BY <1>0, <1>13, CountsType DEF B
  <2> QED
    BY <1>0, <1>6, <1>8, <2>1 DEF PlugFirst, SameShape
<1>25. Pipes'
  <2>1. SameCounts({"plug", "attach", "term", "term_ack", "own"})
    BY <1>11 DEF SameCounts
  <2> QED
    BY <1>0, <1>8, <2>1, PipesFrame
<1>26. Order' /\ Requests'
  BY <1>0, <1>1, <1>3, <1>9, CalmOrder, TurnRequests
<1> QED
  BY <1>0, <1>5, <1>6, <1>7, <1>8, <1>12, <1>13, <1>14, <1>16, <1>17, <1>18, <1>19, <1>20, <1>21,
     <1>22, <1>23, <1>24, <1>25, <1>26
-----------------------------------------------------------------------------
(* The handlers of a plug that only check *)

\* The numbers are natural after a step, too.
LEMMA FlightTypeNext ==
    ASSUME QType'
    PROVE  /\ \A D : Flight(D)' \in Nat
           /\ \A x : Plugs(x)' \in Nat /\ Attaches(x)' \in Nat /\ Terms(x)' \in Nat /\ Acks(x)' \in Nat
           /\ \A x : Owns(x)' \in Nat /\ Binds(x)' \in Nat /\ Hiccups(x)' \in Nat
           /\ \A p, x : PT(p, x)' \in Nat /\ PA(p, x)' \in Nat
<1>1. Family(Thread, Cmd, mailbox') /\ Family(Thread, Work, todo')
  BY ThreadFacts DEF QType, Family
<1>2. \A D : Flight(D)' \in Nat
  <2> SUFFICES ASSUME NEW D PROVE Flight(D)' \in Nat
    OBVIOUS
  <2>1. Count(mailbox', D) \in Nat
    BY <1>1, PlacesFinite
  <2>2. Count(todo', Sends(D)) \in Nat
    BY <1>1, PlacesFinite
  <2>3. Flight(D)' = Count(mailbox', D) + Count(todo', Sends(D))
    BY DEF Flight
  <2> QED
    BY <2>1, <2>2, <2>3
<1> QED
  BY <1>2 DEF Plugs, Attaches, Terms, Acks, Owns, Binds, Hiccups, PT, PA

\* Fewer plugs, engines and attaches never hurt.
LEMMA EnginesLess ==
    ASSUME QType, QType', Engines, polled' \subseteq polled, engine' \subseteq engine,
           \A c \in Connecter : own'[c].owner = own[c].owner,
           \A x \in Object : Plugs(x)' <= Plugs(x) /\ Attaches(x)' <= Attaches(x),
           \A c \in Connecter : Active(c) => own[c].owner \in Object
    PROVE  Engines'
<1>1. \A x : /\ Plugs(x) \in Nat /\ Attaches(x) \in Nat /\ Plugs(x)' \in Nat /\ Attaches(x)' \in Nat
  BY CountsType, FlightTypeNext
<1>2. \A x : B(x \in polled') <= B(x \in polled) /\ B(x \in engine') <= B(x \in engine)
  BY DEF B
<1>3. \A x : B(x \in polled') \in {0, 1} /\ B(x \in polled) \in {0, 1} /\ B(x \in engine') \in {0, 1} /\ B(x \in engine) \in {0, 1}
  BY DEF B
<1>4. \A o \in Listener \cup Connecter : Plugs(o)' + B(o \in polled') <= 1
  BY <1>1, <1>2, <1>3, SocketIn DEF Engines
<1>5. \A s \in Session : /\ Attaches(s)' + B(s \in engine') <= 1
                         /\ s \in Connected => Plugs(s)' + Attaches(s)' + B(s \in engine') <= 1
  BY <1>1, <1>2, <1>3, SocketIn DEF Engines
<1>6. ASSUME NEW c \in Connecter, Active(c)' PROVE Active(c)
  <2>1. Plugs(c)' >= 1 \/ c \in polled'
    BY <1>6 DEF Active
  <2>2. Plugs(c)' <= Plugs(c)
    BY SocketIn
  <2>3. Plugs(c) \in Nat /\ Plugs(c)' \in Nat
    BY <1>1
  <2>4. Plugs(c)' >= 1 => Plugs(c) >= 1
    BY <2>2, <2>3
  <2> QED
    BY <2>1, <2>4 DEF Active
<1>7. ASSUME NEW c \in Connecter, Active(c)', NEW w, w = own'[c].owner
      PROVE  /\ Plugs(w)' = 0 /\ Attaches(w)' = 0 /\ w \notin engine'
             /\ \A d \in Connecter : Active(d)' /\ own'[d].owner = w => d = c
  <2>1. Active(c) /\ w \in Object /\ w = own[c].owner
    BY <1>6, <1>7
  <2>2. /\ Plugs(w) = 0 /\ Attaches(w) = 0 /\ w \notin engine
        /\ \A d \in Connecter : Active(d) /\ own[d].owner = w => d = c
    BY <2>1 DEF Engines
  <2>3. Plugs(w)' = 0 /\ Attaches(w)' = 0
    BY <1>1, <2>1, <2>2
  <2> QED
    BY <1>6, <2>1, <2>2, <2>3
<1> QED
  BY <1>4, <1>5, <1>7 DEF Engines

\* The owner of an object that exists is an object.
LEMMA OwnerIn ==
    ASSUME Tree, NEW c \in Object, Made(c), c # Socket
    PROVE  own[c].owner \in Object /\ own[c].owner \in OwnersOf(c) /\ Made(own[c].owner)
BY SocketIn DEF Tree, OwnersOf

\* A command that is on its way to an object finds it alive.
LEMMA TargetAlive ==
    ASSUME QType, Commands, Todo, NEW D, Flight(D) >= 1
    PROVE  \E m \in D : CommandOK(m, Tid[m.to])
<1>1. Flight(D) # 0
  BY FlightType
<1>2. CASE \E t \in Thread : \E i \in DOMAIN mailbox[t] : mailbox[t][i] \in D
  <2>1. PICK t \in Thread : \E i \in DOMAIN mailbox[t] : mailbox[t][i] \in D
    BY <1>2
  <2>2. PICK i \in DOMAIN mailbox[t] : mailbox[t][i] \in D
    BY <2>1
  <2>3. CommandOK(mailbox[t][i], t)
    BY DEF Commands
  <2>4. Tid[mailbox[t][i].to] = t
    BY <2>3 DEF CommandOK
  <2> QED
    BY <2>2, <2>3, <2>4
<1>3. CASE \E t \in Thread : \E i \in DOMAIN todo[t] : todo[t][i] \in Sends(D)
  <2>1. PICK t \in Thread : \E i \in DOMAIN todo[t] : todo[t][i] \in Sends(D)
    BY <1>3
  <2>2. PICK i \in DOMAIN todo[t] : todo[t][i] \in Sends(D)
    BY <2>1
  <2> DEFINE st == todo[t][i]
             m == Com(st.to, st.type, st.arg)
  <2>3. st.op = "send" /\ m \in D
    BY <2>2 DEF Sends, SendStep
  <2>4. SendOK(todo[t], i, t)
    BY <2>3 DEF Todo, StepsOK, StepOK
  <2>5. CommandOK(m, Tid[st.to])
    BY <2>4 DEF SendOK
  <2>6. m.to = st.to
    BY DEF Com
  <2> QED
    BY <2>3, <2>5, <2>6
<1> QED
  BY <1>1, <1>2, <1>3, FlightZero

\* A connecter that is plugged or polls is alive, and a connecting session owns it.
LEMMA ActiveOwner ==
    ASSUME IInv
    PROVE  \A c \in Connecter : Active(c) => Alive(c) /\ own[c].owner \in Connected
<1>0. QType /\ Commands /\ Todo /\ Links /\ Tree
  BY DEF IInv, Typed
<1> SUFFICES ASSUME NEW c \in Connecter, Active(c) PROVE Alive(c) /\ own[c].owner \in Connected
  OBVIOUS
<1>1. Alive(c)
  <2>1. CASE c \in polled
    BY <1>0, <2>1 DEF Links
  <2>2. CASE Plugs(c) >= 1
    <3>1. PICK m \in To(c, "plug") : CommandOK(m, Tid[m.to])
      BY <1>0, <2>2, TargetAlive DEF Plugs
    <3> QED
      BY <3>1 DEF CommandOK, To
  <2> QED
    BY <2>1, <2>2 DEF Active
<1>2. c \in Object /\ c # Socket /\ c \notin Listener \cup Connected /\ c \notin Accepted
  BY SocketIn, OwnAssumption DEF Session
<1>3. Made(c)
  BY <1>1 DEF Alive, Made
<1> QED
  BY <1>0, <1>1, <1>2, <1>3 DEF Tree, OwnersOf

\* Who is polled after a plug.
LEMMA PlugLinks ==
    ASSUME IInv, NEW o \in Object, polled' \subseteq polled \cup {o},
           UNCHANGED <<engine, pending, evars, svars>>, SameAlive, SameShape,
           Alive(o), o # Socket, Plugs(o) >= 1
    PROVE  Links'
<1>0. Links /\ PlugFirst /\ Typed
  BY DEF IInv
<1>1. \A s : OtherPipes(s, {})' = OtherPipes(s, {})
  BY DEF OtherPipes, evars
<1>2. UNCHANGED <<engine, pending, pipe, pstate, psession, endpoints, closed, immediate>>
  BY DEF evars, svars
<1>3. Session \subseteq Object /\ polled \subseteq Object /\ engine \subseteq Object
  BY <1>0, SocketIn DEF Typed
<1>4. ~own[o].terminating
  BY <1>0 DEF PlugFirst
<1>5. /\ \A x \in polled' : Alive(x)' /\ ~own'[x].terminating
      /\ \A s \in engine' : own'[s].life = "live"
  BY <1>0, <1>2, <1>3, <1>4 DEF Links, SameAlive, SameShape
<1>6. \A p \in Pipe : psession'[p] # None => Made(psession[p])'
  <2> SUFFICES ASSUME NEW p \in Pipe, psession[p] # None PROVE own'[psession[p]].life # "none"
    BY <1>2 DEF Made
  <2>1. psession[p] \in Object /\ own[psession[p]].life # "none"
    BY <1>0, <1>3 DEF Typed, Links, Made
  <2> QED
    BY <2>1 DEF SameShape
<1>7. \A s \in Session : own'[s].terminating => OtherPipes(s, {})' = {}
  BY <1>0, <1>1, <1>3 DEF Links, SameShape
<1>8. \A s \in pending' : OtherPipes(s, {})' # {}
  BY <1>0, <1>1, <1>2 DEF Links
<1> QED
  BY <1>0, <1>2, <1>5, <1>6, <1>7, <1>8 DEF Links

\* A plug to an accepted session preserves the invariant,
LEMMA PlugAcceptedStep ==
    ASSUME IInv, NEW s, process_plug_accepted(s)
    PROVE  IInv'
<1>1. s \in Accepted /\ s \in Object /\ Handles(s, "plug")
  BY SocketIn DEF process_plug_accepted
<1>2. /\ own' = [own EXCEPT ![s] = process_seqnum(@)] /\ Handled(s, <<check_acks(s)>>)
      /\ UNCHANGED <<polled, engine, pending, evars, svars, failed>>
  BY DEF process_plug_accepted, lvars
<1>3. polled' \subseteq Listener \cup Connecter
  BY <1>2 DEF IInv, Typed
<1>4. /\ Typed' /\ Tree' /\ Seqnums' /\ Commands' /\ Todo' /\ Children' /\ Awaited'
      /\ Gone' /\ Checked' /\ PlugFirst' /\ Pipes' /\ Order' /\ Requests' /\ failed' = {}
      /\ SameShape /\ SameAlive /\ Alive(s) /\ s # Socket /\ Plugs(s) >= 1
      /\ \A x : Plugs(x)' = Plugs(x) - B(x = s)
      /\ \A x : Attaches(x)' = Attaches(x)
  BY <1>1, <1>2, <1>3, PlugTaken
<1>5. Links'
  BY <1>1, <1>2, <1>4, PlugLinks
<1>6. Engines'
  <2>1. QType /\ QType' /\ Engines
    BY <1>4 DEF IInv, Typed
  <2>2. \A x \in Object : Plugs(x)' <= Plugs(x) /\ Attaches(x)' <= Attaches(x)
    BY <1>4, <2>1, CountsType DEF B
  <2>3. \A c \in Connecter : own'[c].owner = own[c].owner
    BY <1>4, SocketIn DEF SameShape
  <2>4. \A c \in Connecter : Active(c) => own[c].owner \in Object
    BY ActiveOwner, SocketIn
  <2> QED
    BY <1>2, <2>1, <2>2, <2>3, <2>4, EnginesLess
<1> QED
  BY <1>4, <1>5, <1>6 DEF IInv

\* A listener or a connecter gets in action.
LEMMA PlugPolled ==
    ASSUME IInv, NEW o \in Listener \cup Connecter, SameShape, polled' = polled \cup {o}, engine' = engine,
           Plugs(o) >= 1, QType',
           \A x : Plugs(x)' = Plugs(x) - B(x = o),
           \A x : Attaches(x)' = Attaches(x)
    PROVE  Engines'
<1>0. Engines /\ QType
  BY DEF IInv, Typed
<1>1. \A x : Plugs(x) \in Nat /\ Plugs(x)' \in Nat /\ Attaches(x) \in Nat
  BY <1>0, CountsType, FlightTypeNext
<1>2. o \notin polled /\ Plugs(o)' = 0
  BY <1>0, <1>1 DEF Engines, B
<1>3. \A x \in Listener \cup Connecter : Plugs(x)' + B(x \in polled') <= 1
  BY <1>0, <1>1, <1>2 DEF Engines, B
<1>4. \A x : x # o => Plugs(x)' = Plugs(x)
  BY <1>1 DEF B
<1>5. o \notin Session
  BY OwnAssumption
<1>6. \A s \in Session : /\ Attaches(s)' + B(s \in engine') <= 1
                         /\ s \in Connected => Plugs(s)' + Attaches(s)' + B(s \in engine') <= 1
  BY <1>0, <1>4, <1>5 DEF Engines
<1>7. \A c \in Connecter : own'[c].owner = own[c].owner
  BY SocketIn DEF SameShape
<1>8. \A c \in Connecter : Active(c)' <=> Active(c)
  BY <1>1, <1>2, <1>4 DEF Active
<1>9. ASSUME NEW c \in Connecter, Active(c), NEW w, w = own[c].owner
      PROVE  /\ Plugs(w)' = 0 /\ Attaches(w)' = 0 /\ w \notin engine'
             /\ \A d \in Connecter : Active(d) /\ own[d].owner = w => d = c
  <2>1. w \in Connected
    BY <1>9, ActiveOwner
  <2>2. w # o
    BY <2>1, <1>5, SocketIn
  <2>3. Plugs(w) = 0 /\ Attaches(w) = 0 /\ w \notin engine
    BY <1>0, <1>9 DEF Engines
  <2>4. \A d \in Connecter : Active(d) /\ own[d].owner = w => d = c
    BY <1>0, <1>9 DEF Engines
  <2>5. Plugs(w)' = 0
    BY <1>4, <2>2, <2>3
  <2>6. Attaches(w)' = 0
    BY <2>3
  <2> QED
    BY <2>3, <2>4, <2>5, <2>6
<1> QED
  BY <1>3, <1>6, <1>7, <1>8, <1>9 DEF Engines

\* and so does one to a listener or a connecter.
LEMMA PlugPolledStep ==
    ASSUME IInv, NEW o, process_plug_listener(o) \/ process_plug_connecter(o)
    PROVE  IInv'
<1>1. o \in Listener \cup Connecter /\ o \in Object /\ Handles(o, "plug")
  BY SocketIn DEF process_plug_listener, process_plug_connecter
<1>2. /\ own' = [own EXCEPT ![o] = process_seqnum(@)] /\ Handled(o, <<check_acks(o)>>)
      /\ polled' = polled \cup {o}
      /\ UNCHANGED <<engine, pending, evars, svars, failed>>
  BY DEF process_plug_listener, process_plug_connecter
<1>3. polled' \subseteq Listener \cup Connecter /\ engine' = engine
  BY <1>1, <1>2 DEF IInv, Typed
<1>4. /\ Typed' /\ Tree' /\ Seqnums' /\ Commands' /\ Todo' /\ Children' /\ Awaited'
      /\ Gone' /\ Checked' /\ PlugFirst' /\ Pipes' /\ Order' /\ Requests' /\ failed' = {}
      /\ SameShape /\ SameAlive /\ Alive(o) /\ o # Socket /\ Plugs(o) >= 1
      /\ \A x : Plugs(x)' = Plugs(x) - B(x = o)
      /\ \A x : Attaches(x)' = Attaches(x)
  BY <1>1, <1>2, <1>3, PlugTaken
<1>5. Links'
  BY <1>1, <1>2, <1>4, PlugLinks
<1>6. QType'
  BY <1>4 DEF Typed
<1>7. Engines'
  BY <1>1, <1>2, <1>3, <1>4, <1>6, PlugPolled
<1> QED
  BY <1>4, <1>5, <1>7 DEF IInv
-----------------------------------------------------------------------------
(* Lists of steps *)

\* The elements of two sequences put together.
LEMMA ConcatElements ==
    ASSUME NEW S, NEW s \in Seq(S), NEW u \in Seq(S)
    PROVE  /\ s \o u \in Seq(S) /\ Len(s) \in Nat /\ Len(u) \in Nat
           /\ DOMAIN s = 1..Len(s) /\ DOMAIN u = 1..Len(u)
           /\ DOMAIN (s \o u) = 1..(Len(s) + Len(u))
           /\ \A i \in DOMAIN s : i \in DOMAIN (s \o u) /\ (s \o u)[i] = s[i]
           /\ \A i \in DOMAIN u : Len(s) + i \in DOMAIN (s \o u) /\ (s \o u)[Len(s) + i] = u[i]
           /\ \A i \in DOMAIN (s \o u) : i \in DOMAIN s \/ (i - Len(s) \in DOMAIN u /\ (s \o u)[i] = u[i - Len(s)] /\ i > Len(s))
<1>1. /\ s \o u \in Seq(S) /\ Len(s) \in Nat /\ Len(u) \in Nat /\ Len(s \o u) = Len(s) + Len(u)
      /\ DOMAIN s = 1..Len(s) /\ DOMAIN u = 1..Len(u)
  BY ConcatProperties, LenProperties
<1>2. DOMAIN (s \o u) = 1..(Len(s) + Len(u))
  BY <1>1, LenProperties
<1>3. \A i \in 1..(Len(s) + Len(u)) : (s \o u)[i] = IF i <= Len(s) THEN s[i] ELSE u[i - Len(s)]
  BY ConcatProperties, <1>1
<1>4. \A i \in DOMAIN s : i \in DOMAIN (s \o u) /\ (s \o u)[i] = s[i]
  BY <1>1, <1>2, <1>3
<1>5. ASSUME NEW i \in DOMAIN u PROVE Len(s) + i \in DOMAIN (s \o u) /\ (s \o u)[Len(s) + i] = u[i]
  <2>1. Len(s) + i \in 1..(Len(s) + Len(u)) /\ ~(Len(s) + i <= Len(s)) /\ (Len(s) + i) - Len(s) = i
    BY <1>1
  <2> QED
    BY <1>2, <1>3, <2>1
<1>6. ASSUME NEW i \in DOMAIN (s \o u), i \notin DOMAIN s
      PROVE  i - Len(s) \in DOMAIN u /\ (s \o u)[i] = u[i - Len(s)] /\ i > Len(s)
  <2>1. i \in 1..(Len(s) + Len(u)) /\ ~(i <= Len(s)) /\ i - Len(s) \in 1..Len(u) /\ i > Len(s)
    BY <1>1, <1>2, <1>6
  <2> QED
    BY <1>1, <1>3, <2>1
<1> QED
  BY <1>1, <1>2, <1>4, <1>5, <1>6

\* Two sequences of one element,
LEMMA PairSeq == ASSUME NEW S, NEW e \in S, NEW f \in S PROVE <<e>> \o <<f>> = <<e, f>>
<1>1. <<e>> \in Seq(S) /\ <<f>> \in Seq(S) /\ <<e, f>> \in Seq(S)
  OBVIOUS
<1>2. Len(<<e>>) = 1 /\ Len(<<f>>) = 1 /\ Len(<<e, f>>) = 2 /\ <<e>>[1] = e /\ <<f>>[1] = f /\ <<e, f>>[1] = e /\ <<e, f>>[2] = f
  OBVIOUS
<1> DEFINE s == <<e>>
           u == <<f>>
           w == <<e, f>>
<1> HIDE DEF s, u, w
<1>3. s \in Seq(S) /\ u \in Seq(S) /\ w \in Seq(S) /\ Len(s) = 1 /\ Len(u) = 1 /\ Len(w) = 2 /\ s[1] = e /\ u[1] = f /\ w[1] = e /\ w[2] = f
  BY <1>1, <1>2 DEF s, u, w
<1>4. s \o u \in Seq(S) /\ Len(s \o u) = Len(w)
  BY <1>3, ConcatProperties
<1>5. \A i \in 1..Len(s \o u) : (s \o u)[i] = w[i]
  <2> SUFFICES ASSUME NEW i \in 1..Len(s \o u) PROVE (s \o u)[i] = w[i]
    OBVIOUS
  <2>0. i \in 1 .. Len(s) + Len(u) /\ (i = 1 \/ i = 2)
    BY <1>3, <1>4
  <2>1. (s \o u)[i] = IF i <= Len(s) THEN s[i] ELSE u[i - Len(s)]
    BY <1>3, <2>0, ConcatProperties
  <2> QED
    BY <1>3, <2>0, <2>1
<1>6. s \o u = w
  BY <1>3, <1>4, <1>5, SeqEqual
<1> QED
  BY <1>6 DEF s, u, w

\* and of two and one.
LEMMA TripleSeq ==
    ASSUME NEW S, NEW e \in S, NEW f \in S, NEW g \in S
    PROVE  <<e, f>> \o <<g>> = <<e, f, g>>
<1>1. <<e, f>> \in Seq(S) /\ <<g>> \in Seq(S) /\ <<e, f, g>> \in Seq(S)
  OBVIOUS
<1>2. /\ Len(<<e, f>>) = 2 /\ Len(<<g>>) = 1 /\ Len(<<e, f, g>>) = 3 /\ <<e, f>>[1] = e /\ <<e, f>>[2] = f /\ <<g>>[1] = g
      /\ <<e, f, g>>[1] = e /\ <<e, f, g>>[2] = f /\ <<e, f, g>>[3] = g
  OBVIOUS
<1> DEFINE s == <<e, f>>
           u == <<g>>
           w == <<e, f, g>>
<1> HIDE DEF s, u, w
<1>3. /\ s \in Seq(S) /\ u \in Seq(S) /\ w \in Seq(S) /\ Len(s) = 2 /\ Len(u) = 1 /\ Len(w) = 3 /\ s[1] = e /\ s[2] = f
      /\ u[1] = g /\ w[1] = e /\ w[2] = f /\ w[3] = g
  BY <1>1, <1>2 DEF s, u, w
<1>4. s \o u \in Seq(S) /\ Len(s \o u) = Len(w)
  <2>1. s \o u \in Seq(S) /\ Len(s \o u) = Len(s) + Len(u)
    BY <1>3, ConcatProperties
  <2> QED
    BY <1>3, <2>1
<1>5. \A i \in 1..Len(s \o u) : (s \o u)[i] = w[i]
  <2> SUFFICES ASSUME NEW i \in 1..Len(s \o u) PROVE (s \o u)[i] = w[i]
    OBVIOUS
  <2>0. i \in 1 .. Len(s) + Len(u) /\ (i = 1 \/ i = 2 \/ i = 3)
    BY <1>3, <1>4
  <2>1. (s \o u)[i] = IF i <= Len(s) THEN s[i] ELSE u[i - Len(s)]
    BY <1>3, <2>0, ConcatProperties
  <2> QED
    BY <1>3, <2>0, <2>1
<1>6. s \o u = w
  BY <1>3, <1>4, <1>5, SeqEqual
<1> QED
  BY <1>6 DEF s, u, w

\* A property of every step is one of both parts.
LEMMA ConcatForm ==
    ASSUME NEW s \in Seq(Work), NEW u \in Seq(Work)
    PROVE  /\ s \o u \in Seq(Work)
           /\ NoDelete(s) /\ NoDelete(u) => NoDelete(s \o u)
           /\ Plain(s) /\ Plain(u) => Plain(s \o u)
           /\ Calm(s) /\ Calm(u) => Calm(s \o u)
           /\ \A T : Only(s, T) /\ Only(u, T) => Only(s \o u, T)
           /\ Range(s \o u) = Range(s) \cup Range(u)
<1> DEFINE w == s \o u
<1>1. /\ w \in Seq(Work)
      /\ \A i \in DOMAIN w : (i \in DOMAIN s /\ w[i] = s[i]) \/ (\E j \in DOMAIN u : w[i] = u[j])
      /\ \A i \in DOMAIN s : i \in DOMAIN w /\ w[i] = s[i]
      /\ \A i \in DOMAIN u : \E j \in DOMAIN w : w[j] = u[i]
  <2>1. w \in Seq(Work)
    BY ConcatElements
  <2>2. \A i \in DOMAIN s : i \in DOMAIN w /\ w[i] = s[i]
    BY ConcatElements
  <2>3. \A i \in DOMAIN u : Len(s) + i \in DOMAIN w /\ w[Len(s) + i] = u[i]
    BY ConcatElements
  <2>4. \A i \in DOMAIN w : i \in DOMAIN s \/ (i - Len(s) \in DOMAIN u /\ w[i] = u[i - Len(s)])
    BY ConcatElements
  <2> QED
    BY <2>1, <2>2, <2>3, <2>4
<1> HIDE DEF w
<1>2. NoDelete(s) /\ NoDelete(u) => NoDelete(w)
  BY <1>1 DEF NoDelete
<1>3. Plain(s) /\ Plain(u) => Plain(w)
  BY <1>1 DEF Plain
<1>4. Calm(s) /\ Calm(u) => Calm(w)
  BY <1>1 DEF Calm
<1>5. \A T : Only(s, T) /\ Only(u, T) => Only(w, T)
  BY <1>1 DEF Only
<1>6. Range(w) = Range(s) \cup Range(u)
  BY <1>1 DEF Range
<1> QED
  BY <1>1, <1>2, <1>3, <1>4, <1>5, <1>6 DEF w

\* An increment comes first; answers of pipes may follow a check.
Answers(s) == \A i \in DOMAIN s : s[i].op = "send" /\ s[i].type = "pipe_term_ack"
NoInc(s) == \A i \in DOMAIN s : s[i].op # "inc"
NoCheck(s) == \A i \in DOMAIN s : s[i].op \in {"send", "inc"}

\* Two well-formed lists of steps are one when only answers follow a check.
LEMMA StepsConcat ==
    ASSUME NEW s \in Seq(Work), NEW u \in Seq(Work), NEW t, StepsOK(s, t), StepsOK(u, t),
           NoInc(u), Answers(u) \/ NoCheck(s)
    PROVE  StepsOK(s \o u, t)
<1> DEFINE w == s \o u
           n == Len(s)
<1>1. /\ w \in Seq(Work) /\ n \in Nat /\ Len(u) \in Nat
      /\ DOMAIN s = 1..n /\ DOMAIN u = 1..Len(u) /\ DOMAIN w = 1..(n + Len(u))
      /\ \A i \in DOMAIN s : i \in DOMAIN w /\ w[i] = s[i]
      /\ \A i \in DOMAIN u : n + i \in DOMAIN w /\ w[n + i] = u[i]
      /\ \A i \in DOMAIN w : i \in DOMAIN s \/ (i - n \in DOMAIN u /\ w[i] = u[i - n] /\ i > n)
  BY ConcatElements
<1>2. StepsOK(w, t) <=> \A i \in DOMAIN w : StepOK(w, i, t)
  BY DEF StepsOK
<1> HIDE DEF w, n
<1>3. ASSUME NEW i \in DOMAIN s PROVE StepOK(w, i, t)
  <2>1. StepOK(s, i, t) /\ w[i] = s[i] /\ i \in DOMAIN w
    BY <1>1 DEF StepsOK
  <2>2. s[i].op = "inc" => IncOK(w, i, t)
    <3> SUFFICES ASSUME s[i].op = "inc" PROVE IncOK(w, i, t)
      OBVIOUS
    <3>1. IncOK(s, i, t)
      BY <2>1 DEF StepOK
    <3>2. i = 1 /\ w[1] = s[1] /\ Alive(w[1].to)
      BY <2>1, <3>1 DEF IncOK
    <3>3. Keeps(w, t)
      <4>1. Keeps(s, t)
        BY <3>1 DEF IncOK
      <4>2. (\E j \in DOMAIN s : s[j].op = "send" /\ s[j].type = "own" /\ s[j].arg = s[1].to)
              => (\E j \in DOMAIN w : w[j].op = "send" /\ w[j].type = "own" /\ w[j].arg = w[1].to)
        BY <1>1, <3>2
      <4> QED
        BY <3>2, <4>1, <4>2 DEF Keeps
    <3>4. \E j \in DOMAIN w : w[j].op = "send" /\ w[j].to = w[1].to /\ w[j].type \in SeqCommand /\ w[j].inc = 0
      BY <1>1, <3>1, <3>2 DEF IncOK
    <3> QED
      BY <3>2, <3>3, <3>4 DEF IncOK
  <2>3. s[i].op = "send" => SendOK(w, i, t)
    <3> SUFFICES ASSUME s[i].op = "send" PROVE SendOK(w, i, t)
      OBVIOUS
    <3>1. SendOK(s, i, t)
      BY <2>1 DEF StepOK
    <3>2. i + 1 \in DOMAIN s => i + 1 \in DOMAIN w /\ w[i + 1] = s[i + 1]
      BY <1>1
    <3> QED
      BY <2>1, <3>1, <3>2 DEF SendOK
  <2>4. s[i].op \in {"check", "delete"} => LastOK(w, i, t)
    <3> SUFFICES ASSUME s[i].op \in {"check", "delete"} PROVE LastOK(w, i, t)
      OBVIOUS
    <3>1. LastOK(s, i, t) /\ Answers(u)
      BY <2>1 DEF StepOK, NoCheck
    <3>2. ASSUME NEW j \in DOMAIN w, j > i PROVE w[j].op = "send" /\ w[j].type = "pipe_term_ack"
      BY <1>1, <3>1, <3>2 DEF LastOK, Answers
    <3> QED
      BY <2>1, <3>1, <3>2 DEF LastOK
  <2> QED
    BY <2>1, <2>2, <2>3, <2>4 DEF StepOK
<1>4. ASSUME NEW i \in DOMAIN w, NEW k \in DOMAIN u, i = n + k PROVE StepOK(w, i, t)
  <2>1. StepOK(u, k, t) /\ w[i] = u[k] /\ u[k].op # "inc"
    BY <1>1, <1>4 DEF StepsOK, NoInc
  <2>3. u[k].op = "send" => SendOK(w, i, t)
    <3> SUFFICES ASSUME u[k].op = "send" PROVE SendOK(w, i, t)
      OBVIOUS
    <3>1. SendOK(u, k, t)
      BY <2>1 DEF StepOK
    <3>2. k + 1 \in DOMAIN u => i + 1 \in DOMAIN w /\ w[i + 1] = u[k + 1]
      <4> SUFFICES ASSUME k + 1 \in DOMAIN u PROVE i + 1 \in DOMAIN w /\ w[i + 1] = u[k + 1]
        OBVIOUS
      <4>1. n + (k + 1) \in DOMAIN w /\ w[n + (k + 1)] = u[k + 1]
        BY <1>1
      <4>2. n + (k + 1) = i + 1
        BY <1>1, <1>4
      <4> QED
        BY <4>1, <4>2
    <3> QED
      BY <2>1, <3>1, <3>2 DEF SendOK
  <2>4. u[k].op \in {"check", "delete"} => LastOK(w, i, t)
    <3> SUFFICES ASSUME u[k].op \in {"check", "delete"} PROVE LastOK(w, i, t)
      OBVIOUS
    <3>1. LastOK(u, k, t)
      BY <2>1 DEF StepOK
    <3>2. ASSUME NEW j \in DOMAIN w, j > i PROVE w[j].op = "send" /\ w[j].type = "pipe_term_ack"
      <4>1. j - n \in DOMAIN u /\ w[j] = u[j - n] /\ j - n > k
        BY <1>1, <1>4, <3>2
      <4> QED
        BY <3>1, <4>1 DEF LastOK
    <3> QED
      BY <2>1, <3>1, <3>2 DEF LastOK
  <2> QED
    BY <2>1, <2>3, <2>4 DEF StepOK
<1>5. ASSUME NEW i \in DOMAIN w, i \notin DOMAIN s PROVE StepOK(w, i, t)
  <2>1. i - n \in DOMAIN u /\ i = n + (i - n)
    BY <1>1, <1>5
  <2> QED
    BY <1>4, <2>1
<1> QED
  BY <1>2, <1>3, <1>5 DEF w

\* No steps, and one that sends.
LEMMA NoSteps ==
    /\ <<>> \in Seq(Work) /\ NoDelete(<<>>) /\ Plain(<<>>) /\ Calm(<<>>) /\ InOrder(<<>>) /\ Answers(<<>>)
    /\ NoInc(<<>>) /\ NoCheck(<<>>)
    /\ \A T : Only(<<>>, T)
    /\ \A t : StepsOK(<<>>, t)
    /\ \A D : SeqCount(<<>>, D) = 0
<1>1. DOMAIN <<>> = {} /\ <<>> \in Seq(Work)
  OBVIOUS
<1>2. \A D : SeqCount(<<>>, D) = 0
  BY CountEmptySeq
<1> QED
  BY <1>1, <1>2 DEF NoDelete, Plain, Calm, InOrder, Answers, NoInc, NoCheck, Only, StepsOK

\* A single unannounced command is a quiet list of steps.
LEMMA OneSend ==
    ASSUME NEW o \in Object, NEW type \in CommandType \ SeqCommand, NEW a \in Arg, NEW t
    PROVE  LET s == <<send_command(o, type, a)>>
           IN /\ s \in Seq(Work) /\ NoDelete(s) /\ Plain(s) /\ NoInc(s) /\ NoCheck(s)
              /\ \A T : type \in T => Only(s, T)
              /\ type \notin {"bind", "hiccup", "pipe_term"} => Calm(s)
              /\ type = "pipe_term_ack" => Answers(s)
              /\ \A D : SeqCount(s, Sends(D)) = B(Com(o, type, a) \in D)
              /\ DOMAIN s = {1} /\ s[1].op = "send" /\ s[1].to = o /\ s[1].type = type /\ s[1].arg = a /\ s[1].inc = 0
              /\ SendOK(s, 1, t) => StepsOK(s, t)
<1> DEFINE st == send_command(o, type, a)
<1>1. /\ st \in Work /\ st = [op |-> "send", to |-> o, type |-> type, arg |-> a, inc |-> 0]
      /\ \A D : st \in Sends(D) <=> Com(o, type, a) \in D
  BY StepFacts
<1>2. st.op = "send" /\ st.to = o /\ st.type = type /\ st.arg = a /\ st.inc = 0
  BY <1>1
<1> HIDE DEF st
<1>3. <<st>> \in Seq(Work) /\ DOMAIN <<st>> = {1} /\ <<st>>[1] = st
  BY <1>1
<1>4. NoDelete(<<st>>) /\ Plain(<<st>>) /\ NoInc(<<st>>) /\ NoCheck(<<st>>)
  BY <1>2, <1>3 DEF NoDelete, Plain, NoInc, NoCheck
<1>5. \A T : type \in T => Only(<<st>>, T)
  BY <1>2, <1>3 DEF Only
<1>6. /\ type \notin {"bind", "hiccup", "pipe_term"} => Calm(<<st>>)
      /\ type = "pipe_term_ack" => Answers(<<st>>)
  BY <1>2, <1>3 DEF Calm, Answers
<1>7. ASSUME NEW D PROVE SeqCount(<<st>>, Sends(D)) = B(Com(o, type, a) \in D)
  <2>1. SeqCount(<<st>>, Sends(D)) = B(st \in Sends(D))
    BY CountSingle
  <2> QED
    BY <1>1, <2>1 DEF B
<1>8. SendOK(<<st>>, 1, t) => StepsOK(<<st>>, t)
  BY <1>2, <1>3 DEF StepsOK, StepOK
<1> QED
  BY <1>2, <1>3, <1>4, <1>5, <1>6, <1>7, <1>8 DEF st
-----------------------------------------------------------------------------
(* Steps of the ends of pipes *)

PipeMove == {"hiccup", "pipe_term", "pipe_term_ack"}

\* An end that exists, was attached or is gone stays so.
SameEnds ==
    /\ \A p \in Pipe : \A st \in {"none", "gone"} :
          pstate'[<<p, "session">>] = st <=> pstate[<<p, "session">>] = st
    /\ \A p \in Pipe : \A st \in {"none", "unbound", "gone"} :
          pstate'[<<p, "socket">>] = st <=> pstate[<<p, "socket">>] = st

\* The pipes of a session and of the socket when no end comes or goes.
LEMMA PipesSame ==
    ASSUME SameEnds, psession' = psession
    PROVE  /\ \A s, P : OtherPipes(s, P)' = OtherPipes(s, P)
           /\ pipes' = pipes
<1>1. \A s, P : OtherPipes(s, P)' = OtherPipes(s, P)
  BY DEF SameEnds, OtherPipes
<1>2. pipes' = pipes
  BY DEF SameEnds, pipes
<1> QED
  BY <1>1, <1>2

\* The links when an end of a pipe changes its state,
LEMMA PipeLinks ==
    ASSUME Typed, Links, SameAlive, SameShape, SameEnds, UNCHANGED <<psession, closed>>,
           \A s \in Session : pipe'[s] \in {None, pipe[s]},
           polled' \subseteq polled, engine' \subseteq engine, pending' \subseteq pending, endpoints' \subseteq endpoints,
           closed => \A p \in Pipe : pstate'[<<p, "socket">>] \notin {"active", "waiting_for_delimiter"}
    PROVE  Links'
<1>1. \A s : OtherPipes(s, {})' = OtherPipes(s, {})
  BY PipesSame
<1>3. Session \subseteq Object /\ polled \subseteq Object /\ engine \subseteq Object
  BY SocketIn DEF Typed
<1>4. /\ \A o \in polled' : Alive(o)' /\ ~own'[o].terminating
      /\ \A s \in engine' : own'[s].life = "live"
  BY <1>3 DEF Links, SameAlive, SameShape
<1>5. \A p \in Pipe : psession'[p] # None => Made(psession[p])'
  <2> SUFFICES ASSUME NEW p \in Pipe, psession[p] # None PROVE own'[psession[p]].life # "none"
    BY DEF Made
  <2>1. psession[p] \in Object /\ own[psession[p]].life # "none"
    BY <1>3 DEF Typed, Links, Made
  <2> QED
    BY <2>1 DEF SameShape
<1>6. \A s \in Session : own'[s].terminating => OtherPipes(s, {})' = {}
  BY <1>1, <1>3 DEF Links, SameShape
<1>7. \A s \in pending' : OtherPipes(s, {})' # {}
  BY <1>1 DEF Links
<1>8. ASSUME NEW s \in Session, pipe'[s] # None
      PROVE  psession'[pipe'[s]] = s /\ pstate'[<<pipe'[s], "session">>] \notin {"none", "gone"}
  <2>1. pipe'[s] = pipe[s] /\ pipe[s] # None /\ pipe[s] \in Pipe
    BY <1>8 DEF Typed
  <2>2. psession[pipe[s]] = s /\ pstate[<<pipe[s], "session">>] \notin {"none", "gone"}
    BY <2>1 DEF Links
  <2> QED
    BY <2>1, <2>2 DEF SameEnds
<1>9. \A e \in endpoints' : e[2] # None => psession'[e[2]] # None
  BY DEF Links
<1> QED
  BY <1>4, <1>5, <1>6, <1>7, <1>8, <1>9 DEF Links

\* the awaited acknowledgements,
LEMMA PipeAwaited ==
    ASSUME Awaited, SameAlive, SameShape, closed' = closed, SameEnds, psession' = psession,
           \A x \in Object : /\ own'[x].term_acks = own[x].term_acks
                             /\ Owns(x)' = Owns(x) /\ Acks(x)' = Acks(x)
    PROVE  Awaited'
<1>1. \A o \in Object : Kids(o)' = Kids(o)
  BY KidsFrame
<1>2. \A o \in Object : AwaitedPipes(o)' = AwaitedPipes(o)
  BY PipesSame DEF AwaitedPipes
<1> QED
  BY <1>1, <1>2 DEF Awaited

\* and what is gone.
LEMMA PipeGone ==
    ASSUME Gone, SameAlive, SameShape, SameEnds,
           \A x \in Object : Made(x) /\ ~Alive(x) => own'[x].term_acks = own[x].term_acks
    PROVE  Gone'
<1> SUFFICES ASSUME NEW o \in Object, Made(o)', ~Alive(o)' PROVE GoneOK(o)'
  BY DEF Gone
<1>1. GoneOK(o) /\ own'[o].term_acks = own[o].term_acks
  BY DEF Gone, SameAlive, SameShape, Made
<1>2. own'[o].terminating /\ own'[o].term_acks = 0
  BY <1>1 DEF GoneOK, SameShape
<1>3. \A c \in Object : own'[c].owner = o => ~Alive(c)'
  BY <1>1 DEF GoneOK, SameShape, SameAlive
<1>4. o = Socket => \A p \in Pipe : pstate'[<<p, "socket">>] \in {"none", "gone"}
  BY <1>1 DEF GoneOK, SameEnds
<1> QED
  BY <1>2, <1>3, <1>4 DEF GoneOK

\* Everything but the states of the pipes, when no object changes.
LEMMA QuietTurn ==
    ASSUME IInv, NEW o, NEW steps, Turn(o, steps), NEW T, T \subseteq PipeMove \cup {"term_req"},
           Plain(steps), Only(steps, T), (Takes(o) /\ Msg(o).type \in T) \/ mailbox' = mailbox,
           UNCHANGED <<own, polled, pending, psession, closed, immediate>>,
           SameEnds, pstate' \in [Pipe \X {"socket", "session"} -> PState],
           pipe' \in [Session -> Pipe \cup {None}], \A s \in Session : pipe'[s] \in {None, pipe[s]},
           engine' \subseteq engine, endpoints' \subseteq endpoints, failed' = {},
           closed => \A p \in Pipe : pstate'[<<p, "socket">>] \notin {"active", "waiting_for_delimiter"},
           StepsOK(steps, Tid[o]), InOrder(steps), Pipes'
    PROVE  IInv'
<1>0. /\ Typed /\ Tree /\ Links /\ Seqnums /\ Commands /\ Todo /\ Children /\ Awaited
      /\ Gone /\ Checked /\ Engines /\ PlugFirst /\ Order /\ Requests /\ QType
  BY DEF IInv, Typed
<1>1. SameShape /\ SameAlive /\ Grows
  <2>1. SameShape
    BY DEF SameShape
  <2>2. SameAlive
    BY TurnAlive DEF SameAlive, Alive
  <2> QED
    BY <2>1, <2>2, SameGrows
<1>2. SameCounts(T)
  BY QuietCounts
<1>3. \A x : Plugs(x)' = Plugs(x) /\ Attaches(x)' = Attaches(x) /\ Owns(x)' = Owns(x) /\ Terms(x)' = Terms(x) /\ Acks(x)' = Acks(x)
  BY <1>2 DEF SameCounts, PipeMove
<1>4. QType'
  <2>1. CASE Takes(o)
    BY <2>1, HandledFlight DEF Turn
  <2>2. CASE mailbox' = mailbox
    BY <2>2, ActsFlight DEF Turn
  <2> QED
    BY <2>1, <2>2
<1>5. Typed'
  BY <1>0, <1>4 DEF Typed
<1>6. Tree'
  BY <1>0, <1>1, TreeFrame
<1>7. Links'
  BY <1>0, <1>1, PipeLinks
<1>8. Seqnums'
  <2>1. Balanced(steps)
    BY PlainBalanced DEF Turn
  <2>2. own \in [Object -> OwnRecord] /\ own' \in [Object -> OwnRecord]
    BY <1>0 DEF Typed
  <2>3. \A x \in Object : own[x].processed_seqnum \in Nat
    BY <2>2 DEF OwnRecord
  <2>4. CASE mailbox' = mailbox
    BY <1>0, <2>1, <2>2, <2>4, ActsSeqnums
  <2>5. CASE Takes(o) /\ Msg(o).type \in T
    <3>1. \A x : Msg(o) \notin SeqTo(x)
      BY <2>5 DEF SeqTo, SeqCommand, PipeMove
    <3>2. \A x \in Object : /\ own'[x].sent_seqnum = own[x].sent_seqnum
                            /\ own'[x].processed_seqnum = own[x].processed_seqnum + B(Msg(o) \in SeqTo(x))
      BY <2>3, <3>1 DEF B
    <3> QED
      BY <1>0, <2>1, <2>2, <2>5, <3>2, HandledSeqnums
  <2> QED
    BY <2>4, <2>5
<1>9. Commands' /\ Todo'
  <2>1. StepsOK(steps, Tid[o])'
    BY <1>1, StepsFrame DEF Turn
  <2> QED
    BY <1>0, <1>1, <2>1, TurnCommands
<1>10. Children'
  BY <1>0, <1>1, <1>3, ChildrenFrame
<1>11. Awaited'
  BY <1>0, <1>1, <1>3, PipeAwaited
<1>12. Gone'
  BY <1>0, <1>1, PipeGone
<1>13. Checked'
  <2>1. \A x \in Object : Alive(x)' /\ CanGo(own'[x]) =>
               \/ Alive(x) /\ CanGo(own[x])
               \/ x = o /\ check_acks(o) \in Range(steps)
    BY <1>1 DEF SameAlive
  <2> QED
    BY <1>0, <2>1, TurnChecked
<1>14. Engines'
  <2>1. \A c \in Connecter : Active(c) => own[c].owner \in Object
    BY ActiveOwner, SocketIn
  <2>2. \A c \in Connecter : own'[c].owner = own[c].owner
    OBVIOUS
  <2>3. \A x \in Object : Plugs(x)' <= Plugs(x) /\ Attaches(x)' <= Attaches(x)
    BY <1>0, <1>3, CountsType
  <2> QED
    BY <1>0, <1>4, <2>1, <2>2, <2>3, EnginesLess
<1>15. PlugFirst'
  BY <1>0, <1>1, <1>3, PlugFrame
<1>16. Order' /\ Requests'
  BY <1>0, <1>1, TurnOrder, TurnRequests
<1> QED
  BY <1>5, <1>6, <1>7, <1>8, <1>9, <1>10, <1>11, <1>12, <1>13, <1>14, <1>15, <1>16 DEF IInv

\* A turn about pipes preserves all but the pipes and the links.
LEMMA PipeTurn ==
    ASSUME IInv, NEW o, NEW steps, Turn(o, steps), Plain(steps), Only(steps, PipeMove),
           (Takes(o) /\ Msg(o).type \in PipeMove) \/ mailbox' = mailbox,
           UNCHANGED <<own, polled, pending, psession, closed, immediate>>,
           SameEnds, pstate' \in [Pipe \X {"socket", "session"} -> PState],
           pipe' \in [Session -> Pipe \cup {None}], \A s \in Session : pipe'[s] \in {None, pipe[s]},
           engine' \subseteq engine, endpoints' \subseteq endpoints, failed' = {},
           closed => \A p \in Pipe : pstate'[<<p, "socket">>] \notin {"active", "waiting_for_delimiter"},
           StepsOK(steps, Tid[o]), InOrder(steps), Pipes'
    PROVE  IInv'
<1>1. PipeMove \subseteq PipeMove \cup {"term_req"}
  OBVIOUS
<1> QED
  BY <1>1, QuietTurn
-----------------------------------------------------------------------------
(* Commands about one pipe *)

End == {"socket", "session"}

\* The object at an end that is not gone is alive.
LEMMA EndAlive ==
    ASSUME IInv, NEW p \in Pipe, NEW x \in End, pstate[<<p, x>>] \notin {"none", "gone"}
    PROVE  /\ psession[p] \in Session /\ Sink(p, x) \in Object /\ Alive(Sink(p, x))
           /\ (Sink(p, x) = Socket <=> x = "socket") /\ Side(Sink(p, x)) = x
<1>0. Typed /\ Links /\ Gone /\ Pipes /\ Tree
  BY DEF IInv
<1>1. psession[p] # None
  <2>1. PipeOK(p)
    BY <1>0 DEF Pipes
  <2>2. pstate[<<p, "session">>] # "none"
    <3>1. CASE x = "session"
      BY <3>1
    <3>2. CASE x = "socket"
      BY <2>1, <3>2 DEF PipeOK, Joint
    <3> QED
      BY <3>1, <3>2 DEF End
  <2> QED
    BY <2>1, <2>2 DEF PipeOK
<1>2. psession[p] \in Session
  BY <1>0, <1>1 DEF Typed
<1>3. psession[p] # Socket /\ psession[p] \in Object
  BY <1>2, SocketIn, OwnAssumption
<1>4. CASE x = "socket"
  <2>1. Sink(p, x) = Socket /\ Socket \in Object
    BY <1>4, SocketIn DEF Sink
  <2>2. Made(Socket)
    BY <1>0 DEF Tree
  <2>3. ~(\A q \in Pipe : pstate[<<q, "socket">>] \in {"none", "gone"})
    BY <1>4
  <2>4. Alive(Socket)
    BY <1>0, <2>1, <2>2, <2>3 DEF Gone, GoneOK
  <2> QED
    BY <1>2, <1>4, <2>1, <2>4 DEF Side
<1>5. CASE x = "session"
  <2>1. Sink(p, x) = psession[p]
    BY <1>5 DEF Sink
  <2>2. Made(psession[p])
    BY <1>0, <1>1 DEF Links
  <2>3. p \in OtherPipes(psession[p], {})
    BY <1>5 DEF OtherPipes
  <2>4. ~own[psession[p]].terminating
    BY <1>0, <1>2, <2>3 DEF Links
  <2>5. Alive(psession[p])
    BY <1>0, <1>3, <2>2, <2>4 DEF Gone, GoneOK
  <2> QED
    BY <1>2, <1>3, <1>5, <2>1, <2>5 DEF Side
<1> QED
  BY <1>4, <1>5 DEF End

\* The two ends of a pipe.
LEMMA PeerFacts ==
    /\ \A x \in End : Peer(x) \in End /\ Peer(Peer(x)) = x /\ Peer(x) # x
    /\ Peer("socket") = "session" /\ Peer("session") = "socket"
BY DEF Peer, End

\* The types of the commands about pipes.
LEMMA PipeTypes ==
    /\ PipeCommand \subseteq CommandType /\ "hiccup" \notin SeqCommand
    /\ "pipe_term" \notin SeqCommand /\ "pipe_term_ack" \notin SeqCommand
    /\ PipeMove \subseteq CommandType /\ Pipe \subseteq Arg
BY DEF PipeCommand, CommandType, SeqCommand, PipeMove, Arg

\* A command to the other end of a pipe is a quiet list of steps.
LEMMA TellFacts ==
    ASSUME NEW p \in Pipe, psession[p] \in Session, NEW x \in End,
           NEW type \in {"pipe_term", "pipe_term_ack"}, Alive(Sink(p, Peer(x)))
    PROVE  LET s == Tell(p, x, type)
           IN /\ s \in Seq(Work) /\ NoDelete(s) /\ Plain(s) /\ NoInc(s) /\ NoCheck(s) /\ Only(s, PipeMove)
              /\ type = "pipe_term_ack" => Answers(s) /\ Calm(s)
              /\ StepsOK(s, Tid[Sink(p, x)])
              /\ \A q \in Pipe : \A y \in End : \A ty :
                    SeqCount(s, Sends(ToEnd(q, y, ty))) = B(q = p /\ y = Peer(x) /\ ty = type)
              /\ \A a, ty : SeqCount(s, Sends(About(a, ty))) = B(a = p /\ ty = type)
              /\ DOMAIN s = {1} /\ s[1].op = "send" /\ s[1].to = Sink(p, Peer(x)) /\ s[1].type = type /\ s[1].arg = p
<1> DEFINE o == Sink(p, Peer(x))
           s == <<send_command(o, type, p)>>
<1>1. psession[p] \in Object /\ psession[p] # Socket /\ psession[p] # None
  BY SocketIn, OwnAssumption
<1>2. /\ o \in Object /\ (o = Socket <=> Peer(x) = "socket") /\ (o = Socket \/ o = psession[p])
      /\ Tid[Sink(p, x)] = Tid[IF o = Socket THEN psession[p] ELSE Socket]
  BY <1>1, SocketIn DEF Sink, Peer, End
<1>3. type \in CommandType \ SeqCommand /\ type \in PipeMove /\ p \in Arg
  BY PipeTypes DEF PipeMove, PipeCommand
<1>4. Tell(p, x, type) = s
  BY DEF Tell
<1>5. Alive(o)
  OBVIOUS
<1> HIDE DEF o
<1>6. /\ s \in Seq(Work) /\ NoDelete(s) /\ Plain(s) /\ NoInc(s) /\ NoCheck(s)
      /\ \A T : type \in T => Only(s, T)
      /\ type \notin {"bind", "hiccup", "pipe_term"} => Calm(s)
      /\ type = "pipe_term_ack" => Answers(s)
      /\ \A D : SeqCount(s, Sends(D)) = B(Com(o, type, p) \in D)
      /\ DOMAIN s = {1} /\ s[1].op = "send" /\ s[1].to = o /\ s[1].type = type /\ s[1].arg = p /\ s[1].inc = 0
      /\ \A t : SendOK(s, 1, t) => StepsOK(s, t)
  BY <1>2, <1>3, OneSend
<1> HIDE DEF s
<1>7. SendOK(s, 1, Tid[Sink(p, x)])
  <2>1. CommandOK(Com(o, type, p), Tid[o])
    BY <1>1, <1>2, <1>5 DEF CommandOK, Com
  <2> QED
    BY <1>2, <1>6, <2>1 DEF SendOK
<1>8. ASSUME NEW q \in Pipe, NEW y \in End, NEW ty
      PROVE  SeqCount(s, Sends(ToEnd(q, y, ty))) = B(q = p /\ y = Peer(x) /\ ty = type)
  <2>1. Com(o, type, p) \in ToEnd(q, y, ty) <=> p = q /\ ty = type /\ (o = Socket <=> y = "socket")
    BY <1>2, <1>3, ComIn
  <2>2. (o = Socket <=> y = "socket") <=> y = Peer(x)
    BY <1>2, PeerFacts DEF End
  <2> QED
    BY <1>6, <2>1, <2>2 DEF B
<1>9. ASSUME NEW a, NEW ty
      PROVE  SeqCount(s, Sends(About(a, ty))) = B(a = p /\ ty = type)
  <2>1. Com(o, type, p) \in About(a, ty) <=> a = p /\ ty = type
    BY <1>2, <1>3, ComIn
  <2> QED
    BY <1>6, <2>1 DEF B
<1>10. Only(s, PipeMove) /\ StepsOK(s, Tid[Sink(p, x)])
  BY <1>3, <1>6, <1>7
<1> QED
  BY <1>4, <1>6, <1>8, <1>9, <1>10 DEF o

\* A pipe_term may follow anything but the peer's last answer.
LEMMA TellOrder ==
    ASSUME QType, NEW p \in Pipe, psession[p] \in Session, NEW x \in End,
           PA(p, Peer(x)) = 0, NEW s, DOMAIN s = {1}, s[1].op = "send",
           s[1].to = Sink(p, Peer(x)), s[1].type = "pipe_term", s[1].arg = p
    PROVE  InOrder(s)
<1> DEFINE o == Sink(p, Peer(x))
<1>1. psession[p] \in Object /\ psession[p] # Socket
  BY SocketIn, OwnAssumption
<1>2. o \in Object /\ (o = Socket <=> Peer(x) = "socket") /\ Tid[o] \in Thread
  BY <1>1, SocketIn, ThreadFacts DEF Sink, Peer, End
<1> HIDE DEF o
<1>3. ASSUME NEW j \in DOMAIN mailbox[Tid[o]] PROVE Sorted(mailbox[Tid[o]][j], s[1])
  <2> DEFINE m == mailbox[Tid[o]][j]
  <2>1. m \in Cmd
    BY <1>2, ElementOfSeq, LenProperties DEF QType
  <2>2. ~(m.to = o /\ m.arg = p /\ m.type = "pipe_term_ack")
    <3>1. SUFFICES ASSUME m.to = o /\ m.arg = p /\ m.type = "pipe_term_ack" PROVE FALSE
      OBVIOUS
    <3>2. m \in ToEnd(p, Peer(x), "pipe_term_ack")
      BY <1>2, <2>1, <3>1 DEF ToEnd
    <3>3. PA(p, Peer(x)) >= 1
      BY <1>2, <3>2, WaitingInFlight DEF PA
    <3> QED
      BY <3>3
  <2> QED
    BY <2>2 DEF Sorted, Rank, PipeCommand, o
<1> QED
  BY <1>3 DEF InOrder, o

\* What is at the head of a mailbox was overtaken by nothing.
LEMMA HeadFirst ==
    ASSUME QType, Order, Commands, Todo, NEW o \in Object, NEW type \in PipeCommand, Handles(o, type),
           NEW p, arg(o) = p,
           NEW D, \A m \in D : m.arg = p /\ m.type \in PipeCommand /\ Rank(m.type) < Rank(type),
           \A m \in D : \A t : CommandOK(m, t) => m.to = o
    PROVE  Flight(D) = 0
<1>1. mailbox[Tid[o]] \in Seq(Cmd) /\ mailbox[Tid[o]] # <<>> /\ Tid[o] \in Thread
  BY ThreadFacts DEF QType, Handles
<1>2. 1 \in DOMAIN mailbox[Tid[o]] /\ Head(mailbox[Tid[o]]) = mailbox[Tid[o]][1] /\ Len(mailbox[Tid[o]]) \in Nat
      /\ DOMAIN mailbox[Tid[o]] = 1..Len(mailbox[Tid[o]])
  BY <1>1
<1>6. mailbox[Tid[o]][1].to = o /\ mailbox[Tid[o]][1].type = type /\ mailbox[Tid[o]][1].arg = p
  BY <1>2 DEF Handles, arg
<1>3. \A ty \in PipeCommand : Rank(ty) \in Nat
  BY DEF Rank, PipeCommand
<1>4. ASSUME NEW t \in Thread, NEW i \in DOMAIN mailbox[t], mailbox[t][i] \in D PROVE FALSE
  <2>0. CommandOK(mailbox[t][i], t)
    BY DEF Commands
  <2>1. /\ mailbox[t][i].to = o /\ mailbox[t][i].arg = p /\ mailbox[t][i].type \in PipeCommand
        /\ Rank(mailbox[t][i].type) < Rank(type) /\ t = Tid[o]
    BY <1>4, <2>0 DEF CommandOK
  <2>2. i # 1
    BY <1>3, <1>6, <2>1
  <2>3. 1 < i
    BY <1>2, <2>1, <2>2
  <2>4. Sorted(mailbox[t][1], mailbox[t][i])
    BY <1>2, <2>1, <2>3 DEF Order
  <2>5. Rank(type) <= Rank(mailbox[t][i].type)
    BY <1>6, <2>1, <2>4 DEF Sorted
  <2> QED
    BY <1>3, <2>1, <2>5
<1>5. ASSUME NEW t \in Thread, NEW i \in DOMAIN todo[t], todo[t][i] \in Sends(D) PROVE FALSE
  <2> DEFINE st == todo[t][i]
  <2>0. st.op = "send" /\ Com(st.to, st.type, st.arg) \in D
    BY <1>5 DEF Sends, SendStep
  <2>3. CommandOK(Com(st.to, st.type, st.arg), Tid[st.to])
    BY <2>0 DEF Todo, StepsOK, StepOK, SendOK
  <2>1. /\ st.to = o /\ st.arg = p /\ st.type \in PipeCommand
        /\ Rank(st.type) < Rank(type)
    BY <2>0, <2>3 DEF Com
  <2>2. Sorted(mailbox[Tid[o]][1], st)
    BY <1>2, <2>0, <2>1 DEF Order
  <2>4. Rank(type) <= Rank(st.type)
    BY <1>6, <2>1, <2>2 DEF Sorted
  <2> QED
    BY <1>3, <2>1, <2>4
<1> QED
  BY <1>4, <1>5, FlightZero

\* What is known of the command a handler finds.
LEMMA HeadOK ==
    ASSUME NEW o \in Object, NEW type \in CommandType, Handles(o, type), QType, Commands
    PROVE  /\ CommandOK(Com(o, type, arg(o)), Tid[o]) /\ arg(o) \in Arg
           /\ \A D : Com(o, type, arg(o)) \in D => Flight(D) >= 1
<1>1. mailbox[Tid[o]] \in Seq(Cmd) /\ mailbox[Tid[o]] # <<>> /\ Tid[o] \in Thread
  BY ThreadFacts DEF QType, Handles
<1> DEFINE m == mailbox[Tid[o]][1]
<1>2. 1 \in DOMAIN mailbox[Tid[o]] /\ Head(mailbox[Tid[o]]) = m /\ m \in Cmd
  BY <1>1
<1>3. m = Com(o, type, arg(o)) /\ arg(o) \in Arg
  BY <1>2 DEF Handles, arg, Cmd, Com
<1>4. CommandOK(m, Tid[o])
  BY <1>1, <1>2 DEF Commands
<1>5. \A D : m \in D => Flight(D) >= 1
  BY <1>1, <1>2, WaitingInFlight
<1> HIDE DEF m
<1> QED
  BY <1>3, <1>4, <1>5

\* Calm steps are in order.
LEMMA CalmInOrder ==
    ASSUME NEW steps, Calm(steps)
    PROVE  InOrder(steps)
<1>1. \A m : \A n : n.type \notin {"bind", "hiccup", "pipe_term"} => Sorted(m, n)
  BY DEF Sorted, Rank, PipeCommand
<1> QED
  BY <1>1 DEF InOrder, Calm

\* The numbers of the commands about pipes after a turn.
LEMMA HandledPipe ==
    ASSUME NEW o, NEW steps, Turn(o, steps), Takes(o), NEW p \in Pipe, NEW type \in CommandType, Msg(o) = Com(o, type, p)
    PROVE  /\ \A q \in Pipe : \A y \in End : \A ty :
                 Flight(ToEnd(q, y, ty))' = (Flight(ToEnd(q, y, ty)) - B(q = p /\ y = Side(o) /\ ty = type))
                                            + SeqCount(steps, Sends(ToEnd(q, y, ty)))
           /\ \A q \in Pipe : \A ty :
                 Flight(About(q, ty))' = (Flight(About(q, ty)) - B(q = p /\ ty = type))
                                          + SeqCount(steps, Sends(About(q, ty)))
<1>0. o \in Object /\ p \in Arg /\ QType /\ steps \in Seq(Work) /\ Plans(o, steps)
  BY DEF Turn, Arg
<1>1. ASSUME NEW q \in Pipe, NEW y \in End, NEW ty
      PROVE  Flight(ToEnd(q, y, ty))' = (Flight(ToEnd(q, y, ty)) - B(q = p /\ y = Side(o) /\ ty = type))
                                            + SeqCount(steps, Sends(ToEnd(q, y, ty)))
  <2>1. Flight(ToEnd(q, y, ty))' = (Flight(ToEnd(q, y, ty)) - B(Msg(o) \in ToEnd(q, y, ty)))
                                            + SeqCount(steps, Sends(ToEnd(q, y, ty)))
    BY <1>0, HandledFlight
  <2>2. Msg(o) \in ToEnd(q, y, ty) <=> p = q /\ ty = type /\ (o = Socket <=> y = "socket")
    BY <1>0, ComIn
  <2>3. (o = Socket <=> y = "socket") <=> y = Side(o)
    BY DEF End, Side
  <2> QED
    BY <2>1, <2>2, <2>3 DEF B
<1>2. ASSUME NEW q \in Pipe, NEW ty
      PROVE  Flight(About(q, ty))' = (Flight(About(q, ty)) - B(q = p /\ ty = type))
                                            + SeqCount(steps, Sends(About(q, ty)))
  <2>1. Flight(About(q, ty))' = (Flight(About(q, ty)) - B(Msg(o) \in About(q, ty)))
                                            + SeqCount(steps, Sends(About(q, ty)))
    BY <1>0, HandledFlight
  <2>2. Msg(o) \in About(q, ty) <=> p = q /\ ty = type
    BY <1>0, ComIn
  <2> QED
    BY <2>1, <2>2 DEF B
<1> QED
  BY <1>1, <1>2

\* A pipe about which nothing happens.
LEMMA OtherPipe ==
    ASSUME NEW q \in Pipe, PipeOK(q), psession'[q] = psession[q],
           \A y \in End : pstate'[<<q, y>>] = pstate[<<q, y>>],
           Binds(q)' = Binds(q), Hiccups(q)' = Hiccups(q),
           \A y \in End : PT(q, y)' = PT(q, y) /\ PA(q, y)' = PA(q, y)
    PROVE  PipeOK(q)'
BY DEF PipeOK, End
-----------------------------------------------------------------------------
(* pipe_term *)

\* All the numbers of a pipe, after a turn that handles a command about p and
\* tells the other end at most.
Told(steps, p, x, n, type) ==
    /\ \A q \in Pipe : \A y \in End : \A ty \in PipeCommand :
          SeqCount(steps, Sends(ToEnd(q, y, ty))) = IF q = p /\ y = x /\ ty = type THEN n ELSE 0
    /\ \A a : \A ty \in PipeCommand : SeqCount(steps, Sends(About(a, ty))) = IF a = p /\ ty = type THEN n ELSE 0

\* The numbers of a pipe when one end takes a command and tells the other something.
LEMMA HandledTold ==
    ASSUME NEW o, NEW steps, Turn(o, steps), Takes(o), NEW p \in Pipe, NEW tin \in PipeCommand,
           Msg(o) = Com(o, tin, p), NEW x \in End, x = Side(o), NEW n \in {0, 1}, NEW tout \in {"pipe_term", "pipe_term_ack"},
           Told(steps, p, Peer(x), n, tout)
    PROVE  /\ \A q \in Pipe : q # p =>
                /\ Binds(q)' = Binds(q) /\ Hiccups(q)' = Hiccups(q)
                /\ \A y \in End : PT(q, y)' = PT(q, y) /\ PA(q, y)' = PA(q, y)
           /\ Binds(p)' = Binds(p) - (IF tin = "bind" THEN 1 ELSE 0)
           /\ Hiccups(p)' = Hiccups(p) - (IF tin = "hiccup" THEN 1 ELSE 0)
           /\ PT(p, x)' = PT(p, x) - (IF tin = "pipe_term" THEN 1 ELSE 0)
           /\ PA(p, x)' = PA(p, x) - (IF tin = "pipe_term_ack" THEN 1 ELSE 0)
           /\ PT(p, Peer(x))' = PT(p, Peer(x)) + (IF tout = "pipe_term" THEN n ELSE 0)
           /\ PA(p, Peer(x))' = PA(p, Peer(x)) + (IF tout = "pipe_term_ack" THEN n ELSE 0)
<1>0. tin \in CommandType /\ Peer(x) \in End /\ Peer(x) # x
  BY PipeTypes, PeerFacts
<1>1. /\ \A q \in Pipe : \A y \in End : \A ty :
                 Flight(ToEnd(q, y, ty))' = (Flight(ToEnd(q, y, ty)) - B(q = p /\ y = Side(o) /\ ty = tin))
                                            + SeqCount(steps, Sends(ToEnd(q, y, ty)))
      /\ \A q \in Pipe : \A ty :
                 Flight(About(q, ty))' = (Flight(About(q, ty)) - B(q = p /\ ty = tin))
                                          + SeqCount(steps, Sends(About(q, ty)))
  BY <1>0, HandledPipe
<1>2. \A D : Flight(D) \in Nat
  BY FlightType DEF Turn
<1>3. \A q \in Pipe : \A y \in End : \A ty \in PipeCommand :
         Flight(ToEnd(q, y, ty))' = (Flight(ToEnd(q, y, ty)) - (IF q = p /\ y = x /\ ty = tin THEN 1 ELSE 0))
                                    + (IF q = p /\ y = Peer(x) /\ ty = tout THEN n ELSE 0)
  BY <1>1 DEF Told, B
<1>4. \A q \in Pipe : \A ty \in PipeCommand :
         Flight(About(q, ty))' = (Flight(About(q, ty)) - (IF q = p /\ ty = tin THEN 1 ELSE 0))
                                    + (IF q = p /\ ty = tout THEN n ELSE 0)
  BY <1>1 DEF Told, B
<1>5. \A q \in Pipe : q # p =>
                /\ Binds(q)' = Binds(q) /\ Hiccups(q)' = Hiccups(q)
                /\ \A y \in End : PT(q, y)' = PT(q, y) /\ PA(q, y)' = PA(q, y)
  BY <1>2, <1>3, <1>4 DEF Binds, Hiccups, PT, PA, PipeCommand
<1>6. /\ Binds(p)' = Binds(p) - (IF tin = "bind" THEN 1 ELSE 0)
      /\ Hiccups(p)' = Hiccups(p) - (IF tin = "hiccup" THEN 1 ELSE 0)
  BY <1>2, <1>4 DEF Binds, Hiccups, PipeCommand
<1>7. /\ PT(p, x)' = PT(p, x) - (IF tin = "pipe_term" THEN 1 ELSE 0)
      /\ PA(p, x)' = PA(p, x) - (IF tin = "pipe_term_ack" THEN 1 ELSE 0)
  BY <1>0, <1>2, <1>3 DEF PT, PA, PipeCommand
<1>8. /\ PT(p, Peer(x))' = PT(p, Peer(x)) + (IF tout = "pipe_term" THEN n ELSE 0)
      /\ PA(p, Peer(x))' = PA(p, Peer(x)) + (IF tout = "pipe_term_ack" THEN n ELSE 0)
  BY <1>0, <1>2, <1>3 DEF PT, PA, PipeCommand
<1> QED
  BY <1>5, <1>6, <1>7, <1>8

\* What it means to tell the other end nothing, or one thing.
LEMMA ToldFacts ==
    ASSUME NEW p \in Pipe, NEW x \in End, NEW type
    PROVE  /\ Told(<<>>, p, x, 0, type)
           /\ \A s : (/\ \A q \in Pipe : \A y \in End : \A ty :
                            SeqCount(s, Sends(ToEnd(q, y, ty))) = B(q = p /\ y = x /\ ty = type)
                      /\ \A a, ty : SeqCount(s, Sends(About(a, ty))) = B(a = p /\ ty = type))
                     => Told(s, p, x, 1, type)
<1>1. Told(<<>>, p, x, 0, type)
  BY NoSteps DEF Told
<1> QED
  BY <1>1 DEF Told, B

\* Who gets a command about a pipe.
LEMMA PipeTargets ==
    ASSUME Typed, Commands, NEW o \in Object, NEW type \in PipeCommand, Handles(o, type), NEW p, p = arg(o)
    PROVE  /\ p \in Pipe /\ psession[p] \in Session /\ Side(o) \in End /\ Sink(p, Side(o)) = o
           /\ Alive(o) /\ Com(o, type, p) \in ToEnd(p, Side(o), type) /\ (type = "bind" \/ type = "hiccup" => o = Socket)
           /\ Flight(ToEnd(p, Side(o), type)) >= 1 /\ Flight(About(p, type)) >= 1
           /\ o = Socket \/ o = psession[p]
<1>0. type \in CommandType /\ QType
  BY PipeTypes DEF Typed
<1>1. /\ CommandOK(Com(o, type, arg(o)), Tid[o]) /\ arg(o) \in Arg
      /\ \A D : Com(o, type, arg(o)) \in D => Flight(D) >= 1
  BY <1>0, HeadOK
<1>2. /\ p \in Pipe /\ psession[p] # None /\ o \in {Socket, psession[p]} /\ Alive(o)
      /\ (type = "bind" \/ type = "hiccup" => o = Socket)
  BY <1>1 DEF CommandOK, Com, PipeCommand
<1>3. psession[p] \in Session
  BY <1>2 DEF Typed
<1>4. Side(o) \in End /\ (o = Socket <=> Side(o) = "socket")
  BY DEF Side, End
<1>5. Sink(p, Side(o)) = o
  BY <1>2, <1>4 DEF Sink
<1>6. /\ Com(o, type, p) \in ToEnd(p, Side(o), type)
      /\ Com(o, type, p) \in About(p, type)
  BY <1>0, <1>1, <1>4, ComIn
<1> QED
  BY <1>1, <1>2, <1>3, <1>4, <1>5, <1>6

\* Nothing of a lower rank is left behind the head.
LEMMA NoBind ==
    ASSUME Typed, Order, Commands, Todo, NEW type \in PipeMove, Handles(Socket, type), NEW p, p = arg(Socket)
    PROVE  /\ Binds(p) = 0
           /\ type # "hiccup" => Hiccups(p) = 0
           /\ type = "pipe_term_ack" => PT(p, "socket") = 0
<1>0. Socket \in Object /\ QType /\ type \in PipeCommand
  BY SocketIn DEF Typed, PipeMove, PipeCommand
<1>1. /\ Rank("bind") = 0 /\ Rank("hiccup") = 1 /\ Rank("pipe_term") = 2 /\ Rank("pipe_term_ack") = 3
  BY DEF Rank
<1>2. ASSUME NEW ty \in {"bind", "hiccup"}, Rank(ty) < Rank(type) PROVE Flight(About(p, ty)) = 0
  <2>1. \A m \in About(p, ty) : m.arg = p /\ m.type \in PipeCommand /\ Rank(m.type) < Rank(type)
    BY <1>2 DEF About, PipeCommand
  <2>2. \A m \in About(p, ty) : \A t : CommandOK(m, t) => m.to = Socket
    BY DEF About, CommandOK
  <2> QED
    BY <1>0, <2>1, <2>2, HeadFirst
<1>3. Binds(p) = 0
  BY <1>1, <1>2 DEF Binds, PipeMove
<1>4. type # "hiccup" => Hiccups(p) = 0
  BY <1>1, <1>2 DEF Hiccups, PipeMove
<1>5. type = "pipe_term_ack" => PT(p, "socket") = 0
  <2> SUFFICES ASSUME type = "pipe_term_ack" PROVE PT(p, "socket") = 0
    OBVIOUS
  <2> DEFINE D == ToEnd(p, "socket", "pipe_term")
  <2>1. \A m \in D : m.arg = p /\ m.type \in PipeCommand /\ Rank(m.type) < Rank(type)
    BY <1>1 DEF ToEnd, PipeCommand
  <2>2. \A m \in D : \A t : CommandOK(m, t) => m.to = Socket
    BY DEF ToEnd, CommandOK
  <2> HIDE DEF D
  <2>3. Flight(D) = 0
    BY <1>0, <2>1, <2>2, HeadFirst
  <2> QED
    BY <2>3 DEF D, PT
<1> QED
  BY <1>3, <1>4, <1>5

\* process_pipe_term () preserves the invariant.
LEMMA PipeTermStep ==
    ASSUME IInv, NEW o \in Object, process_pipe_term(o)
    PROVE  IInv'
<1> SUFFICES ASSUME NEW p, NEW x, p = arg(o), x = Side(o) PROVE IInv'
  OBVIOUS
<1>0. /\ Typed /\ Links /\ Commands /\ Todo /\ Order /\ Pipes /\ QType /\ failed = {}
  BY DEF IInv, Typed
<1>1. Handles(o, "pipe_term") /\ "pipe_term" \in PipeCommand /\ "pipe_term" \in PipeMove
  BY DEF process_pipe_term, PipeCommand, PipeMove
<1>2. /\ p \in Pipe /\ psession[p] \in Session /\ x \in End /\ Sink(p, x) = o /\ Alive(o)
      /\ Flight(ToEnd(p, x, "pipe_term")) >= 1 /\ (o = Socket \/ o = psession[p])
  BY <1>0, <1>1, PipeTargets
<1>3. PT(p, x) >= 1 /\ PipeOK(p)
  BY <1>0, <1>2 DEF PT, Pipes
<1>4. x = "socket" => o = Socket
  BY DEF Side
<1>5. x = "socket" => Binds(p) = 0 /\ Hiccups(p) = 0
  <2> SUFFICES ASSUME x = "socket" PROVE Binds(p) = 0 /\ Hiccups(p) = 0
    OBVIOUS
  <2> QED
    BY <1>0, <1>1, <1>4, NoBind
<1>6. Peer(x) \in End /\ (x = "socket" <=> Peer(x) = "session")
  BY <1>2, PeerFacts DEF End
<1>7. pstate[<<p, x>>] \in {"active", "term_req_sent1"}
  BY <1>2, <1>3, <1>5 DEF PipeOK, Joint, End
<1>8. pstate[<<p, Peer(x)>>] \notin {"none", "gone", "unbound"}
  BY <1>2, <1>3, <1>5, <1>6, PeerFacts DEF PipeOK, Joint, End
<1>9. Alive(Sink(p, Peer(x)))
  BY <1>2, <1>6, <1>8, EndAlive
<1>10. failed' = {} /\ UNCHANGED <<own, polled, engine, pending, endpoints, closed, immediate, pipe, psession>>
  BY <1>0, <1>7 DEF process_pipe_term, zmq_assert, lvars, svars
<1>11. /\ Told(<<>>, p, Peer(x), 0, "pipe_term_ack")
       /\ Told(Tell(p, x, "pipe_term_ack"), p, Peer(x), 1, "pipe_term_ack")
  <2> DEFINE s == Tell(p, x, "pipe_term_ack")
  <2>1. /\ \A q \in Pipe : \A y \in End : \A ty :
                            SeqCount(s, Sends(ToEnd(q, y, ty))) = B(q = p /\ y = Peer(x) /\ ty = "pipe_term_ack")
        /\ \A a, ty : SeqCount(s, Sends(About(a, ty))) = B(a = p /\ ty = "pipe_term_ack")
    BY <1>2, <1>9, TellFacts
  <2> HIDE DEF s
  <2> QED
    BY <1>2, <1>6, <2>1, ToldFacts DEF s
<1>12. PICK st \in {"term_req_sent2", "term_ack_sent", "waiting_for_delimiter"}, n \in {0, 1} :
         /\ pstate' = [pstate EXCEPT ![<<p, x>>] = st]
         /\ IF n = 1 THEN Handled(o, Tell(p, x, "pipe_term_ack")) ELSE Handled(o, <<>>)
         /\ (st = "term_req_sent2" <=> pstate[<<p, x>>] = "term_req_sent1")
         /\ (n = 0 <=> st = "waiting_for_delimiter")
  <2>1. CASE pstate[<<p, x>>] = "term_req_sent1"
    <3>1. pstate' = [pstate EXCEPT ![<<p, x>>] = "term_req_sent2"] /\ Handled(o, Tell(p, x, "pipe_term_ack"))
      BY <2>1 DEF process_pipe_term
    <3> QED
      BY <2>1, <3>1
  <2>2. CASE pstate[<<p, x>>] # "term_req_sent1"
    <3>1. \/ /\ pstate' = [pstate EXCEPT ![<<p, x>>] = "term_ack_sent"]
             /\ Handled(o, Tell(p, x, "pipe_term_ack"))
          \/ /\ pstate' = [pstate EXCEPT ![<<p, x>>] = "waiting_for_delimiter"]
             /\ Handled(o, <<>>)
      BY <2>2 DEF process_pipe_term
    <3> QED
      BY <2>2, <3>1
  <2> QED
    BY <2>1, <2>2
<1> DEFINE steps == IF n = 1 THEN Tell(p, x, "pipe_term_ack") ELSE <<>>
<1>13. /\ steps \in Seq(Work) /\ NoDelete(steps) /\ Plain(steps) /\ Only(steps, PipeMove) /\ Calm(steps)
       /\ StepsOK(steps, Tid[o])
  BY <1>2, <1>9, TellFacts, NoSteps
<1>14. Told(steps, p, Peer(x), n, "pipe_term_ack") /\ Handled(o, steps)
  BY <1>11, <1>12
<1> HIDE DEF steps
<1>15. /\ Turn(o, steps) /\ Takes(o) /\ Msg(o) = Com(o, "pipe_term", p)
  BY <1>0, <1>1, <1>13, <1>14, PipeTypes, HandlerTurn
<1>16. /\ \A q \in Pipe : q # p =>
                /\ Binds(q)' = Binds(q) /\ Hiccups(q)' = Hiccups(q)
                /\ \A y \in End : PT(q, y)' = PT(q, y) /\ PA(q, y)' = PA(q, y)
       /\ Binds(p)' = Binds(p) /\ Hiccups(p)' = Hiccups(p)
       /\ PT(p, x)' = PT(p, x) - 1 /\ PA(p, x)' = PA(p, x)
       /\ PT(p, Peer(x))' = PT(p, Peer(x)) /\ PA(p, Peer(x))' = PA(p, Peer(x)) + n
  <2> SUFFICES ASSUME NEW tin \in PipeCommand, NEW tout \in {"pipe_term", "pipe_term_ack"}, tin = "pipe_term", tout = "pipe_term_ack"
               PROVE  /\ \A q \in Pipe : q # p =>
                            /\ Binds(q)' = Binds(q) /\ Hiccups(q)' = Hiccups(q)
                            /\ \A y \in End : PT(q, y)' = PT(q, y) /\ PA(q, y)' = PA(q, y)
                      /\ Binds(p)' = Binds(p) /\ Hiccups(p)' = Hiccups(p)
                      /\ PT(p, x)' = PT(p, x) - 1 /\ PA(p, x)' = PA(p, x)
                      /\ PT(p, Peer(x))' = PT(p, Peer(x)) /\ PA(p, Peer(x))' = PA(p, Peer(x)) + n
    BY <1>1
  <2>1. Msg(o) = Com(o, tin, p) /\ Told(steps, p, Peer(x), n, tout)
    BY <1>14, <1>15
  <2>2. /\ \A q \in Pipe : q # p =>
                /\ Binds(q)' = Binds(q) /\ Hiccups(q)' = Hiccups(q)
                /\ \A y \in End : PT(q, y)' = PT(q, y) /\ PA(q, y)' = PA(q, y)
        /\ Binds(p)' = Binds(p) - (IF tin = "bind" THEN 1 ELSE 0)
        /\ Hiccups(p)' = Hiccups(p) - (IF tin = "hiccup" THEN 1 ELSE 0)
        /\ PT(p, x)' = PT(p, x) - (IF tin = "pipe_term" THEN 1 ELSE 0)
        /\ PA(p, x)' = PA(p, x) - (IF tin = "pipe_term_ack" THEN 1 ELSE 0)
        /\ PT(p, Peer(x))' = PT(p, Peer(x)) + (IF tout = "pipe_term" THEN n ELSE 0)
        /\ PA(p, Peer(x))' = PA(p, Peer(x)) + (IF tout = "pipe_term_ack" THEN n ELSE 0)
    BY <1>2, <1>15, <2>1, HandledTold
  <2> QED
    BY <2>2, <1>0, CountsType
<1>17. pstate' \in [Pipe \X End -> PState] /\ pstate'[<<p, x>>] = st /\ pstate'[<<p, Peer(x)>>] = pstate[<<p, Peer(x)>>]
       /\ \A q \in Pipe : q # p => \A y \in End : pstate'[<<q, y>>] = pstate[<<q, y>>]
  BY <1>0, <1>2, <1>6, <1>12, PeerFacts DEF Typed, End, PState
<1>18. SameEnds
  BY <1>2, <1>6, <1>7, <1>12, <1>17, PeerFacts DEF SameEnds, End
<1>19. Pipes'
  <2> SUFFICES ASSUME NEW q \in Pipe PROVE PipeOK(q)'
    BY DEF Pipes
  <2>1. CASE q # p
    BY <1>0, <1>10, <1>16, <1>17, <2>1, OtherPipe DEF Pipes
  <2>2. CASE q = p
    <3>1. CASE x = "socket"
      BY <1>0, <1>3, <1>5, <1>7, <1>10, <1>12, <1>16, <1>17, <2>2, <3>1, PeerFacts, CountsType DEF PipeOK, Joint
    <3>2. CASE x = "session"
      BY <1>0, <1>3, <1>7, <1>10, <1>12, <1>16, <1>17, <2>2, <3>2, PeerFacts, CountsType DEF PipeOK, Joint
    <3> QED
      BY <1>2, <3>1, <3>2 DEF End
  <2> QED
    BY <2>1, <2>2
<1>20. closed => \A q \in Pipe : pstate'[<<q, "socket">>] \notin {"active", "waiting_for_delimiter"}
  <2> SUFFICES ASSUME closed, NEW q \in Pipe PROVE pstate'[<<q, "socket">>] \notin {"active", "waiting_for_delimiter"}
    OBVIOUS
  <2>1. pstate[<<q, "socket">>] \notin {"active", "waiting_for_delimiter"}
    BY <1>0 DEF Links
  <2>2. pstate'[<<q, "socket">>] = pstate[<<q, "socket">>] \/ (q = p /\ x = "socket")
    BY <1>2, <1>6, <1>17, PeerFacts DEF End
  <2> QED
    BY <1>7, <1>12, <1>17, <2>1, <2>2
<1>21. InOrder(steps)
  BY <1>13, CalmInOrder
<1>22. Msg(o).type \in PipeMove
  BY <1>1, <1>15 DEF Com
<1>23. pipe' \in [Session -> Pipe \cup {None}]
  BY <1>0, <1>10 DEF Typed
<1> QED
  BY <1>10, <1>13, <1>15, <1>17, <1>18, <1>19, <1>20, <1>21, <1>22, <1>23, PipeTurn DEF End
-----------------------------------------------------------------------------
(* The delimiter, and hiccups *)

\* The numbers of a pipe when one end tells the other something by itself.
LEMMA ActsTold ==
    ASSUME NEW o, NEW steps, Turn(o, steps), mailbox' = mailbox, NEW p \in Pipe,
           NEW x \in End, NEW n \in {0, 1}, NEW type \in {"pipe_term", "pipe_term_ack"},
           Told(steps, p, Peer(x), n, type)
    PROVE  /\ \A q \in Pipe : Binds(q)' = Binds(q) /\ Hiccups(q)' = Hiccups(q)
           /\ \A q \in Pipe : q # p => \A y \in End : PT(q, y)' = PT(q, y) /\ PA(q, y)' = PA(q, y)
           /\ PT(p, x)' = PT(p, x) /\ PA(p, x)' = PA(p, x)
           /\ PT(p, Peer(x))' = PT(p, Peer(x)) + (IF type = "pipe_term" THEN n ELSE 0)
           /\ PA(p, Peer(x))' = PA(p, Peer(x)) + (IF type = "pipe_term_ack" THEN n ELSE 0)
<1>0. Peer(x) \in End /\ Peer(x) # x /\ QType /\ o \in Object /\ steps \in Seq(Work) /\ Plans(o, steps)
  BY PeerFacts DEF Turn
<1>1. \A D : Flight(D)' = Flight(D) + SeqCount(steps, Sends(D))
  BY <1>0, ActsFlight
<1>2. \A D : Flight(D) \in Nat
  BY <1>0, FlightType
<1>3. \A q \in Pipe : \A y \in End : \A ty \in PipeCommand :
         Flight(ToEnd(q, y, ty))' = Flight(ToEnd(q, y, ty)) + (IF q = p /\ y = Peer(x) /\ ty = type THEN n ELSE 0)
  BY <1>1 DEF Told
<1>4. \A q \in Pipe : \A ty \in PipeCommand : Flight(About(q, ty))' = Flight(About(q, ty)) + (IF q = p /\ ty = type THEN n ELSE 0)
  BY <1>1 DEF Told
<1>5. \A q \in Pipe : Binds(q)' = Binds(q) /\ Hiccups(q)' = Hiccups(q)
  BY <1>2, <1>4 DEF Binds, Hiccups, PipeCommand
<1>6. \A q \in Pipe : q # p => \A y \in End : PT(q, y)' = PT(q, y) /\ PA(q, y)' = PA(q, y)
  BY <1>2, <1>3 DEF PT, PA, PipeCommand
<1>7. PT(p, x)' = PT(p, x) /\ PA(p, x)' = PA(p, x)
  BY <1>0, <1>2, <1>3 DEF PT, PA, PipeCommand
<1>8. /\ PT(p, Peer(x))' = PT(p, Peer(x)) + (IF type = "pipe_term" THEN n ELSE 0)
      /\ PA(p, Peer(x))' = PA(p, Peer(x)) + (IF type = "pipe_term_ack" THEN n ELSE 0)
  BY <1>0, <1>2, <1>3 DEF PT, PA, PipeCommand
<1> QED
  BY <1>5, <1>6, <1>7, <1>8

\* A command to the other end counts as one.
LEMMA TellTold ==
    ASSUME NEW p \in Pipe, psession[p] \in Session, NEW x \in End,
           NEW type \in {"pipe_term", "pipe_term_ack"}, Alive(Sink(p, Peer(x)))
    PROVE  Told(Tell(p, x, type), p, Peer(x), 1, type)
<1> DEFINE s == Tell(p, x, type)
<1>1. /\ \A q \in Pipe : \A y \in End : \A ty :
                            SeqCount(s, Sends(ToEnd(q, y, ty))) = B(q = p /\ y = Peer(x) /\ ty = type)
      /\ \A a, ty : SeqCount(s, Sends(About(a, ty))) = B(a = p /\ ty = type)
  BY TellFacts
<1>2. Peer(x) \in End
  BY PeerFacts
<1> HIDE DEF s
<1> QED
  BY <1>1, <1>2, ToldFacts DEF s

\* One end of a pipe changes its state.
LEMMA EndMoves ==
    ASSUME Typed, NEW p \in Pipe, NEW x \in End, NEW st \in PState, pstate' = [pstate EXCEPT ![<<p, x>>] = st]
    PROVE  /\ pstate' \in [Pipe \X End -> PState] /\ pstate'[<<p, x>>] = st /\ pstate'[<<p, Peer(x)>>] = pstate[<<p, Peer(x)>>]
           /\ \A q \in Pipe : q # p => \A y \in End : pstate'[<<q, y>>] = pstate[<<q, y>>]
           /\ \A q \in Pipe : \A y \in End : (q # p \/ y # x) => pstate'[<<q, y>>] = pstate[<<q, y>>]
           /\ st \notin {"none", "unbound", "gone"} /\ pstate[<<p, x>>] \notin {"none", "unbound", "gone"} => SameEnds
           /\ Links /\ (closed => st \notin {"active", "waiting_for_delimiter"} \/ x # "socket")
                => (closed => \A q \in Pipe : pstate'[<<q, "socket">>] \notin {"active", "waiting_for_delimiter"})
<1>1. /\ pstate' \in [Pipe \X End -> PState] /\ pstate'[<<p, x>>] = st /\ pstate'[<<p, Peer(x)>>] = pstate[<<p, Peer(x)>>]
      /\ \A q \in Pipe : q # p => \A y \in End : pstate'[<<q, y>>] = pstate[<<q, y>>]
      /\ \A q \in Pipe : \A y \in End : (q # p \/ y # x) => pstate'[<<q, y>>] = pstate[<<q, y>>]
  BY PeerFacts DEF Typed, End
<1>2. ASSUME st \notin {"none", "unbound", "gone"}, pstate[<<p, x>>] \notin {"none", "unbound", "gone"} PROVE SameEnds
  <2>1. \A q \in Pipe : \A y \in End : \A z \in {"none", "unbound", "gone"} : pstate'[<<q, y>>] = z <=> pstate[<<q, y>>] = z
    BY <1>1, <1>2
  <2> QED
    BY <2>1 DEF SameEnds, End
<1>3. ASSUME Links, closed, st \notin {"active", "waiting_for_delimiter"} \/ x # "socket", NEW q \in Pipe
      PROVE  pstate'[<<q, "socket">>] \notin {"active", "waiting_for_delimiter"}
  <2>1. pstate[<<q, "socket">>] \notin {"active", "waiting_for_delimiter"}
    BY <1>3 DEF Links
  <2>2. pstate'[<<q, "socket">>] = pstate[<<q, "socket">>] \/ (q = p /\ x = "socket")
    BY <1>1 DEF End
  <2> QED
    BY <1>1, <1>3, <2>1, <2>2
<1> QED
  BY <1>1, <1>2, <1>3

\* The delimiter preserves the invariant.
LEMMA DelimiterStep ==
    ASSUME IInv, NEW p \in Pipe, NEW x \in End, process_delimiter(p, x)
    PROVE  IInv'
<1>0. /\ Typed /\ Links /\ Commands /\ Todo /\ Order /\ Pipes /\ QType /\ failed = {}
  BY DEF IInv, Typed
<1> DEFINE steps == Tell(p, x, "pipe_term_ack")
<1>1. /\ pstate[<<p, x>>] = "waiting_for_delimiter" /\ Idle(Tid[Sink(p, x)])
      /\ pstate' = [pstate EXCEPT ![<<p, x>>] = "term_ack_sent"] /\ Acts(Sink(p, x), steps)
      /\ UNCHANGED <<own, polled, engine, pending, endpoints, closed, immediate, pipe, psession, failed>>
  BY DEF process_delimiter, lvars, svars
<1>2. psession[p] \in Session /\ Sink(p, x) \in Object /\ PipeOK(p)
  BY <1>0, <1>1, EndAlive DEF Pipes
<1>3. Peer(x) \in End /\ pstate[<<p, Peer(x)>>] \notin {"none", "gone"}
  BY <1>1, <1>2, PeerFacts DEF PipeOK, Joint, End
<1>4. Alive(Sink(p, Peer(x)))
  BY <1>3, EndAlive
<1>5. /\ steps \in Seq(Work) /\ NoDelete(steps) /\ Plain(steps) /\ Only(steps, PipeMove) /\ Calm(steps)
      /\ StepsOK(steps, Tid[Sink(p, x)])
  BY <1>2, <1>4, TellFacts
<1>6. Told(steps, p, Peer(x), 1, "pipe_term_ack")
  BY <1>2, <1>4, TellTold
<1> HIDE DEF steps
<1>7. Turn(Sink(p, x), steps) /\ mailbox' = mailbox
  BY <1>0, <1>1, <1>2, <1>5, EventTurn
<1>8. /\ \A q \in Pipe : Binds(q)' = Binds(q) /\ Hiccups(q)' = Hiccups(q)
      /\ \A q \in Pipe : q # p => \A y \in End : PT(q, y)' = PT(q, y) /\ PA(q, y)' = PA(q, y)
      /\ PT(p, x)' = PT(p, x) /\ PA(p, x)' = PA(p, x)
      /\ PT(p, Peer(x))' = PT(p, Peer(x)) /\ PA(p, Peer(x))' = PA(p, Peer(x)) + 1
  <2> SUFFICES ASSUME NEW ty \in {"pipe_term", "pipe_term_ack"}, ty = "pipe_term_ack", NEW n \in {0, 1}, n = 1
               PROVE  /\ \A q \in Pipe : Binds(q)' = Binds(q) /\ Hiccups(q)' = Hiccups(q)
                      /\ \A q \in Pipe : q # p => \A y \in End : PT(q, y)' = PT(q, y) /\ PA(q, y)' = PA(q, y)
                      /\ PT(p, x)' = PT(p, x) /\ PA(p, x)' = PA(p, x)
                      /\ PT(p, Peer(x))' = PT(p, Peer(x)) /\ PA(p, Peer(x))' = PA(p, Peer(x)) + 1
    OBVIOUS
  <2>1. Told(steps, p, Peer(x), n, ty)
    BY <1>6
  <2>2. /\ \A q \in Pipe : Binds(q)' = Binds(q) /\ Hiccups(q)' = Hiccups(q)
        /\ \A q \in Pipe : q # p => \A y \in End : PT(q, y)' = PT(q, y) /\ PA(q, y)' = PA(q, y)
        /\ PT(p, x)' = PT(p, x) /\ PA(p, x)' = PA(p, x)
        /\ PT(p, Peer(x))' = PT(p, Peer(x)) + (IF ty = "pipe_term" THEN n ELSE 0)
        /\ PA(p, Peer(x))' = PA(p, Peer(x)) + (IF ty = "pipe_term_ack" THEN n ELSE 0)
    BY <1>7, <2>1, ActsTold
  <2> QED
    BY <2>2, <1>0, CountsType
<1>9. "term_ack_sent" \in PState
  BY DEF PState
<1>10. /\ pstate' \in [Pipe \X End -> PState] /\ pstate'[<<p, x>>] = "term_ack_sent" /\ pstate'[<<p, Peer(x)>>] = pstate[<<p, Peer(x)>>]
       /\ \A q \in Pipe : q # p => \A y \in End : pstate'[<<q, y>>] = pstate[<<q, y>>]
       /\ SameEnds
       /\ closed => \A q \in Pipe : pstate'[<<q, "socket">>] \notin {"active", "waiting_for_delimiter"}
  BY <1>0, <1>1, <1>9, EndMoves
<1>11. Pipes'
  <2> SUFFICES ASSUME NEW q \in Pipe PROVE PipeOK(q)'
    BY DEF Pipes
  <2>1. CASE q # p
    BY <1>0, <1>1, <1>8, <1>10, <2>1, OtherPipe DEF Pipes
  <2>2. CASE q = p
    <3>1. CASE x = "socket"
      BY <1>0, <1>1, <1>2, <1>8, <1>10, <2>2, <3>1, PeerFacts, CountsType DEF PipeOK, Joint
    <3>2. CASE x = "session"
      BY <1>0, <1>1, <1>2, <1>8, <1>10, <2>2, <3>2, PeerFacts, CountsType DEF PipeOK, Joint
    <3> QED
      BY <3>1, <3>2 DEF End
  <2> QED
    BY <2>1, <2>2
<1>12. InOrder(steps)
  BY <1>5, CalmInOrder
<1>13. pipe' \in [Session -> Pipe \cup {None}] /\ \A s \in Session : pipe'[s] \in {None, pipe[s]}
  BY <1>0, <1>1 DEF Typed
<1>14. failed' = {} /\ engine' \subseteq engine /\ endpoints' \subseteq endpoints
  BY <1>0, <1>1
<1>15. UNCHANGED <<own, polled, pending, psession, closed, immediate>>
  BY <1>1
<1> QED
  BY <1>5, <1>7, <1>10, <1>11, <1>12, <1>13, <1>14, <1>15, PipeTurn DEF End

\* process_hiccup () preserves the invariant.
LEMMA HiccupStep ==
    ASSUME IInv, process_hiccup
    PROVE  IInv'
<1> SUFFICES ASSUME NEW p, p = arg(Socket), NEW x \in End, x = "socket" PROVE IInv'
  BY DEF End
<1>0. /\ Typed /\ Links /\ Commands /\ Todo /\ Order /\ Pipes /\ QType /\ failed = {} /\ Socket \in Object
  BY SocketIn DEF IInv, Typed
<1>1. Handles(Socket, "hiccup") /\ "hiccup" \in PipeCommand /\ "hiccup" \in PipeMove /\ Side(Socket) = x
  BY DEF process_hiccup, PipeCommand, PipeMove, Side
<1>2. /\ p \in Pipe /\ psession[p] \in Session /\ Sink(p, x) = Socket
      /\ Flight(About(p, "hiccup")) >= 1
  BY <1>0, <1>1, PipeTargets
<1>3. Hiccups(p) >= 1 /\ PipeOK(p)
  BY <1>0, <1>2 DEF Hiccups, Pipes
<1>4. Binds(p) = 0
  BY <1>0, <1>1, NoBind
<1>5. PT(p, x) = 1 /\ Peer(x) = "session" /\ Peer(x) \in End
  BY <1>3, PeerFacts DEF PipeOK
<1>6. pstate[<<p, x>>] \in {"active", "term_req_sent1"} /\ pstate[<<p, Peer(x)>>] \notin {"none", "gone"}
      /\ (pstate[<<p, x>>] = "active" => PA(p, Peer(x)) = 0)
  BY <1>3, <1>4, <1>5 DEF PipeOK, Joint
<1>7. Alive(Sink(p, Peer(x)))
  BY <1>2, <1>5, <1>6, EndAlive
<1>8. UNCHANGED <<own, polled, engine, pending, endpoints, closed, immediate, pipe, psession, failed>>
  BY DEF process_hiccup, lvars, svars
<1>9. PICK n \in {0, 1} :
        /\ pstate' = [pstate EXCEPT ![<<p, x>>] = "term_req_sent1"]
        /\ Handled(Socket, IF n = 1 THEN Tell(p, x, "pipe_term") ELSE <<>>)
        /\ n = 1 <=> pstate[<<p, x>>] = "active"
  <2>1. /\ pstate' = [pstate EXCEPT ![<<p, "socket">>] = IF @ = "active" THEN PTerminated(@, FALSE) ELSE @]
        /\ Handled(Socket, IF pstate[<<p, "socket">>] = "active" THEN pipe_terminate(p, "socket", FALSE) ELSE <<>>)
    BY DEF process_hiccup
  <2>2. CASE pstate[<<p, x>>] = "active"
    <3>1. pipe_terminate(p, "socket", FALSE) = Tell(p, x, "pipe_term") /\ PTerminated("active", FALSE) = "term_req_sent1"
      BY <2>2 DEF pipe_terminate, PTerminated
    <3>2. Handled(Socket, Tell(p, x, "pipe_term"))
      BY <2>1, <2>2, <3>1
    <3>3. pstate' = [pstate EXCEPT ![<<p, x>>] = "term_req_sent1"]
      BY <2>1, <2>2, <3>1
    <3> QED
      BY <2>2, <3>2, <3>3
  <2>3. CASE pstate[<<p, x>>] = "term_req_sent1"
    <3>1. Handled(Socket, <<>>)
      BY <2>1, <2>3
    <3>2. pstate' = [pstate EXCEPT ![<<p, x>>] = "term_req_sent1"]
      BY <2>1, <2>3
    <3> QED
      BY <2>3, <3>1, <3>2
  <2> QED
    BY <1>6, <2>2, <2>3
<1> DEFINE steps == IF n = 1 THEN Tell(p, x, "pipe_term") ELSE <<>>
<1>10. /\ steps \in Seq(Work) /\ NoDelete(steps) /\ Plain(steps) /\ Only(steps, PipeMove)
       /\ StepsOK(steps, Tid[Socket])
  <2>1. CASE n = 1
    BY <1>2, <1>7, <2>1, TellFacts
  <2>2. CASE n = 0
    BY <2>2, NoSteps
  <2> QED
    BY <2>1, <2>2
<1>11. Told(steps, p, Peer(x), n, "pipe_term") /\ InOrder(steps)
  <2>1. CASE n = 1
    <3>1. Told(Tell(p, x, "pipe_term"), p, Peer(x), 1, "pipe_term")
      BY <1>2, <1>7, TellTold
    <3> DEFINE s == Tell(p, x, "pipe_term")
    <3>2. DOMAIN s = {1} /\ s[1].op = "send" /\ s[1].to = Sink(p, Peer(x)) /\ s[1].type = "pipe_term" /\ s[1].arg = p
      BY <1>2, <1>7, TellFacts
    <3>3. PA(p, Peer(x)) = 0
      BY <1>6, <1>9, <2>1
    <3> HIDE DEF s
    <3>4. InOrder(s)
      BY <1>0, <1>2, <3>2, <3>3, TellOrder
    <3> QED
      BY <2>1, <3>1, <3>4 DEF s
  <2>2. CASE n = 0
    BY <1>2, <1>5, <2>2, ToldFacts, NoSteps
  <2> QED
    BY <2>1, <2>2
<1>12. Handled(Socket, steps)
  BY <1>9
<1> HIDE DEF steps
<1>13. Turn(Socket, steps) /\ Takes(Socket) /\ Msg(Socket) = Com(Socket, "hiccup", p)
  BY <1>0, <1>1, <1>10, <1>12, PipeTypes, HandlerTurn
<1>14. /\ \A q \in Pipe : q # p =>
                /\ Binds(q)' = Binds(q) /\ Hiccups(q)' = Hiccups(q)
                /\ \A y \in End : PT(q, y)' = PT(q, y) /\ PA(q, y)' = PA(q, y)
       /\ Binds(p)' = Binds(p) /\ Hiccups(p)' = Hiccups(p) - 1
       /\ PT(p, x)' = PT(p, x) /\ PA(p, x)' = PA(p, x)
       /\ PT(p, Peer(x))' = PT(p, Peer(x)) + n /\ PA(p, Peer(x))' = PA(p, Peer(x))
  <2> SUFFICES ASSUME NEW tin \in PipeCommand, NEW tout \in {"pipe_term", "pipe_term_ack"}, tin = "hiccup", tout = "pipe_term"
               PROVE  /\ \A q \in Pipe : q # p =>
                            /\ Binds(q)' = Binds(q) /\ Hiccups(q)' = Hiccups(q)
                            /\ \A y \in End : PT(q, y)' = PT(q, y) /\ PA(q, y)' = PA(q, y)
                      /\ Binds(p)' = Binds(p) /\ Hiccups(p)' = Hiccups(p) - 1
                      /\ PT(p, x)' = PT(p, x) /\ PA(p, x)' = PA(p, x)
                      /\ PT(p, Peer(x))' = PT(p, Peer(x)) + n /\ PA(p, Peer(x))' = PA(p, Peer(x))
    BY <1>1
  <2>1. Msg(Socket) = Com(Socket, tin, p) /\ Told(steps, p, Peer(x), n, tout)
    BY <1>11, <1>13
  <2>2. /\ \A q \in Pipe : q # p =>
                /\ Binds(q)' = Binds(q) /\ Hiccups(q)' = Hiccups(q)
                /\ \A y \in End : PT(q, y)' = PT(q, y) /\ PA(q, y)' = PA(q, y)
        /\ Binds(p)' = Binds(p) - (IF tin = "bind" THEN 1 ELSE 0)
        /\ Hiccups(p)' = Hiccups(p) - (IF tin = "hiccup" THEN 1 ELSE 0)
        /\ PT(p, x)' = PT(p, x) - (IF tin = "pipe_term" THEN 1 ELSE 0)
        /\ PA(p, x)' = PA(p, x) - (IF tin = "pipe_term_ack" THEN 1 ELSE 0)
        /\ PT(p, Peer(x))' = PT(p, Peer(x)) + (IF tout = "pipe_term" THEN n ELSE 0)
        /\ PA(p, Peer(x))' = PA(p, Peer(x)) + (IF tout = "pipe_term_ack" THEN n ELSE 0)
    BY <1>1, <1>2, <1>13, <2>1, HandledTold
  <2> QED
    BY <2>2, <1>0, CountsType
<1>15. "term_req_sent1" \in PState
  BY DEF PState
<1>16. /\ pstate' \in [Pipe \X End -> PState] /\ pstate'[<<p, x>>] = "term_req_sent1" /\ pstate'[<<p, Peer(x)>>] = pstate[<<p, Peer(x)>>]
       /\ \A q \in Pipe : q # p => \A y \in End : pstate'[<<q, y>>] = pstate[<<q, y>>]
       /\ SameEnds
       /\ closed => \A q \in Pipe : pstate'[<<q, "socket">>] \notin {"active", "waiting_for_delimiter"}
  BY <1>0, <1>2, <1>6, <1>9, <1>15, EndMoves
<1>17. Pipes'
  <2> SUFFICES ASSUME NEW q \in Pipe PROVE PipeOK(q)'
    BY DEF Pipes
  <2>1. CASE q # p
    BY <1>0, <1>8, <1>14, <1>16, <2>1, OtherPipe DEF Pipes
  <2>2. CASE q = p
    BY <1>0, <1>3, <1>4, <1>5, <1>8, <1>9, <1>14, <1>16, <2>2, CountsType DEF PipeOK, Joint
  <2> QED
    BY <2>1, <2>2
<1>18. Msg(Socket).type \in PipeMove
  BY <1>1, <1>13 DEF Com
<1>19. pipe' \in [Session -> Pipe \cup {None}] /\ \A s \in Session : pipe'[s] \in {None, pipe[s]}
  BY <1>0, <1>8 DEF Typed
<1>20. failed' = {} /\ engine' \subseteq engine /\ endpoints' \subseteq endpoints
  BY <1>0, <1>8
<1>21. UNCHANGED <<own, polled, pending, psession, closed, immediate>>
  BY <1>8
<1> QED
  BY <1>10, <1>11, <1>13, <1>16, <1>17, <1>18, <1>19, <1>20, <1>21, PipeTurn DEF End
-----------------------------------------------------------------------------
(* Turns without announced commands *)

SameLife == \A x \in Object : /\ own'[x].life = own[x].life /\ own'[x].owner = own[x].owner
                              /\ own'[x].sent_seqnum = own[x].sent_seqnum
                              /\ own'[x].processed_seqnum = own[x].processed_seqnum

\* The parts of the invariant that a turn without announced commands preserves.
LEMMA PlainTurn ==
    ASSUME IInv, NEW o, NEW steps, Turn(o, steps), Plain(steps), NEW T, Only(steps, T), T \cap SeqCommand = {},
           (Takes(o) /\ Msg(o).type \in T) \/ mailbox' = mailbox,
           own' \in [Object -> OwnRecord], SameLife, psession' = psession,
           polled' \subseteq polled, engine' \subseteq engine,
           StepsOK(steps, Tid[o]), InOrder(steps)
    PROVE  /\ QType' /\ SameAlive /\ Grows /\ Seqnums' /\ Commands' /\ Todo' /\ Engines' /\ Order' /\ Requests'
           /\ SameCounts(T)
           /\ \A x : Plugs(x)' = Plugs(x) /\ Attaches(x)' = Attaches(x) /\ Owns(x)' = Owns(x)
           /\ \A p : Binds(p)' = Binds(p)
<1>0. /\ Typed /\ Tree /\ Links /\ Seqnums /\ Commands /\ Todo /\ Children /\ Awaited
      /\ Gone /\ Checked /\ Engines /\ PlugFirst /\ Order /\ Requests /\ QType /\ own \in [Object -> OwnRecord]
  BY DEF IInv, Typed
<1>1. SameAlive /\ Grows
  <2>1. SameAlive
    BY TurnAlive DEF SameAlive, SameLife, Alive
  <2> QED
    BY <2>1 DEF SameAlive, SameLife, Grows, Made
<1>2. SameCounts(T)
  BY QuietCounts
<1>3. /\ \A x : Plugs(x)' = Plugs(x) /\ Attaches(x)' = Attaches(x) /\ Owns(x)' = Owns(x)
      /\ \A p : Binds(p)' = Binds(p)
  BY <1>2 DEF SameCounts, SeqCommand
<1>4. QType'
  <2>1. CASE Takes(o)
    BY <2>1, HandledFlight DEF Turn
  <2>2. CASE mailbox' = mailbox
    BY <2>2, ActsFlight DEF Turn
  <2> QED
    BY <2>1, <2>2
<1>8. Seqnums'
  <2>1. Balanced(steps)
    BY PlainBalanced DEF Turn
  <2>3. \A x \in Object : own[x].processed_seqnum \in Nat
    BY <1>0 DEF OwnRecord
  <2>6. \A x \in Object : own'[x].sent_seqnum = own[x].sent_seqnum /\ own'[x].processed_seqnum = own[x].processed_seqnum
    BY DEF SameLife
  <2>4. CASE mailbox' = mailbox
    BY <1>0, <2>1, <2>4, <2>6, ActsSeqnums
  <2>5. CASE Takes(o) /\ Msg(o).type \in T
    <3>1. \A x : Msg(o) \notin SeqTo(x)
      BY <2>5 DEF SeqTo
    <3>2. \A x \in Object : /\ own'[x].sent_seqnum = own[x].sent_seqnum
                            /\ own'[x].processed_seqnum = own[x].processed_seqnum + B(Msg(o) \in SeqTo(x))
      BY <2>3, <2>6, <3>1 DEF B
    <3> QED
      BY <1>0, <2>1, <2>5, <3>2, HandledSeqnums
  <2> QED
    BY <2>4, <2>5
<1>9. Commands' /\ Todo'
  <2>1. StepsOK(steps, Tid[o])'
    BY <1>1, StepsFrame DEF Turn
  <2> QED
    BY <1>0, <1>1, <2>1, TurnCommands
<1>14. Engines'
  <2>1. \A c \in Connecter : Active(c) => own[c].owner \in Object
    BY ActiveOwner, SocketIn
  <2>2. \A c \in Connecter : own'[c].owner = own[c].owner
    BY SocketIn DEF SameLife
  <2>3. \A x \in Object : Plugs(x)' <= Plugs(x) /\ Attaches(x)' <= Attaches(x)
    BY <1>0, <1>3, CountsType
  <2> QED
    BY <1>0, <1>4, <2>1, <2>2, <2>3, EnginesLess
<1>16. Order' /\ Requests'
  BY <1>0, <1>1, TurnOrder, TurnRequests
<1> QED
  BY <1>1, <1>2, <1>3, <1>4, <1>8, <1>9, <1>14, <1>16

\* The counters of acknowledgements change, nothing else of an object.
LEMMA AcksShape ==
    ASSUME Tree, SameLife, \A x \in Object : /\ own'[x].owned = own[x].owned /\ own'[x].terminating = own[x].terminating
                                             /\ ~Made(x) => own'[x] = own[x]
    PROVE  SameShape
BY DEF SameLife, SameShape

\* One pipe less.
LEMMA AwaitedLess ==
    ASSUME NEW p \in Pipe, NEW P \in SUBSET Pipe, p \in P
    PROVE  /\ IsFiniteSet(P) /\ Cardinality(P) \in Nat /\ Cardinality(P) >= 1
           /\ Cardinality(P \ {p}) = Cardinality(P) - 1
<1>1. IsFiniteSet(P)
  BY FS_Subset, OwnAssumption
<1>2. Cardinality(P) \in Nat
  BY <1>1, FS_CardinalityType
<1>3. Cardinality(P \ {p}) = Cardinality(P) - 1
  BY <1>1, FS_RemoveElement
<1>4. IsFiniteSet(P \ {p}) /\ Cardinality(P \ {p}) \in Nat
  BY <1>1, FS_Subset, FS_CardinalityType
<1> QED
  BY <1>1, <1>2, <1>3, <1>4
-----------------------------------------------------------------------------
(* pipe_term_ack to the socket *)

\* pipe_term_ack to the socket preserves the invariant.
LEMMA SocketAckStep ==
    ASSUME IInv, pipe_terminated_socket
    PROVE  IInv'
<1> SUFFICES ASSUME NEW p, p = arg(Socket), NEW x \in End, x = "socket" PROVE IInv'
  BY DEF End
<1>0. /\ Typed /\ Tree /\ Links /\ Commands /\ Todo /\ Order /\ Pipes /\ QType /\ failed = {} /\ Socket \in Object
      /\ Children /\ Awaited /\ Gone /\ Checked /\ PlugFirst /\ own \in [Object -> OwnRecord]
  BY SocketIn DEF IInv, Typed
<1>1. Handles(Socket, "pipe_term_ack") /\ "pipe_term_ack" \in PipeCommand /\ "pipe_term_ack" \in PipeMove /\ Side(Socket) = x
  BY DEF pipe_terminated_socket, PipeCommand, PipeMove, Side
<1>2. /\ p \in Pipe /\ psession[p] \in Session /\ Sink(p, x) = Socket /\ Alive(Socket)
      /\ Flight(ToEnd(p, x, "pipe_term_ack")) >= 1
  BY <1>0, <1>1, PipeTargets
<1>3. PA(p, x) >= 1 /\ PipeOK(p)
  BY <1>0, <1>2 DEF PA, Pipes
<1>4. Binds(p) = 0 /\ Hiccups(p) = 0 /\ PT(p, "socket") = 0
  BY <1>0, <1>1, NoBind
<1>5. Peer(x) = "session" /\ Peer(x) \in End
  BY PeerFacts
<1>6. AckExpected(p, "socket") /\ pstate[<<p, x>>] \in {"term_req_sent1", "term_ack_sent", "term_req_sent2"}
      /\ (pstate[<<p, x>>] = "term_req_sent1" => pstate[<<p, Peer(x)>>] = "term_ack_sent")
  BY <1>3, <1>4, <1>5 DEF PipeOK, Joint, AckExpected
<1>7. p \in pipes /\ pipes \in SUBSET Pipe
  BY <1>2, <1>6 DEF pipes
<1>8. /\ Cardinality(pipes) \in Nat /\ Cardinality(pipes) >= 1 /\ Cardinality(pipes \ {p}) = Cardinality(pipes) - 1
  BY <1>2, <1>7, AwaitedLess
<1>9. closed => own[Socket].term_acks > 0
  <2> SUFFICES ASSUME closed PROVE own[Socket].term_acks > 0
    OBVIOUS
  <2>1. own[Socket].term_acks = Cardinality(Kids(Socket)) + Acks(Socket) + Cardinality(pipes)
    BY <1>0 DEF Awaited, AwaitedPipes
  <2>2. Cardinality(Kids(Socket)) \in Nat
    BY FS_Subset, FS_CardinalityType, OwnAssumption DEF Kids
  <2> QED
    BY <1>0, <1>8, <2>1, <2>2, CountsType
<1>10. own[Socket].terminating = closed
  BY <1>0 DEF Tree
<1>11. /\ failed' = {} /\ UNCHANGED <<polled, engine, pending, endpoints, closed, immediate, pipe, psession>>
       /\ pstate' = [pstate EXCEPT ![<<p, x>>] = "gone"]
  BY <1>0, <1>6, <1>9, <1>10 DEF pipe_terminated_socket, zmq_assert, lvars, svars
<1> DEFINE last == LastAnswer(p, "socket")
           steps == IF closed THEN <<check_acks(Socket)>> \o last ELSE last
<1>12. Handled(Socket, steps)
  BY <1>0, <1>10 DEF pipe_terminated_socket, Typed
<1>13. /\ own' \in [Object -> OwnRecord] /\ SameLife /\ SameShape
       /\ own'[Socket].term_acks = own[Socket].term_acks - (IF closed THEN 1 ELSE 0)
       /\ \A y \in Object : y # Socket => own'[y] = own[y]
  <2>0. own[Socket] \in OwnRecord /\ Made(Socket)
    BY <1>0 DEF Tree
  <2>1. CASE closed
    <3> DEFINE r == unregister_term_ack(own[Socket])
    <3>1. own' = [own EXCEPT ![Socket] = r]
      BY <1>10, <2>1 DEF pipe_terminated_socket
    <3>2. /\ r \in OwnRecord /\ Kept(r, own[Socket]) /\ r.processed_seqnum = own[Socket].processed_seqnum
          /\ r.terminating = own[Socket].terminating /\ r.owned = own[Socket].owned
          /\ r.term_acks = own[Socket].term_acks - 1
      BY <2>0, OwnOps
    <3> HIDE DEF r
    <3>3. own' \in [Object -> OwnRecord] /\ own'[Socket] = r /\ \A y \in Object : y # Socket => own'[y] = own[y]
      BY <1>0, <3>1, <3>2, OneOwn
    <3> QED
      BY <2>0, <2>1, <3>2, <3>3 DEF Kept, SameLife, SameShape
  <2>2. CASE ~closed
    <3>1. own' = own
      BY <1>0, <1>10, <2>2 DEF pipe_terminated_socket, Typed
    <3>2. own[Socket].term_acks \in Int
      BY <2>0 DEF OwnRecord
    <3> QED
      BY <1>0, <2>2, <3>1, <3>2 DEF SameLife, SameShape
  <2> QED
    BY <2>1, <2>2
<1>14. PICK n \in {0, 1} :
         /\ n = 1 <=> pstate[<<p, x>>] = "term_req_sent1"
         /\ last = IF n = 1 THEN Tell(p, x, "pipe_term_ack") ELSE <<>>
         /\ last \in Seq(Work) /\ NoDelete(last) /\ Plain(last) /\ Only(last, PipeMove) /\ Calm(last) /\ Answers(last)
         /\ NoInc(last) /\ StepsOK(last, Tid[Socket])
         /\ Told(last, p, Peer(x), n, "pipe_term_ack")
  <2>1. CASE pstate[<<p, x>>] = "term_req_sent1"
    <3>1. last = Tell(p, x, "pipe_term_ack")
      BY <2>1 DEF LastAnswer
    <3>2. Alive(Sink(p, Peer(x)))
      BY <1>2, <1>5, <1>6, <2>1, EndAlive
    <3>3. Told(Tell(p, x, "pipe_term_ack"), p, Peer(x), 1, "pipe_term_ack")
      BY <1>2, <3>2, TellTold
    <3> DEFINE s == Tell(p, x, "pipe_term_ack")
    <3>4. s \in Seq(Work) /\ NoDelete(s) /\ Plain(s) /\ Only(s, PipeMove) /\ Calm(s) /\ Answers(s)
          /\ NoInc(s) /\ StepsOK(s, Tid[Sink(p, x)])
      BY <1>2, <3>2, TellFacts
    <3> QED
      BY <1>2, <2>1, <3>1, <3>3, <3>4
  <2>2. CASE pstate[<<p, x>>] # "term_req_sent1"
    <3>1. last = <<>>
      BY <2>2 DEF LastAnswer
    <3>2. Told(<<>>, p, Peer(x), 0, "pipe_term_ack")
      BY <1>2, <1>5, ToldFacts
    <3>3. <<>> \in Seq(Work) /\ NoDelete(<<>>) /\ Plain(<<>>) /\ Only(<<>>, PipeMove) /\ Calm(<<>>) /\ Answers(<<>>)
          /\ NoInc(<<>>) /\ StepsOK(<<>>, Tid[Socket])
      BY NoSteps
    <3>4. /\ 0 = 1 <=> pstate[<<p, x>>] = "term_req_sent1"
          /\ last = IF 0 = 1 THEN Tell(p, x, "pipe_term_ack") ELSE <<>>
      BY <2>2, <3>1
    <3> QED
      BY <3>1, <3>2, <3>3, <3>4
  <2> QED
    BY <2>1, <2>2
<1> HIDE DEF last
<1>15. /\ steps \in Seq(Work) /\ NoDelete(steps) /\ Plain(steps) /\ Only(steps, PipeMove) /\ Calm(steps)
       /\ StepsOK(steps, Tid[Socket]) /\ (closed => check_acks(Socket) \in Range(steps))
       /\ Told(steps, p, Peer(x), n, "pipe_term_ack")
  <2>1. CASE closed
    <3> DEFINE c == <<check_acks(Socket)>>
    <3>1. /\ c \in Seq(Work) /\ NoDelete(c) /\ Plain(c) /\ Only(c, PipeMove) /\ Calm(c)
          /\ check_acks(Socket) \in Range(c) /\ StepsOK(c, Tid[Socket])
      BY <1>0, <1>2, CheckStep
    <3>2. \A D : SeqCount(c, Sends(D)) = 0
      BY <1>0, OwnStepFacts, CountSingle DEF B
    <3> HIDE DEF c
    <3>3. /\ c \o last \in Seq(Work) /\ NoDelete(c \o last) /\ Plain(c \o last) /\ Only(c \o last, PipeMove) /\ Calm(c \o last)
          /\ Range(c \o last) = Range(c) \cup Range(last)
      BY <1>14, <3>1, ConcatForm
    <3>4. StepsOK(c \o last, Tid[Socket])
      BY <1>14, <3>1, StepsConcat
    <3>5. \A D : SeqCount(c \o last, Sends(D)) = SeqCount(last, Sends(D))
      <4> SUFFICES ASSUME NEW D PROVE SeqCount(c \o last, Sends(D)) = SeqCount(last, Sends(D))
        OBVIOUS
      <4>1. SeqCount(c \o last, Sends(D)) = SeqCount(c, Sends(D)) + SeqCount(last, Sends(D))
        <5>1. c \in Seq(Work) /\ last \in Seq(Work)
          BY <1>14, <3>1
        <5> QED
          BY <5>1, CountConcat
      <4>2. SeqCount(last, Sends(D)) \in Nat
        BY <1>14, SeqCountType
      <4> QED
        BY <3>2, <4>1, <4>2
    <3>6. Told(c \o last, p, Peer(x), n, "pipe_term_ack")
      BY <1>14, <3>5 DEF Told
    <3> QED
      BY <2>1, <3>1, <3>3, <3>4, <3>6 DEF c
  <2>2. CASE ~closed
    BY <1>14, <2>2
  <2> QED
    BY <2>1, <2>2
<1> HIDE DEF steps
<1>16. Turn(Socket, steps) /\ Takes(Socket) /\ Msg(Socket) = Com(Socket, "pipe_term_ack", p)
  BY <1>0, <1>1, <1>12, <1>15, PipeTypes, HandlerTurn
<1>17. InOrder(steps)
  BY <1>15, CalmInOrder
<1>18. Msg(Socket).type \in PipeMove /\ PipeMove \cap SeqCommand = {}
  BY <1>1, <1>16 DEF Com, PipeMove, SeqCommand
<1>19. polled' \subseteq polled /\ engine' \subseteq engine /\ psession' = psession
  BY <1>11
<1>20. /\ QType' /\ SameAlive /\ Grows /\ Seqnums' /\ Commands' /\ Todo' /\ Engines' /\ Order' /\ Requests'
       /\ SameCounts(PipeMove)
       /\ \A y : Plugs(y)' = Plugs(y) /\ Attaches(y)' = Attaches(y) /\ Owns(y)' = Owns(y)
  BY <1>13, <1>15, <1>16, <1>17, <1>18, <1>19, PlainTurn
<1>21. \A y : Terms(y)' = Terms(y) /\ Acks(y)' = Acks(y)
  BY <1>20 DEF SameCounts, PipeMove
<1>22. "gone" \in PState
  BY DEF PState
<1>23. /\ pstate' \in [Pipe \X End -> PState] /\ pstate'[<<p, x>>] = "gone" /\ pstate'[<<p, Peer(x)>>] = pstate[<<p, Peer(x)>>]
       /\ \A q \in Pipe : q # p => \A y \in End : pstate'[<<q, y>>] = pstate[<<q, y>>]
       /\ \A q \in Pipe : \A y \in End : (q # p \/ y # x) => pstate'[<<q, y>>] = pstate[<<q, y>>]
       /\ closed => \A q \in Pipe : pstate'[<<q, "socket">>] \notin {"active", "waiting_for_delimiter"}
  <2>1. /\ pstate' \in [Pipe \X End -> PState] /\ pstate'[<<p, x>>] = "gone" /\ pstate'[<<p, Peer(x)>>] = pstate[<<p, Peer(x)>>]
        /\ \A q \in Pipe : q # p => \A y \in End : pstate'[<<q, y>>] = pstate[<<q, y>>]
        /\ \A q \in Pipe : \A y \in End : (q # p \/ y # x) => pstate'[<<q, y>>] = pstate[<<q, y>>]
    BY <1>0, <1>2, <1>5, <1>11, <1>22 DEF Typed, End
  <2>3. closed => \A q \in Pipe : pstate'[<<q, "socket">>] \notin {"active", "waiting_for_delimiter"}
    <3> SUFFICES ASSUME closed, NEW q \in Pipe PROVE pstate'[<<q, "socket">>] \notin {"active", "waiting_for_delimiter"}
      OBVIOUS
    <3>1. pstate[<<q, "socket">>] \notin {"active", "waiting_for_delimiter"}
      BY <1>0 DEF Links
    <3>2. q # p => pstate'[<<q, "socket">>] = pstate[<<q, "socket">>]
      BY <2>1 DEF End
    <3> QED
      BY <2>1, <3>1, <3>2
  <2> QED
    BY <2>1, <2>3
<1>24. Typed'
  BY <1>0, <1>11, <1>13, <1>20, <1>23 DEF Typed, End
<1>25. Tree'
  BY <1>0, <1>11, <1>13, TreeFrame
<1>26. \A q \in Pipe : pstate'[<<q, "session">>] = pstate[<<q, "session">>]
  BY <1>23 DEF End
<1>27. Links'
  <2>1. \A s : OtherPipes(s, {})' = OtherPipes(s, {})
    BY <1>11, <1>26 DEF OtherPipes
  <2>2. Session \subseteq Object /\ polled \subseteq Object /\ engine \subseteq Object
    BY <1>0, SocketIn DEF Typed
  <2>3. /\ \A y \in polled' : Alive(y)' /\ ~own'[y].terminating
        /\ \A s \in engine' : own'[s].life = "live"
    BY <1>0, <1>11, <1>13, <1>20, <2>2 DEF Links, SameAlive, SameShape
  <2>4. \A q \in Pipe : psession'[q] # None => Made(psession[q])'
    <3> SUFFICES ASSUME NEW q \in Pipe, psession[q] # None PROVE own'[psession[q]].life # "none"
      BY <1>11 DEF Made
    <3>1. psession[q] \in Object /\ own[psession[q]].life # "none"
      BY <1>0, <2>2 DEF Typed, Links, Made
    <3> QED
      BY <1>13, <3>1 DEF SameShape
  <2>5. \A s \in Session : own'[s].terminating => OtherPipes(s, {})' = {}
    BY <1>0, <1>13, <2>1, <2>2 DEF Links, SameShape
  <2>6. \A s \in pending' : OtherPipes(s, {})' # {}
    BY <1>0, <1>11, <2>1 DEF Links
  <2>7. \A s \in Session : pipe'[s] # None =>
          psession'[pipe'[s]] = s /\ pstate'[<<pipe'[s], "session">>] \notin {"none", "gone"}
    BY <1>0, <1>11, <1>26 DEF Links, Typed
  <2> QED
    BY <1>0, <1>11, <1>23, <2>3, <2>4, <2>5, <2>6, <2>7 DEF Links
<1>28. Children'
  BY <1>0, <1>11, <1>13, <1>20, <1>21, ChildrenFrame
<1>29. Awaited'
  <2>1. \A y \in Object : Kids(y)' = Kids(y)
    BY <1>13, <1>20, KidsFrame
  <2>2. pipes' = pipes \ {p}
    BY <1>2, <1>23 DEF pipes, End
  <2>3. \A y \in Object : Cardinality(Kids(y)) \in Nat
    BY FS_Subset, FS_CardinalityType, OwnAssumption DEF Kids
  <2>4. ASSUME NEW y \in Object, y # Socket
        PROVE  own'[y].term_acks = Cardinality(Kids(y)') + Acks(y)' + Cardinality(AwaitedPipes(y)')
    <3>1. AwaitedPipes(y)' = {} /\ AwaitedPipes(y) = {}
      BY <2>4 DEF AwaitedPipes
    <3> QED
      BY <1>0, <1>13, <1>21, <2>1, <2>4, <3>1 DEF Awaited
  <2>5. own'[Socket].term_acks = Cardinality(Kids(Socket)') + Acks(Socket)' + Cardinality(AwaitedPipes(Socket)')
    <3>1. own[Socket].term_acks = Cardinality(Kids(Socket)) + Acks(Socket) + Cardinality(AwaitedPipes(Socket))
      BY <1>0 DEF Awaited
    <3>2. CASE closed
      <4>1. AwaitedPipes(Socket) = pipes /\ AwaitedPipes(Socket)' = pipes \ {p}
        BY <1>11, <2>2, <3>2 DEF AwaitedPipes
      <4> QED
        BY <1>0, <1>8, <1>13, <1>21, <2>1, <2>3, <3>1, <3>2, <4>1, CountsType
    <3>3. CASE ~closed
      <4>1. AwaitedPipes(Socket) = {} /\ AwaitedPipes(Socket)' = {}
        BY <1>11, <3>3 DEF AwaitedPipes
      <4>2. Cardinality({}) = 0
        BY FS_EmptySet
      <4> QED
        BY <1>0, <1>13, <1>21, <2>1, <2>3, <3>1, <3>3, <4>1, <4>2, CountsType
    <3> QED
      BY <3>2, <3>3
  <2> QED
    BY <2>4, <2>5 DEF Awaited
<1>30. Gone'
  <2> SUFFICES ASSUME NEW y \in Object, Made(y)', ~Alive(y)' PROVE GoneOK(y)'
    BY DEF Gone
  <2>1. Made(y) /\ ~Alive(y) /\ y # Socket
    BY <1>2, <1>13, <1>20 DEF SameAlive, SameShape, Made
  <2>2. GoneOK(y)
    BY <1>0, <2>1 DEF Gone
  <2> QED
    BY <1>13, <1>20, <2>1, <2>2 DEF GoneOK, SameShape, SameAlive
<1>31. Checked'
  <2>1. \A y \in Object : Alive(y)' /\ CanGo(own'[y]) =>
               \/ Alive(y) /\ CanGo(own[y])
               \/ y = Socket /\ check_acks(Socket) \in Range(steps)
    <3> SUFFICES ASSUME NEW y \in Object, Alive(y)', CanGo(own'[y]), y = Socket
                 PROVE  check_acks(Socket) \in Range(steps)
      BY <1>13, <1>20 DEF SameAlive
    <3>1. closed
      BY <1>10, <1>13 DEF CanGo, SameShape
    <3> QED
      BY <1>15, <3>1
  <2> QED
    BY <1>0, <1>16, <2>1, TurnChecked
<1>32. PlugFirst'
  BY <1>0, <1>11, <1>13, <1>20, PlugFrame
<1>33. /\ \A q \in Pipe : q # p =>
                /\ Binds(q)' = Binds(q) /\ Hiccups(q)' = Hiccups(q)
                /\ \A y \in End : PT(q, y)' = PT(q, y) /\ PA(q, y)' = PA(q, y)
       /\ Binds(p)' = Binds(p) /\ Hiccups(p)' = Hiccups(p)
       /\ PT(p, x)' = PT(p, x) /\ PA(p, x)' = PA(p, x) - 1
       /\ PT(p, Peer(x))' = PT(p, Peer(x)) /\ PA(p, Peer(x))' = PA(p, Peer(x)) + n
  <2> SUFFICES ASSUME NEW tin \in PipeCommand, NEW tout \in {"pipe_term", "pipe_term_ack"}, tin = "pipe_term_ack", tout = "pipe_term_ack"
               PROVE  /\ \A q \in Pipe : q # p =>
                            /\ Binds(q)' = Binds(q) /\ Hiccups(q)' = Hiccups(q)
                            /\ \A y \in End : PT(q, y)' = PT(q, y) /\ PA(q, y)' = PA(q, y)
                      /\ Binds(p)' = Binds(p) /\ Hiccups(p)' = Hiccups(p)
                      /\ PT(p, x)' = PT(p, x) /\ PA(p, x)' = PA(p, x) - 1
                      /\ PT(p, Peer(x))' = PT(p, Peer(x)) /\ PA(p, Peer(x))' = PA(p, Peer(x)) + n
    BY <1>1
  <2>1. Msg(Socket) = Com(Socket, tin, p) /\ Told(steps, p, Peer(x), n, tout)
    BY <1>15, <1>16
  <2>2. /\ \A q \in Pipe : q # p =>
                /\ Binds(q)' = Binds(q) /\ Hiccups(q)' = Hiccups(q)
                /\ \A y \in End : PT(q, y)' = PT(q, y) /\ PA(q, y)' = PA(q, y)
        /\ Binds(p)' = Binds(p) - (IF tin = "bind" THEN 1 ELSE 0)
        /\ Hiccups(p)' = Hiccups(p) - (IF tin = "hiccup" THEN 1 ELSE 0)
        /\ PT(p, x)' = PT(p, x) - (IF tin = "pipe_term" THEN 1 ELSE 0)
        /\ PA(p, x)' = PA(p, x) - (IF tin = "pipe_term_ack" THEN 1 ELSE 0)
        /\ PT(p, Peer(x))' = PT(p, Peer(x)) + (IF tout = "pipe_term" THEN n ELSE 0)
        /\ PA(p, Peer(x))' = PA(p, Peer(x)) + (IF tout = "pipe_term_ack" THEN n ELSE 0)
    BY <1>1, <1>2, <1>16, <2>1, HandledTold
  <2> QED
    BY <2>2, <1>0, CountsType
<1>34. Pipes'
  <2> SUFFICES ASSUME NEW q \in Pipe PROVE PipeOK(q)'
    BY DEF Pipes
  <2>1. CASE q # p
    BY <1>0, <1>11, <1>23, <1>33, <2>1, OtherPipe DEF Pipes
  <2>2. CASE q = p
    BY <1>0, <1>3, <1>4, <1>5, <1>6, <1>11, <1>14, <1>23, <1>33, <2>2, CountsType DEF PipeOK, Joint
  <2> QED
    BY <2>1, <2>2
<1> QED
  BY <1>11, <1>20, <1>24, <1>25, <1>27, <1>28, <1>29, <1>30, <1>31, <1>32, <1>34 DEF IInv
-----------------------------------------------------------------------------
(* An object terminates its children *)

\* The steps of process_term () are well formed: a term for every child, then the check.
LEMMA TermSteps ==
    ASSUME IInv, NEW o \in Object, Alive(o), NEW linger \in Arg
    PROVE  LET s == process_term(o, own[o], linger)
           IN /\ s \in Seq(Work) /\ NoDelete(s) /\ Plain(s) /\ Calm(s) /\ NoInc(s)
              /\ \A T : "term" \in T => Only(s, T)
              /\ StepsOK(s, Tid[o]) /\ check_acks(o) \in Range(s)
              /\ \A c \in Object : SeqCount(s, Sends(To(c, "term"))) = B(c \in own[o].owned)
              /\ \A D : (\A m \in D : m.type # "term") => SeqCount(s, Sends(D)) = 0
<1> DEFINE Q == own[o].owned
           st(c) == send_command(c, "term", linger)
           S == {st(c) : c \in Q}
           q == SetToSeq(S)
           k == <<check_acks(o)>>
<1>0. /\ Typed /\ Tree /\ Children /\ "term" \in CommandType /\ "term" \notin SeqCommand
      /\ Q \subseteq Object /\ IsFiniteSet(Q) /\ own[o] \in OwnRecord
  <2>1. Typed /\ Tree /\ Children
    BY DEF IInv
  <2>2. own[o] \in OwnRecord
    BY <2>1 DEF Typed
  <2> QED
    BY <2>1, <2>2, OwnedFinite DEF CommandType, SeqCommand, OwnRecord
<1>1. \A c \in Q : /\ st(c) \in Work /\ st(c) = [op |-> "send", to |-> c, type |-> "term", arg |-> linger, inc |-> 0]
                   /\ \A D : st(c) \in Sends(D) <=> Com(c, "term", linger) \in D
  BY <1>0, StepFacts
<1>2. IsFiniteSet(S)
  <2> DEFINE g == [c \in Q |-> st(c)]
  <2> HIDE DEF st
  <2>1. g \in Surjection(Q, S)
    BY DEF Surjection
  <2> QED
    BY <1>0, <2>1, FS_Surjection
<1>3. /\ q \in Seq(S) /\ \A i \in DOMAIN q : q[i] \in S
      /\ \A D : SeqCount(q, D) = Cardinality(S \cap D)
  BY <1>2, SetToSeqCount
<1>4. \A e \in S : e \in Work /\ e.op = "send" /\ e.type = "term" /\ e.inc = 0 /\ e.arg = linger /\ e.to \in Q
  BY <1>1
<1>5. q \in Seq(Work) /\ \A i \in DOMAIN q : q[i].op = "send" /\ q[i].type = "term" /\ q[i].inc = 0 /\ q[i].to \in Q
  <2>1. S \subseteq Work
    BY <1>4
  <2>2. q \in Seq(S) /\ \A i \in DOMAIN q : q[i] \in S
    BY <1>3
  <2>3. q \in Seq(Work)
    <3> HIDE DEF q, S
    <3> QED
      BY <2>1, <2>2
  <2> QED
    BY <1>4, <2>2, <2>3
<1>6. \A c \in Q : Alive(c) /\ c # Socket /\ c \in Object
  <2> SUFFICES ASSUME NEW c \in Q PROVE Alive(c) /\ c # Socket /\ c \in Object
    OBVIOUS
  <2>1. c \in Object /\ Made(c) /\ own[c].owner = o
    BY <1>0 DEF Tree
  <2>2. c # Socket
    BY <1>0, <2>1, OwnAssumption DEF Tree
  <2> QED
    BY <1>0, <2>1, <2>2 DEF Children, ChildOK
<1>7. ASSUME NEW c \in Object PROVE SeqCount(q, Sends(To(c, "term"))) = B(c \in Q)
  <2> DEFINE D == Sends(To(c, "term"))
  <2>1. \A d \in Q : st(d) \in D <=> d = c
    BY <1>0, <1>1, ComIn
  <2>2. CASE c \in Q
    <3>1. S \cap D = {st(c)}
      BY <2>1, <2>2
    <3>2. Cardinality(S \cap D) = 1
      BY <3>1, FS_Singleton
    <3> QED
      BY <1>3, <2>2, <3>2 DEF B
  <2>3. CASE c \notin Q
    <3>1. S \cap D = {}
      BY <2>1, <2>3
    <3>2. Cardinality(S \cap D) = 0
      BY <3>1, FS_EmptySet
    <3> QED
      BY <1>3, <2>3, <3>2 DEF B
  <2> QED
    BY <2>2, <2>3
<1>8. ASSUME NEW D, \A m \in D : m.type # "term" PROVE SeqCount(q, Sends(D)) = 0
  <2>1. \A e \in S : e \notin Sends(D)
    BY <1>4, <1>8 DEF Sends, Com
  <2>2. S \cap Sends(D) = {}
    BY <2>1
  <2>3. Cardinality(S \cap Sends(D)) = 0
    BY <2>2, FS_EmptySet
  <2> QED
    BY <1>3, <2>3
<1> HIDE DEF S, q
<1>9. /\ NoDelete(q) /\ Plain(q) /\ Calm(q) /\ NoInc(q) /\ NoCheck(q)
      /\ \A T : "term" \in T => Only(q, T)
  BY <1>0, <1>5 DEF NoDelete, Plain, Calm, NoInc, NoCheck, Only
<1>10. StepsOK(q, Tid[o])
  <2> SUFFICES ASSUME NEW i \in DOMAIN q PROVE StepOK(q, i, Tid[o])
    BY DEF StepsOK
  <2>1. /\ q[i].op = "send" /\ q[i].type = "term" /\ q[i].inc = 0
        /\ q[i].to \in Object /\ q[i].to # Socket /\ Alive(q[i].to)
    BY <1>5, <1>6
  <2>2. CommandOK(Com(q[i].to, q[i].type, q[i].arg), Tid[q[i].to])
    BY <2>1 DEF CommandOK, Com
  <2>3. SendOK(q, i, Tid[o])
    BY <2>1, <2>2 DEF SendOK
  <2> QED
    BY <2>1, <2>3 DEF StepOK
<1>11. /\ k \in Seq(Work) /\ NoDelete(k) /\ Plain(k) /\ Calm(k) /\ check_acks(o) \in Range(k) /\ StepsOK(k, Tid[o])
       /\ \A T : Only(k, T)
  BY CheckStep
<1>12. NoInc(k) /\ \A D : SeqCount(k, Sends(D)) = 0
  <2>1. DOMAIN k = {1} /\ k[1].op = "check"
    BY OwnStepFacts
  <2> QED
    BY <2>1, OwnStepFacts, CountSingle DEF NoInc, B
<1> HIDE DEF k
<1>13. /\ q \o k \in Seq(Work) /\ NoDelete(q \o k) /\ Plain(q \o k) /\ Calm(q \o k)
       /\ \A T : Only(q, T) /\ Only(k, T) => Only(q \o k, T)
       /\ Range(q \o k) = Range(q) \cup Range(k)
  BY <1>5, <1>9, <1>11, ConcatForm
<1>14. StepsOK(q \o k, Tid[o])
  BY <1>5, <1>9, <1>10, <1>11, <1>12, StepsConcat
<1>15. \A D : SeqCount(q \o k, Sends(D)) = SeqCount(q, Sends(D))
  <2> SUFFICES ASSUME NEW D PROVE SeqCount(q \o k, Sends(D)) = SeqCount(q, Sends(D))
    OBVIOUS
  <2>1. q \in Seq(Work) /\ k \in Seq(Work)
    BY <1>5, <1>11
  <2>2. SeqCount(q \o k, Sends(D)) = SeqCount(q, Sends(D)) + SeqCount(k, Sends(D))
    BY <2>1, CountConcat
  <2>3. SeqCount(q, Sends(D)) \in Nat
    BY <2>1, SeqCountType
  <2> QED
    BY <1>12, <2>2, <2>3
<1>16. process_term(o, own[o], linger) = q \o k
  BY DEF process_term, q, S, k
<1>17. NoInc(q \o k)
  <2>1. \A i \in DOMAIN (q \o k) : (i \in DOMAIN q /\ (q \o k)[i] = q[i]) \/ \E j \in DOMAIN k : (q \o k)[i] = k[j]
    <3>1. q \in Seq(Work) /\ k \in Seq(Work)
      BY <1>5, <1>11
    <3>2. /\ \A i \in DOMAIN q : i \in DOMAIN (q \o k) /\ (q \o k)[i] = q[i]
          /\ \A i \in DOMAIN (q \o k) : i \in DOMAIN q \/ (i - Len(q) \in DOMAIN k /\ (q \o k)[i] = k[i - Len(q)] /\ i > Len(q))
      BY <3>1, ConcatElements
    <3> QED
      BY <3>2
  <2> QED
    BY <1>9, <1>12, <2>1 DEF NoInc
<1> QED
  BY <1>7, <1>8, <1>9, <1>11, <1>13, <1>14, <1>15, <1>16, <1>17

-----------------------------------------------------------------------------
\* The object o lets go of its children.
Ending(o) ==
    /\ own' \in [Object -> OwnRecord]
    /\ own'[o].terminating /\ own'[o].owned = {} /\ Kept(own'[o], own[o])
    /\ own'[o].processed_seqnum = own[o].processed_seqnum
    /\ \A x \in Object : x # o => own'[x] = own[x]

\* The tree,
LEMMA EndingTree ==
    ASSUME Typed, Tree, NEW o \in Object, Made(o), Ending(o), (o # Socket /\ closed' = closed) \/ (o = Socket /\ closed')
    PROVE  /\ Tree' /\ SameLife
           /\ \A x \in Object : Made(x)' <=> Made(x)
<1>1. SameLife
  BY DEF Ending, Kept, SameLife
<1>2. \A x \in Object : own'[x].life = own[x].life /\ own'[x].owner = own[x].owner
  BY <1>1 DEF SameLife
<1>3. own'[Socket].owner = None /\ own'[Socket].life # "none" /\ own'[Socket].terminating = closed'
  BY <1>2, SocketIn DEF Tree, Ending, Made, Typed, OwnRecord
<1>4. \A x \in Object : own'[x].terminating => own'[x].owned = {}
  BY DEF Tree, Ending
<1>5. \A c \in Object \ {Socket} : ~(own'[c].life # "none") => own'[c] = [own_t EXCEPT !.life = "none"]
  BY <1>2 DEF Tree, Ending, Made
<1>6. ASSUME NEW c \in Object \ {Socket}, own'[c].life # "none"
      PROVE  own'[c].owner \in OwnersOf(c) /\ own'[own'[c].owner].life # "none"
  <2>1. own[c].owner \in OwnersOf(c) /\ own[own[c].owner].life # "none"
    BY <1>2, <1>6 DEF Tree, Made
  <2>2. own[c].owner \in Object
    BY <2>1, SocketIn DEF OwnersOf
  <2> QED
    BY <1>2, <2>1, <2>2
<1>7. ASSUME NEW x \in Object, NEW c \in own'[x].owned
      PROVE  own'[c].life # "none" /\ own'[c].owner = x
  <2>1. c \in own[x].owned
    BY <1>7 DEF Ending
  <2>2. c \in Object
    BY <2>1 DEF Typed, OwnRecord
  <2> QED
    BY <1>2, <2>1, <2>2 DEF Tree, Made
<1> QED
  BY <1>1, <1>2, <1>3, <1>4, <1>5, <1>6, <1>7 DEF Tree, Made

\* The stations of the children that have been told to go.
LEMMA EndingChildren ==
    ASSUME Typed, Tree, Children, QType, NEW o \in Object, Made(o), Ending(o), SameAlive,
           \A c \in Object : c # o => Terms(c)' = Terms(c) + B(c \in own[o].owned),
           \A c \in Object : c # o => (c \in pending' <=> c \in pending),
           \A c \in Object : Owns(c)' = Owns(c),
           NEW c \in Object \ {Socket}, c # o, Made(c)
    PROVE  ChildOK(c)'
<1>1. SameLife
  BY DEF Ending, Kept, SameLife
<1>2. own'[c].owner = own[c].owner /\ own'[c].terminating = own[c].terminating
  BY DEF Ending
<1>3. own[c].owner \in Object
  BY SocketIn DEF Tree, OwnersOf
<1>4. ChildOK(c)
  BY DEF Children
<1>5. Alive(c)' <=> Alive(c)
  BY DEF SameAlive
<1>6. CASE own[c].owner = o
  <2>1. own'[own'[c].owner].owned = {}
    BY <1>2, <1>6 DEF Ending
  <2>2. CASE Alive(c)
    <3>1. Owns(c) + B(c \in own[o].owned) + Terms(c) + B(c \in pending) + B(own[c].terminating) = 1
      BY <1>4, <1>6, <2>2 DEF ChildOK
    <3>2. /\ B(c \in own'[own'[c].owner].owned) = 0 /\ B(c \in pending') = B(c \in pending)
          /\ B(own'[c].terminating) = B(own[c].terminating)
      BY <1>2, <2>1 DEF B
    <3>3. /\ B(c \in own[o].owned) \in Nat /\ B(c \in pending) \in Nat /\ B(own[c].terminating) \in Nat
          /\ Owns(c) \in Nat /\ Terms(c) \in Nat
      BY CountsType DEF B
    <3>4. Owns(c)' + B(c \in own'[own'[c].owner].owned) + Terms(c)' + B(c \in pending') + B(own'[c].terminating) = 1
      BY <3>1, <3>2, <3>3
    <3> QED
      BY <1>5, <2>2, <3>4 DEF ChildOK
  <2>3. CASE ~Alive(c)
    <3>1. Owns(c) = 0 /\ Terms(c) = 0 /\ c \notin own[o].owned /\ c \notin pending
      BY <1>4, <1>6, <2>3 DEF ChildOK
    <3>2. Owns(c)' = 0 /\ Terms(c)' = 0 /\ c \notin pending'
      BY <3>1 DEF B
    <3> QED
      BY <1>5, <2>1, <2>3, <3>2 DEF ChildOK
  <2> QED
    BY <2>2, <2>3
<1>7. CASE own[c].owner # o
  <2>1. own'[own'[c].owner].owned = own[own[c].owner].owned
    BY <1>2, <1>3, <1>7 DEF Ending
  <2>2. c \notin own[o].owned
    BY <1>7 DEF Tree
  <2>3. Terms(c)' = Terms(c)
    BY <2>2, CountsType DEF B
  <2> QED
    BY <1>2, <1>4, <1>5, <2>1, <2>3 DEF ChildOK
<1> QED
  BY <1>6, <1>7

\* the children that are waited for,
LEMMA EndingKids ==
    ASSUME IInv, NEW o \in Object, Made(o), Ending(o), SameAlive,
           \A c \in Object : Owns(c)' = Owns(c)
    PROVE  /\ \A x \in Object : x # o => Kids(x)' = Kids(x)
           /\ Cardinality(Kids(o)') = Cardinality(Kids(o)) + Cardinality(own[o].owned)
           /\ \A x \in Object : Cardinality(Kids(x)) \in Nat
           /\ Cardinality(own[o].owned) \in Nat
<1>0. Typed /\ Tree /\ Children /\ QType
  BY DEF IInv, Typed
<1>1. \A x \in Object : own'[x].owner = own[x].owner
  BY DEF Ending, Kept
<1>2. \A x \in Object : x # o => Kids(x)' = Kids(x)
  BY <1>1 DEF Kids, SameAlive, Ending
<1>3. \A c \in own[o].owned : c \in Object /\ Alive(c) /\ own[c].owner = o /\ Owns(c) = 0
  <2> SUFFICES ASSUME NEW c \in own[o].owned PROVE c \in Object /\ Alive(c) /\ own[c].owner = o /\ Owns(c) = 0
    OBVIOUS
  <2>1. c \in Object
    BY <1>0 DEF Typed, OwnRecord
  <2>2. Made(c) /\ own[c].owner = o
    BY <1>0 DEF Tree
  <2>3. c # Socket
    BY <1>0, <2>2, OwnAssumption DEF Tree
  <2>4. ChildOK(c)
    BY <1>0, <2>1, <2>2, <2>3 DEF Children
  <2>5. Alive(c)
    BY <2>2, <2>4 DEF ChildOK
  <2>6. Owns(c) + B(c \in own[o].owned) + Terms(c) + B(c \in pending) + B(own[c].terminating) = 1
    BY <2>2, <2>4, <2>5 DEF ChildOK
  <2>7. /\ B(c \in own[o].owned) = 1 /\ B(c \in pending) \in Nat /\ B(own[c].terminating) \in Nat
        /\ Owns(c) \in Nat /\ Terms(c) \in Nat
    BY <1>0, CountsType DEF B
  <2> QED
    BY <2>1, <2>2, <2>5, <2>6, <2>7
<1>4. Kids(o)' = Kids(o) \cup own[o].owned
  <2>1. own'[o].owned = {}
    BY DEF Ending
  <2> QED
    BY <1>1, <1>3, <2>1 DEF Kids, SameAlive
<1>5. Kids(o) \cap own[o].owned = {}
  BY DEF Kids
<1>6. \A x \in Object : IsFiniteSet(Kids(x)) /\ Cardinality(Kids(x)) \in Nat
  BY FS_Subset, FS_CardinalityType, OwnAssumption DEF Kids
<1>7. IsFiniteSet(own[o].owned) /\ Cardinality(own[o].owned) \in Nat
  BY <1>0, OwnedFinite DEF Typed
<1> DEFINE K == Kids(o)
           W == own[o].owned
<1>8. IsFiniteSet(K) /\ IsFiniteSet(W) /\ K \cap W = {}
  BY <1>5, <1>6, <1>7
<1>9. Cardinality(K \cup W) = Cardinality(K) + Cardinality(W)
  <2> HIDE DEF K, W
  <2>1. Cardinality(K \cup W) = Cardinality(K) + Cardinality(W) - Cardinality(K \cap W)
    BY <1>8, FS_Union
  <2>2. Cardinality(K \cap W) = 0
    BY <1>8, FS_EmptySet
  <2>3. Cardinality(K) \in Nat /\ Cardinality(W) \in Nat
    BY <1>8, FS_CardinalityType
  <2> QED
    BY <2>1, <2>2, <2>3
<1> QED
  BY <1>2, <1>4, <1>6, <1>7, <1>9
-----------------------------------------------------------------------------
(* Turns in which an object lets go of its children *)

EndHyp(o, steps, T) ==
    /\ Turn(o, steps) /\ Plain(steps) /\ Only(steps, T) /\ T \cap SeqCommand = {} /\ "term_ack" \notin T
    /\ (Takes(o) /\ Msg(o).type \in T) \/ mailbox' = mailbox
    /\ StepsOK(steps, Tid[o]) /\ InOrder(steps) /\ check_acks(o) \in Range(steps)
    /\ o \in Object /\ Alive(o) /\ Ending(o)
    /\ (o # Socket /\ closed' = closed) \/ (o = Socket /\ closed')
    /\ \A c \in Object : c # o => Terms(c)' = Terms(c) + B(c \in own[o].owned)
    /\ \A c \in Object : c # o => (c \in pending' <=> c \in pending)
    /\ o # Socket => /\ Terms(o) + B(o \in pending) >= 1 /\ Terms(o)' = 0 /\ Plugs(o) = 0
                     /\ \A p \in Pipe : pstate'[<<p, "socket">>] = pstate[<<p, "socket">>]
    /\ polled' \subseteq polled /\ o \notin polled' /\ engine' \subseteq engine /\ o \notin pending' /\ pending' \subseteq pending
    /\ psession' = psession /\ endpoints' = endpoints /\ immediate' = immediate
    /\ \A s \in Session : s # o => OtherPipes(s, {})' = OtherPipes(s, {})
    /\ o \in Session => OtherPipes(o, {})' = {}
    /\ pipe' \in [Session -> Pipe \cup {None}] /\ pstate' \in [Pipe \X {"socket", "session"} -> PState]
    /\ \A s \in Session : pipe'[s] # None =>
          psession[pipe'[s]] = s /\ pstate'[<<pipe'[s], "session">>] \notin {"none", "gone"}
    /\ closed' => \A p \in Pipe : pstate'[<<p, "socket">>] \notin {"active", "waiting_for_delimiter"}

\* the commands and counters,
LEMMA EndBasics ==
    ASSUME IInv, NEW o, NEW steps, NEW T, EndHyp(o, steps, T)
    PROVE  /\ QType' /\ SameAlive /\ Grows /\ Seqnums' /\ Commands' /\ Todo' /\ Engines' /\ Order' /\ Requests'
           /\ SameCounts(T) /\ SameLife /\ Tree' /\ Typed'
           /\ \A x : Plugs(x)' = Plugs(x) /\ Attaches(x)' = Attaches(x) /\ Owns(x)' = Owns(x) /\ Acks(x)' = Acks(x)
<1>0. /\ Typed /\ Tree /\ o \in Object /\ Made(o) /\ Ending(o)
      /\ Turn(o, steps) /\ Plain(steps) /\ Only(steps, T) /\ T \cap SeqCommand = {} /\ "term_ack" \notin T
      /\ (Takes(o) /\ Msg(o).type \in T) \/ mailbox' = mailbox
      /\ own' \in [Object -> OwnRecord] /\ psession' = psession /\ polled' \subseteq polled /\ engine' \subseteq engine
      /\ StepsOK(steps, Tid[o]) /\ InOrder(steps)
      /\ (o # Socket /\ closed' = closed) \/ (o = Socket /\ closed')
  BY DEF IInv, EndHyp, Alive, Made, Ending
<1>1. SameLife /\ Tree'
  BY <1>0, EndingTree
<1>2. /\ QType' /\ SameAlive /\ Grows /\ Seqnums' /\ Commands' /\ Todo' /\ Engines' /\ Order' /\ Requests'
      /\ SameCounts(T)
      /\ \A x : Plugs(x)' = Plugs(x) /\ Attaches(x)' = Attaches(x) /\ Owns(x)' = Owns(x)
  BY <1>0, <1>1, PlainTurn
<1>3. \A x : Acks(x)' = Acks(x)
  BY <1>0, <1>2 DEF SameCounts
<1>4. Typed'
  <2>1. closed' \in BOOLEAN
    BY <1>1 DEF Tree, EndHyp, Typed, IInv
  <2> QED
    BY <1>0, <1>2, <2>1 DEF Typed, EndHyp
<1> QED
  BY <1>1, <1>2, <1>3, <1>4

\* the links,
LEMMA EndLinks ==
    ASSUME IInv, NEW o, NEW steps, NEW T, EndHyp(o, steps, T)
    PROVE  Links'
<1>0. /\ Typed /\ Links /\ SameAlive /\ SameLife
      /\ \A x \in Object : x # o => own'[x] = own[x]
  BY EndBasics DEF IInv, EndHyp, Ending
<1>1. Session \subseteq Object /\ polled \subseteq Object /\ engine \subseteq Object
  BY <1>0, SocketIn DEF Typed
<1>2. /\ \A y \in polled' : Alive(y)' /\ ~own'[y].terminating
      /\ \A s \in engine' : own'[s].life = "live"
  BY <1>0, <1>1 DEF Links, SameAlive, SameLife, EndHyp
<1>3. \A q \in Pipe : psession'[q] # None => Made(psession[q])'
  <2> SUFFICES ASSUME NEW q \in Pipe, psession'[q] # None PROVE own'[psession[q]].life # "none"
    BY DEF Made, EndHyp
  <2>1. psession[q] \in Object /\ own[psession[q]].life # "none"
    BY <1>0, <1>1 DEF Typed, Links, Made, EndHyp
  <2> QED
    BY <1>0, <2>1 DEF SameLife
<1>4. \A s \in Session : own'[s].terminating => OtherPipes(s, {})' = {}
  BY <1>0, <1>1 DEF Links, EndHyp
<1>5. \A s \in pending' : OtherPipes(s, {})' # {}
  BY <1>0 DEF Links, EndHyp, Typed
<1> QED
  BY <1>0, <1>2, <1>3, <1>4, <1>5 DEF Links, EndHyp

\* the children, what is gone and the checks,
LEMMA EndRest ==
    ASSUME IInv, NEW o, NEW steps, NEW T, EndHyp(o, steps, T)
    PROVE  Children' /\ Gone' /\ Checked' /\ PlugFirst'
<1>0. /\ Typed /\ Tree /\ Children /\ Gone /\ Checked /\ PlugFirst /\ QType /\ QType' /\ SameAlive /\ SameLife
      /\ o \in Object /\ Made(o) /\ Ending(o) /\ Alive(o) /\ Alive(o)'
      /\ \A x \in Object : x # o => own'[x] = own[x]
      /\ \A x : Plugs(x)' = Plugs(x) /\ Owns(x)' = Owns(x)
  BY EndBasics DEF IInv, EndHyp, Ending, Typed, Alive, Made, SameAlive
<1>1. \A c \in Object : c # o => Terms(c)' = Terms(c) + B(c \in own[o].owned)
  BY DEF EndHyp
<1>2. \A c \in Object : c # o => (c \in pending' <=> c \in pending)
  BY DEF EndHyp
<1>3. Children'
  <2> SUFFICES ASSUME NEW c \in Object \ {Socket}, Made(c)' PROVE ChildOK(c)'
    BY DEF Children
  <2>1. Made(c)
    BY <1>0 DEF Made, SameLife
  <2>2. CASE c # o
    BY <1>0, <1>1, <1>2, <2>1, <2>2, EndingChildren
  <2>3. CASE c = o
    <3>1. ChildOK(o) /\ own[o].owner \in Object
      BY <1>0, <2>1, <2>3, OwnerIn DEF Children
    <3>2. Owns(o) + B(o \in own[own[o].owner].owned) + Terms(o) + B(o \in pending) + B(own[o].terminating) = 1
      BY <1>0, <3>1 DEF ChildOK
    <3>3. /\ Terms(o) + B(o \in pending) >= 1 /\ Terms(o)' = 0 /\ o \notin pending'
      BY <2>3 DEF EndHyp
    <3>4. /\ B(o \in own[own[o].owner].owned) \in Nat /\ B(o \in pending) \in Nat /\ B(own[o].terminating) \in Nat
          /\ Owns(o) \in Nat /\ Terms(o) \in Nat
      BY <1>0, CountsType DEF B
    <3>5. Owns(o) = 0 /\ B(o \in own[own[o].owner].owned) = 0
      BY <3>2, <3>3, <3>4
    <3>6. own'[own'[o].owner].owned \subseteq own[own[o].owner].owned
      BY <1>0, <3>1 DEF Ending, Kept
    <3>7. /\ B(o \in own'[own'[o].owner].owned) = 0 /\ B(o \in pending') = 0
          /\ B(own'[o].terminating) = 1
      BY <1>0, <3>3, <3>5, <3>6 DEF B, Ending
    <3>8. Owns(o)' + B(o \in own'[own'[o].owner].owned) + Terms(o)' + B(o \in pending') + B(own'[o].terminating) = 1
      BY <1>0, <3>3, <3>5, <3>7
    <3> QED
      BY <1>0, <2>3, <3>8 DEF ChildOK
  <2> QED
    BY <2>2, <2>3
<1>4. Gone'
  <2> SUFFICES ASSUME NEW y \in Object, Made(y)', ~Alive(y)' PROVE GoneOK(y)'
    BY DEF Gone
  <2>1. Made(y) /\ ~Alive(y) /\ y # o
    BY <1>0 DEF SameAlive, SameLife, Made
  <2>2. GoneOK(y)
    BY <1>0, <2>1 DEF Gone
  <2>3. \A c \in Object : own'[c].owner = y => ~Alive(c)'
    BY <1>0, <2>2 DEF GoneOK, SameLife, SameAlive
  <2>4. y = Socket => \A p \in Pipe : pstate'[<<p, "socket">>] \in {"none", "gone"}
    BY <2>1, <2>2 DEF GoneOK, EndHyp
  <2> QED
    BY <1>0, <2>1, <2>2, <2>3, <2>4 DEF GoneOK
<1>5. Checked'
  <2>1. \A y \in Object : Alive(y)' /\ CanGo(own'[y]) =>
               \/ Alive(y) /\ CanGo(own[y])
               \/ y = o /\ check_acks(o) \in Range(steps)
    BY <1>0 DEF SameAlive, EndHyp
  <2> QED
    BY <1>0, <2>1, TurnChecked DEF EndHyp
<1>6. PlugFirst'
  <2> SUFFICES ASSUME NEW c \in Object \ {Socket}, Plugs(c)' >= 1 PROVE ~own'[c].terminating /\ c \notin pending'
    BY DEF PlugFirst
  <2>1. Plugs(c) >= 1 /\ Plugs(c) \in Nat
    BY <1>0, CountsType
  <2>2. c # o
    BY <2>1 DEF EndHyp
  <2> QED
    BY <1>0, <1>2, <2>1, <2>2 DEF PlugFirst
<1> QED
  BY <1>3, <1>4, <1>5, <1>6

\* and the awaited acknowledgements when an object terminates.
LEMMA EndAwaited ==
    ASSUME IInv, NEW o, NEW steps, NEW T, EndHyp(o, steps, T), o # Socket,
           own'[o].term_acks = own[o].term_acks + Cardinality(own[o].owned)
    PROVE  Awaited'
<1>0. /\ Awaited /\ o \in Object /\ QType
      /\ \A x \in Object : x # o => own'[x] = own[x]
      /\ \A x : Acks(x)' = Acks(x)
  BY EndBasics DEF IInv, EndHyp, Ending, Typed
<1>1. /\ \A x \in Object : x # o => Kids(x)' = Kids(x)
      /\ Cardinality(Kids(o)') = Cardinality(Kids(o)) + Cardinality(own[o].owned)
      /\ \A x \in Object : Cardinality(Kids(x)) \in Nat
      /\ Cardinality(own[o].owned) \in Nat
  <2>1. o \in Object /\ Made(o) /\ Ending(o) /\ SameAlive /\ \A c \in Object : Owns(c)' = Owns(c)
    BY EndBasics DEF EndHyp, Alive, Made
  <2> QED
    BY <2>1, EndingKids
<1>2. \A x \in Object : AwaitedPipes(x)' = AwaitedPipes(x)
  <2>1. closed' = closed /\ \A p \in Pipe : pstate'[<<p, "socket">>] = pstate[<<p, "socket">>]
    BY DEF EndHyp
  <2>2. pipes' = pipes
    BY <2>1 DEF pipes
  <2> QED
    BY <2>1, <2>2 DEF AwaitedPipes
<1>3. AwaitedPipes(o) = {}
  BY DEF AwaitedPipes
<1>4. ASSUME NEW x \in Object, x # o
      PROVE  own'[x].term_acks = Cardinality(Kids(x)') + Acks(x)' + Cardinality(AwaitedPipes(x)')
  BY <1>0, <1>1, <1>2, <1>4 DEF Awaited
<1>5. own'[o].term_acks = Cardinality(Kids(o)') + Acks(o)' + Cardinality(AwaitedPipes(o)')
  <2>1. own[o].term_acks = Cardinality(Kids(o)) + Acks(o) + 0
    BY <1>0, <1>3, FS_EmptySet DEF Awaited
  <2>2. Cardinality(AwaitedPipes(o)') = 0
    BY <1>0, <1>2, <1>3, FS_EmptySet
  <2>3. own'[o].term_acks = (Cardinality(Kids(o)) + Acks(o)) + Cardinality(own[o].owned)
    BY <1>0, <1>1, <2>1, CountsType
  <2> QED
    BY <1>0, <1>1, <2>2, <2>3, CountsType
<1> QED
  BY <1>4, <1>5 DEF Awaited

\* An object handles the order to go.
LEMMA TermTaken ==
    ASSUME IInv, NEW o \in Object, Handles(o, "term")
    PROVE  /\ o # Socket /\ Alive(o) /\ Terms(o) >= 1 /\ ~own[o].terminating /\ o \notin pending
           /\ Terms(o) = 1 /\ Owns(o) = 0 /\ Plugs(o) = 0 /\ arg(o) \in Arg
<1>0. Typed /\ QType /\ Tree /\ Commands /\ Todo /\ Order /\ Children /\ "term" \in CommandType
  BY DEF IInv, Typed, CommandType
<1>1. /\ CommandOK(Com(o, "term", arg(o)), Tid[o]) /\ arg(o) \in Arg
      /\ \A D : Com(o, "term", arg(o)) \in D => Flight(D) >= 1
  BY <1>0, HeadOK
<1>2. o # Socket /\ Alive(o)
  BY <1>1 DEF CommandOK, Com
<1>3. Terms(o) >= 1
  BY <1>0, <1>1, ComIn DEF Terms
<1>4. ChildOK(o)
  BY <1>0, <1>2 DEF Children, Alive, Made
<1>5. Owns(o) + B(o \in own[own[o].owner].owned) + Terms(o) + B(o \in pending) + B(own[o].terminating) = 1
  BY <1>2, <1>4 DEF ChildOK
<1>6. /\ B(o \in own[own[o].owner].owned) \in Nat /\ B(o \in pending) \in Nat /\ B(own[o].terminating) \in Nat
      /\ Owns(o) \in Nat /\ Terms(o) \in Nat
  BY <1>0, CountsType DEF B
<1>7. Terms(o) = 1 /\ Owns(o) = 0 /\ B(o \in pending) = 0 /\ B(own[o].terminating) = 0
  BY <1>3, <1>5, <1>6
<1>8. o \notin pending /\ ~own[o].terminating
  BY <1>7 DEF B
<1>9. Plugs(o) = 0
  <2>1. \A t \in Thread : \A i \in DOMAIN mailbox[t] : mailbox[t][i] \notin To(o, "plug")
    <3> SUFFICES ASSUME NEW t \in Thread, NEW i \in DOMAIN mailbox[t], mailbox[t][i] \in To(o, "plug") PROVE FALSE
      OBVIOUS
    <3>1. t = Tid[o] /\ mailbox[t][i].to = o /\ mailbox[t][i].type = "plug"
      BY <1>0 DEF Commands, CommandOK, To
    <3>2. /\ mailbox[t] \in Seq(Cmd) /\ mailbox[t] # <<>> /\ Head(mailbox[t]).to = o /\ Head(mailbox[t]).type = "term"
      BY <1>0, <3>1 DEF Handles, QType
    <3>3. /\ DOMAIN mailbox[t] = 1..Len(mailbox[t]) /\ Len(mailbox[t]) \in Nat /\ Len(mailbox[t]) # 0
          /\ Head(mailbox[t]) = mailbox[t][1]
      BY <3>2, EmptySeq, LenProperties
    <3>4. 1 \in DOMAIN mailbox[t] /\ i > 1
      BY <3>1, <3>2, <3>3
    <3> QED
      BY <1>0, <3>1, <3>2, <3>3, <3>4 DEF Order
  <2>2. \A t \in Thread : \A i \in DOMAIN todo[t] : todo[t][i] \notin Sends(To(o, "plug"))
    <3> SUFFICES ASSUME NEW t \in Thread, NEW i \in DOMAIN todo[t], todo[t][i] \in Sends(To(o, "plug")) PROVE FALSE
      OBVIOUS
    <3>1. todo[t][i].op = "send" /\ todo[t][i].to = o /\ todo[t][i].type = "plug"
      BY DEF Sends, SendStep, To, Com
    <3>2. SendOK(todo[t], i, t)
      BY <1>0, <3>1 DEF Todo, StepsOK, StepOK
    <3>3. /\ i + 1 \in DOMAIN todo[t] /\ todo[t][i + 1].op = "send"
          /\ todo[t][i + 1].type = "own" /\ todo[t][i + 1].arg = o
      BY <3>1, <3>2 DEF SendOK
    <3>4. todo[t][i + 1] \in Work
      BY <1>0, <3>3, ElementOfSeq DEF QType
    <3>5. todo[t][i + 1] \in Sends(About(o, "own"))
      BY <3>3, <3>4 DEF Sends, About, Com, Work, SendStep, OwnStep, Cmd
    <3>6. Owns(o) >= 1
      BY <1>0, <3>3, <3>5, PlannedInFlight DEF Owns
    <3> QED
      BY <1>7, <3>6
  <2> QED
    BY <1>0, <2>1, <2>2, FlightZero DEF Plugs
<1> QED
  BY <1>1, <1>2, <1>3, <1>7, <1>8, <1>9
-----------------------------------------------------------------------------
(* One end of a pipe is told to terminate *)

\* Steps only add commands when none of their kind is taken.
LEMMA FreshFlight ==
    ASSUME NEW o, NEW steps, Turn(o, steps), NEW D, (Takes(o) /\ Msg(o) \notin D) \/ mailbox' = mailbox
    PROVE  Flight(D)' = Flight(D) + SeqCount(steps, Sends(D))
<1>0. QType /\ o \in Object /\ steps \in Seq(Work) /\ Plans(o, steps)
  BY DEF Turn
<1>1. CASE Takes(o) /\ Msg(o) \notin D
  <2>1. Flight(D)' = (Flight(D) - B(Msg(o) \in D)) + SeqCount(steps, Sends(D))
    BY <1>0, <1>1, HandledFlight
  <2>2. B(Msg(o) \in D) = 0 /\ Flight(D) \in Nat
    BY <1>0, <1>1, FlightType DEF B
  <2> QED
    BY <2>1, <2>2
<1>2. CASE mailbox' = mailbox
  BY <1>0, <1>2, ActsFlight
<1> QED
  BY <1>1, <1>2

\* What an end in the state st sends to its peer when it is told to terminate.
Parting(st, delay, ty) ==
    IF st = "active" THEN (IF ty = "pipe_term" THEN 1 ELSE 0)
    ELSE IF st = "waiting_for_delimiter" /\ ~delay THEN (IF ty = "pipe_term_ack" THEN 1 ELSE 0)
    ELSE 0
Leaves(steps, p, x, delay) ==
    /\ \A q \in Pipe : \A y \in End : \A ty \in {"pipe_term", "pipe_term_ack"} :
          SeqCount(steps, Sends(ToEnd(q, y, ty)))
             = IF q = p /\ y = Peer(x) THEN Parting(pstate[<<p, x>>], delay, ty) ELSE 0
    /\ \A q \in Pipe : SeqCount(steps, Sends(About(q, "bind"))) = 0
    /\ \A q \in Pipe : \/ SeqCount(steps, Sends(About(q, "hiccup"))) = 0
                       \/ q = p /\ x = "session" /\ pstate[<<p, x>>] = "active"

\* The joint state of a pipe when one end terminates.
LEMMA TerminateRows ==
    ASSUME NEW p \in Pipe, NEW x \in End, NEW delay \in BOOLEAN, PipeOK(p), QType, psession'[p] = psession[p],
           pstate'[<<p, x>>] = PTerminated(pstate[<<p, x>>], delay), pstate'[<<p, Peer(x)>>] = pstate[<<p, Peer(x)>>],
           Binds(p)' = Binds(p), Hiccups(p)' = Hiccups(p) \/ (x = "session" /\ pstate[<<p, x>>] = "active"),
           PT(p, x)' = PT(p, x), PA(p, x)' = PA(p, x),
           PT(p, Peer(x))' = PT(p, Peer(x)) + Parting(pstate[<<p, x>>], delay, "pipe_term"),
           PA(p, Peer(x))' = PA(p, Peer(x)) + Parting(pstate[<<p, x>>], delay, "pipe_term_ack")
    PROVE  PipeOK(p)'
<1>1. Peer("socket") = "session" /\ Peer("session") = "socket"
  BY PeerFacts
<1>2. /\ Binds(p) \in Nat /\ Hiccups(p) \in Nat /\ PT(p, "socket") \in Nat /\ PT(p, "session") \in Nat
      /\ PA(p, "socket") \in Nat /\ PA(p, "session") \in Nat
  BY CountsType
<1> DEFINE st == pstate[<<p, x>>]
<1>3. CASE st = "active"
  <2>1. pstate'[<<p, x>>] = "term_req_sent1" /\ PT(p, Peer(x))' = PT(p, Peer(x)) + 1 /\ PA(p, Peer(x))' = PA(p, Peer(x))
    <3>1. /\ PTerminated("active", delay) = "term_req_sent1"
          /\ Parting("active", delay, "pipe_term") = 1 /\ Parting("active", delay, "pipe_term_ack") = 0
      <4>1. PTerminated("active", delay) = "term_req_sent1"
        BY DEF PTerminated
      <4>2. Parting("active", delay, "pipe_term") = 1
        BY DEF Parting
      <4>3. Parting("active", delay, "pipe_term_ack") = 0
        BY DEF Parting
      <4> QED
        BY <4>1, <4>2, <4>3
    <3>2. PA(p, Peer(x)) \in Nat
      BY CountsType
    <3> QED
      BY <1>3, <3>1, <3>2
  <2>2. CASE x = "socket"
    BY <1>1, <1>2, <1>3, <2>1, <2>2 DEF PipeOK, Joint
  <2>3. CASE x = "session"
    BY <1>1, <1>2, <1>3, <2>1, <2>3 DEF PipeOK, Joint
  <2> QED
    BY <2>2, <2>3 DEF End
<1>4. CASE st = "waiting_for_delimiter" /\ ~delay
  <2>1. /\ pstate'[<<p, x>>] = "term_ack_sent" /\ PT(p, Peer(x))' = PT(p, Peer(x)) /\ PA(p, Peer(x))' = PA(p, Peer(x)) + 1
        /\ Hiccups(p)' = Hiccups(p)
    BY <1>1, <1>2, <1>4 DEF PTerminated, Parting, End
  <2>2. CASE x = "socket"
    BY <1>1, <1>2, <1>4, <2>1, <2>2 DEF PipeOK, Joint
  <2>3. CASE x = "session"
    BY <1>1, <1>2, <1>4, <2>1, <2>3 DEF PipeOK, Joint
  <2> QED
    BY <2>2, <2>3 DEF End
<1>5. CASE st # "active" /\ ~(st = "waiting_for_delimiter" /\ ~delay)
  <2>1. /\ pstate'[<<p, x>>] = st /\ PT(p, Peer(x))' = PT(p, Peer(x)) /\ PA(p, Peer(x))' = PA(p, Peer(x))
        /\ Hiccups(p)' = Hiccups(p)
    BY <1>1, <1>2, <1>5 DEF PTerminated, Parting, End
  <2>2. CASE x = "socket"
    BY <1>1, <2>1, <2>2 DEF PipeOK
  <2>3. CASE x = "session"
    BY <1>1, <2>1, <2>3 DEF PipeOK
  <2> QED
    BY <2>2, <2>3 DEF End
<1> QED
  BY <1>3, <1>4, <1>5

\* The steps of pipe_terminate () are well formed.
LEMMA TerminateSteps ==
    ASSUME IInv, NEW p \in Pipe, NEW x \in End, NEW delay \in BOOLEAN, NEW t,
           pstate[<<p, x>>] \in {"active", "waiting_for_delimiter"} => t = Tid[Sink(p, x)]
    PROVE  LET s == pipe_terminate(p, x, delay)
           IN /\ s \in Seq(Work) /\ NoDelete(s) /\ Plain(s) /\ NoInc(s) /\ NoCheck(s) /\ Only(s, PipeMove \ {"hiccup"})
              /\ StepsOK(s, t) /\ InOrder(s) /\ Leaves(s, p, x, delay)
              /\ \A a, ty : ty \notin {"pipe_term", "pipe_term_ack"} => SeqCount(s, Sends(About(a, ty))) = 0
<1>0. Typed /\ QType /\ PipeOK(p)
  BY DEF IInv, Typed, Pipes
<1>1. Peer(x) \in End /\ Peer("socket") = "session" /\ Peer("session") = "socket"
  BY PeerFacts
<1> DEFINE st == pstate[<<p, x>>]
<1>2. ASSUME NEW ty \in {"pipe_term", "pipe_term_ack"}, Parting(st, delay, ty) = 1
      PROVE  /\ psession[p] \in Session /\ Alive(Sink(p, Peer(x))) /\ pipe_terminate(p, x, delay) = Tell(p, x, ty)
             /\ t = Tid[Sink(p, x)]
             /\ ty = "pipe_term" => PA(p, Peer(x)) = 0
             /\ \A ty2 \in {"pipe_term", "pipe_term_ack"} : Parting(st, delay, ty2) = IF ty2 = ty THEN 1 ELSE 0
  <2>1. (st = "active" /\ ty = "pipe_term") \/ (st = "waiting_for_delimiter" /\ ~delay /\ ty = "pipe_term_ack")
    BY <1>2 DEF Parting
  <2>2. pstate[<<p, Peer(x)>>] \notin {"none", "gone"} /\ (ty = "pipe_term" => PA(p, Peer(x)) = 0)
    <3>1. CASE x = "socket"
      BY <1>0, <1>1, <2>1, <3>1 DEF PipeOK, Joint
    <3>2. CASE x = "session"
      BY <1>0, <1>1, <2>1, <3>2 DEF PipeOK, Joint
    <3> QED
      BY <3>1, <3>2 DEF End
  <2>3. psession[p] \in Session /\ Alive(Sink(p, Peer(x)))
    BY <1>1, <2>2, EndAlive
  <2>4. pipe_terminate(p, x, delay) = Tell(p, x, ty)
    BY <2>1 DEF pipe_terminate
  <2>5. \A ty2 \in {"pipe_term", "pipe_term_ack"} : Parting(st, delay, ty2) = IF ty2 = ty THEN 1 ELSE 0
    BY <2>1 DEF Parting
  <2> QED
    BY <2>1, <2>2, <2>3, <2>4, <2>5
<1>3. CASE \E ty \in {"pipe_term", "pipe_term_ack"} : Parting(st, delay, ty) = 1
  <2>1. PICK ty \in {"pipe_term", "pipe_term_ack"} : Parting(st, delay, ty) = 1
    BY <1>3
  <2>2. /\ psession[p] \in Session /\ Alive(Sink(p, Peer(x))) /\ pipe_terminate(p, x, delay) = Tell(p, x, ty)
        /\ t = Tid[Sink(p, x)] /\ (ty = "pipe_term" => PA(p, Peer(x)) = 0)
        /\ \A ty2 \in {"pipe_term", "pipe_term_ack"} : Parting(st, delay, ty2) = IF ty2 = ty THEN 1 ELSE 0
    BY <1>2, <2>1
  <2> DEFINE s == Tell(p, x, ty)
  <2>3. /\ s \in Seq(Work) /\ NoDelete(s) /\ Plain(s) /\ NoInc(s) /\ NoCheck(s) /\ Only(s, PipeMove)
        /\ (ty = "pipe_term_ack" => Answers(s) /\ Calm(s))
        /\ StepsOK(s, Tid[Sink(p, x)])
        /\ \A q \in Pipe : \A y \in End : \A ty2 :
              SeqCount(s, Sends(ToEnd(q, y, ty2))) = B(q = p /\ y = Peer(x) /\ ty2 = ty)
        /\ \A a, ty2 : SeqCount(s, Sends(About(a, ty2))) = B(a = p /\ ty2 = ty)
        /\ DOMAIN s = {1} /\ s[1].op = "send" /\ s[1].to = Sink(p, Peer(x)) /\ s[1].type = ty /\ s[1].arg = p
    BY <2>2, TellFacts
  <2> HIDE DEF s
  <2>4. Only(s, PipeMove \ {"hiccup"})
    BY <2>3 DEF Only
  <2>5. InOrder(s)
    <3>1. CASE ty = "pipe_term"
      BY <1>0, <1>1, <2>2, <2>3, <3>1, TellOrder
    <3>2. CASE ty = "pipe_term_ack"
      BY <2>3, <3>2, CalmInOrder
    <3> QED
      BY <3>1, <3>2
  <2>6. \A a, ty2 : ty2 \notin {"pipe_term", "pipe_term_ack"} => SeqCount(s, Sends(About(a, ty2))) = 0
    BY <2>3 DEF B
  <2>7. Leaves(s, p, x, delay)
    <3>1. \A q \in Pipe : SeqCount(s, Sends(About(q, "bind"))) = 0 /\ SeqCount(s, Sends(About(q, "hiccup"))) = 0
      BY <2>6
    <3>2. \A q \in Pipe : \A y \in End : \A ty2 \in {"pipe_term", "pipe_term_ack"} :
             SeqCount(s, Sends(ToEnd(q, y, ty2))) = IF q = p /\ y = Peer(x) THEN Parting(st, delay, ty2) ELSE 0
      BY <2>2, <2>3 DEF B
    <3> QED
      BY <3>1, <3>2 DEF Leaves
  <2>8. pipe_terminate(p, x, delay) = s
    BY <2>2 DEF s
  <2>9. StepsOK(s, t)
    BY <2>2, <2>3
  <2> QED
    BY <2>3, <2>4, <2>5, <2>6, <2>7, <2>8, <2>9
<1>4. CASE \A ty \in {"pipe_term", "pipe_term_ack"} : Parting(st, delay, ty) # 1
  <2>1. \A ty : Parting(st, delay, ty) = 0
    BY <1>4 DEF Parting
  <2>2. Parting(st, delay, "pipe_term") = 0 /\ Parting(st, delay, "pipe_term_ack") = 0
    BY <2>1
  <2>3. pipe_terminate(p, x, delay) = <<>>
    <3>1. st # "active" /\ ~(st = "waiting_for_delimiter" /\ ~delay)
      <4>1. st # "active"
        BY <2>2 DEF Parting
      <4>2. ~(st = "waiting_for_delimiter" /\ ~delay)
        BY <2>2 DEF Parting
      <4> QED
        BY <4>1, <4>2
    <3> QED
      BY <3>1 DEF pipe_terminate
  <2>4. Leaves(<<>>, p, x, delay)
    BY <2>1, NoSteps DEF Leaves
  <2>5. /\ <<>> \in Seq(Work) /\ NoDelete(<<>>) /\ Plain(<<>>) /\ NoInc(<<>>) /\ NoCheck(<<>>) /\ Only(<<>>, PipeMove \ {"hiccup"})
        /\ StepsOK(<<>>, t) /\ InOrder(<<>>)
        /\ \A a, ty : SeqCount(<<>>, Sends(About(a, ty))) = 0
    BY NoSteps
  <2> QED
    BY <2>3, <2>4, <2>5
<1> QED
  BY <1>3, <1>4 DEF Parting

\* The states of the pipes after that.
EndTerminates(p, x, delay) == pstate' = [pstate EXCEPT ![<<p, x>>] = PTerminated(@, delay)]
\* The ends of the pipes when one of them terminates,
LEMMA TerminateEnds ==
    ASSUME Typed, Links, NEW p \in Pipe, NEW x \in End, NEW delay \in BOOLEAN, EndTerminates(p, x, delay)
    PROVE  /\ pstate' \in [Pipe \X {"socket", "session"} -> PState] /\ SameEnds
           /\ pstate'[<<p, x>>] = PTerminated(pstate[<<p, x>>], delay)
           /\ \A q \in Pipe : \A y \in End : (q # p \/ y # x) => pstate'[<<q, y>>] = pstate[<<q, y>>]
           /\ closed => \A q \in Pipe : pstate'[<<q, "socket">>] \notin {"active", "waiting_for_delimiter"}
<1>1. /\ pstate \in [Pipe \X End -> PState] /\ pstate[<<p, x>>] \in PState
      /\ pstate'[<<p, x>>] = PTerminated(pstate[<<p, x>>], delay)
      /\ \A q \in Pipe : \A y \in End : (q # p \/ y # x) => pstate'[<<q, y>>] = pstate[<<q, y>>]
  BY DEF Typed, End, EndTerminates
<1>2. \A st \in PState : PTerminated(st, delay) \in PState
  BY DEF PTerminated, PState
<1>3. \A st \in PState, s2 \in {"none", "unbound", "gone"} : PTerminated(st, delay) = s2 <=> st = s2
  BY DEF PTerminated, PState
<1>4. pstate' \in [Pipe \X {"socket", "session"} -> PState]
  BY <1>1, <1>2 DEF Typed, EndTerminates
<1>5. SameEnds
  <2>1. ASSUME NEW q \in Pipe, NEW y \in End, NEW s2 \in {"none", "unbound", "gone"}
        PROVE  pstate'[<<q, y>>] = s2 <=> pstate[<<q, y>>] = s2
    <3>1. CASE q = p /\ y = x
      BY <1>1, <1>3, <3>1
    <3>2. CASE q # p \/ y # x
      BY <1>1, <3>2
    <3> QED
      BY <3>1, <3>2
  <2> QED
    BY <2>1 DEF SameEnds, End
<1>6. \A st \in PState : st \notin {"active", "waiting_for_delimiter"} => PTerminated(st, delay) \notin {"active", "waiting_for_delimiter"}
  BY DEF PTerminated, PState
<1>7. closed => \A q \in Pipe : pstate'[<<q, "socket">>] \notin {"active", "waiting_for_delimiter"}
  BY <1>1, <1>6 DEF Links, End
<1> QED
  BY <1>1, <1>4, <1>5, <1>7

\* and the pipes after the turn.
LEMMA TerminateTurn ==
    ASSUME Typed, Pipes, NEW o, NEW steps, Turn(o, steps), NEW p \in Pipe, NEW x \in End, NEW delay \in BOOLEAN,
           Leaves(steps, p, x, delay), (Takes(o) /\ Msg(o).type \notin PipeCommand) \/ mailbox' = mailbox,
           psession' = psession,
           pstate'[<<p, x>>] = PTerminated(pstate[<<p, x>>], delay),
           \A q \in Pipe : \A y \in End : (q # p \/ y # x) => pstate'[<<q, y>>] = pstate[<<q, y>>]
    PROVE  Pipes'
<1>0. QType /\ \A D : SeqCount(steps, Sends(D)) \in Nat
  BY SeqCountType DEF Turn
<1>1. /\ Peer(x) \in End /\ Peer(x) # x
  BY PeerFacts
<1>2. ASSUME NEW D, \A m \in D : m.type \in PipeCommand
      PROVE  Flight(D)' = Flight(D) + SeqCount(steps, Sends(D))
  BY <1>2, FreshFlight
<1>3. ASSUME NEW q \in Pipe
      PROVE  /\ Binds(q)' = Binds(q)
             /\ Hiccups(q)' = Hiccups(q) \/ (q = p /\ x = "session" /\ pstate[<<p, x>>] = "active")
  <2>1. Flight(About(q, "bind"))' = Flight(About(q, "bind")) + SeqCount(steps, Sends(About(q, "bind")))
    BY <1>2 DEF About, PipeCommand
  <2>2. Flight(About(q, "hiccup"))' = Flight(About(q, "hiccup")) + SeqCount(steps, Sends(About(q, "hiccup")))
    BY <1>2 DEF About, PipeCommand
  <2>3. Flight(About(q, "bind")) \in Nat /\ Flight(About(q, "hiccup")) \in Nat
    BY <1>0, FlightType
  <2> QED
    BY <2>1, <2>2, <2>3 DEF Binds, Hiccups, Leaves
<1>4. ASSUME NEW q \in Pipe, NEW y \in End
      PROVE  /\ PT(q, y)' = PT(q, y) + (IF q = p /\ y = Peer(x) THEN Parting(pstate[<<p, x>>], delay, "pipe_term") ELSE 0)
             /\ PA(q, y)' = PA(q, y) + (IF q = p /\ y = Peer(x) THEN Parting(pstate[<<p, x>>], delay, "pipe_term_ack") ELSE 0)
  <2>1. Flight(ToEnd(q, y, "pipe_term"))' = Flight(ToEnd(q, y, "pipe_term")) + SeqCount(steps, Sends(ToEnd(q, y, "pipe_term")))
    BY <1>2 DEF ToEnd, PipeCommand
  <2>2. Flight(ToEnd(q, y, "pipe_term_ack"))' = Flight(ToEnd(q, y, "pipe_term_ack")) + SeqCount(steps, Sends(ToEnd(q, y, "pipe_term_ack")))
    BY <1>2 DEF ToEnd, PipeCommand
  <2> QED
    BY <2>1, <2>2 DEF PT, PA, Leaves
<1>5. \A q \in Pipe, y \in End : PT(q, y) \in Nat /\ PA(q, y) \in Nat
  BY <1>0, CountsType
<1> SUFFICES ASSUME NEW q \in Pipe PROVE PipeOK(q)'
  BY DEF Pipes
<1>6. PipeOK(q) /\ psession'[q] = psession[q]
  BY DEF Pipes
<1>7. CASE q # p
  <2>1. /\ \A y \in End : pstate'[<<q, y>>] = pstate[<<q, y>>]
        /\ Binds(q)' = Binds(q) /\ Hiccups(q)' = Hiccups(q)
    BY <1>3, <1>7
  <2>2. \A y \in End : PT(q, y)' = PT(q, y) /\ PA(q, y)' = PA(q, y)
    BY <1>4, <1>5, <1>7
  <2> QED
    BY <1>6, <2>1, <2>2, OtherPipe
<1>8. CASE q = p
  <2>1. /\ pstate'[<<p, Peer(x)>>] = pstate[<<p, Peer(x)>>]
        /\ Binds(p)' = Binds(p) /\ (Hiccups(p)' = Hiccups(p) \/ (x = "session" /\ pstate[<<p, x>>] = "active"))
    BY <1>1, <1>3
  <2>2. /\ PT(p, x)' = PT(p, x) /\ PA(p, x)' = PA(p, x)
        /\ PT(p, Peer(x))' = PT(p, Peer(x)) + Parting(pstate[<<p, x>>], delay, "pipe_term")
        /\ PA(p, Peer(x))' = PA(p, Peer(x)) + Parting(pstate[<<p, x>>], delay, "pipe_term_ack")
    BY <1>1, <1>4, <1>5
  <2> QED
    BY <1>0, <1>6, <1>8, <2>1, <2>2, TerminateRows
<1> QED
  BY <1>7, <1>8
-----------------------------------------------------------------------------
(* Listeners, connecters and sessions without pipes are told to go *)

\* No object owns itself.
LEMMA OwnersApart ==
    ASSUME Typed, Tree, NEW o \in Object, Made(o), o # Socket
    PROVE  own[o].owner # o /\ o \notin own[o].owned
<1>1. own[o].owner \in OwnersOf(o) /\ own[o].owner \in Object
  BY OwnerIn
<1>2. own[o].owner # o
  BY <1>1, OwnAssumption DEF OwnersOf, Object, Session
<1> QED
  BY <1>2 DEF Tree

\* The fields of an object that lets go of its children.
LEMMA EndingOwn ==
    ASSUME own \in [Object -> OwnRecord], NEW o \in Object, own' = [own EXCEPT ![o] = Terminated(@)]
    PROVE  Ending(o) /\ own'[o].term_acks = own[o].term_acks + Cardinality(own[o].owned)
<1> DEFINE r == Terminated(own[o])
<1>1. own' = [own EXCEPT ![o] = r] /\ own[o] \in OwnRecord
  OBVIOUS
<1>2. /\ r \in OwnRecord /\ Kept(r, own[o]) /\ r.processed_seqnum = own[o].processed_seqnum
      /\ r.terminating = TRUE /\ r.owned = {}
      /\ r.term_acks = own[o].term_acks + Cardinality(own[o].owned)
  BY <1>1, TerminatedOps
<1> HIDE DEF r
<1>3. own' \in [Object -> OwnRecord] /\ own'[o] = r /\ \A x \in Object : x # o => own'[x] = own[x]
  BY <1>1, <1>2, OneOwn
<1> QED
  BY <1>2, <1>3 DEF Ending

\* An object without pipes that is told to go preserves the invariant:
LEMMA TermStep ==
    ASSUME IInv, NEW o \in Object, Handles(o, "term"), NEW linger \in Arg,
           own' = [own EXCEPT ![o] = Terminated(@)], Handled(o, process_term(o, own[o], linger)),
           polled' \subseteq polled, o \notin polled', UNCHANGED <<engine, pending, evars, svars>>, failed' = {},
           o \in Session => OtherPipes(o, {}) = {}
    PROVE  IInv'
<1>0. /\ Typed /\ Tree /\ Links /\ Pipes /\ QType /\ own \in [Object -> OwnRecord] /\ Order
      /\ UNCHANGED <<engine, pending, pipe, pstate, psession, endpoints, closed, immediate>>
  BY DEF IInv, Typed, evars, svars
<1>1. /\ o # Socket /\ Alive(o) /\ Terms(o) = 1 /\ Plugs(o) = 0 /\ o \notin pending
  BY TermTaken
<1>2. Ending(o) /\ own'[o].term_acks = own[o].term_acks + Cardinality(own[o].owned)
  BY <1>0, EndingOwn
<1> DEFINE steps == process_term(o, own[o], linger)
           T == {"term"}
<1>3. /\ steps \in Seq(Work) /\ NoDelete(steps) /\ Plain(steps) /\ Calm(steps)
      /\ Only(steps, T) /\ StepsOK(steps, Tid[o]) /\ check_acks(o) \in Range(steps)
      /\ \A c \in Object : SeqCount(steps, Sends(To(c, "term"))) = B(c \in own[o].owned)
  BY <1>1, TermSteps
<1>4. Handled(o, steps) /\ "term" \in CommandType /\ T \cap SeqCommand = {} /\ "term_ack" \notin T /\ "term" \in T
  BY DEF CommandType, SeqCommand
<1> HIDE DEF steps, T
<1>5. Turn(o, steps) /\ Takes(o) /\ Plans(o, steps) /\ Msg(o) = Com(o, "term", arg(o)) /\ arg(o) \in Arg
  BY <1>0, <1>3, <1>4, HandlerTurn
<1>6. Msg(o).type \in T
  BY <1>4, <1>5 DEF Com
<1>7. InOrder(steps)
  BY <1>3, CalmInOrder
<1>8. ASSUME NEW c \in Object
      PROVE  Terms(c)' = (Terms(c) - B(c = o)) + B(c \in own[o].owned)
  <2>1. Flight(To(c, "term"))' = (Flight(To(c, "term")) - B(Msg(o) \in To(c, "term"))) + SeqCount(steps, Sends(To(c, "term")))
    BY <1>0, <1>3, <1>5, HandledFlight
  <2>2. Msg(o) \in To(c, "term") <=> c = o
    BY <1>4, <1>5, ComIn
  <2> QED
    BY <1>3, <2>1, <2>2 DEF Terms, B
<1>9. o \notin own[o].owned
  BY <1>0, <1>1, OwnersApart DEF Alive, Made
<1>10. /\ \A c \in Object : c # o => Terms(c)' = Terms(c) + B(c \in own[o].owned)
       /\ Terms(o)' = 0
  BY <1>0, <1>1, <1>8, <1>9, CountsType DEF B
<1>11. \A s : OtherPipes(s, {})' = OtherPipes(s, {})
  BY <1>0 DEF OtherPipes
<1>12. o # Socket => /\ Terms(o) + B(o \in pending) >= 1 /\ Terms(o)' = 0 /\ Plugs(o) = 0
                     /\ \A p \in Pipe : pstate'[<<p, "socket">>] = pstate[<<p, "socket">>]
  BY <1>0, <1>1, <1>10 DEF B
<1>13. EndHyp(o, steps, T)
  <2>1. /\ Turn(o, steps) /\ Plain(steps) /\ Only(steps, T) /\ T \cap SeqCommand = {} /\ "term_ack" \notin T
        /\ (Takes(o) /\ Msg(o).type \in T) \/ mailbox' = mailbox
        /\ StepsOK(steps, Tid[o]) /\ InOrder(steps) /\ check_acks(o) \in Range(steps)
        /\ o \in Object /\ Alive(o) /\ Ending(o)
    BY <1>1, <1>2, <1>3, <1>4, <1>5, <1>6, <1>7
  <2>2. /\ (o # Socket /\ closed' = closed) \/ (o = Socket /\ closed')
        /\ \A c \in Object : c # o => (c \in pending' <=> c \in pending)
        /\ polled' \subseteq polled /\ o \notin polled' /\ engine' \subseteq engine /\ o \notin pending' /\ pending' \subseteq pending
        /\ psession' = psession /\ endpoints' = endpoints /\ immediate' = immediate
    <3>1. o # Socket /\ closed' = closed
      BY <1>0, <1>1
    <3>2. pending' = pending /\ o \notin pending
      BY <1>0, <1>1
    <3>3. (o # Socket /\ closed' = closed) \/ (o = Socket /\ closed')
      BY <3>1
    <3>4. \A c \in Object : c # o => (c \in pending' <=> c \in pending)
      BY <3>2
    <3>5. o \notin pending' /\ pending' \subseteq pending
      BY <3>2
    <3>6. engine' \subseteq engine /\ psession' = psession /\ endpoints' = endpoints /\ immediate' = immediate
      BY <1>0
    <3> QED
      BY <3>3, <3>4, <3>5, <3>6
  <2>3. /\ \A s \in Session : s # o => OtherPipes(s, {})' = OtherPipes(s, {})
        /\ o \in Session => OtherPipes(o, {})' = {}
    BY <1>11
  <2>4. /\ pipe' \in [Session -> Pipe \cup {None}] /\ pstate' \in [Pipe \X {"socket", "session"} -> PState]
        /\ \A s \in Session : pipe'[s] # None =>
              psession[pipe'[s]] = s /\ pstate'[<<pipe'[s], "session">>] \notin {"none", "gone"}
        /\ closed' => \A p \in Pipe : pstate'[<<p, "socket">>] \notin {"active", "waiting_for_delimiter"}
    BY <1>0 DEF Typed, Links
  <2> QED
    BY <1>10, <1>12, <2>1, <2>2, <2>3, <2>4 DEF EndHyp
<1>14. /\ QType' /\ Seqnums' /\ Commands' /\ Todo' /\ Engines' /\ Order' /\ Requests' /\ Tree' /\ Typed'
  BY <1>13, EndBasics
<1>15. SameCounts(T)
  BY <1>13, EndBasics
<1>16. Links'
  BY <1>13, EndLinks
<1>17. Children' /\ Gone' /\ Checked' /\ PlugFirst'
  BY <1>13, EndRest
<1>18. Awaited'
  BY <1>1, <1>2, <1>13, EndAwaited
<1>19. Pipes'
  <2>1. SameCounts({"plug", "attach", "term", "term_ack", "own"})
    BY <1>15 DEF SameCounts, T
  <2> QED
    BY <1>0, <2>1, PipesFrame
<1> QED
  BY <1>14, <1>16, <1>17, <1>18, <1>19 DEF IInv

\* a listener,
LEMMA ListenerTermStep ==
    ASSUME IInv, NEW l, process_term_listener(l)
    PROVE  IInv'
<1>1. /\ l \in Object /\ Handles(l, "term") /\ own' = [own EXCEPT ![l] = Terminated(@)]
      /\ Handled(l, process_term(l, own[l], arg(l))) /\ polled' = polled \ {l}
      /\ UNCHANGED <<engine, pending, evars, svars>> /\ l \notin Session
  BY OwnAssumption, SocketIn DEF process_term_listener, Session
<1>2. ~own[l].terminating /\ arg(l) \in Arg
  BY <1>1, TermTaken
<1>3. failed' = {}
  BY <1>2 DEF process_term_listener, zmq_assert, IInv
<1>4. polled' \subseteq polled /\ l \notin polled'
  BY <1>1
<1>5. l \in Session => OtherPipes(l, {}) = {}
  BY <1>1
<1> QED
  BY <1>1, <1>2, <1>3, <1>4, <1>5, TermStep

\* a connecter,
LEMMA ConnecterTermStep ==
    ASSUME IInv, NEW c, process_term_connecter(c)
    PROVE  IInv'
<1>1. /\ c \in Object /\ Handles(c, "term") /\ own' = [own EXCEPT ![c] = Terminated(@)]
      /\ Handled(c, process_term(c, own[c], arg(c))) /\ polled' = polled \ {c}
      /\ UNCHANGED <<engine, pending, evars, svars>> /\ c \notin Session
  BY OwnAssumption, SocketIn DEF process_term_connecter, Session
<1>2. ~own[c].terminating /\ arg(c) \in Arg
  BY <1>1, TermTaken
<1>3. failed' = {}
  BY <1>2 DEF process_term_connecter, zmq_assert, IInv
<1>4. polled' \subseteq polled /\ c \notin polled'
  BY <1>1
<1>5. c \in Session => OtherPipes(c, {}) = {}
  BY <1>1
<1> QED
  BY <1>1, <1>2, <1>3, <1>4, <1>5, TermStep

\* A session with pipes waits for them.
LEMMA SessionWaits ==
    ASSUME IInv, NEW s \in Session, process_term_session(s), OtherPipes(s, {}) # {}
    PROVE  IInv'
<1>0. /\ Typed /\ Tree /\ Links /\ Children /\ Awaited /\ Gone /\ Checked /\ PlugFirst /\ Pipes /\ QType /\ failed = {}
      /\ own \in [Object -> OwnRecord] /\ s \in Object /\ Handles(s, "term") /\ "term" \in CommandType
  BY SocketIn DEF IInv, Typed, process_term_session, CommandType
<1>1. /\ s # Socket /\ Alive(s) /\ Terms(s) = 1 /\ ~own[s].terminating /\ s \notin pending /\ Plugs(s) = 0
  BY <1>0, TermTaken
<1>2. /\ pending' = pending \cup {s} /\ failed' = {} /\ own' = own
      /\ UNCHANGED <<polled, engine, pipe, psession, endpoints, closed, immediate>>
  BY <1>0, <1>1 DEF process_term_session, zmq_assert, svars
<1> DEFINE T == {"term"} \cup PipeMove
<1>3. PICK steps \in Seq(Work) :
        /\ Handled(s, steps) /\ NoDelete(steps) /\ Plain(steps) /\ Only(steps, PipeMove)
        /\ StepsOK(steps, Tid[s]) /\ InOrder(steps)
        /\ pstate' \in [Pipe \X {"socket", "session"} -> PState] /\ SameEnds
        /\ closed => \A q \in Pipe : pstate'[<<q, "socket">>] \notin {"active", "waiting_for_delimiter"}
        /\ Turn(s, steps) /\ Takes(s) /\ Msg(s).type = "term" => Pipes'
  <2>1. CASE pipe[s] = None
    <3>1. Handled(s, <<>>) /\ pstate' = pstate
      BY <1>1, <2>1 DEF process_term_session
    <3>2. /\ <<>> \in Seq(Work) /\ NoDelete(<<>>) /\ Plain(<<>>) /\ Only(<<>>, PipeMove)
          /\ StepsOK(<<>>, Tid[s]) /\ InOrder(<<>>)
      BY NoSteps
    <3>3. SameEnds /\ pstate' \in [Pipe \X {"socket", "session"} -> PState]
          /\ (closed => \A q \in Pipe : pstate'[<<q, "socket">>] \notin {"active", "waiting_for_delimiter"})
      BY <1>0, <3>1 DEF SameEnds, Links, Typed
    <3>4. Turn(s, <<>>) /\ Takes(s) /\ Msg(s).type = "term" => Pipes'
      <4> SUFFICES ASSUME Turn(s, <<>>), Takes(s), Msg(s).type = "term" PROVE Pipes'
        OBVIOUS
      <4>1. Only(<<>>, {"term"}) /\ Msg(s).type \in {"term"}
        BY NoSteps
      <4>2. SameCounts({"term"})
        BY <4>1, QuietCounts
      <4>3. SameCounts({"plug", "attach", "term", "term_ack", "own"})
        BY <4>2 DEF SameCounts
      <4> QED
        BY <1>0, <1>2, <3>1, <4>3, PipesFrame
    <3> QED
      BY <3>1, <3>2, <3>3, <3>4
  <2>2. CASE pipe[s] # None
    <3> SUFFICES ASSUME NEW p \in Pipe, p = pipe[s], NEW delay \in BOOLEAN, delay = (arg(s) # 0), NEW x \in End, x = "session"
                 PROVE  \E steps \in Seq(Work) :
                          /\ Handled(s, steps) /\ NoDelete(steps) /\ Plain(steps) /\ Only(steps, PipeMove)
                          /\ StepsOK(steps, Tid[s]) /\ InOrder(steps)
                          /\ pstate' \in [Pipe \X {"socket", "session"} -> PState] /\ SameEnds
                          /\ closed => \A q \in Pipe : pstate'[<<q, "socket">>] \notin {"active", "waiting_for_delimiter"}
                          /\ Turn(s, steps) /\ Takes(s) /\ Msg(s).type = "term" => Pipes'
      BY <1>0, <2>2 DEF Typed, End
    <3>1. /\ Handled(s, pipe_terminate(p, x, delay))
          /\ EndTerminates(p, x, delay)
      BY <1>1, <2>2 DEF process_term_session, EndTerminates
    <3>2. psession[p] = s /\ Tid[s] = Tid[Sink(p, x)]
      BY <1>0, <2>2 DEF Links, Sink
    <3> DEFINE steps == pipe_terminate(p, x, delay)
    <3>3. /\ steps \in Seq(Work) /\ NoDelete(steps) /\ Plain(steps) /\ Only(steps, PipeMove \ {"hiccup"})
          /\ StepsOK(steps, Tid[s]) /\ InOrder(steps) /\ Leaves(steps, p, x, delay)
      BY <3>2, TerminateSteps
    <3>4. Only(steps, PipeMove)
      BY <3>3 DEF Only
    <3>5. /\ pstate' \in [Pipe \X {"socket", "session"} -> PState] /\ SameEnds
          /\ pstate'[<<p, x>>] = PTerminated(pstate[<<p, x>>], delay)
          /\ \A q \in Pipe : \A y \in End : (q # p \/ y # x) => pstate'[<<q, y>>] = pstate[<<q, y>>]
          /\ closed => \A q \in Pipe : pstate'[<<q, "socket">>] \notin {"active", "waiting_for_delimiter"}
      BY <1>0, <3>1, TerminateEnds
    <3> HIDE DEF steps
    <3>6. Turn(s, steps) /\ Takes(s) /\ Msg(s).type = "term" => Pipes'
      <4> SUFFICES ASSUME Turn(s, steps), Takes(s), Msg(s).type = "term" PROVE Pipes'
        OBVIOUS
      <4>1. Msg(s).type \notin PipeCommand /\ psession' = psession
        BY <1>2 DEF PipeCommand
      <4> QED
        BY <1>0, <3>3, <3>5, <4>1, TerminateTurn
    <3>7. Handled(s, steps)
      BY <3>1 DEF steps
    <3> QED
      BY <3>3, <3>4, <3>5, <3>6, <3>7
  <2> QED
    BY <2>1, <2>2
<1>4. /\ Turn(s, steps) /\ Takes(s) /\ Plans(s, steps) /\ Msg(s) = Com(s, "term", arg(s)) /\ arg(s) \in Arg
  BY <1>0, <1>3, HandlerTurn
<1>5. Msg(s).type = "term" /\ Msg(s).type \in T /\ Only(steps, T) /\ T \cap SeqCommand = {}
  BY <1>3, <1>4 DEF Com, Only, PipeMove, SeqCommand
<1>6. Pipes'
  BY <1>3, <1>4, <1>5
<1>7. SameLife /\ SameShape /\ own' \in [Object -> OwnRecord] /\ polled' \subseteq polled /\ engine' \subseteq engine /\ psession' = psession
  BY <1>0, <1>2 DEF SameLife, SameShape
<1>8. /\ QType' /\ SameAlive /\ Grows /\ Seqnums' /\ Commands' /\ Todo' /\ Engines' /\ Order' /\ Requests'
      /\ SameCounts(T)
      /\ \A y : Plugs(y)' = Plugs(y) /\ Attaches(y)' = Attaches(y) /\ Owns(y)' = Owns(y)
  <2> HIDE DEF T
  <2> QED
    BY <1>3, <1>4, <1>5, <1>7, PlainTurn
<1>9. \A y : Acks(y)' = Acks(y)
  BY <1>8 DEF SameCounts, PipeMove
<1>10. Typed' /\ Tree'
  <2>1. Tree'
    BY <1>0, <1>2, <1>7, TreeFrame
  <2>2. Typed'
    BY <1>0, <1>2, <1>3, <1>7, <1>8 DEF Typed
  <2> QED
    BY <2>1, <2>2
<1>11. /\ \A y, P : OtherPipes(y, P)' = OtherPipes(y, P)
       /\ pipes' = pipes
  BY <1>2, <1>3, PipesSame
<1>12. Links'
  <2>1. polled \subseteq Object /\ engine \subseteq Object
    BY <1>0, SocketIn DEF Typed
  <2>2. \A y \in polled' : Alive(y)' /\ ~own'[y].terminating
    BY <1>0, <1>2, <1>8, <2>1 DEF Links, SameAlive
  <2>3. \A y \in engine' : own'[y].life = "live"
    BY <1>0, <1>2 DEF Links
  <2>4. \A y \in pending' : OtherPipes(y, {})' # {}
    BY <1>0, <1>2, <1>11 DEF Links
  <2>5. \A y \in Session : pipe'[y] # None =>
          psession'[pipe'[y]] = y /\ pstate'[<<pipe'[y], "session">>] \notin {"none", "gone"}
    BY <1>0, <1>2, <1>3 DEF Links, SameEnds, Typed
  <2>6. \A p \in Pipe : psession'[p] # None => Made(psession[p])'
    BY <1>0, <1>2 DEF Links, Made
  <2>7. \A y \in Session : own'[y].terminating => OtherPipes(y, {})' = {}
    BY <1>0, <1>2, <1>11 DEF Links
  <2> QED
    BY <1>0, <1>2, <1>3, <2>2, <2>3, <2>4, <2>5, <2>6, <2>7 DEF Links
<1>13. ASSUME NEW c \in Object
       PROVE  Terms(c)' = Terms(c) - B(c = s)
  <2>1. \A m \in To(c, "term") : m.type \notin PipeMove
    BY DEF To, PipeMove
  <2>2. SeqCount(steps, Sends(To(c, "term"))) = 0
    BY <1>3, <2>1, QuietSteps
  <2>3. Flight(To(c, "term"))' = (Flight(To(c, "term")) - B(Msg(s) \in To(c, "term"))) + SeqCount(steps, Sends(To(c, "term")))
    BY <1>0, <1>3, <1>4, HandledFlight
  <2>4. Msg(s) \in To(c, "term") <=> c = s
    BY <1>0, <1>4, ComIn
  <2>5. Flight(To(c, "term")) \in Nat
    BY <1>0, FlightType
  <2> QED
    BY <2>2, <2>3, <2>4, <2>5 DEF Terms, B
<1>14. Children'
  <2> SUFFICES ASSUME NEW c \in Object \ {Socket}, Made(c)' PROVE ChildOK(c)'
    BY DEF Children
  <2>1. ChildOK(c) /\ (Alive(c)' <=> Alive(c)) /\ own'[c] = own[c] /\ own[c].owner \in Object /\ Owns(c)' = Owns(c)
    BY <1>0, <1>2, <1>8, OwnerIn DEF Children, SameAlive, Made
  <2>2. Terms(c)' = Terms(c) - B(c = s)
    BY <1>13
  <2>3. CASE c # s
    <3>1. (c \in pending' <=> c \in pending) /\ Terms(c)' = Terms(c)
      BY <1>0, <1>2, <2>2, <2>3, CountsType DEF B
    <3> QED
      BY <1>2, <2>1, <3>1 DEF ChildOK
  <2>4. CASE c = s
    <3>1. B(s \in pending') = 1 /\ B(s \in pending) = 0 /\ Terms(s)' = 0
      BY <1>0, <1>1, <1>2, <2>2, <2>4, CountsType DEF B
    <3>2. Owns(s) + B(s \in own[own[s].owner].owned) + Terms(s) + B(s \in pending) + B(own[s].terminating) = 1
      BY <1>1, <2>1, <2>4 DEF ChildOK
    <3>3. /\ B(s \in own[own[s].owner].owned) \in Nat /\ B(own[s].terminating) \in Nat
          /\ Owns(s) \in Nat /\ Terms(s) \in Nat
      BY <1>0, CountsType DEF B
    <3>4. Owns(s)' + B(s \in own'[own'[s].owner].owned) + Terms(s)' + B(s \in pending') + B(own'[s].terminating) = 1
      BY <1>1, <1>2, <2>1, <2>4, <3>1, <3>2, <3>3
    <3> QED
      BY <1>1, <2>1, <2>4, <3>4 DEF ChildOK
  <2> QED
    BY <2>3, <2>4
<1>15. Awaited'
  <2>1. \A y \in Object : own'[y].term_acks = own[y].term_acks /\ Owns(y)' = Owns(y) /\ Acks(y)' = Acks(y)
    BY <1>2, <1>8, <1>9
  <2> QED
    BY <1>0, <1>2, <1>3, <1>7, <1>8, <2>1, PipeAwaited
<1>16. Gone'
  <2>1. \A y \in Object : Made(y) /\ ~Alive(y) => own'[y].term_acks = own[y].term_acks
    BY <1>2
  <2> QED
    BY <1>0, <1>3, <1>7, <1>8, <2>1, PipeGone
<1>17. Checked'
  <2>1. \A y \in Object : Alive(y)' /\ CanGo(own'[y]) => (Alive(y) /\ CanGo(own[y])) \/ (y = s /\ check_acks(s) \in Range(steps))
    BY <1>2, <1>8 DEF SameAlive
  <2> QED
    BY <1>0, <1>4, <2>1, TurnChecked
<1>18. PlugFirst'
  <2> SUFFICES ASSUME NEW c \in Object \ {Socket}, Plugs(c)' >= 1 PROVE ~own'[c].terminating /\ c \notin pending'
    BY DEF PlugFirst
  <2>1. Plugs(c) >= 1 /\ c # s
    BY <1>1, <1>8
  <2> QED
    BY <1>0, <1>2, <2>1 DEF PlugFirst
<1> QED
  BY <1>2, <1>6, <1>8, <1>10, <1>12, <1>14, <1>15, <1>16, <1>17, <1>18 DEF IInv

\* and a session, which may have to wait for its pipes.
LEMMA SessionTermStep ==
    ASSUME IInv, NEW s, process_term_session(s)
    PROVE  IInv'
<1>0. s \in Session /\ s \in Object /\ Handles(s, "term")
  BY SocketIn DEF process_term_session
<1>1. CASE OtherPipes(s, {}) # {}
  BY <1>0, <1>1, SessionWaits
<1>2. CASE OtherPipes(s, {}) = {}
  <2>1. ~own[s].terminating /\ s \notin pending
    BY <1>0, TermTaken
  <2>2. /\ own' = [own EXCEPT ![s] = Terminated(@)] /\ Handled(s, process_term(s, own[s], 0))
        /\ polled' = polled /\ UNCHANGED <<engine, pending, evars, svars>> /\ failed' = {}
    BY <1>2, <2>1 DEF process_term_session, zmq_assert, IInv, evars
  <2>3. 0 \in Arg
    BY DEF Arg
  <2>4. s \notin polled /\ polled' \subseteq polled
    BY <1>0, <2>2, OwnAssumption DEF IInv, Typed, Session
  <2> QED
    BY <1>0, <1>2, <2>2, <2>3, <2>4, TermStep
<1> QED
  BY <1>1, <1>2
-----------------------------------------------------------------------------
(* Requests and acknowledgements *)

\* An object that does not change, and pipes that do not.
LEMMA StillTurn ==
    ASSUME IInv, NEW o, NEW steps, Turn(o, steps), Plain(steps), Only(steps, {"term_req"}),
           (Takes(o) /\ Msg(o).type = "term_req") \/ mailbox' = mailbox,
           UNCHANGED <<own, polled, pending, evars, svars>>, engine' \subseteq engine, failed' = {},
           StepsOK(steps, Tid[o]), Calm(steps)
    PROVE  IInv'
<1>0. /\ Typed /\ Links /\ Pipes
      /\ UNCHANGED <<own, polled, pending, pipe, pstate, psession, endpoints, closed, immediate>>
  BY DEF IInv, evars, svars
<1> DEFINE T == {"term_req"}
<1>1. Only(steps, T) /\ ((Takes(o) /\ Msg(o).type \in T) \/ mailbox' = mailbox) /\ T \subseteq PipeMove \cup {"term_req"}
  OBVIOUS
<1>2. Pipes'
  <2>1. SameCounts(T)
    BY <1>1, QuietCounts
  <2>2. SameCounts({"plug", "attach", "term", "term_ack", "own"})
    BY <2>1 DEF SameCounts
  <2> QED
    BY <1>0, <2>2, PipesFrame
<1>3. SameEnds
  BY <1>0 DEF SameEnds
<1>4. pstate' \in [Pipe \X {"socket", "session"} -> PState] /\ pipe' \in [Session -> Pipe \cup {None}]
  BY <1>0 DEF Typed
<1>5. closed => \A p \in Pipe : pstate'[<<p, "socket">>] \notin {"active", "waiting_for_delimiter"}
  BY <1>0 DEF Links
<1>6. InOrder(steps)
  BY CalmInOrder
<1>7. /\ \A s \in Session : pipe'[s] \in {None, pipe[s]}
      /\ UNCHANGED <<own, polled, pending, psession, closed, immediate>> /\ endpoints' \subseteq endpoints
  BY <1>0
<1> HIDE DEF T
<1> QED
  BY <1>1, <1>2, <1>3, <1>4, <1>5, <1>6, <1>7, QuietTurn

\* The owner of a living object lives.
LEMMA OwnerAlive ==
    ASSUME IInv, NEW c \in Object, c # Socket, Alive(c)
    PROVE  own[c].owner \in Object /\ Made(own[c].owner) /\ Alive(own[c].owner)
<1>1. own[c].owner \in Object /\ Made(own[c].owner)
  BY OwnerIn DEF IInv, Alive, Made
<1>2. ~Alive(own[c].owner) => GoneOK(own[c].owner)
  BY <1>1 DEF IInv, Gone
<1> QED
  BY <1>1, <1>2 DEF GoneOK

\* The request of an object that wants to go is a quiet list of steps.
LEMMA TerminateFacts ==
    ASSUME IInv, NEW c \in Object, c # Socket, Alive(c)
    PROVE  LET s == terminate(c)
           IN /\ s \in Seq(Work) /\ NoDelete(s) /\ Plain(s) /\ NoInc(s) /\ NoCheck(s) /\ Only(s, {"term_req"})
              /\ Calm(s) /\ StepsOK(s, Tid[c])
              /\ \A D : (\A m \in D : m.type # "term_req") => SeqCount(s, Sends(D)) = 0
              /\ \A x : SeqCount(s, Ann(x)) = 0
<1>1. CASE own[c].terminating
  <2>1. terminate(c) = <<>>
    BY <1>1 DEF terminate
  <2>2. \A x : SeqCount(<<>>, Ann(x)) = 0
    BY CountEmptySeq
  <2> QED
    BY <2>1, <2>2, NoSteps
<1>2. CASE ~own[c].terminating
  <2> SUFFICES ASSUME NEW o \in Object, o = own[c].owner, NEW type, type = "term_req", NEW s, s = <<send_command(o, type, c)>>
               PROVE  /\ s \in Seq(Work) /\ NoDelete(s) /\ Plain(s) /\ NoInc(s) /\ NoCheck(s) /\ Only(s, {"term_req"})
                      /\ Calm(s) /\ StepsOK(s, Tid[c])
                      /\ \A D : (\A m \in D : m.type # "term_req") => SeqCount(s, Sends(D)) = 0
                      /\ \A x : SeqCount(s, Ann(x)) = 0
    BY <1>2, OwnerAlive DEF terminate
  <2>1. type \in CommandType \ SeqCommand /\ c \in Arg /\ type \in CommandType
    BY DEF CommandType, SeqCommand, Arg
  <2>2. Alive(o) /\ Made(c)
    BY OwnerAlive DEF Alive, Made
  <2> DEFINE u == <<send_command(o, type, c)>>
             t == Tid[c]
  <2>3. /\ u \in Seq(Work) /\ NoDelete(u) /\ Plain(u) /\ NoInc(u) /\ NoCheck(u)
        /\ (\A T : type \in T => Only(u, T))
        /\ (type \notin {"bind", "hiccup", "pipe_term"} => Calm(u))
        /\ (\A D : SeqCount(u, Sends(D)) = B(Com(o, type, c) \in D))
        /\ DOMAIN u = {1} /\ u[1].op = "send" /\ u[1].to = o /\ u[1].type = type /\ u[1].arg = c /\ u[1].inc = 0
        /\ (SendOK(u, 1, t) => StepsOK(u, t))
    BY <2>1, OneSend
  <2>4. \A x : SeqCount(u, Ann(x)) = 0
    BY <2>1, StepFacts, CountSingle DEF B
  <2> HIDE DEF u
  <2>5. CommandOK(Com(u[1].to, u[1].type, u[1].arg), Tid[u[1].to])
    BY <2>2, <2>3 DEF CommandOK, Com
  <2>6. SendOK(u, 1, t)
    BY <2>2, <2>3, <2>5 DEF SendOK
  <2>7. Only(u, {"term_req"}) /\ Calm(u)
    BY <2>3
  <2>8. \A D : (\A m \in D : m.type # "term_req") => SeqCount(u, Sends(D)) = 0
    BY <2>3 DEF B, Com
  <2>9. s = u
    BY DEF u
  <2> QED
    BY <2>3, <2>4, <2>6, <2>7, <2>8, <2>9
<1> QED
  BY <1>1, <1>2

\* An engine error preserves the invariant.
LEMMA EngineErrorStep ==
    ASSUME IInv, NEW s \in Session, engine_error_terminates(s)
    PROVE  IInv'
<1>0. Typed /\ Links /\ QType /\ s \in Object /\ s # Socket
  BY SocketIn, OwnAssumption DEF IInv, Typed
<1>1. Idle(Tid[s]) /\ s \in engine /\ Acts(s, terminate(s)) /\ engine' \subseteq engine
      /\ UNCHANGED <<own, polled, pending, evars, svars, failed>> /\ failed' = {}
  BY DEF engine_error_terminates, IInv
<1>2. Alive(s)
  BY <1>0, <1>1 DEF Links, Alive, Going, Idle, Range
<1> DEFINE steps == terminate(s)
<1>3. /\ steps \in Seq(Work) /\ NoDelete(steps) /\ Plain(steps) /\ Only(steps, {"term_req"})
      /\ Calm(steps) /\ StepsOK(steps, Tid[s])
  BY <1>0, <1>2, TerminateFacts
<1> HIDE DEF steps
<1>4. Acts(s, steps)
  BY <1>1 DEF steps
<1>5. Turn(s, steps) /\ mailbox' = mailbox
  BY <1>0, <1>1, <1>3, <1>4, EventTurn
<1> QED
  BY <1>1, <1>3, <1>5, StillTurn

-----------------------------------------------------------------------------
\* An owner tells a child to go.
LEMMA TellsChild ==
    ASSUME IInv, NEW o \in Object, NEW c, ~own[o].terminating, c \in own[o].owned, Alive(o),
           own' = [own EXCEPT ![o] = TermChild(@, c)], NEW steps, NEW T, Turn(o, steps), Plain(steps), Only(steps, T),
           T \cap SeqCommand = {}, "term_ack" \notin T, (Takes(o) /\ Msg(o).type \in T) \/ mailbox' = mailbox,
           StepsOK(steps, Tid[o]), InOrder(steps), \A y \in Object : Terms(y)' = Terms(y) + B(y = c),
           UNCHANGED <<polled, engine, pending, pipe, psession, closed, immediate>>, endpoints' \subseteq endpoints,
           SameEnds, pstate' \in [Pipe \X {"socket", "session"} -> PState],
           closed => \A p \in Pipe : pstate'[<<p, "socket">>] \notin {"active", "waiting_for_delimiter"},
           Pipes', failed' = {}
    PROVE  IInv'
<1>0. /\ Typed /\ Tree /\ Links /\ Children /\ Awaited /\ Gone /\ Checked /\ PlugFirst /\ QType
      /\ own \in [Object -> OwnRecord]
  BY DEF IInv, Typed
<1>1. own' = [own EXCEPT ![o] = TermChild(@, c)]
  OBVIOUS
<1>2. /\ c \in Object /\ Made(c) /\ own[c].owner = o /\ c # Socket /\ c # o
      /\ ~own[o].terminating /\ c \in own[o].owned
  <2>1. c \in Object
    BY <1>0 DEF OwnRecord
  <2>2. Made(c) /\ own[c].owner = o
    BY <1>0 DEF Tree
  <2>3. c # Socket
    BY <1>0, <2>2, OwnAssumption DEF Tree
  <2> QED
    BY <1>0, <2>1, <2>2, <2>3, OwnersApart
<1>3. Alive(o)
  OBVIOUS
<1>4. /\ ChildOK(c) /\ Alive(c)
  BY <1>0, <1>2 DEF Children, ChildOK
<1>5. Owns(c) = 0 /\ Terms(c) = 0 /\ c \notin pending /\ ~own[c].terminating
  <2>1. Owns(c) + B(c \in own[own[c].owner].owned) + Terms(c) + B(c \in pending) + B(own[c].terminating) = 1
    BY <1>4 DEF ChildOK
  <2>2. B(c \in own[own[c].owner].owned) = 1
    BY <1>2 DEF B
  <2>3. B(c \in pending) \in Nat /\ B(own[c].terminating) \in Nat /\ Owns(c) \in Nat /\ Terms(c) \in Nat
    BY <1>0, CountsType DEF B
  <2>4. Owns(c) = 0 /\ Terms(c) = 0 /\ B(c \in pending) = 0 /\ B(own[c].terminating) = 0
    BY <2>1, <2>2, <2>3
  <2> QED
    BY <2>4 DEF B
<1> DEFINE r == TermChild(own[o], c)
<1>6. /\ r \in OwnRecord /\ Kept(r, own[o]) /\ r.processed_seqnum = own[o].processed_seqnum
      /\ r.terminating = own[o].terminating /\ r.owned = own[o].owned \ {c}
      /\ r.term_acks = own[o].term_acks + 1
  BY <1>0, TermChildOps
<1>7. own' = [own EXCEPT ![o] = r]
  BY <1>1
<1> HIDE DEF r
<1>8. own' \in [Object -> OwnRecord] /\ own'[o] = r /\ \A x \in Object : x # o => own'[x] = own[x]
  BY <1>0, <1>6, <1>7, OneOwn
<1>9. SameLife
  BY <1>6, <1>8 DEF SameLife, Kept
<1>14. /\ QType' /\ SameAlive /\ Grows /\ Seqnums' /\ Commands' /\ Todo' /\ Engines' /\ Order' /\ Requests'
       /\ SameCounts(T)
       /\ \A y : Plugs(y)' = Plugs(y) /\ Attaches(y)' = Attaches(y) /\ Owns(y)' = Owns(y)
  <2>1. psession' = psession /\ polled' \subseteq polled /\ engine' \subseteq engine
    OBVIOUS
  <2> QED
    BY <1>8, <1>9, <2>1, PlainTurn
<1>15. /\ \A y : Acks(y)' = Acks(y)
       /\ \A y \in Object : Terms(y)' = Terms(y) + B(y = c)
  BY <1>14 DEF SameCounts
<1>16. UNCHANGED <<polled, engine, pending, pipe, psession, closed, immediate>> /\ endpoints' \subseteq endpoints
  OBVIOUS
<1>30. (\A x, P : OtherPipes(x, P)' = OtherPipes(x, P)) /\ pipes' = pipes
  BY <1>16, PipesSame
<1>17. Typed'
  BY <1>0, <1>8, <1>14, <1>16 DEF Typed
<1>18. Tree'
  <2>1. /\ own'[Socket].owner = None /\ own'[Socket].life # "none" /\ own'[Socket].terminating = closed'
    BY <1>0, <1>6, <1>8, <1>9, <1>16, SocketIn DEF Tree, SameLife, Made
  <2>2. ASSUME NEW x \in Object \ {Socket}
        PROVE  IF own'[x].life # "none" THEN own'[x].owner \in OwnersOf(x) /\ own'[own'[x].owner].life # "none"
               ELSE own'[x] = [own_t EXCEPT !.life = "none"]
    <3>1. IF own[x].life # "none" THEN own[x].owner \in OwnersOf(x) /\ own[own[x].owner].life # "none"
          ELSE own[x] = [own_t EXCEPT !.life = "none"]
      BY <1>0 DEF Tree, Made
    <3>2. OwnersOf(x) \subseteq Object
      BY SocketIn DEF OwnersOf
    <3>3. own[o].life # "none"
      BY <1>3 DEF Alive
    <3> QED
      BY <1>8, <1>9, <3>1, <3>2, <3>3 DEF SameLife
  <2>3. \A x \in Object : /\ own'[x].terminating => own'[x].owned = {}
                          /\ \A d \in own'[x].owned : own'[d].life # "none" /\ own'[d].owner = x
    <3> SUFFICES ASSUME NEW x \in Object
                 PROVE  /\ own'[x].terminating => own'[x].owned = {}
                        /\ \A d \in own'[x].owned : own'[d].life # "none" /\ own'[d].owner = x
      OBVIOUS
    <3>1. own'[x].owned \subseteq own[x].owned /\ own'[x].terminating = own[x].terminating
      BY <1>6, <1>8
    <3>2. \A d \in own[x].owned : d \in Object
      BY <1>0 DEF OwnRecord
    <3> QED
      BY <1>0, <1>9, <3>1, <3>2 DEF Tree, SameLife, Made
  <2> QED
    BY <2>1, <2>2, <2>3 DEF Tree, Made
<1>19. Links'
  <2>1. Session \subseteq Object /\ polled \subseteq Object /\ engine \subseteq Object
    BY <1>0, SocketIn DEF Typed
  <2>2. \A x \in Object : own'[x].terminating = own[x].terminating
    BY <1>6, <1>8
  <2>3. \A x : OtherPipes(x, {})' = OtherPipes(x, {})
    BY <1>30
  <2>4. /\ \A y \in polled' : Alive(y)' /\ ~own'[y].terminating
        /\ \A s \in engine' : own'[s].life = "live"
    BY <1>0, <1>9, <1>14, <1>16, <2>1, <2>2 DEF Links, SameAlive, SameLife
  <2>5. \A p \in Pipe : psession'[p] # None => own'[psession'[p]].life # "none"
    BY <1>0, <1>9, <1>16, <2>1 DEF Links, SameLife, Made, Typed
  <2>6. /\ \A s \in pending' : OtherPipes(s, {})' # {}
        /\ \A s \in Session : own'[s].terminating => OtherPipes(s, {})' = {}
    BY <1>0, <1>16, <2>1, <2>2, <2>3 DEF Links
  <2> QED
    <3>1. \A s \in Session : pipe'[s] # None =>
             psession'[pipe'[s]] = s /\ pstate'[<<pipe'[s], "session">>] \notin {"none", "gone"}
      BY <1>0, <1>16 DEF Links, SameEnds, Typed
    <3>2. closed' => \A p \in Pipe : pstate'[<<p, "socket">>] \notin {"active", "waiting_for_delimiter"}
      <4> SUFFICES ASSUME closed', NEW p \in Pipe
                   PROVE  pstate'[<<p, "socket">>] \notin {"active", "waiting_for_delimiter"}
        OBVIOUS
      <4>1. closed' = closed /\ closed \in BOOLEAN /\ closed' \in BOOLEAN
        BY <1>0, <1>16, <1>17 DEF Typed
      <4>2. closed = TRUE
        BY <4>1
      <4> QED
        BY <4>2
    <3>3. \A e \in endpoints' : e[2] # None => psession'[e[2]] # None
      BY <1>0, <1>16 DEF Links
    <3> QED
      BY <2>4, <2>5, <2>6, <3>1, <3>2, <3>3 DEF Links, Made
<1>20. Children'
  <2> SUFFICES ASSUME NEW x \in Object \ {Socket}, Made(x)' PROVE ChildOK(x)'
    BY DEF Children
  <2>1. ChildOK(x) /\ (Alive(x)' <=> Alive(x)) /\ own'[x].owner = own[x].owner /\ own'[x].terminating = own[x].terminating
        /\ own[x].owner \in Object /\ Owns(x)' = Owns(x) /\ pending' = pending
    BY <1>0, <1>6, <1>8, <1>9, <1>14, <1>16, OwnerIn DEF Children, SameAlive, SameLife, Made
  <2>2. CASE x # c
    <3>1. Terms(x)' = Terms(x)
      BY <1>0, <1>15, <2>2, CountsType DEF B
    <3>2. x \in own'[own'[x].owner].owned <=> x \in own[own[x].owner].owned
      BY <1>6, <1>8, <2>1, <2>2
    <3> QED
      BY <2>1, <3>1, <3>2 DEF ChildOK
  <2>3. CASE x = c
    <3>1. Terms(c)' = 1 /\ B(c \in own'[own'[c].owner].owned) = 0
      BY <1>2, <1>5, <1>6, <1>8, <1>15, <2>1, <2>3 DEF B
    <3>2. B(c \in pending') = 0 /\ B(own'[c].terminating) = 0 /\ Owns(c)' = 0
      BY <1>5, <2>1, <2>3 DEF B
    <3>3. Owns(c)' + B(c \in own'[own'[c].owner].owned) + Terms(c)' + B(c \in pending') + B(own'[c].terminating) = 1
      BY <3>1, <3>2
    <3> QED
      BY <1>4, <2>1, <2>3, <3>3 DEF ChildOK
  <2> QED
    BY <2>2, <2>3
<1>21. Awaited'
  <2>1. AwaitedPipes(o)' = AwaitedPipes(o) /\ \A x \in Object : AwaitedPipes(x)' = AwaitedPipes(x)
    BY <1>16, <1>30 DEF AwaitedPipes
  <2>2. \A x \in Object : x # o => Kids(x)' = Kids(x)
    BY <1>8, <1>9, <1>14 DEF Kids, SameLife, SameAlive
  <2>3. Kids(o)' = Kids(o) \cup {c} /\ c \notin Kids(o)
    <3>1. Kids(o)' = {d \in Object : own'[d].owner = o /\ Alive(d)' /\ Owns(d)' = 0 /\ d \notin own'[o].owned}
      BY DEF Kids
    <3>2. \A d \in Object : own'[d].owner = own[d].owner /\ (Alive(d)' <=> Alive(d)) /\ Owns(d)' = Owns(d)
      BY <1>9, <1>14 DEF SameLife, SameAlive
    <3>3. own'[o].owned = own[o].owned \ {c}
      BY <1>6, <1>8
    <3> QED
      BY <1>2, <1>4, <1>5, <3>1, <3>2, <3>3 DEF Kids
  <2>4. \A x \in Object : IsFiniteSet(Kids(x)) /\ Cardinality(Kids(x)) \in Nat
    BY FS_Subset, FS_CardinalityType, OwnAssumption DEF Kids
  <2>5. Cardinality(Kids(o)') = Cardinality(Kids(o)) + 1
    <3>1. IsFiniteSet(Kids(o)) /\ c \notin Kids(o)
      BY <2>3, <2>4
    <3>2. Cardinality(Kids(o) \cup {c}) = Cardinality(Kids(o)) + 1
      BY <3>1, FS_AddElement
    <3> QED
      BY <2>3, <3>2
  <2>6. Cardinality(AwaitedPipes(o)) \in Nat
    <3>1. AwaitedPipes(o) \subseteq Pipe
      BY DEF AwaitedPipes, pipes
    <3> QED
      BY <3>1, FS_Subset, FS_CardinalityType, OwnAssumption
  <2>7. own'[o].term_acks = Cardinality(Kids(o)') + Acks(o)' + Cardinality(AwaitedPipes(o)')
    <3>1. own[o].term_acks = Cardinality(Kids(o)) + Acks(o) + Cardinality(AwaitedPipes(o))
      BY <1>0 DEF Awaited
    <3>2. own'[o].term_acks = own[o].term_acks + 1
      BY <1>6, <1>8
    <3>3. Acks(o)' = Acks(o) /\ Acks(o) \in Nat
      BY <1>0, <1>15, CountsType
    <3> QED
      BY <2>1, <2>4, <2>5, <2>6, <3>1, <3>2, <3>3
  <2>8. ASSUME NEW x \in Object, x # o
        PROVE  own'[x].term_acks = Cardinality(Kids(x)') + Acks(x)' + Cardinality(AwaitedPipes(x)')
    BY <1>0, <1>8, <1>15, <2>1, <2>2, <2>8 DEF Awaited
  <2> QED
    BY <2>7, <2>8 DEF Awaited
<1>22. Gone'
  <2> SUFFICES ASSUME NEW x \in Object, Made(x)', ~Alive(x)' PROVE GoneOK(x)'
    BY DEF Gone
  <2>1. Made(x) /\ ~Alive(x) /\ x # o
    BY <1>3, <1>9, <1>14 DEF SameAlive, SameLife, Made
  <2>2. GoneOK(x)
    BY <1>0, <2>1 DEF Gone
  <2>3. \A d \in Object : own'[d].owner = x => ~Alive(d)'
    BY <1>9, <1>14, <2>2 DEF GoneOK, SameLife, SameAlive
  <2> QED
    <3>1. x = Socket => \A p \in Pipe : pstate'[<<p, "socket">>] \in {"none", "gone"}
      BY <2>2 DEF GoneOK, SameEnds
    <3> QED
      BY <1>8, <2>1, <2>2, <2>3, <3>1 DEF GoneOK
<1>23. Checked'
  <2>1. \A y \in Object : Alive(y)' /\ CanGo(own'[y]) => (Alive(y) /\ CanGo(own[y])) \/ (y = o /\ check_acks(o) \in Range(steps))
    BY <1>2, <1>6, <1>8, <1>14 DEF SameAlive, CanGo
  <2> QED
    BY <1>0, <2>1, TurnChecked
<1>24. PlugFirst'
  <2>1. \A x \in Object : own'[x].terminating = own[x].terminating
    BY <1>6, <1>8
  <2> QED
    BY <1>0, <1>14, <1>16, <2>1 DEF PlugFirst
<1> QED
  BY <1>0, <1>14, <1>17, <1>18, <1>19, <1>20, <1>21, <1>22, <1>23, <1>24 DEF IInv

\* A child that asked to go is told to.
LEMMA TermReqStep ==
    ASSUME IInv, NEW o \in Object, process_term_req(o)
    PROVE  IInv'
<1> SUFFICES ASSUME NEW c, c = arg(o) PROVE IInv'
  OBVIOUS
<1>0. /\ Typed /\ Tree /\ Links /\ Children /\ Awaited /\ Gone /\ Checked /\ PlugFirst /\ Pipes /\ QType /\ Commands
      /\ own \in [Object -> OwnRecord] /\ Handles(o, "term_req") /\ "term_req" \in CommandType
      /\ UNCHANGED <<lvars, evars, svars>> /\ failed' = {}
  BY DEF IInv, Typed, process_term_req, CommandType
<1>1. CASE own[o].terminating \/ c \notin own[o].owned
  <2>1. own' = own /\ Handled(o, <<>>)
    BY <1>1 DEF process_term_req
  <2>2. /\ <<>> \in Seq(Work) /\ NoDelete(<<>>) /\ Plain(<<>>) /\ Only(<<>>, {"term_req"})
        /\ Calm(<<>>) /\ StepsOK(<<>>, Tid[o])
    BY NoSteps
  <2>3. Turn(o, <<>>) /\ Takes(o) /\ Msg(o) = Com(o, "term_req", arg(o))
    BY <1>0, <2>1, <2>2, HandlerTurn
  <2>4. Msg(o).type = "term_req"
    BY <2>3 DEF Com
  <2>5. UNCHANGED <<own, polled, pending, evars, svars>> /\ engine' \subseteq engine
    BY <1>0, <2>1 DEF lvars
  <2> QED
    BY <1>0, <2>2, <2>3, <2>4, <2>5, StillTurn
<1>2. CASE ~own[o].terminating /\ c \in own[o].owned
  <2>1. own' = [own EXCEPT ![o] = TermChild(@, c)] /\ Handled(o, <<send_command(c, "term", Linger)>>)
    BY <1>2 DEF process_term_req
  <2>2. /\ c \in Object /\ Made(c) /\ own[c].owner = o /\ c # Socket /\ c # o
    <3>1. c \in Object
      BY <1>0, <1>2 DEF OwnRecord
    <3>2. Made(c) /\ own[c].owner = o
      BY <1>0, <1>2 DEF Tree
    <3>3. c # Socket
      BY <1>0, <3>2, OwnAssumption DEF Tree
    <3> QED
      BY <1>0, <3>1, <3>2, <3>3, OwnersApart
  <2>3. Alive(o)
    <3>1. CommandOK(Com(o, "term_req", arg(o)), Tid[o])
      BY <1>0, HeadOK
    <3> QED
      BY <3>1 DEF CommandOK, Com
  <2>4. /\ ChildOK(c) /\ Alive(c)
    BY <1>0, <1>2, <2>2 DEF Children, ChildOK
  <2>5. Owns(c) = 0 /\ Terms(c) = 0 /\ c \notin pending /\ ~own[c].terminating
    <3>1. Owns(c) + B(c \in own[own[c].owner].owned) + Terms(c) + B(c \in pending) + B(own[c].terminating) = 1
      BY <2>4 DEF ChildOK
    <3>2. B(c \in own[own[c].owner].owned) = 1
      BY <1>2, <2>2 DEF B
    <3>3. B(c \in pending) \in Nat /\ B(own[c].terminating) \in Nat /\ Owns(c) \in Nat /\ Terms(c) \in Nat
      BY <1>0, CountsType DEF B
    <3>4. Owns(c) = 0 /\ Terms(c) = 0 /\ B(c \in pending) = 0 /\ B(own[c].terminating) = 0
      BY <3>1, <3>2, <3>3
    <3> QED
      BY <3>4 DEF B
  <2> DEFINE T == {"term", "term_req"}
  <2>10. PICK steps \in Seq(Work) :
           /\ Handled(o, steps) /\ NoDelete(steps) /\ Plain(steps) /\ Only(steps, T) /\ Calm(steps) /\ StepsOK(steps, Tid[o])
           /\ \A D : SeqCount(steps, Sends(D)) = B(Com(c, "term", Linger) \in D)
    <3> SUFFICES ASSUME NEW type, type = "term", NEW a, a = Linger
                 PROVE  \E steps \in Seq(Work) :
                          /\ Handled(o, steps) /\ NoDelete(steps) /\ Plain(steps) /\ Only(steps, T) /\ Calm(steps) /\ StepsOK(steps, Tid[o])
                          /\ \A D : SeqCount(steps, Sends(D)) = B(Com(c, "term", Linger) \in D)
      OBVIOUS
    <3>1. type \in CommandType \ SeqCommand /\ a \in Arg
      BY DEF CommandType, SeqCommand, Arg
    <3> DEFINE u == <<send_command(c, type, a)>>
               t == Tid[o]
    <3>2. /\ u \in Seq(Work) /\ NoDelete(u) /\ Plain(u)
          /\ (\A T2 : type \in T2 => Only(u, T2))
          /\ (type \notin {"bind", "hiccup", "pipe_term"} => Calm(u))
          /\ (\A D : SeqCount(u, Sends(D)) = B(Com(c, type, a) \in D))
          /\ DOMAIN u = {1} /\ u[1].op = "send" /\ u[1].to = c /\ u[1].type = type /\ u[1].arg = a /\ u[1].inc = 0
          /\ (SendOK(u, 1, t) => StepsOK(u, t))
      BY <2>2, <3>1, OneSend
    <3> HIDE DEF u
    <3>3. CommandOK(Com(u[1].to, u[1].type, u[1].arg), Tid[u[1].to])
      BY <2>2, <2>4, <3>2 DEF CommandOK, Com
    <3>4. SendOK(u, 1, t)
      BY <3>2, <3>3 DEF SendOK
    <3>5. Handled(o, u)
      BY <2>1 DEF u
    <3>6. Only(u, T) /\ Calm(u)
      BY <3>2
    <3> QED
      BY <3>2, <3>4, <3>5, <3>6
  <2>11. Turn(o, steps) /\ Takes(o) /\ Plans(o, steps) /\ Msg(o) = Com(o, "term_req", arg(o)) /\ arg(o) \in Arg
    BY <1>0, <2>10, HandlerTurn
  <2>12. Msg(o).type \in T /\ T \cap SeqCommand = {}
    BY <2>11 DEF Com, SeqCommand
  <2>13. InOrder(steps)
    BY <2>10, CalmInOrder
  <2>14. \A y \in Object : Terms(y)' = Terms(y) + B(y = c)
    <3> SUFFICES ASSUME NEW y \in Object PROVE Terms(y)' = Terms(y) + B(y = c)
      OBVIOUS
    <3>1. Msg(o) \notin To(y, "term")
      BY <2>11 DEF Com, To
    <3>2. Flight(To(y, "term"))' = Flight(To(y, "term")) + SeqCount(steps, Sends(To(y, "term")))
      BY <2>11, <3>1, FreshFlight
    <3>3. "term" \in CommandType /\ Linger \in Arg
      BY DEF CommandType, Arg
    <3>4. Com(c, "term", Linger) \in To(y, "term") <=> y = c
      BY <2>2, <3>3, ComIn
    <3> QED
      BY <2>10, <3>2, <3>4 DEF Terms, B
  <2>15. Pipes'
    <3>1. SameCounts(T)
      BY <2>10, <2>11, <2>12, QuietCounts
    <3>2. SameCounts({"plug", "attach", "term", "term_ack", "own"})
      BY <3>1 DEF SameCounts
    <3> QED
      BY <1>0, <3>2, PipesFrame DEF evars
  <2>16. /\ UNCHANGED <<polled, engine, pending, pipe, psession, closed, immediate>> /\ endpoints' \subseteq endpoints
         /\ SameEnds /\ pstate' \in [Pipe \X {"socket", "session"} -> PState]
         /\ closed => \A p \in Pipe : pstate'[<<p, "socket">>] \notin {"active", "waiting_for_delimiter"}
    BY <1>0 DEF lvars, evars, svars, SameEnds, Typed, Links
  <2>17. "term_ack" \notin T
    OBVIOUS
  <2> HIDE DEF T
  <2> QED
    BY <1>0, <1>2, <2>1, <2>3, <2>10, <2>11, <2>12, <2>13, <2>14, <2>15, <2>16, <2>17, TellsChild
<1> QED
  BY <1>1, <1>2
-----------------------------------------------------------------------------
(* pipe_term_ack to a session *)

\* The state of the session's end, and what changes whatever the session does.
SessionEndGone(s, p) ==
    /\ s \in Session /\ s \in Object /\ s # Socket /\ Handles(s, "pipe_term_ack")
    /\ p \in Pipe /\ psession[p] = s /\ Alive(s) /\ PipeOK(p)
    /\ PT(p, "session") = 0 /\ PA(p, "session") >= 1 /\ AckExpected(p, "session")
    /\ pstate[<<p, "session">>] = "term_req_sent1" => pstate[<<p, "socket">>] = "term_ack_sent"
    /\ failed' = {} /\ UNCHANGED <<polled, engine, endpoints, closed, immediate, psession>>
    /\ pstate' \in [Pipe \X {"socket", "session"} -> PState] /\ pstate'[<<p, "session">>] = "gone"
    /\ \A q \in Pipe : \A y \in End : (q # p \/ y # "session") => pstate'[<<q, y>>] = pstate[<<q, y>>]
    /\ pipe' \in [Session -> Pipe \cup {None}]
    /\ \A y \in Session : pipe'[y] # None =>
          psession[pipe'[y]] = y /\ pstate'[<<pipe'[y], "session">>] \notin {"none", "gone"}
    /\ OtherPipes(s, {})' = OtherPipes(s, {p})
    /\ \A y \in Session : y # s => OtherPipes(y, {})' = OtherPipes(y, {})
    /\ pipes' = pipes

\* pipe_term_ack ends the session's end of the pipe.
LEMMA SessionAck ==
    ASSUME IInv, NEW s, pipe_terminated_session(s), NEW p, p = arg(s)
    PROVE  SessionEndGone(s, p)
<1>0. /\ Typed /\ Tree /\ Links /\ Commands /\ Todo /\ Order /\ Pipes /\ QType /\ failed = {}
      /\ s \in Session /\ s \in Object /\ s # Socket /\ Handles(s, "pipe_term_ack")
  BY SocketIn, OwnAssumption DEF IInv, Typed, pipe_terminated_session
<1>1. "pipe_term_ack" \in PipeCommand /\ Side(s) = "session"
  BY <1>0 DEF PipeCommand, Side
<1>2. /\ p \in Pipe /\ psession[p] \in Session /\ Alive(s) /\ s = psession[p]
      /\ Flight(ToEnd(p, Side(s), "pipe_term_ack")) >= 1
  BY <1>0, <1>1, PipeTargets
<1>3. PA(p, "session") >= 1 /\ PipeOK(p)
  BY <1>0, <1>1, <1>2 DEF PA, Pipes
<1>4. PT(p, "session") = 0
  <2> DEFINE D == ToEnd(p, "session", "pipe_term")
  <2>1. \A m \in D : m.arg = p /\ m.type \in PipeCommand /\ Rank(m.type) < Rank("pipe_term_ack")
    BY DEF ToEnd, PipeCommand, Rank
  <2>2. \A m \in D : \A t : CommandOK(m, t) => m.to = s
    BY <1>2 DEF ToEnd, CommandOK
  <2> HIDE DEF D
  <2>3. Flight(D) = 0
    BY <1>0, <1>1, <2>1, <2>2, HeadFirst
  <2> QED
    BY <2>3 DEF D, PT
<1>5. /\ AckExpected(p, "session")
      /\ pstate[<<p, "session">>] = "term_req_sent1" => pstate[<<p, "socket">>] = "term_ack_sent"
  BY <1>3, <1>4 DEF PipeOK, Joint, AckExpected
<1>6. /\ failed' = {} /\ UNCHANGED <<polled, engine, endpoints, closed, immediate, psession>>
      /\ pstate' = [pstate EXCEPT ![<<p, "session">>] = "gone"]
      /\ pipe' = [pipe EXCEPT ![s] = IF @ = p THEN None ELSE @]
  BY <1>0, <1>5 DEF pipe_terminated_session, zmq_assert, svars
<1>7. /\ pstate' \in [Pipe \X {"socket", "session"} -> PState] /\ pstate'[<<p, "session">>] = "gone"
      /\ \A q \in Pipe : \A y \in End : (q # p \/ y # "session") => pstate'[<<q, y>>] = pstate[<<q, y>>]
  BY <1>0, <1>2, <1>6 DEF Typed, End, PState
<1>8. /\ pipe' \in [Session -> Pipe \cup {None}] /\ pipe'[s] = (IF pipe[s] = p THEN None ELSE pipe[s])
      /\ \A y \in Session : y # s => pipe'[y] = pipe[y]
  BY <1>0, <1>6 DEF Typed
<1>9. ASSUME NEW y \in Session, pipe'[y] # None
      PROVE  psession[pipe'[y]] = y /\ pstate'[<<pipe'[y], "session">>] \notin {"none", "gone"}
  <2>1. pipe'[y] = pipe[y] /\ pipe[y] \in Pipe
    BY <1>0, <1>8, <1>9 DEF Typed
  <2>2. psession[pipe[y]] = y /\ pstate[<<pipe[y], "session">>] \notin {"none", "gone"}
    BY <1>0, <1>9, <2>1 DEF Links
  <2>3. pipe[y] # p
    BY <1>2, <1>8, <1>9, <2>1, <2>2
  <2>4. pstate'[<<pipe[y], "session">>] = pstate[<<pipe[y], "session">>]
    BY <1>7, <2>1, <2>3 DEF End
  <2> QED
    BY <2>1, <2>2, <2>4
<1>10. \A q \in Pipe : q # p => pstate'[<<q, "session">>] = pstate[<<q, "session">>]
  BY <1>7 DEF End
<1>11. OtherPipes(s, {})' = OtherPipes(s, {p})
  BY <1>2, <1>6, <1>7, <1>10 DEF OtherPipes
<1>12. \A y \in Session : y # s => OtherPipes(y, {})' = OtherPipes(y, {})
  BY <1>2, <1>6, <1>7, <1>10 DEF OtherPipes
<1>13. pipes' = pipes
  BY <1>7 DEF pipes, End
<1> QED
  BY <1>0, <1>2, <1>3, <1>4, <1>5, <1>6, <1>7, <1>8, <1>9, <1>11, <1>12, <1>13 DEF SessionEndGone

\* The answer that the session's end may owe its peer.
LEMMA SessionAnswer ==
    ASSUME IInv, NEW s, NEW p, SessionEndGone(s, p)
    PROVE  \E n \in {0, 1} : LET last == LastAnswer(p, "session") IN
         /\ n = 1 <=> pstate[<<p, "session">>] = "term_req_sent1"
         /\ last \in Seq(Work) /\ NoDelete(last) /\ Plain(last) /\ Only(last, {"pipe_term_ack"}) /\ Calm(last)
         /\ Answers(last) /\ NoInc(last) /\ StepsOK(last, Tid[s])
         /\ Told(last, p, "socket", n, "pipe_term_ack")
<1> DEFINE last == LastAnswer(p, "session")
<1>0. Peer("session") = "socket" /\ "session" \in End /\ "socket" \in End
  BY PeerFacts DEF End
<1>1. /\ p \in Pipe /\ psession[p] = s /\ psession[p] \in Session /\ Sink(p, "session") = s /\ s \in Object
      /\ pstate[<<p, "session">>] = "term_req_sent1" => pstate[<<p, "socket">>] = "term_ack_sent"
  BY DEF SessionEndGone, Sink
<1>2. CASE pstate[<<p, "session">>] = "term_req_sent1"
  <2>1. Alive(Sink(p, "socket"))
    BY <1>0, <1>1, <1>2, EndAlive
  <2> DEFINE u == Tell(p, "session", "pipe_term_ack")
  <2>2. last = u
    BY <1>2 DEF LastAnswer
  <2>3. Told(u, p, "socket", 1, "pipe_term_ack")
    BY <1>0, <1>1, <2>1, TellTold
  <2>4. /\ u \in Seq(Work) /\ NoDelete(u) /\ Plain(u) /\ Calm(u) /\ Answers(u)
        /\ NoInc(u) /\ StepsOK(u, Tid[Sink(p, "session")])
    BY <1>0, <1>1, <2>1, TellFacts
  <2>5. Only(u, {"pipe_term_ack"})
    BY <2>4 DEF Only, Answers
  <2> HIDE DEF u
  <2> QED
    BY <1>1, <1>2, <2>2, <2>3, <2>4, <2>5
<1>3. CASE pstate[<<p, "session">>] # "term_req_sent1"
  <2>1. last = <<>>
    BY <1>3 DEF LastAnswer
  <2>2. Told(<<>>, p, "socket", 0, "pipe_term_ack")
    BY <1>0, <1>1, ToldFacts
  <2>3. /\ <<>> \in Seq(Work) /\ NoDelete(<<>>) /\ Plain(<<>>) /\ Only(<<>>, {"pipe_term_ack"}) /\ Calm(<<>>)
        /\ Answers(<<>>) /\ NoInc(<<>>) /\ StepsOK(<<>>, Tid[s])
    BY NoSteps
  <2>4. 0 = 1 <=> pstate[<<p, "session">>] = "term_req_sent1"
    BY <1>3
  <2> QED
    BY <2>1, <2>2, <2>3, <2>4
<1> QED
  BY <1>2, <1>3

\* The states of the pipe after that.
LEMMA SessionAckPipes ==
    ASSUME IInv, NEW s, NEW p, SessionEndGone(s, p), NEW steps, Turn(s, steps), Takes(s),
           Msg(s) = Com(s, "pipe_term_ack", p), NEW n \in {0, 1}, n = 1 <=> pstate[<<p, "session">>] = "term_req_sent1",
           Told(steps, p, "socket", n, "pipe_term_ack")
    PROVE  Pipes'
<1>0. Peer("session") = "socket" /\ "session" \in End /\ "socket" \in End
  BY PeerFacts DEF End
<1>1. /\ p \in Pipe /\ psession' = psession /\ Side(s) = "session" /\ PT(p, "session") = 0 /\ PA(p, "session") >= 1
      /\ pstate'[<<p, "session">>] = "gone" /\ pstate'[<<p, "socket">>] = pstate[<<p, "socket">>] /\ PipeOK(p)
      /\ \A q \in Pipe : q # p => \A y \in End : pstate'[<<q, y>>] = pstate[<<q, y>>]
      /\ QType /\ Pipes /\ QType' /\ AckExpected(p, "session")
  BY <1>0, HandledFlight DEF SessionEndGone, Side, IInv, Typed, Turn
<1>2. /\ \A q \in Pipe : q # p =>
                /\ Binds(q)' = Binds(q) /\ Hiccups(q)' = Hiccups(q)
                /\ \A y \in End : PT(q, y)' = PT(q, y) /\ PA(q, y)' = PA(q, y)
      /\ Binds(p)' = Binds(p) /\ Hiccups(p)' = Hiccups(p)
      /\ PT(p, "session")' = PT(p, "session") /\ PA(p, "session")' = PA(p, "session") - 1
      /\ PT(p, "socket")' = PT(p, "socket") /\ PA(p, "socket")' = PA(p, "socket") + n
  <2> SUFFICES ASSUME NEW tin \in PipeCommand, NEW tout \in {"pipe_term", "pipe_term_ack"}, tin = "pipe_term_ack", tout = "pipe_term_ack",
                      NEW x \in End, x = "session"
               PROVE  /\ \A q \in Pipe : q # p =>
                            /\ Binds(q)' = Binds(q) /\ Hiccups(q)' = Hiccups(q)
                            /\ \A y \in End : PT(q, y)' = PT(q, y) /\ PA(q, y)' = PA(q, y)
                      /\ Binds(p)' = Binds(p) /\ Hiccups(p)' = Hiccups(p)
                      /\ PT(p, x)' = PT(p, x) /\ PA(p, x)' = PA(p, x) - 1
                      /\ PT(p, "socket")' = PT(p, "socket") /\ PA(p, "socket")' = PA(p, "socket") + n
    BY <1>0 DEF PipeCommand
  <2>1. Msg(s) = Com(s, tin, p) /\ Told(steps, p, Peer(x), n, tout) /\ x = Side(s)
    BY <1>0, <1>1
  <2>2. /\ \A q \in Pipe : q # p =>
                /\ Binds(q)' = Binds(q) /\ Hiccups(q)' = Hiccups(q)
                /\ \A y \in End : PT(q, y)' = PT(q, y) /\ PA(q, y)' = PA(q, y)
        /\ Binds(p)' = Binds(p) - (IF tin = "bind" THEN 1 ELSE 0)
        /\ Hiccups(p)' = Hiccups(p) - (IF tin = "hiccup" THEN 1 ELSE 0)
        /\ PT(p, x)' = PT(p, x) - (IF tin = "pipe_term" THEN 1 ELSE 0)
        /\ PA(p, x)' = PA(p, x) - (IF tin = "pipe_term_ack" THEN 1 ELSE 0)
        /\ PT(p, Peer(x))' = PT(p, Peer(x)) + (IF tout = "pipe_term" THEN n ELSE 0)
        /\ PA(p, Peer(x))' = PA(p, Peer(x)) + (IF tout = "pipe_term_ack" THEN n ELSE 0)
    BY <1>1, <2>1, HandledTold
  <2> QED
    BY <1>0, <1>1, <2>2, CountsType
<1>3. CASE pstate[<<p, "session">>] = "term_req_sent1"
  <2>1. n = 1
    BY <1>3
  <2> QED
    <3> SUFFICES ASSUME NEW q \in Pipe PROVE PipeOK(q)'
      BY DEF Pipes
    <3>1. CASE q # p
      BY <1>1, <1>2, <3>1, OtherPipe DEF Pipes
    <3>2. CASE q = p
      BY <1>1, <1>2, <1>3, <2>1, <3>2, CountsType DEF PipeOK, Joint, AckExpected
    <3> QED
      BY <3>1, <3>2
<1>4. CASE pstate[<<p, "session">>] # "term_req_sent1"
  <2>1. n = 0
    BY <1>4
  <2> QED
    <3> SUFFICES ASSUME NEW q \in Pipe PROVE PipeOK(q)'
      BY DEF Pipes
    <3>1. CASE q # p
      BY <1>1, <1>2, <3>1, OtherPipe DEF Pipes
    <3>2. CASE q = p
      <4>1. pstate[<<p, "session">>] \in {"term_ack_sent", "term_req_sent2"}
        BY <1>1, <1>4 DEF AckExpected
      <4>2. /\ Binds(p) = 0 /\ PT(p, "socket") = 0 /\ PT(p, "session") = 0 /\ PA(p, "session") = 1 /\ ~(Hiccups(p) >= 1)
            /\ \/ pstate[<<p, "socket">>] = "gone" /\ PA(p, "socket") = 0
               \/ pstate[<<p, "socket">>] = "term_req_sent2" /\ PA(p, "socket") = 1
            /\ psession[p] # None
        BY <1>1, <4>1 DEF PipeOK, Joint
      <4>3. /\ Binds(p)' = 0 /\ PT(p, "socket")' = 0 /\ PT(p, "session")' = 0 /\ PA(p, "session")' = 0 /\ ~(Hiccups(p)' >= 1)
            /\ PA(p, "socket")' = PA(p, "socket")
        BY <1>1, <1>2, <2>1, <4>2, CountsType
      <4> QED
        BY <1>1, <3>2, <4>2, <4>3 DEF PipeOK, Joint
    <3> QED
      BY <3>1, <3>2
<1> QED
  BY <1>3, <1>4

\* A pipe of a session that is not the last one it waits for.
LEMMA SessionAckStays ==
    ASSUME IInv, NEW s, NEW p, p = arg(s), pipe_terminated_session(s), SessionEndGone(s, p),
           ~(s \in pending /\ OtherPipes(s, {p}) = {})
    PROVE  IInv'
<1>0. /\ Typed /\ Tree /\ Links /\ Pipes /\ QType /\ own \in [Object -> OwnRecord] /\ Order /\ Children /\ Awaited
      /\ Gone /\ Checked /\ PlugFirst
      /\ own' = own /\ pending' = pending /\ s \in Session /\ s \in Object /\ s # Socket /\ Handles(s, "pipe_term_ack")
      /\ failed' = {} /\ UNCHANGED <<polled, engine, endpoints, closed, immediate, psession>> /\ pipes' = pipes
  BY DEF IInv, Typed, pipe_terminated_session, SessionEndGone
<1> DEFINE last == LastAnswer(p, "session")
<1>1. PICK n \in {0, 1} :
         /\ n = 1 <=> pstate[<<p, "session">>] = "term_req_sent1"
         /\ last \in Seq(Work) /\ NoDelete(last) /\ Plain(last) /\ Only(last, {"pipe_term_ack"}) /\ Calm(last)
         /\ Answers(last) /\ NoInc(last) /\ StepsOK(last, Tid[s])
         /\ Told(last, p, "socket", n, "pipe_term_ack")
  BY SessionAnswer
<1>2. Handled(s, last)
  <2>1. Handled(s, <<>> \o last)
    BY DEF pipe_terminated_session
  <2>2. <<>> \o last = last
    BY <1>1
  <2> QED
    BY <2>1, <2>2
<1> HIDE DEF last
<1> DEFINE T == {"pipe_term_ack"}
<1>3. "pipe_term_ack" \in CommandType /\ T \cap SeqCommand = {} /\ "pipe_term_ack" \in T
  BY DEF CommandType, SeqCommand
<1> HIDE DEF T
<1>4. Only(last, T)
  BY <1>1 DEF T
<1>5. Turn(s, last) /\ Takes(s) /\ Msg(s) = Com(s, "pipe_term_ack", arg(s))
  BY <1>0, <1>1, <1>2, <1>3, HandlerTurn
<1>6. Msg(s).type \in T
  BY <1>3, <1>5 DEF Com
<1>7. InOrder(last)
  BY <1>1, CalmInOrder
<1>8. polled' \subseteq polled /\ engine' \subseteq engine /\ psession' = psession /\ SameLife /\ own' \in [Object -> OwnRecord]
  BY <1>0 DEF SameLife
<1>9. /\ QType' /\ SameAlive /\ Grows /\ Seqnums' /\ Commands' /\ Todo' /\ Engines' /\ Order' /\ Requests'
      /\ SameCounts(T)
      /\ \A y : Plugs(y)' = Plugs(y) /\ Attaches(y)' = Attaches(y) /\ Owns(y)' = Owns(y)
  BY <1>1, <1>3, <1>4, <1>5, <1>6, <1>7, <1>8, PlainTurn
<1>10. \A y : Terms(y)' = Terms(y) /\ Acks(y)' = Acks(y)
  BY <1>9 DEF SameCounts, T
<1>11. SameShape
  BY <1>0 DEF SameShape
<1>12. Typed'
  BY <1>0, <1>9 DEF Typed, SessionEndGone
<1>13. Tree'
  BY <1>0, <1>11, TreeFrame
<1>14. Links'
  <2>1. Session \subseteq Object /\ polled \subseteq Object /\ engine \subseteq Object
    BY <1>0, SocketIn DEF Typed
  <2>2. /\ \A y \in polled' : Alive(y)' /\ ~own'[y].terminating
        /\ \A y \in engine' : own'[y].life = "live"
    BY <1>0, <1>9, <2>1 DEF Links, SameAlive
  <2>3. \A q \in Pipe : psession'[q] # None => own'[psession'[q]].life # "none"
    BY <1>0 DEF Links, Made
  <2>4. \A y \in Session : own'[y].terminating => OtherPipes(y, {})' = {}
    <3> SUFFICES ASSUME NEW y \in Session, own[y].terminating PROVE OtherPipes(y, {})' = {}
      BY <1>0
    <3>1. OtherPipes(y, {}) = {}
      BY <1>0 DEF Links
    <3>2. CASE y # s
      BY <3>1, <3>2 DEF SessionEndGone
    <3>3. CASE y = s
      <4>1. OtherPipes(s, {p}) \subseteq OtherPipes(s, {})
        BY DEF OtherPipes
      <4> QED
        BY <3>1, <3>3, <4>1 DEF SessionEndGone
    <3> QED
      BY <3>2, <3>3
  <2>5. \A y \in pending' : OtherPipes(y, {})' # {}
    <3> SUFFICES ASSUME NEW y \in pending PROVE OtherPipes(y, {})' # {}
      BY <1>0
    <3>1. OtherPipes(y, {}) # {} /\ y \in Session
      BY <1>0 DEF Links, Typed
    <3>2. CASE y # s
      BY <3>1, <3>2 DEF SessionEndGone
    <3>3. CASE y = s
      BY <3>3 DEF SessionEndGone
    <3> QED
      BY <3>2, <3>3
  <2>6. \A y \in Session : pipe'[y] # None =>
          psession'[pipe'[y]] = y /\ pstate'[<<pipe'[y], "session">>] \notin {"none", "gone"}
    BY <1>0 DEF SessionEndGone
  <2>7. closed' => \A q \in Pipe : pstate'[<<q, "socket">>] \notin {"active", "waiting_for_delimiter"}
    <3>1. \A q \in Pipe : pstate'[<<q, "socket">>] = pstate[<<q, "socket">>]
      BY DEF SessionEndGone, End
    <3> QED
      BY <1>0, <3>1 DEF Links
  <2>8. \A e \in endpoints' : e[2] # None => psession'[e[2]] # None
    BY <1>0 DEF Links
  <2> QED
    BY <2>2, <2>3, <2>4, <2>5, <2>6, <2>7, <2>8 DEF Links, Made
<1>15. Children'
  BY <1>0, <1>9, <1>10, <1>11, ChildrenFrame
<1>16. Awaited'
  <2>1. \A y \in Object : Kids(y)' = Kids(y)
    BY <1>9, <1>11, KidsFrame
  <2>2. \A y \in Object : AwaitedPipes(y)' = AwaitedPipes(y)
    BY <1>0 DEF AwaitedPipes
  <2> QED
    BY <1>0, <1>10, <2>1, <2>2 DEF Awaited
<1>17. Gone'
  <2> SUFFICES ASSUME NEW y \in Object, Made(y)', ~Alive(y)' PROVE GoneOK(y)'
    BY DEF Gone
  <2>1. GoneOK(y)
    BY <1>0, <1>9 DEF Gone, SameAlive, Made
  <2>2. y = Socket => \A q \in Pipe : pstate'[<<q, "socket">>] \in {"none", "gone"}
    BY <2>1 DEF GoneOK, SessionEndGone, End
  <2> QED
    BY <1>0, <1>9, <2>1, <2>2 DEF GoneOK, SameAlive
<1>18. Checked'
  <2>1. \A y \in Object : Alive(y)' /\ CanGo(own'[y]) => (Alive(y) /\ CanGo(own[y])) \/ (y = s /\ check_acks(s) \in Range(last))
    BY <1>0, <1>9 DEF SameAlive
  <2> QED
    BY <1>0, <1>5, <2>1, TurnChecked
<1>19. PlugFirst'
  BY <1>0, <1>9, <1>11, PlugFrame
<1>20. Pipes'
  <2>1. Msg(s) = Com(s, "pipe_term_ack", p)
    BY <1>5
  <2> QED
    BY <1>1, <1>5, <2>1, SessionAckPipes
<1> QED
  BY <1>0, <1>9, <1>12, <1>13, <1>14, <1>15, <1>16, <1>17, <1>18, <1>19, <1>20 DEF IInv

\* The last pipe of a session that waits to go.
LEMMA SessionAckLast ==
    ASSUME IInv, NEW s, NEW p, p = arg(s), pipe_terminated_session(s), SessionEndGone(s, p),
           s \in pending, OtherPipes(s, {p}) = {}
    PROVE  IInv'
<1>0. /\ Typed /\ Tree /\ Links /\ Pipes /\ QType /\ own \in [Object -> OwnRecord] /\ Order /\ Children /\ PlugFirst
      /\ own' = [own EXCEPT ![s] = Terminated(@)] /\ pending' = pending \ {s}
      /\ s \in Session /\ s \in Object /\ s # Socket /\ Handles(s, "pipe_term_ack") /\ Alive(s)
      /\ failed' = {} /\ UNCHANGED <<polled, engine, endpoints, closed, immediate, psession>>
  BY DEF IInv, Typed, pipe_terminated_session, SessionEndGone
<1> DEFINE last == LastAnswer(p, "session")
           ends == process_term(s, own[s], 0)
           steps == ends \o last
<1>1. PICK n \in {0, 1} :
         /\ n = 1 <=> pstate[<<p, "session">>] = "term_req_sent1"
         /\ last \in Seq(Work) /\ NoDelete(last) /\ Plain(last) /\ Only(last, {"pipe_term_ack"}) /\ Calm(last)
         /\ Answers(last) /\ NoInc(last) /\ StepsOK(last, Tid[s])
         /\ Told(last, p, "socket", n, "pipe_term_ack")
  BY SessionAnswer
<1>2. Ending(s) /\ own'[s].term_acks = own[s].term_acks + Cardinality(own[s].owned)
  BY <1>0, EndingOwn
<1>3. Handled(s, steps)
  BY DEF pipe_terminated_session
<1> DEFINE T == {"term", "pipe_term_ack"}
<1>4. /\ "pipe_term_ack" \in CommandType /\ T \cap SeqCommand = {} /\ "term_ack" \notin T /\ "term" \in T
      /\ "pipe_term_ack" \in T /\ 0 \in Arg /\ {"pipe_term_ack"} \subseteq T
  BY DEF CommandType, SeqCommand, Arg
<1> HIDE DEF T
<1>5. /\ ends \in Seq(Work) /\ NoDelete(ends) /\ Plain(ends) /\ Calm(ends) /\ Only(ends, T)
      /\ StepsOK(ends, Tid[s]) /\ check_acks(s) \in Range(ends)
      /\ \A c \in Object : SeqCount(ends, Sends(To(c, "term"))) = B(c \in own[s].owned)
      /\ \A D : (\A m \in D : m.type # "term") => SeqCount(ends, Sends(D)) = 0
  BY <1>0, <1>4, TermSteps
<1>6. Only(last, T)
  BY <1>1, <1>4 DEF Only
<1> HIDE DEF last, ends
<1>7. /\ steps \in Seq(Work) /\ NoDelete(steps) /\ Plain(steps) /\ Calm(steps) /\ Only(steps, T)
      /\ check_acks(s) \in Range(steps)
  BY <1>1, <1>5, <1>6, ConcatForm
<1>8. StepsOK(steps, Tid[s])
  BY <1>1, <1>5, StepsConcat
<1>9. \A D : /\ SeqCount(steps, Sends(D)) = SeqCount(ends, Sends(D)) + SeqCount(last, Sends(D))
             /\ SeqCount(ends, Sends(D)) \in Nat /\ SeqCount(last, Sends(D)) \in Nat
  <2>1. ends \in Seq(Work) /\ last \in Seq(Work)
    BY <1>1, <1>5
  <2> QED
    BY <2>1, CountConcat, SeqCountType
<1> HIDE DEF steps
<1>10. Turn(s, steps) /\ Takes(s) /\ Msg(s) = Com(s, "pipe_term_ack", arg(s)) /\ arg(s) \in Arg
  BY <1>0, <1>3, <1>4, <1>7, HandlerTurn
<1>11. Msg(s).type \in T /\ InOrder(steps)
  BY <1>4, <1>7, <1>10, CalmInOrder DEF Com
<1>12. ASSUME NEW c \in Object
       PROVE  Terms(c)' = Terms(c) + B(c \in own[s].owned)
  <2>1. Msg(s) \notin To(c, "term")
    BY <1>10 DEF Com, To
  <2>2. Flight(To(c, "term"))' = Flight(To(c, "term")) + SeqCount(steps, Sends(To(c, "term")))
    BY <1>10, <2>1, FreshFlight
  <2>3. SeqCount(last, Sends(To(c, "term"))) = 0
    <3>1. \A m \in To(c, "term") : m.type \notin {"pipe_term_ack"}
      BY DEF To
    <3> QED
      BY <1>1, <3>1, QuietSteps
  <2> QED
    BY <1>5, <1>9, <2>2, <2>3 DEF Terms, B
<1>13. s \notin own[s].owned
  BY <1>0, OwnersApart DEF Alive, Made
<1>14. Terms(s) = 0 /\ Owns(s) = 0
  <2>1. Owns(s) + B(s \in own[own[s].owner].owned) + Terms(s) + B(s \in pending) + B(own[s].terminating) = 1
    BY <1>0 DEF Children, ChildOK, Alive, Made
  <2>2. B(s \in pending) = 1 /\ B(s \in own[own[s].owner].owned) \in Nat /\ B(own[s].terminating) \in Nat
    BY DEF B
  <2>3. Owns(s) \in Nat /\ Terms(s) \in Nat
    BY <1>0, CountsType
  <2> QED
    BY <2>1, <2>2, <2>3
<1>15. Plugs(s) = 0
  <2>1. ~(Plugs(s) >= 1)
    BY <1>0 DEF PlugFirst
  <2> QED
    BY <1>0, <2>1, CountsType
<1>16. s # Socket => /\ Terms(s) + B(s \in pending) >= 1 /\ Terms(s)' = 0 /\ Plugs(s) = 0
                     /\ \A q \in Pipe : pstate'[<<q, "socket">>] = pstate[<<q, "socket">>]
  <2>1. Terms(s)' = 0
    BY <1>0, <1>12, <1>13, <1>14 DEF B
  <2>2. \A q \in Pipe : pstate'[<<q, "socket">>] = pstate[<<q, "socket">>]
    BY DEF SessionEndGone, End
  <2> QED
    BY <1>14, <1>15, <2>1, <2>2 DEF B
<1>17. EndHyp(s, steps, T)
  <2>1. /\ Turn(s, steps) /\ Plain(steps) /\ Only(steps, T) /\ T \cap SeqCommand = {} /\ "term_ack" \notin T
        /\ (Takes(s) /\ Msg(s).type \in T) \/ mailbox' = mailbox
        /\ StepsOK(steps, Tid[s]) /\ InOrder(steps) /\ check_acks(s) \in Range(steps)
        /\ s \in Object /\ Alive(s) /\ Ending(s)
    BY <1>0, <1>2, <1>4, <1>7, <1>8, <1>10, <1>11
  <2>2. /\ (s # Socket /\ closed' = closed) \/ (s = Socket /\ closed')
        /\ \A c \in Object : c # s => (c \in pending' <=> c \in pending)
        /\ polled' \subseteq polled /\ s \notin polled' /\ engine' \subseteq engine /\ s \notin pending' /\ pending' \subseteq pending
        /\ psession' = psession /\ endpoints' = endpoints /\ immediate' = immediate
    <3>1. (s # Socket /\ closed' = closed) \/ (s = Socket /\ closed')
      BY <1>0
    <3>2. polled' \subseteq polled /\ s \notin polled'
      BY <1>0, OwnAssumption DEF Typed, Session
    <3>3. (\A c \in Object : c # s => (c \in pending' <=> c \in pending)) /\ s \notin pending' /\ pending' \subseteq pending
      BY <1>0
    <3>4. engine' \subseteq engine /\ psession' = psession /\ endpoints' = endpoints /\ immediate' = immediate
      BY <1>0
    <3> QED
      BY <3>1, <3>2, <3>3, <3>4
  <2>3. /\ \A y \in Session : y # s => OtherPipes(y, {})' = OtherPipes(y, {})
        /\ s \in Session => OtherPipes(s, {})' = {}
    BY DEF SessionEndGone
  <2>4. /\ pipe' \in [Session -> Pipe \cup {None}] /\ pstate' \in [Pipe \X {"socket", "session"} -> PState]
        /\ \A y \in Session : pipe'[y] # None =>
              psession[pipe'[y]] = y /\ pstate'[<<pipe'[y], "session">>] \notin {"none", "gone"}
    BY DEF SessionEndGone
  <2>5. closed' => \A q \in Pipe : pstate'[<<q, "socket">>] \notin {"active", "waiting_for_delimiter"}
    BY <1>0, <1>16 DEF Links
  <2>6. \A c \in Object : c # s => Terms(c)' = Terms(c) + B(c \in own[s].owned)
    BY <1>12
  <2> QED
    BY <1>16, <2>1, <2>2, <2>3, <2>4, <2>5, <2>6 DEF EndHyp
<1>18. /\ QType' /\ Seqnums' /\ Commands' /\ Todo' /\ Engines' /\ Order' /\ Requests' /\ Tree' /\ Typed'
  BY <1>17, EndBasics
<1>19. Links'
  BY <1>17, EndLinks
<1>20. Children' /\ Gone' /\ Checked' /\ PlugFirst'
  BY <1>17, EndRest
<1>21. Awaited'
  BY <1>0, <1>2, <1>17, EndAwaited
<1>22. Pipes'
  <2>1. Told(steps, p, "socket", n, "pipe_term_ack")
    <3>0. "term" \notin PipeCommand
      BY DEF PipeCommand
    <3>1. \A q \in Pipe : \A y \in End : \A ty : ty # "term" =>
            SeqCount(steps, Sends(ToEnd(q, y, ty))) = SeqCount(last, Sends(ToEnd(q, y, ty)))
      BY <1>5, <1>9 DEF ToEnd
    <3>2. \A a, ty : ty # "term" => SeqCount(steps, Sends(About(a, ty))) = SeqCount(last, Sends(About(a, ty)))
      BY <1>5, <1>9 DEF About
    <3> QED
      BY <1>1, <3>0, <3>1, <3>2 DEF Told
  <2>2. Msg(s) = Com(s, "pipe_term_ack", p)
    BY <1>10
  <2> QED
    BY <1>1, <1>10, <2>1, <2>2, SessionAckPipes
<1> QED
  BY <1>0, <1>18, <1>19, <1>20, <1>21, <1>22 DEF IInv

\* pipe_term_ack to a session preserves the invariant.
LEMMA SessionAckStep ==
    ASSUME IInv, NEW s, pipe_terminated_session(s)
    PROVE  IInv'
<1> SUFFICES ASSUME NEW p, p = arg(s) PROVE IInv'
  OBVIOUS
<1>1. SessionEndGone(s, p)
  BY SessionAck
<1> QED
  BY <1>1, SessionAckLast, SessionAckStays

\* An object gets an acknowledgement it waits for.
LEMMA TermAckStep ==
    ASSUME IInv, NEW o \in Object, process_term_ack(o)
    PROVE  IInv'
<1>0. /\ Typed /\ Tree /\ Links /\ Pipes /\ QType /\ own \in [Object -> OwnRecord] /\ Order /\ Children /\ Awaited
      /\ Gone /\ Checked /\ PlugFirst /\ Commands /\ failed = {}
      /\ Handles(o, "term_ack") /\ own' = [own EXCEPT ![o] = unregister_term_ack(@)] /\ Handled(o, <<check_acks(o)>>)
      /\ UNCHANGED <<polled, engine, pending, pipe, pstate, psession, endpoints, closed, immediate>>
  BY DEF IInv, Typed, process_term_ack, lvars, evars, svars
<1> DEFINE T == {"term_ack"}
           steps == <<check_acks(o)>>
<1>1. "term_ack" \in CommandType /\ T \cap SeqCommand = {} /\ "term_ack" \in T
  BY DEF CommandType, SeqCommand
<1> HIDE DEF T
<1>2. Alive(o) /\ Acks(o) >= 1
  <2>1. /\ CommandOK(Com(o, "term_ack", arg(o)), Tid[o]) /\ arg(o) \in Arg
        /\ \A D : Com(o, "term_ack", arg(o)) \in D => Flight(D) >= 1
    BY <1>0, <1>1, HeadOK
  <2>2. Com(o, "term_ack", arg(o)) \in To(o, "term_ack")
    BY <1>1, <2>1, ComIn
  <2>3. Alive(o)
    BY <2>1 DEF CommandOK, Com
  <2> QED
    BY <2>1, <2>2, <2>3 DEF Acks
<1>3. /\ steps \in Seq(Work) /\ NoDelete(steps) /\ Plain(steps) /\ Calm(steps) /\ Only(steps, T)
      /\ StepsOK(steps, Tid[o]) /\ check_acks(o) \in Range(steps)
  BY <1>2, CheckStep
<1>4. \A D : SeqCount(steps, Sends(D)) = 0
  BY OwnStepFacts, CountSingle DEF B
<1>5. Handled(o, steps)
  BY <1>0
<1> HIDE DEF steps
<1>6. Turn(o, steps) /\ Takes(o) /\ Plans(o, steps) /\ Msg(o) = Com(o, "term_ack", arg(o)) /\ arg(o) \in Arg
  BY <1>0, <1>1, <1>3, <1>5, HandlerTurn
<1>7. Msg(o).type \in T /\ InOrder(steps)
  BY <1>1, <1>3, <1>6, CalmInOrder DEF Com
<1> DEFINE r == unregister_term_ack(own[o])
<1>8. /\ r \in OwnRecord /\ Kept(r, own[o]) /\ r.processed_seqnum = own[o].processed_seqnum
      /\ r.terminating = own[o].terminating /\ r.owned = own[o].owned
      /\ r.term_acks = own[o].term_acks - 1
  BY <1>0, OwnOps
<1>9. own' = [own EXCEPT ![o] = r]
  BY <1>0
<1> HIDE DEF r
<1>10. own' \in [Object -> OwnRecord] /\ own'[o] = r /\ \A y \in Object : y # o => own'[y] = own[y]
  BY <1>0, <1>8, <1>9, OneOwn
<1>11. SameLife /\ SameShape
  <2>1. SameLife
    BY <1>8, <1>10 DEF Kept, SameLife
  <2>2. \A x \in Object : /\ own'[x].owned = own[x].owned /\ own'[x].terminating = own[x].terminating
                          /\ ~Made(x) => own'[x] = own[x]
    BY <1>2, <1>8, <1>10 DEF Alive, Made
  <2> QED
    BY <1>0, <2>1, <2>2, AcksShape
<1>12. polled' \subseteq polled /\ engine' \subseteq engine /\ psession' = psession
  BY <1>0
<1>13. /\ QType' /\ SameAlive /\ Grows /\ Seqnums' /\ Commands' /\ Todo' /\ Engines' /\ Order' /\ Requests'
       /\ SameCounts(T)
       /\ \A y : Plugs(y)' = Plugs(y) /\ Attaches(y)' = Attaches(y) /\ Owns(y)' = Owns(y)
  BY <1>1, <1>3, <1>6, <1>7, <1>10, <1>11, <1>12, PlainTurn
<1>14. \A y : Terms(y)' = Terms(y)
  BY <1>13 DEF SameCounts, T
<1>15. ASSUME NEW y \in Object
       PROVE  Acks(y)' = Acks(y) - B(y = o)
  <2>1. Flight(To(y, "term_ack"))' = (Flight(To(y, "term_ack")) - B(Msg(o) \in To(y, "term_ack"))) + SeqCount(steps, Sends(To(y, "term_ack")))
    BY <1>0, <1>3, <1>6, HandledFlight
  <2>2. Msg(o) \in To(y, "term_ack") <=> y = o
    BY <1>1, <1>6, ComIn
  <2>3. Flight(To(y, "term_ack")) \in Nat /\ B(y = o) \in Nat
    BY <1>0, FlightType DEF B
  <2> QED
    BY <1>4, <2>1, <2>2, <2>3 DEF Acks
<1>16. failed' = {}
  <2>1. own[o].term_acks = Cardinality(Kids(o)) + Acks(o) + Cardinality(AwaitedPipes(o))
    BY <1>0 DEF Awaited
  <2>2. Cardinality(Kids(o)) \in Nat
    BY FS_Subset, FS_CardinalityType, OwnAssumption DEF Kids
  <2>3. Cardinality(AwaitedPipes(o)) \in Nat
    <3>1. AwaitedPipes(o) \subseteq Pipe
      BY DEF AwaitedPipes, pipes
    <3> QED
      BY <3>1, FS_Subset, FS_CardinalityType, OwnAssumption
  <2>4. Acks(o) \in Nat
    BY <1>0, CountsType
  <2>5. own[o].term_acks > 0
    BY <1>2, <2>1, <2>2, <2>3, <2>4
  <2> QED
    BY <1>0, <2>5 DEF process_term_ack, zmq_assert
<1>17. Typed'
  BY <1>0, <1>10, <1>13 DEF Typed
<1>18. Tree'
  BY <1>0, <1>11, TreeFrame
<1>19. Links'
  BY <1>0, <1>11, <1>13, LinksFrame DEF lvars, evars, svars
<1>20. Children'
  BY <1>0, <1>11, <1>13, <1>14, ChildrenFrame
<1>21. Awaited'
  <2>1. \A y \in Object : Kids(y)' = Kids(y)
    BY <1>11, <1>13, KidsFrame
  <2>2. \A y \in Object : AwaitedPipes(y)' = AwaitedPipes(y)
    BY <1>0 DEF AwaitedPipes, pipes
  <2>3. \A y \in Object : Cardinality(Kids(y)) \in Nat
    BY FS_Subset, FS_CardinalityType, OwnAssumption DEF Kids
  <2>4. \A y \in Object : Cardinality(AwaitedPipes(y)) \in Nat
    <3>1. \A y \in Object : AwaitedPipes(y) \subseteq Pipe
      BY DEF AwaitedPipes, pipes
    <3> QED
      BY <3>1, FS_Subset, FS_CardinalityType, OwnAssumption
  <2>5. ASSUME NEW y \in Object
        PROVE  own'[y].term_acks = Cardinality(Kids(y)') + Acks(y)' + Cardinality(AwaitedPipes(y)')
    <3>1. own[y].term_acks = Cardinality(Kids(y)) + Acks(y) + Cardinality(AwaitedPipes(y))
      BY <1>0 DEF Awaited
    <3>2. Acks(y) \in Nat
      BY <1>0, CountsType
    <3>3. CASE y = o
      BY <1>8, <1>10, <1>15, <2>1, <2>2, <2>3, <2>4, <3>1, <3>2, <3>3 DEF B
    <3>4. CASE y # o
      BY <1>10, <1>15, <2>1, <2>2, <2>3, <2>4, <3>1, <3>2, <3>4 DEF B
    <3> QED
      BY <3>3, <3>4
  <2> QED
    BY <2>5 DEF Awaited
<1>22. Gone'
  <2>1. \A x \in Object : Made(x) /\ ~Alive(x) => own'[x].term_acks = own[x].term_acks
    BY <1>2, <1>10
  <2> QED
    BY <1>0, <1>11, <1>13, <2>1, GoneFrame
<1>23. Checked'
  <2>1. \A y \in Object : Alive(y)' /\ CanGo(own'[y]) => (Alive(y) /\ CanGo(own[y])) \/ (y = o /\ check_acks(o) \in Range(steps))
    BY <1>3, <1>10, <1>13 DEF SameAlive
  <2> QED
    BY <1>0, <1>6, <2>1, TurnChecked
<1>24. PlugFirst'
  BY <1>0, <1>11, <1>13, PlugFrame
<1>25. Pipes'
  <2>1. SameCounts({"plug", "attach", "term", "term_ack", "own"})
    BY <1>13 DEF SameCounts, T
  <2> QED
    BY <1>0, <2>1, PipesFrame
<1> QED
  BY <1>0, <1>13, <1>16, <1>17, <1>18, <1>19, <1>20, <1>21, <1>22, <1>23, <1>24, <1>25 DEF IInv
-----------------------------------------------------------------------------
(* A session gives up its pipe *)

\* Two ordered lists are one when the second's commands may follow the first's.
LEMMA ConcatOrder ==
    ASSUME NEW s \in Seq(Work), NEW u \in Seq(Work), InOrder(s), InOrder(u),
           \A i \in DOMAIN s : \A j \in DOMAIN u : s[i].op = "send" /\ u[j].op = "send" => Sorted(s[i], u[j])
    PROVE  InOrder(s \o u)
<1>1. /\ Len(s) \in Nat /\ Len(u) \in Nat /\ DOMAIN s = 1..Len(s) /\ DOMAIN u = 1..Len(u)
      /\ DOMAIN (s \o u) = 1..(Len(s) + Len(u))
      /\ \A i \in DOMAIN s : i \in DOMAIN (s \o u) /\ (s \o u)[i] = s[i]
      /\ \A i \in DOMAIN (s \o u) : i \in DOMAIN s \/ (i - Len(s) \in DOMAIN u /\ (s \o u)[i] = u[i - Len(s)] /\ i > Len(s))
  BY ConcatElements
<1> DEFINE w == s \o u
<1> SUFFICES ASSUME NEW k \in DOMAIN w, w[k].op = "send"
             PROVE  /\ \A j \in DOMAIN mailbox[Tid[w[k].to]] : Sorted(mailbox[Tid[w[k].to]][j], w[k])
                    /\ \A j \in DOMAIN w : j < k /\ w[j].op = "send" => Sorted(w[j], w[k])
  BY DEF InOrder
<1>2. CASE k \in DOMAIN s
  <2>1. w[k] = s[k] /\ k \in 1..Len(s)
    BY <1>1, <1>2
  <2>2. \A j \in DOMAIN w : j < k => j \in DOMAIN s /\ w[j] = s[j]
    BY <1>1, <2>1
  <2> HIDE DEF w
  <2>3. /\ \A j \in DOMAIN mailbox[Tid[s[k].to]] : Sorted(mailbox[Tid[s[k].to]][j], s[k])
        /\ \A j \in DOMAIN s : j < k /\ s[j].op = "send" => Sorted(s[j], s[k])
    BY <1>2, <2>1 DEF InOrder
  <2> QED
    BY <2>1, <2>2, <2>3
<1>3. CASE k \notin DOMAIN s
  <2> SUFFICES ASSUME NEW l, l = k - Len(s)
               PROVE  /\ \A j \in DOMAIN mailbox[Tid[w[k].to]] : Sorted(mailbox[Tid[w[k].to]][j], w[k])
                      /\ \A j \in DOMAIN w : j < k /\ w[j].op = "send" => Sorted(w[j], w[k])
    OBVIOUS
  <2>1. w[k] = u[l] /\ l \in DOMAIN u /\ k \in Nat
    BY <1>1, <1>3
  <2>2. \A j \in DOMAIN w : j < k => \/ j \in DOMAIN s /\ w[j] = s[j]
                                     \/ j - Len(s) \in DOMAIN u /\ w[j] = u[j - Len(s)] /\ j - Len(s) < l
    BY <1>1, <2>1
  <2> HIDE DEF w
  <2>3. /\ \A j \in DOMAIN mailbox[Tid[u[l].to]] : Sorted(mailbox[Tid[u[l].to]][j], u[l])
        /\ \A j \in DOMAIN u : j < l /\ u[j].op = "send" => Sorted(u[j], u[l])
    BY <2>1 DEF InOrder
  <2> QED
    BY <2>1, <2>2, <2>3
<1> QED
  BY <1>2, <1>3

\* What a session does about its pipe p when it gives it up.
Hiccup(p) ==
    IF pstate[<<p, "session">>] = "active" THEN <<send_command(Socket, "hiccup", p)>> ELSE <<>>
GivesUp(p) == Hiccup(p) \o pipe_terminate(p, "session", FALSE)

\* The hiccup that a session sends when its connection is lost,
LEMMA HiccupSteps ==
    ASSUME IInv, NEW p \in Pipe, psession[p] \in Session
    PROVE  LET u == Hiccup(p)
           IN /\ u \in Seq(Work) /\ NoDelete(u) /\ Plain(u) /\ NoInc(u) /\ NoCheck(u) /\ Only(u, {"hiccup"})
              /\ StepsOK(u, Tid[psession[p]]) /\ InOrder(u)
              /\ \A D : (\A m \in D : m.type # "hiccup" \/ m.arg # p) => SeqCount(u, Sends(D)) = 0
              /\ pstate[<<p, "session">>] # "active" => \A D : SeqCount(u, Sends(D)) = 0
              /\ \A i \in DOMAIN u : u[i].type = "hiccup"
<1>1. CASE pstate[<<p, "session">>] # "active"
  <2>1. Hiccup(p) = <<>>
    BY <1>1 DEF Hiccup
  <2>2. /\ <<>> \in Seq(Work) /\ NoDelete(<<>>) /\ Plain(<<>>) /\ NoInc(<<>>) /\ NoCheck(<<>>) /\ Only(<<>>, {"hiccup"})
        /\ StepsOK(<<>>, Tid[psession[p]]) /\ InOrder(<<>>) /\ \A D : SeqCount(<<>>, D) = 0
    BY NoSteps
  <2>3. \A i \in DOMAIN <<>> : <<>>[i].type = "hiccup"
    OBVIOUS
  <2> QED
    BY <2>1, <2>2, <2>3
<1>2. CASE pstate[<<p, "session">>] = "active"
  <2> SUFFICES ASSUME NEW type, type = "hiccup", NEW a, a = p, NEW t, t = Tid[psession[p]]
               PROVE  LET u == <<send_command(Socket, type, a)>>
                      IN /\ u \in Seq(Work) /\ NoDelete(u) /\ Plain(u) /\ NoInc(u) /\ NoCheck(u) /\ Only(u, {"hiccup"})
                         /\ StepsOK(u, t) /\ InOrder(u)
                         /\ \A D : (\A m \in D : m.type # "hiccup" \/ m.arg # p) => SeqCount(u, Sends(D)) = 0
                         /\ \A i \in DOMAIN u : u[i].type = "hiccup"
    BY <1>2 DEF Hiccup
  <2> DEFINE u == <<send_command(Socket, type, a)>>
  <2>1. type \in CommandType \ SeqCommand /\ a \in Arg /\ Socket \in Object
    BY SocketIn DEF CommandType, SeqCommand, Arg
  <2>2. /\ u \in Seq(Work) /\ NoDelete(u) /\ Plain(u) /\ NoInc(u) /\ NoCheck(u)
        /\ \A T : type \in T => Only(u, T)
        /\ \A D : SeqCount(u, Sends(D)) = B(Com(Socket, type, a) \in D)
        /\ DOMAIN u = {1} /\ u[1].op = "send" /\ u[1].to = Socket /\ u[1].type = type /\ u[1].arg = a /\ u[1].inc = 0
        /\ SendOK(u, 1, t) => StepsOK(u, t)
    BY <2>1, OneSend
  <2> HIDE DEF u
  <2>3. /\ PT(p, "socket") = 0 /\ PA(p, "socket") = 0 /\ pstate[<<p, "socket">>] \notin {"none", "gone"}
    BY <1>2 DEF IInv, Pipes, PipeOK, Joint
  <2>4. Alive(Socket)
    <3>1. Alive(Sink(p, "socket"))
      BY <2>3, EndAlive DEF End
    <3> QED
      BY <3>1 DEF Sink
  <2>5. SendOK(u, 1, t)
    <3>1. CommandOK(Com(u[1].to, u[1].type, u[1].arg), Tid[u[1].to])
      <4>1. psession[p] # None /\ a \in Pipe /\ a = p
        BY OwnAssumption, SocketIn
      <4> QED
        BY <2>1, <2>2, <2>4, <4>1 DEF CommandOK, Com
    <3> QED
      BY <2>2, <3>1 DEF SendOK
  <2>6. InOrder(u)
    <3> SUFFICES ASSUME NEW j \in DOMAIN mailbox[Tid[Socket]] PROVE Sorted(mailbox[Tid[Socket]][j], u[1])
      BY <2>2 DEF InOrder
    <3> DEFINE m == mailbox[Tid[Socket]][j]
    <3>0. QType /\ Tid[Socket] \in Thread
      BY SocketIn, ThreadFacts DEF IInv, Typed
    <3>1. m \in Cmd
      BY <3>0, ElementOfSeq, LenProperties DEF QType
    <3>2. ~(m.to = Socket /\ m.arg = p /\ m.type = "pipe_term_ack")
      <4>1. SUFFICES ASSUME m.to = Socket /\ m.arg = p /\ m.type = "pipe_term_ack" PROVE FALSE
        OBVIOUS
      <4>2. m \in ToEnd(p, "socket", "pipe_term_ack")
        BY <3>1, <4>1 DEF ToEnd
      <4>3. PA(p, "socket") >= 1
        BY <3>0, <4>2, WaitingInFlight DEF PA
      <4> QED
        BY <2>3, <4>3
    <3>3. ~(m.to = Socket /\ m.arg = p /\ m.type = "pipe_term")
      <4>1. SUFFICES ASSUME m.to = Socket /\ m.arg = p /\ m.type = "pipe_term" PROVE FALSE
        OBVIOUS
      <4>2. m \in ToEnd(p, "socket", "pipe_term")
        BY <3>1, <4>1 DEF ToEnd
      <4>3. PT(p, "socket") >= 1
        BY <3>0, <4>2, WaitingInFlight DEF PT
      <4> QED
        BY <2>3, <4>3
    <3> HIDE DEF m
    <3>4. Sorted(m, u[1])
      BY <2>2, <3>2, <3>3 DEF Sorted, Rank, PipeCommand
    <3> QED
      BY <3>4 DEF m
  <2>7. \A D : (\A m \in D : m.type # "hiccup" \/ m.arg # p) => SeqCount(u, Sends(D)) = 0
    BY <2>2 DEF B, Com
  <2>8. Only(u, {"hiccup"}) /\ \A i \in DOMAIN u : u[i].type = "hiccup"
    BY <2>2
  <2>9. StepsOK(u, t)
    BY <2>2, <2>5
  <2> QED
    BY <2>2, <2>6, <2>7, <2>8, <2>9 DEF u
<1> QED
  BY <1>1, <1>2

\* and that it gives up the pipe after it.
LEMMA GivesUpSteps ==
    ASSUME IInv, NEW p \in Pipe, NEW s, psession[p] = s, s \in Session
    PROVE  LET w == GivesUp(p)
           IN /\ w \in Seq(Work) /\ NoDelete(w) /\ Plain(w) /\ NoInc(w) /\ NoCheck(w) /\ Only(w, PipeMove)
              /\ StepsOK(w, Tid[s]) /\ InOrder(w) /\ Leaves(w, p, "session", FALSE)
<1> DEFINE u == Hiccup(p)
           v == pipe_terminate(p, "session", FALSE)
<1>1. /\ u \in Seq(Work) /\ NoDelete(u) /\ Plain(u) /\ NoInc(u) /\ NoCheck(u) /\ Only(u, {"hiccup"})
      /\ StepsOK(u, Tid[s]) /\ InOrder(u)
      /\ \A D : (\A m \in D : m.type # "hiccup" \/ m.arg # p) => SeqCount(u, Sends(D)) = 0
      /\ pstate[<<p, "session">>] # "active" => \A D : SeqCount(u, Sends(D)) = 0
      /\ \A i \in DOMAIN u : u[i].type = "hiccup"
  BY HiccupSteps
<1>2. Sink(p, "session") = s /\ "session" \in End
  BY DEF Sink, End
<1>3. /\ v \in Seq(Work) /\ NoDelete(v) /\ Plain(v) /\ NoInc(v) /\ NoCheck(v) /\ Only(v, PipeMove \ {"hiccup"})
      /\ StepsOK(v, Tid[s]) /\ InOrder(v) /\ Leaves(v, p, "session", FALSE)
      /\ \A a, ty : ty \notin {"pipe_term", "pipe_term_ack"} => SeqCount(v, Sends(About(a, ty))) = 0
  BY <1>2, TerminateSteps
<1> HIDE DEF u, v
<1>4. Only(u, PipeMove) /\ Only(v, PipeMove)
  BY <1>1, <1>3 DEF Only, PipeMove
<1>5. /\ u \o v \in Seq(Work) /\ NoDelete(u \o v) /\ Plain(u \o v) /\ Only(u \o v, PipeMove)
  BY <1>1, <1>3, <1>4, ConcatForm
<1>6. StepsOK(u \o v, Tid[s])
  BY <1>1, <1>3, StepsConcat
<1>7. InOrder(u \o v)
  <2>1. \A i \in DOMAIN u : \A j \in DOMAIN v : u[i].op = "send" /\ v[j].op = "send" => Sorted(u[i], v[j])
    BY <1>1, <1>3 DEF Only, PipeMove, Sorted, Rank, PipeCommand
  <2> QED
    BY <1>1, <1>3, <2>1, ConcatOrder
<1>8. NoInc(u \o v) /\ NoCheck(u \o v)
  <2>1. /\ \A i \in DOMAIN u : i \in DOMAIN (u \o v) /\ (u \o v)[i] = u[i]
        /\ \A i \in DOMAIN (u \o v) : i \in DOMAIN u \/ (i - Len(u) \in DOMAIN v /\ (u \o v)[i] = v[i - Len(u)] /\ i > Len(u))
    BY <1>1, <1>3, ConcatElements
  <2> QED
    BY <1>1, <1>3, <2>1 DEF NoInc, NoCheck
<1>9. \A D : /\ SeqCount(u \o v, Sends(D)) = SeqCount(u, Sends(D)) + SeqCount(v, Sends(D))
             /\ SeqCount(u, Sends(D)) \in Nat /\ SeqCount(v, Sends(D)) \in Nat
  <2>1. u \in Seq(Work) /\ v \in Seq(Work)
    BY <1>1, <1>3
  <2> QED
    BY <2>1, CountConcat, SeqCountType
<1>10. Leaves(u \o v, p, "session", FALSE)
  <2>1. \A q \in Pipe : \A y \in End : \A ty \in {"pipe_term", "pipe_term_ack"} :
          SeqCount(u \o v, Sends(ToEnd(q, y, ty)))
             = IF q = p /\ y = Peer("session") THEN Parting(pstate[<<p, "session">>], FALSE, ty) ELSE 0
    <3> SUFFICES ASSUME NEW q \in Pipe, NEW y \in End, NEW ty \in {"pipe_term", "pipe_term_ack"}
                 PROVE  SeqCount(u \o v, Sends(ToEnd(q, y, ty)))
                          = IF q = p /\ y = Peer("session") THEN Parting(pstate[<<p, "session">>], FALSE, ty) ELSE 0
      OBVIOUS
    <3>0. SeqCount(v, Sends(ToEnd(q, y, ty)))
            = IF q = p /\ y = Peer("session") THEN Parting(pstate[<<p, "session">>], FALSE, ty) ELSE 0
      BY <1>3, Zenon DEF Leaves
    <3>1. \A m \in ToEnd(q, y, ty) : m.type # "hiccup" \/ m.arg # p
      BY DEF ToEnd
    <3>2. SeqCount(u, Sends(ToEnd(q, y, ty))) = 0
      BY <1>1, <3>1
    <3>3. SeqCount(u \o v, Sends(ToEnd(q, y, ty))) = SeqCount(v, Sends(ToEnd(q, y, ty)))
      BY <1>9, <3>2
    <3> QED
      BY <3>0, <3>3
  <2>2. \A q \in Pipe : SeqCount(u \o v, Sends(About(q, "bind"))) = 0
    <3> SUFFICES ASSUME NEW q \in Pipe PROVE SeqCount(u \o v, Sends(About(q, "bind"))) = 0
      OBVIOUS
    <3>1. \A m \in About(q, "bind") : m.type # "hiccup" \/ m.arg # p
      BY DEF About
    <3>2. SeqCount(u, Sends(About(q, "bind"))) = 0
      BY <1>1, <3>1
    <3>3. SeqCount(v, Sends(About(q, "bind"))) = 0
      BY <1>3
    <3> QED
      BY <1>9, <3>2, <3>3
  <2>3. \A q \in Pipe : \/ SeqCount(u \o v, Sends(About(q, "hiccup"))) = 0
                        \/ q = p /\ "session" = "session" /\ pstate[<<p, "session">>] = "active"
    <3> SUFFICES ASSUME NEW q \in Pipe, ~(q = p /\ pstate[<<p, "session">>] = "active")
                 PROVE  SeqCount(u \o v, Sends(About(q, "hiccup"))) = 0
      OBVIOUS
    <3>1. SeqCount(v, Sends(About(q, "hiccup"))) = 0
      BY <1>3
    <3>2. SeqCount(u, Sends(About(q, "hiccup"))) = 0
      <4>1. CASE q = p
        BY <1>1, <4>1
      <4>2. CASE q # p
        <5>1. \A m \in About(q, "hiccup") : m.type # "hiccup" \/ m.arg # p
          BY <4>2 DEF About
        <5> QED
          BY <1>1, <5>1
      <4> QED
        BY <4>1, <4>2
    <3> QED
      BY <1>9, <3>1, <3>2
  <2> QED
    BY <2>1, <2>2, <2>3 DEF Leaves
<1> QED
  BY <1>5, <1>6, <1>7, <1>8, <1>10 DEF GivesUp, u, v
-----------------------------------------------------------------------------
(* Lost connections, and endpoints that are given up *)

\* The pipe of a session that loses its connection, as far as it is given up.
Drops(s) == pipe[s] # None /\ immediate

\* A session with an engine is alive and so is its pipe.
LEMMA ReconnectFacts ==
    ASSUME IInv, NEW s, s \in engine \cap Connected
    PROVE  /\ s \in Session /\ s \in Object /\ s # Socket
           /\ pipe[s] # None => pipe[s] \in Pipe /\ psession[pipe[s]] = s /\ pstate[<<pipe[s], "session">>] \notin {"none", "gone"}
           /\ Idle(Tid[s]) => Alive(s)
<1>1. s \in Session /\ s \in Object /\ s # Socket
  BY SocketIn, OwnAssumption
<1>2. own[s].life = "live"
  BY DEF IInv, Links
<1>3. Idle(Tid[s]) => Alive(s)
  BY <1>2 DEF Idle, Alive, Going, Range
<1>4. pipe[s] # None => pipe[s] \in Pipe /\ psession[pipe[s]] = s /\ pstate[<<pipe[s], "session">>] \notin {"none", "gone"}
  BY <1>1 DEF IInv, Typed, Links
<1> QED
  BY <1>1, <1>3, <1>4

\* A lost connection preserves the invariant when the session does not connect again.
LEMMA LostStep ==
    ASSUME IInv, NEW s \in Session, reconnect(s, FALSE)
    PROVE  IInv'
<1>0. /\ Typed /\ Links /\ Pipes /\ QType /\ s \in engine \cap Connected /\ Idle(Tid[s]) /\ own' = own /\ failed = {}
      /\ UNCHANGED <<polled, pending, endpoints, closed, immediate, psession, failed>> /\ engine' = engine \ {s}
  BY DEF IInv, Typed, reconnect, svars
<1>1. /\ s \in Object /\ s # Socket
      /\ pipe[s] # None => pipe[s] \in Pipe /\ psession[pipe[s]] = s
  BY <1>0, ReconnectFacts
<1>2. CASE ~Drops(s)
  <2>1. Acts(s, <<>>) /\ pstate' = pstate /\ pipe' = pipe
    BY <1>0, <1>2 DEF reconnect, Drops, Typed
  <2>2. /\ <<>> \in Seq(Work) /\ NoDelete(<<>>) /\ Plain(<<>>) /\ Only(<<>>, {"term_req"})
        /\ Calm(<<>>) /\ StepsOK(<<>>, Tid[s])
    BY NoSteps
  <2>3. Turn(s, <<>>) /\ mailbox' = mailbox
    BY <1>0, <1>1, <2>1, <2>2, EventTurn
  <2>4. UNCHANGED <<own, polled, pending, evars, svars>> /\ engine' \subseteq engine /\ failed' = {}
    BY <1>0, <2>1 DEF evars, svars
  <2> QED
    BY <2>2, <2>3, <2>4, StillTurn
<1>3. CASE Drops(s)
  <2> SUFFICES ASSUME NEW p, p = pipe[s] PROVE IInv'
    OBVIOUS
  <2>1. p \in Pipe /\ psession[p] = s /\ p # None /\ immediate
    BY <1>1, <1>3 DEF Drops
  <2>2. /\ pipe' = [pipe EXCEPT ![s] = None] /\ EndTerminates(p, "session", FALSE)
        /\ Acts(s, GivesUp(p))
    BY <1>0, <2>1 DEF reconnect, EndTerminates, GivesUp, Hiccup
  <2> DEFINE w == GivesUp(p)
  <2>3. /\ w \in Seq(Work) /\ NoDelete(w) /\ Plain(w) /\ NoInc(w) /\ NoCheck(w) /\ Only(w, PipeMove)
        /\ StepsOK(w, Tid[s]) /\ InOrder(w) /\ Leaves(w, p, "session", FALSE)
    BY <2>1, GivesUpSteps
  <2>4. Acts(s, w)
    BY <2>2
  <2> HIDE DEF w
  <2>5. Turn(s, w) /\ mailbox' = mailbox
    BY <1>0, <1>1, <2>3, <2>4, EventTurn
  <2>6. "session" \in End /\ FALSE \in BOOLEAN
    BY DEF End
  <2>7. /\ pstate' \in [Pipe \X {"socket", "session"} -> PState] /\ SameEnds
        /\ pstate'[<<p, "session">>] = PTerminated(pstate[<<p, "session">>], FALSE)
        /\ \A q \in Pipe : \A y \in End : (q # p \/ y # "session") => pstate'[<<q, y>>] = pstate[<<q, y>>]
        /\ closed => \A q \in Pipe : pstate'[<<q, "socket">>] \notin {"active", "waiting_for_delimiter"}
    BY <1>0, <2>1, <2>2, <2>6, TerminateEnds
  <2>8. Pipes'
    BY <1>0, <2>1, <2>3, <2>5, <2>6, <2>7, TerminateTurn
  <2>9. pipe' \in [Session -> Pipe \cup {None}] /\ \A y \in Session : pipe'[y] \in {None, pipe[y]}
    BY <1>0, <2>2 DEF Typed
  <2>10. UNCHANGED <<own, polled, pending, psession, closed, immediate>> /\ engine' \subseteq engine
         /\ endpoints' \subseteq endpoints /\ failed' = {}
    BY <1>0
  <2> QED
    BY <2>3, <2>5, <2>7, <2>8, <2>9, <2>10, PipeTurn
<1> QED
  BY <1>2, <1>3

\* The steps of the socket's end of an endpoint's pipe, if there is one.
First(p) == IF p = None THEN <<>> ELSE pipe_terminate(p, "socket", FALSE)

\* term_endpoint () first terminates the pipe of the endpoint.
LEMMA FirstSteps ==
    ASSUME IInv, NEW p \in Pipe \cup {None}
    PROVE  LET u == First(p)
           IN /\ u \in Seq(Work) /\ NoDelete(u) /\ Plain(u) /\ NoInc(u) /\ NoCheck(u) /\ Only(u, PipeMove \ {"hiccup"})
              /\ StepsOK(u, Tid[Socket]) /\ InOrder(u)
              /\ p # None => Leaves(u, p, "socket", FALSE)
              /\ p = None => u = <<>>
<1>1. CASE p = None
  <2>1. First(p) = <<>>
    BY <1>1 DEF First
  <2>2. /\ <<>> \in Seq(Work) /\ NoDelete(<<>>) /\ Plain(<<>>) /\ NoInc(<<>>) /\ NoCheck(<<>>) /\ Only(<<>>, PipeMove \ {"hiccup"})
        /\ StepsOK(<<>>, Tid[Socket]) /\ InOrder(<<>>)
    BY NoSteps
  <2> QED
    BY <1>1, <2>1, <2>2
<1>2. CASE p # None
  <2>1. p \in Pipe /\ Sink(p, "socket") = Socket /\ "socket" \in End
    BY <1>2 DEF Sink, End
  <2> DEFINE u == pipe_terminate(p, "socket", FALSE)
  <2>2. /\ u \in Seq(Work) /\ NoDelete(u) /\ Plain(u) /\ NoInc(u) /\ NoCheck(u) /\ Only(u, PipeMove \ {"hiccup"})
        /\ StepsOK(u, Tid[Socket]) /\ InOrder(u) /\ Leaves(u, p, "socket", FALSE)
    BY <2>1, TerminateSteps
  <2>3. First(p) = u
    BY <1>2 DEF First
  <2> HIDE DEF u
  <2> QED
    BY <1>2, <2>2, <2>3
<1> QED
  BY <1>1, <1>2

\* The states of the pipes after that, with or without an order to a child.
LEMMA FirstPipes ==
    ASSUME IInv, NEW p \in Pipe \cup {None}, NEW steps, Turn(Socket, steps), mailbox' = mailbox, psession' = psession,
           IF p = None THEN pstate' = pstate ELSE EndTerminates(p, "socket", FALSE),
           p # None => Leaves(steps, p, "socket", FALSE), p = None => Only(steps, {"term"})
    PROVE  /\ Pipes' /\ SameEnds /\ pstate' \in [Pipe \X {"socket", "session"} -> PState]
           /\ closed => \A q \in Pipe : pstate'[<<q, "socket">>] \notin {"active", "waiting_for_delimiter"}
<1>0. Typed /\ Links /\ Pipes
  BY DEF IInv
<1>1. CASE p = None
  <2>1. pstate' = pstate
    BY <1>1
  <2> DEFINE T == {"term"}
  <2>2. Only(steps, T)
    BY <1>1
  <2>3. SameCounts(T)
    BY <2>2, QuietCounts
  <2>4. SameCounts({"plug", "attach", "term", "term_ack", "own"})
    BY <2>3 DEF SameCounts
  <2>5. Pipes'
    BY <1>0, <2>1, <2>4, PipesFrame
  <2> QED
    BY <1>0, <2>1, <2>5 DEF SameEnds, Typed, Links
<1>2. CASE p # None
  <2>1. p \in Pipe /\ "socket" \in End /\ FALSE \in BOOLEAN /\ EndTerminates(p, "socket", FALSE)
    BY <1>2 DEF End
  <2>2. /\ pstate' \in [Pipe \X {"socket", "session"} -> PState] /\ SameEnds
        /\ pstate'[<<p, "socket">>] = PTerminated(pstate[<<p, "socket">>], FALSE)
        /\ \A q \in Pipe : \A y \in End : (q # p \/ y # "socket") => pstate'[<<q, y>>] = pstate[<<q, y>>]
        /\ closed => \A q \in Pipe : pstate'[<<q, "socket">>] \notin {"active", "waiting_for_delimiter"}
    BY <1>0, <2>1, TerminateEnds
  <2>3. Pipes'
    BY <1>0, <1>2, <2>1, <2>2, TerminateTurn
  <2> QED
    BY <2>2, <2>3
<1> QED
  BY <1>1, <1>2

\* zmq_disconnect and zmq_unbind.
LEMMA EndpointStep ==
    ASSUME IInv, NEW o, NEW p \in Pipe \cup {None}, term_endpoint(o, p)
    PROVE  IInv'
<1>0. /\ Typed /\ Tree /\ Links /\ Pipes /\ QType /\ failed = {} /\ own \in [Object -> OwnRecord]
      /\ ~closed /\ Idle(Tid[Socket]) /\ mailbox' = mailbox /\ endpoints' \subseteq endpoints /\ Socket \in Object
      /\ UNCHANGED <<polled, engine, pending, pipe, psession, closed, immediate, failed>>
  BY SocketIn DEF IInv, Typed, term_endpoint, Acts, lvars
<1>1. IF p = None THEN pstate' = pstate ELSE EndTerminates(p, "socket", FALSE)
  BY DEF term_endpoint, EndTerminates
<1> DEFINE u == First(p)
<1>2. /\ u \in Seq(Work) /\ NoDelete(u) /\ Plain(u) /\ NoInc(u) /\ NoCheck(u) /\ Only(u, PipeMove \ {"hiccup"})
      /\ StepsOK(u, Tid[Socket]) /\ InOrder(u)
      /\ p # None => Leaves(u, p, "socket", FALSE)
      /\ p = None => u = <<>>
  BY FirstSteps
<1>3. ~own[Socket].terminating /\ Alive(Socket)
  BY <1>0 DEF IInv, Tree, Gone, GoneOK
<1>4. CASE o \notin own[Socket].owned
  <2>1. own' = own /\ Acts(Socket, u)
    BY <1>4 DEF term_endpoint, First
  <2> HIDE DEF u
  <2>2. Turn(Socket, u) /\ mailbox' = mailbox
    BY <1>0, <1>2, <2>1, EventTurn
  <2>3. p = None => Only(u, {"term"})
    BY <1>2, NoSteps
  <2>4. /\ Pipes' /\ SameEnds /\ pstate' \in [Pipe \X {"socket", "session"} -> PState]
        /\ closed => \A q \in Pipe : pstate'[<<q, "socket">>] \notin {"active", "waiting_for_delimiter"}
    BY <1>0, <1>1, <1>2, <2>2, <2>3, FirstPipes
  <2>5. Only(u, PipeMove)
    BY <1>2 DEF Only
  <2>6. pipe' \in [Session -> Pipe \cup {None}] /\ \A y \in Session : pipe'[y] \in {None, pipe[y]}
    BY <1>0 DEF Typed
  <2>7. UNCHANGED <<own, polled, pending, psession, closed, immediate>> /\ engine' \subseteq engine
        /\ endpoints' \subseteq endpoints /\ failed' = {}
    BY <1>0, <2>1
  <2> QED
    BY <1>2, <2>2, <2>4, <2>5, <2>6, <2>7, PipeTurn
<1>5. CASE o \in own[Socket].owned
  <2>1. own' = [own EXCEPT ![Socket] = TermChild(@, o)] /\ Acts(Socket, u \o <<send_command(o, "term", Linger)>>)
    BY <1>5 DEF term_endpoint, First
  <2>2. o \in Object /\ Made(o) /\ o # Socket
    <3>1. o \in Object /\ Made(o) /\ own[o].owner = Socket
      BY <1>0, <1>5 DEF OwnRecord, Tree
    <3> QED
      BY <1>0, <3>1, OwnAssumption, SocketIn DEF Tree
  <2>3. Alive(o)
    BY <1>0, <1>5, <2>2 DEF IInv, Children, ChildOK, Tree
  <2> DEFINE T == PipeMove \cup {"term"}
  <2>4. PICK v \in Seq(Work) :
          /\ v = <<send_command(o, "term", Linger)>> /\ NoDelete(v) /\ Plain(v) /\ NoInc(v) /\ NoCheck(v)
          /\ Only(v, {"term"}) /\ Calm(v) /\ StepsOK(v, Tid[Socket])
          /\ \A D : SeqCount(v, Sends(D)) = B(Com(o, "term", Linger) \in D)
    <3> SUFFICES ASSUME NEW type, type = "term", NEW a, a = Linger
                 PROVE  \E v \in Seq(Work) :
                          /\ v = <<send_command(o, type, a)>> /\ NoDelete(v) /\ Plain(v) /\ NoInc(v) /\ NoCheck(v)
                          /\ Only(v, {"term"}) /\ Calm(v) /\ StepsOK(v, Tid[Socket])
                          /\ \A D : SeqCount(v, Sends(D)) = B(Com(o, type, a) \in D)
      OBVIOUS
    <3>1. type \in CommandType \ SeqCommand /\ a \in Arg
      BY DEF CommandType, SeqCommand, Arg
    <3> DEFINE v == <<send_command(o, type, a)>>
               t == Tid[Socket]
    <3>2. /\ v \in Seq(Work) /\ NoDelete(v) /\ Plain(v) /\ NoInc(v) /\ NoCheck(v)
          /\ (\A T2 : type \in T2 => Only(v, T2))
          /\ (type \notin {"bind", "hiccup", "pipe_term"} => Calm(v))
          /\ (\A D : SeqCount(v, Sends(D)) = B(Com(o, type, a) \in D))
          /\ DOMAIN v = {1} /\ v[1].op = "send" /\ v[1].to = o /\ v[1].type = type /\ v[1].arg = a /\ v[1].inc = 0
          /\ (SendOK(v, 1, t) => StepsOK(v, t))
      BY <2>2, <3>1, OneSend
    <3>7. v = <<send_command(o, type, a)>>
      OBVIOUS
    <3> HIDE DEF v
    <3>3. CommandOK(Com(v[1].to, v[1].type, v[1].arg), Tid[v[1].to])
      BY <2>2, <2>3, <3>2 DEF CommandOK, Com
    <3>4. SendOK(v, 1, t)
      BY <3>2, <3>3 DEF SendOK
    <3>6. Only(v, {"term"}) /\ Calm(v)
      BY <3>2
    <3> QED
      BY <3>2, <3>4, <3>6, <3>7
  <2> HIDE DEF u
  <2> DEFINE steps == u \o v
  <2>5. Acts(Socket, steps)
    BY <2>1, <2>4
  <2>6. Only(u, T) /\ Only(v, T)
    BY <1>2, <2>4 DEF Only
  <2> HIDE DEF T
  <2>7. steps \in Seq(Work) /\ NoDelete(steps) /\ Plain(steps) /\ Only(steps, T)
    BY <1>2, <2>4, <2>6, ConcatForm
  <2>8. StepsOK(steps, Tid[Socket])
    BY <1>2, <2>4, StepsConcat
  <2>9. InOrder(steps)
    <3>1. \A i \in DOMAIN u : \A j \in DOMAIN v : u[i].op = "send" /\ v[j].op = "send" => Sorted(u[i], v[j])
      BY <2>4 DEF Only, Sorted, PipeCommand
    <3>2. InOrder(v)
      BY <2>4, CalmInOrder
    <3> QED
      BY <1>2, <2>4, <3>1, <3>2, ConcatOrder
  <2>10. \A D : /\ SeqCount(steps, Sends(D)) = SeqCount(u, Sends(D)) + SeqCount(v, Sends(D))
                /\ SeqCount(u, Sends(D)) \in Nat /\ SeqCount(v, Sends(D)) \in Nat
    <3>1. u \in Seq(Work) /\ v \in Seq(Work)
      BY <1>2, <2>4
    <3> QED
      BY <3>1, CountConcat, SeqCountType
  <2> HIDE DEF steps
  <2>11. Turn(Socket, steps) /\ mailbox' = mailbox
    BY <1>0, <2>5, <2>7, EventTurn
  <2>12. p = None => Only(steps, {"term"})
    <3> SUFFICES ASSUME p = None PROVE Only(steps, {"term"})
      OBVIOUS
    <3>1. steps = v
      BY <1>2, <2>4 DEF steps
    <3> QED
      BY <2>4, <3>1
  <2>13. p # None => Leaves(steps, p, "socket", FALSE)
    <3> SUFFICES ASSUME p # None PROVE Leaves(steps, p, "socket", FALSE)
      OBVIOUS
    <3>1. Leaves(u, p, "socket", FALSE)
      BY <1>2
    <3>2. \A q, y : \A ty \in {"pipe_term", "pipe_term_ack"} : SeqCount(steps, Sends(ToEnd(q, y, ty))) = SeqCount(u, Sends(ToEnd(q, y, ty)))
      BY <2>4, <2>10 DEF B, Com, ToEnd
    <3>3. \A q : \A ty \in {"bind", "hiccup"} : SeqCount(steps, Sends(About(q, ty))) = SeqCount(u, Sends(About(q, ty)))
      BY <2>4, <2>10 DEF B, Com, About
    <3>4. \A q \in Pipe : \A y \in End : \A ty \in {"pipe_term", "pipe_term_ack"} :
            SeqCount(steps, Sends(ToEnd(q, y, ty)))
              = IF q = p /\ y = Peer("socket") THEN Parting(pstate[<<p, "socket">>], FALSE, ty) ELSE 0
      <4>1. \A q \in Pipe : \A y \in End : \A ty \in {"pipe_term", "pipe_term_ack"} :
              SeqCount(u, Sends(ToEnd(q, y, ty)))
                = IF q = p /\ y = Peer("socket") THEN Parting(pstate[<<p, "socket">>], FALSE, ty) ELSE 0
        BY <3>1, Zenon DEF Leaves
      <4> SUFFICES ASSUME NEW q \in Pipe, NEW y \in End, NEW ty \in {"pipe_term", "pipe_term_ack"}
                   PROVE  SeqCount(steps, Sends(ToEnd(q, y, ty)))
                            = IF q = p /\ y = Peer("socket") THEN Parting(pstate[<<p, "socket">>], FALSE, ty) ELSE 0
        OBVIOUS
      <4>2. SeqCount(steps, Sends(ToEnd(q, y, ty))) = SeqCount(u, Sends(ToEnd(q, y, ty)))
        BY <3>2
      <4> QED
        BY <4>1, <4>2, Zenon
    <3>5. \A q \in Pipe : SeqCount(steps, Sends(About(q, "bind"))) = 0
      <4>1. \A q \in Pipe : SeqCount(u, Sends(About(q, "bind"))) = 0
        BY <3>1, Zenon DEF Leaves
      <4> QED
        BY <3>3, <4>1
    <3>6. \A q \in Pipe : (SeqCount(steps, Sends(About(q, "hiccup"))) = 0)
                         \/ (q = p /\ "socket" = "session" /\ pstate[<<p, "socket">>] = "active")
      <4>1. \A q \in Pipe : (SeqCount(u, Sends(About(q, "hiccup"))) = 0)
                           \/ (q = p /\ "socket" = "session" /\ pstate[<<p, "socket">>] = "active")
        BY <3>1, Zenon DEF Leaves
      <4> QED
        BY <3>3, <4>1
    <3> QED
      BY <3>4, <3>5, <3>6, Zenon DEF Leaves
  <2>14. /\ Pipes' /\ SameEnds /\ pstate' \in [Pipe \X {"socket", "session"} -> PState]
         /\ closed => \A q \in Pipe : pstate'[<<q, "socket">>] \notin {"active", "waiting_for_delimiter"}
    BY <1>0, <1>1, <2>11, <2>12, <2>13, FirstPipes
  <2>15. \A y \in Object : Terms(y)' = Terms(y) + B(y = o)
    <3> SUFFICES ASSUME NEW y \in Object PROVE Terms(y)' = Terms(y) + B(y = o)
      OBVIOUS
    <3>1. Flight(To(y, "term"))' = Flight(To(y, "term")) + SeqCount(steps, Sends(To(y, "term")))
      BY <2>11, FreshFlight
    <3>2. SeqCount(u, Sends(To(y, "term"))) = 0
      <4>1. \A m \in To(y, "term") : m.type \notin PipeMove \ {"hiccup"}
        BY DEF To, PipeMove
      <4> QED
        BY <1>2, <4>1, QuietSteps
    <3>3. "term" \in CommandType /\ Linger \in Arg
      BY DEF CommandType, Arg
    <3>4. Com(o, "term", Linger) \in To(y, "term") <=> y = o
      BY <2>2, <3>3, ComIn
    <3> QED
      BY <2>4, <2>10, <3>1, <3>2, <3>4 DEF Terms, B
  <2>16. /\ UNCHANGED <<polled, engine, pending, pipe, psession, closed, immediate>> /\ endpoints' \subseteq endpoints
         /\ failed' = {}
    BY <1>0
  <2>17. "term_ack" \notin T /\ T \cap SeqCommand = {}
    BY DEF T, PipeMove, SeqCommand
  <2> QED
    BY <1>0, <1>3, <1>5, <2>1, <2>7, <2>8, <2>9, <2>11, <2>14, <2>15, <2>16, <2>17, TellsChild
<1> QED
  BY <1>4, <1>5
-----------------------------------------------------------------------------
(* Turns with commands that process_seqnum () follows *)

\* o has processed one such command, or none was taken.
Processes(o) ==
    /\ \A x \in Object : own'[x].sent_seqnum = own[x].sent_seqnum
    /\ \/ /\ Takes(o) /\ Msg(o).to = o /\ Msg(o).type \in SeqCommand
          /\ \A x \in Object : own'[x].processed_seqnum = own[x].processed_seqnum + B(x = o)
       \/ /\ mailbox' = mailbox
          /\ \A x \in Object : own'[x].processed_seqnum = own[x].processed_seqnum

\* The parts of the invariant that a turn with announced commands preserves.
LEMMA SeqTurn ==
    ASSUME IInv, NEW o, NEW steps, Turn(o, steps), Balanced(steps), Grows, Processes(o),
           own' \in [Object -> OwnRecord], StepsOK(steps, Tid[o])', InOrder(steps)
    PROVE  QType' /\ Seqnums' /\ Commands' /\ Todo' /\ Order' /\ Requests'
<1>0. /\ Typed /\ Seqnums /\ Commands /\ Todo /\ Order /\ Requests /\ QType /\ own \in [Object -> OwnRecord]
  BY DEF IInv, Typed
<1>1. QType'
  <2>1. CASE Takes(o)
    BY <2>1, HandledFlight DEF Turn
  <2>2. CASE mailbox' = mailbox
    BY <2>2, ActsFlight DEF Turn
  <2> QED
    BY <2>1, <2>2 DEF Processes
<1>2. Seqnums'
  <2>1. CASE mailbox' = mailbox /\ \A x \in Object : own'[x].processed_seqnum = own[x].processed_seqnum
    <3>1. \A x \in Object : /\ own'[x].sent_seqnum = own[x].sent_seqnum
                            /\ own'[x].processed_seqnum = own[x].processed_seqnum
      BY <2>1 DEF Processes
    <3> QED
      BY <1>0, <2>1, <3>1, ActsSeqnums
  <2>2. CASE /\ Takes(o) /\ Msg(o).to = o /\ Msg(o).type \in SeqCommand
             /\ \A x \in Object : own'[x].processed_seqnum = own[x].processed_seqnum + B(x = o)
    <3>1. Msg(o) \in Cmd
      BY <2>2, TakesCount DEF Turn
    <3>2. \A x \in Object : Msg(o) \in SeqTo(x) <=> x = o
      BY <2>2, <3>1 DEF SeqTo
    <3>3. \A x \in Object : /\ own'[x].sent_seqnum = own[x].sent_seqnum
                            /\ own'[x].processed_seqnum = own[x].processed_seqnum + B(Msg(o) \in SeqTo(x))
      BY <2>2, <3>2 DEF Processes, B
    <3> QED
      BY <1>0, <2>2, <3>3, HandledSeqnums
  <2> QED
    BY <2>1, <2>2 DEF Processes
<1>3. Commands' /\ Todo'
  BY <1>0, TurnCommands
<1>4. Order' /\ Requests'
  BY <1>0, TurnOrder, TurnRequests
<1> QED
  BY <1>1, <1>2, <1>3, <1>4

\* What is known when an owner is told of a child.
LEMMA OwnTaken ==
    ASSUME IInv, NEW o \in Object, Handles(o, "own"), NEW c, c = arg(o)
    PROVE  /\ c \in Object /\ c # Socket /\ c # o /\ Made(c) /\ own[c].owner = o /\ Alive(o) /\ Alive(c)
           /\ Owns(c) = 1 /\ c \notin own[o].owned /\ Terms(c) = 0 /\ c \notin pending /\ ~own[c].terminating
<1>0. Typed /\ Tree /\ Children /\ QType /\ Commands /\ "own" \in CommandType
  BY DEF IInv, Typed, CommandType, SeqCommand
<1>1. /\ CommandOK(Com(o, "own", arg(o)), Tid[o]) /\ arg(o) \in Arg
      /\ \A D : Com(o, "own", arg(o)) \in D => Flight(D) >= 1
  BY <1>0, HeadOK
<1>2. c \in Object /\ Made(c) /\ own[c].owner = o /\ Alive(o)
  BY <1>1 DEF CommandOK, Com
<1>3. c # Socket
  BY <1>0, <1>2, OwnAssumption, SocketIn DEF Tree
<1>4. c # o
  BY <1>0, <1>2, <1>3, OwnersApart
<1>5. Owns(c) >= 1
  <2>1. Com(o, "own", arg(o)) \in About(c, "own")
    BY <1>0, <1>1, ComIn
  <2> QED
    BY <1>1, <2>1 DEF Owns
<1>6. ChildOK(c)
  BY <1>0, <1>2, <1>3 DEF Children
<1>7. Alive(c)
  BY <1>5, <1>6 DEF ChildOK
<1>8. Owns(c) + B(c \in own[o].owned) + Terms(c) + B(c \in pending) + B(own[c].terminating) = 1
  BY <1>2, <1>6, <1>7 DEF ChildOK
<1>9. B(c \in own[o].owned) \in Nat /\ B(c \in pending) \in Nat /\ B(own[c].terminating) \in Nat /\ Owns(c) \in Nat /\ Terms(c) \in Nat
  BY <1>0, CountsType DEF B
<1>10. Owns(c) = 1 /\ B(c \in own[o].owned) = 0 /\ B(c \in pending) = 0 /\ B(own[c].terminating) = 0 /\ Terms(c) = 0
  BY <1>5, <1>8, <1>9
<1> QED
  BY <1>2, <1>3, <1>4, <1>7, <1>10 DEF B

\* What does not change, or is as before, when an owner is told of a child.
AsBefore ==
    /\ Typed /\ Tree /\ Links /\ Seqnums /\ Commands /\ Todo /\ Gone /\ Checked /\ Engines
    /\ PlugFirst /\ Pipes /\ Order /\ Requests /\ failed = {}
TellsOf(o, r) ==
    /\ own' = [own EXCEPT ![o] = r]
    /\ UNCHANGED <<lvars, evars, svars, failed>>
HandlesOwn(o, c, steps) ==
    /\ Handles(o, "own") /\ c = arg(o) /\ Handled(o, steps)
    /\ steps \in Seq(Work) /\ NoDelete(steps) /\ Plain(steps) /\ Only(steps, {"term"}) /\ Calm(steps)
    /\ StepsOK(steps, Tid[o]) /\ check_acks(o) \in Range(steps)
TakesChild(o, c, steps) ==
    /\ SameAlive /\ QType'
    /\ \A y : Acks(y)' = Acks(y)
    /\ \A y \in Object : Owns(y)' = Owns(y) - B(y = c)
    /\ \A y \in Object : Terms(y)' = Terms(y) + SeqCount(steps, Sends(To(y, "term")))

\* Everything that an owner's being told of a child has in common.
LEMMA OwnTurn ==
    ASSUME IInv, NEW o \in Object, NEW c, NEW steps, HandlesOwn(o, c, steps),
           NEW r \in OwnRecord, TellsOf(o, r), Kept(r, own[o]), r.terminating = own[o].terminating,
           r.processed_seqnum = own[o].processed_seqnum + 1,
           r.terminating => r.owned = own[o].owned, r.owned \subseteq own[o].owned \cup {c}, own[o].owned \subseteq r.owned
    PROVE  AsBefore' /\ TakesChild(o, c, steps)
<1> DEFINE T == {"term"}
<1>a. /\ Handles(o, "own") /\ c = arg(o) /\ Handled(o, steps)
      /\ steps \in Seq(Work) /\ NoDelete(steps) /\ Plain(steps) /\ Only(steps, T) /\ Calm(steps)
      /\ StepsOK(steps, Tid[o]) /\ check_acks(o) \in Range(steps)
      /\ own' = [own EXCEPT ![o] = r] /\ UNCHANGED <<lvars, evars, svars, failed>>
  BY DEF HandlesOwn, TellsOf
<1>b. T \subseteq {"term"}
  OBVIOUS
<1> HIDE DEF T
<1>0. /\ Typed /\ Tree /\ Links /\ Pipes /\ QType /\ own \in [Object -> OwnRecord] /\ Order /\ Children /\ Awaited
      /\ Gone /\ Checked /\ PlugFirst /\ Engines /\ Commands /\ failed' = {}
      /\ UNCHANGED <<polled, engine, pending, pipe, pstate, psession, endpoints, closed, immediate>>
  BY <1>a DEF IInv, Typed, lvars, evars, svars
<1>1. /\ c \in Object /\ c # Socket /\ c # o /\ Made(c) /\ own[c].owner = o /\ Alive(o) /\ Alive(c)
      /\ Owns(c) = 1
  BY <1>a, OwnTaken
<1>2. "own" \in CommandType /\ "own" \in SeqCommand
  BY DEF CommandType, SeqCommand
<1>3. Turn(o, steps) /\ Takes(o) /\ Plans(o, steps) /\ Msg(o) = Com(o, "own", c) /\ c \in Arg
  BY <1>0, <1>2, <1>a, HandlerTurn
<1>4. own' \in [Object -> OwnRecord] /\ own'[o] = r /\ \A y \in Object : y # o => own'[y] = own[y]
  BY <1>0, <1>a, OneOwn
<1>5. /\ \A y \in Object : /\ own'[y].life = own[y].life /\ own'[y].owner = own[y].owner
                           /\ own'[y].terminating = own[y].terminating /\ own'[y].sent_seqnum = own[y].sent_seqnum
                           /\ own[y].owned \subseteq own'[y].owned
      /\ \A y \in Object : own'[y].processed_seqnum = own[y].processed_seqnum + B(y = o)
  <2>1. \A y \in Object : own[y].processed_seqnum \in Nat
    BY <1>0 DEF OwnRecord
  <2> QED
    BY <1>4, <2>1 DEF Kept, B
<1>6. SameAlive /\ Grows
  <2>1. SameAlive
    BY <1>3, <1>5, TurnAlive DEF SameAlive, Alive
  <2> QED
    BY <1>0, <1>5, <2>1 DEF SameAlive, Grows, Made
<1>7. Processes(o)
  BY <1>2, <1>3, <1>5 DEF Processes, Com
<1>8. StepsOK(steps, Tid[o])' /\ InOrder(steps) /\ Balanced(steps)
  BY <1>6, <1>a, StepsFrame, CalmInOrder, PlainBalanced
<1>9. QType' /\ Seqnums' /\ Commands' /\ Todo' /\ Order' /\ Requests'
  BY <1>3, <1>4, <1>6, <1>7, <1>8, SeqTurn
<1>10. \A D : Flight(D)' = (Flight(D) - B(Msg(o) \in D)) + SeqCount(steps, Sends(D))
  BY <1>0, <1>3, <1>a, HandledFlight
<1>11. \A D : Flight(D) \in Nat
  BY <1>0, FlightType
<1>12. \A D : (\A m \in D : m.type \notin {"own", "term"}) => Flight(D)' = Flight(D)
  <2> SUFFICES ASSUME NEW D, \A m \in D : m.type \notin {"own", "term"} PROVE Flight(D)' = Flight(D)
    OBVIOUS
  <2>1. Msg(o) \notin D
    BY <1>3 DEF Com
  <2>2. SeqCount(steps, Sends(D)) = 0
    BY <1>a, <1>b, QuietSteps
  <2> QED
    BY <1>10, <1>11, <2>1, <2>2 DEF B
<1>13. /\ \A y : Plugs(y)' = Plugs(y) /\ Attaches(y)' = Attaches(y) /\ Acks(y)' = Acks(y)
       /\ SameCounts({"own", "term"})
  BY <1>12 DEF Plugs, Attaches, Acks, Binds, Hiccups, PT, PA, SameCounts, To, About, ToEnd
<1>14. \A y \in Object : Owns(y)' = Owns(y) - B(y = c)
  <2> SUFFICES ASSUME NEW y \in Object PROVE Owns(y)' = Owns(y) - B(y = c)
    OBVIOUS
  <2>1. Msg(o) \in About(y, "own") <=> y = c
    BY <1>1, <1>2, <1>3, ComIn
  <2>2. SeqCount(steps, Sends(About(y, "own"))) = 0
    <3>1. \A m \in About(y, "own") : m.type \notin T
      BY DEF About, T
    <3> QED
      BY <1>a, <3>1, QuietSteps
  <2>3. Flight(About(y, "own"))' = (Flight(About(y, "own")) - B(Msg(o) \in About(y, "own"))) + SeqCount(steps, Sends(About(y, "own")))
    BY <1>10
  <2> QED
    BY <1>11, <2>1, <2>2, <2>3 DEF Owns, B
<1>15. \A y \in Object : Terms(y)' = Terms(y) + SeqCount(steps, Sends(To(y, "term")))
  <2> SUFFICES ASSUME NEW y \in Object PROVE Terms(y)' = Terms(y) + SeqCount(steps, Sends(To(y, "term")))
    OBVIOUS
  <2>1. Msg(o) \notin To(y, "term")
    BY <1>3 DEF Com, To
  <2> QED
    BY <1>3, <2>1, <1>a, FreshFlight DEF Terms
<1>16. Typed'
  BY <1>0, <1>4, <1>9 DEF Typed
<1>17. Tree'
  <2>1. /\ own'[Socket].owner = None /\ own'[Socket].life # "none" /\ own'[Socket].terminating = closed'
    BY <1>0, <1>5, SocketIn DEF Tree, Made
  <2>2. ASSUME NEW x \in Object \ {Socket}
        PROVE  IF own'[x].life # "none" THEN own'[x].owner \in OwnersOf(x) /\ own'[own'[x].owner].life # "none"
               ELSE own'[x] = [own_t EXCEPT !.life = "none"]
    <3>1. IF own[x].life # "none" THEN own[x].owner \in OwnersOf(x) /\ own[own[x].owner].life # "none"
          ELSE own[x] = [own_t EXCEPT !.life = "none"]
      BY <1>0 DEF Tree, Made
    <3>2. OwnersOf(x) \subseteq Object
      BY SocketIn DEF OwnersOf
    <3>3. own[o].life # "none"
      BY <1>1 DEF Alive
    <3> QED
      BY <1>4, <1>5, <3>1, <3>2, <3>3
  <2>3. \A x \in Object : /\ own'[x].terminating => own'[x].owned = {}
                          /\ \A d \in own'[x].owned : own'[d].life # "none" /\ own'[d].owner = x
    <3> SUFFICES ASSUME NEW x \in Object
                 PROVE  /\ own'[x].terminating => own'[x].owned = {}
                        /\ \A d \in own'[x].owned : own'[d].life # "none" /\ own'[d].owner = x
      OBVIOUS
    <3>1. \A d \in own[x].owned : d \in Object /\ own[d].life # "none" /\ own[d].owner = x
      BY <1>0 DEF OwnRecord, Tree, Made
    <3>2. own[x].terminating => own[x].owned = {}
      BY <1>0 DEF Tree
    <3>3. CASE x # o
      BY <1>4, <1>5, <3>1, <3>2, <3>3
    <3>4. CASE x = o
      <4>1. own'[o].terminating => own'[o].owned = {}
        BY <1>4, <3>2, <3>4
      <4>2. own'[o].owned \subseteq own[o].owned \cup {c}
        BY <1>4
      <4> QED
        BY <1>1, <1>5, <3>1, <3>4, <4>1, <4>2 DEF Made
    <3> QED
      BY <3>3, <3>4
  <2> QED
    BY <2>1, <2>2, <2>3 DEF Tree, Made
<1>18. Links'
  <2>1. Session \subseteq Object /\ polled \subseteq Object /\ engine \subseteq Object
    BY <1>0, SocketIn DEF Typed
  <2>2. \A x : OtherPipes(x, {})' = OtherPipes(x, {})
    BY <1>0 DEF OtherPipes
  <2>4. /\ \A y \in polled' : Alive(y)' /\ ~own'[y].terminating
        /\ \A s \in engine' : own'[s].life = "live"
    BY <1>0, <1>5, <1>6, <2>1 DEF Links, SameAlive
  <2>5. \A p \in Pipe : psession'[p] # None => own'[psession'[p]].life # "none"
    BY <1>0, <1>5, <2>1 DEF Links, Made, Typed
  <2>6. /\ \A s \in pending' : OtherPipes(s, {})' # {}
        /\ \A s \in Session : own'[s].terminating => OtherPipes(s, {})' = {}
    BY <1>0, <1>5, <2>1, <2>2 DEF Links
  <2>7. /\ \A s \in Session : pipe'[s] # None =>
             psession'[pipe'[s]] = s /\ pstate'[<<pipe'[s], "session">>] \notin {"none", "gone"}
        /\ closed' => \A p \in Pipe : pstate'[<<p, "socket">>] \notin {"active", "waiting_for_delimiter"}
        /\ \A e \in endpoints' : e[2] # None => psession'[e[2]] # None
    BY <1>0 DEF Links
  <2> QED
    BY <2>4, <2>5, <2>6, <2>7 DEF Links, Made
<1>19. Gone'
  <2> SUFFICES ASSUME NEW x \in Object, Made(x)', ~Alive(x)' PROVE GoneOK(x)'
    BY DEF Gone
  <2>1. GoneOK(x) /\ x # o
    BY <1>0, <1>1, <1>5, <1>6 DEF Gone, SameAlive, Made
  <2> QED
    BY <1>0, <1>4, <1>5, <1>6, <2>1 DEF GoneOK, SameAlive
<1>20. Checked'
  <2>1. \A y \in Object : Alive(y)' /\ CanGo(own'[y]) => (Alive(y) /\ CanGo(own[y])) \/ (y = o /\ check_acks(o) \in Range(steps))
    BY <1>4, <1>6, <1>a DEF SameAlive
  <2> QED
    BY <1>0, <1>3, <1>a, <2>1, TurnChecked
<1>21. Engines'
  <2>1. \A d \in Connecter : Active(d) => own[d].owner \in Object
    BY ActiveOwner, SocketIn
  <2>2. \A d \in Connecter : own'[d].owner = own[d].owner
    BY <1>5, SocketIn
  <2>3. \A x \in Object : Plugs(x)' <= Plugs(x) /\ Attaches(x)' <= Attaches(x)
    BY <1>0, <1>13, CountsType
  <2>4. polled' \subseteq polled /\ engine' \subseteq engine
    BY <1>0
  <2> QED
    BY <1>0, <1>9, <2>1, <2>2, <2>3, <2>4, EnginesLess
<1>22. PlugFirst'
  BY <1>0, <1>5, <1>13 DEF PlugFirst
<1>23. Pipes'
  <2>1. SameCounts({"plug", "attach", "term", "term_ack", "own"})
    BY <1>13 DEF SameCounts
  <2> QED
    BY <1>0, <2>1, PipesFrame
<1>24. AsBefore'
  BY <1>0, <1>9, <1>16, <1>17, <1>18, <1>19, <1>20, <1>21, <1>22, <1>23 DEF AsBefore
<1> QED
  BY <1>6, <1>9, <1>13, <1>14, <1>15, <1>24 DEF TakesChild
-----------------------------------------------------------------------------
(* An owner is told of its child *)

\* What becomes of the children and of the acknowledgements, when c is told to go
\* (n = 1) or is owned now (n = 0).
LEMMA OwnChildren ==
    ASSUME IInv, NEW o \in Object, Handles(o, "own"), NEW c, c = arg(o), SameAlive, QType',
           \A y \in Object : /\ own'[y].owner = own[y].owner /\ own'[y].terminating = own[y].terminating
                             /\ own'[y].life = own[y].life,
           \A y \in Object : y # o => own'[y] = own[y],
           pending' = pending, NEW n \in {0, 1},
           own'[o].owned = (IF n = 1 THEN own[o].owned ELSE own[o].owned \cup {c}),
           own'[o].term_acks = own[o].term_acks + n,
           \A y : Acks(y)' = Acks(y), \A y \in Object : Owns(y)' = Owns(y) - B(y = c),
           \A y \in Object : Terms(y)' = Terms(y) + (IF y = c THEN n ELSE 0),
           UNCHANGED <<closed, pstate>>
    PROVE  Children' /\ Awaited'
<1>0. /\ Typed /\ Tree /\ Children /\ Awaited /\ QType /\ own \in [Object -> OwnRecord]
  BY DEF IInv, Typed
<1>1. /\ c \in Object /\ c # Socket /\ c # o /\ Made(c) /\ own[c].owner = o /\ Alive(o) /\ Alive(c)
      /\ Owns(c) = 1 /\ c \notin own[o].owned /\ Terms(c) = 0 /\ c \notin pending /\ ~own[c].terminating
  BY OwnTaken
<1>2. \A y : Owns(y) \in Nat /\ Terms(y) \in Nat /\ Acks(y) \in Nat
  BY <1>0, CountsType
<1>3. Children'
  <2> SUFFICES ASSUME NEW x \in Object \ {Socket}, Made(x)' PROVE ChildOK(x)'
    BY DEF Children
  <2>1. ChildOK(x) /\ (Alive(x)' <=> Alive(x)) /\ own'[x].owner = own[x].owner /\ own'[x].terminating = own[x].terminating
        /\ own[x].owner \in Object /\ pending' = pending
    BY <1>0, OwnerIn DEF Children, SameAlive, Made
  <2>2. CASE x # c
    <3>1. Terms(x)' = Terms(x) /\ Owns(x)' = Owns(x)
      BY <1>2, <2>2 DEF B
    <3>2. x \in own'[own'[x].owner].owned <=> x \in own[own[x].owner].owned
      BY <2>1, <2>2
    <3> QED
      BY <2>1, <3>1, <3>2 DEF ChildOK
  <2>3. CASE x = c
    <3>1. Owns(c)' = 0 /\ Terms(c)' = n
      BY <1>1, <1>2 DEF B
    <3>2. c \in own'[own'[c].owner].owned <=> n = 0
      BY <1>1, <2>1, <2>3
    <3>3. B(c \in own'[own'[c].owner].owned) = 1 - n /\ B(c \in pending') = 0 /\ B(own'[c].terminating) = 0
      BY <1>1, <2>1, <2>3, <3>2 DEF B
    <3>4. Owns(c)' + B(c \in own'[own'[c].owner].owned) + Terms(c)' + B(c \in pending') + B(own'[c].terminating) = 1
      BY <3>1, <3>3
    <3> QED
      BY <1>1, <2>1, <2>3, <3>4 DEF ChildOK
  <2> QED
    BY <2>2, <2>3
<1>4. Awaited'
  <2>1. \A y \in Object : AwaitedPipes(y)' = AwaitedPipes(y)
    BY DEF AwaitedPipes, pipes
  <2>2. ASSUME NEW x \in Object, x # o PROVE Kids(x)' = Kids(x)
    <3>1. \A d \in Object : own[d].owner = x => d # c
      BY <1>1, <2>2
    <3>2. \A d \in Object : d # c => Owns(d)' = Owns(d)
      BY <1>2 DEF B
    <3> QED
      BY <2>2, <3>1, <3>2 DEF Kids, SameAlive
  <2>3. Kids(o)' = (IF n = 1 THEN Kids(o) \cup {c} ELSE Kids(o)) /\ c \notin Kids(o)
    <3>1. Kids(o)' = {d \in Object : own'[d].owner = o /\ Alive(d)' /\ Owns(d)' = 0 /\ d \notin own'[o].owned}
      BY DEF Kids
    <3>2. \A d \in Object : own'[d].owner = own[d].owner /\ (Alive(d)' <=> Alive(d))
      BY DEF SameAlive
    <3>3. \A d \in Object : d # c => Owns(d)' = Owns(d)
      BY <1>2 DEF B
    <3>4. Owns(c)' = 0
      BY <1>1 DEF B
    <3> QED
      BY <1>1, <3>1, <3>2, <3>3, <3>4 DEF Kids
  <2>4. \A x \in Object : IsFiniteSet(Kids(x)) /\ Cardinality(Kids(x)) \in Nat
    BY FS_Subset, FS_CardinalityType, OwnAssumption DEF Kids
  <2>5. Cardinality(Kids(o)') = Cardinality(Kids(o)) + n
    <3>1. IsFiniteSet(Kids(o)) /\ c \notin Kids(o)
      BY <2>3, <2>4
    <3>2. Cardinality(Kids(o) \cup {c}) = Cardinality(Kids(o)) + 1
      BY <3>1, FS_AddElement
    <3> QED
      BY <2>3, <2>4, <3>2
  <2>6. Cardinality(AwaitedPipes(o)) \in Nat
    <3>1. AwaitedPipes(o) \subseteq Pipe
      BY DEF AwaitedPipes, pipes
    <3> QED
      BY <3>1, FS_Subset, FS_CardinalityType, OwnAssumption
  <2>7. own'[o].term_acks = Cardinality(Kids(o)') + Acks(o)' + Cardinality(AwaitedPipes(o)')
    <3>1. own[o].term_acks = Cardinality(Kids(o)) + Acks(o) + Cardinality(AwaitedPipes(o))
      BY <1>0 DEF Awaited
    <3>3. Acks(o)' = Acks(o) /\ Acks(o) \in Nat
      BY <1>2
    <3> QED
      BY <2>1, <2>4, <2>5, <2>6, <3>1, <3>3
  <2>8. ASSUME NEW x \in Object, x # o
        PROVE  own'[x].term_acks = Cardinality(Kids(x)') + Acks(x)' + Cardinality(AwaitedPipes(x)')
    BY <1>0, <2>1, <2>2, <2>8 DEF Awaited
  <2> QED
    BY <2>7, <2>8 DEF Awaited
<1> QED
  BY <1>3, <1>4

\* process_own () preserves the invariant.
LEMMA ProcessOwnStep ==
    ASSUME IInv, NEW o \in Object, process_own(o)
    PROVE  IInv'
<1> SUFFICES ASSUME NEW c, c = arg(o) PROVE IInv'
  OBVIOUS
<1>0. /\ Typed /\ own \in [Object -> OwnRecord] /\ Handles(o, "own") /\ UNCHANGED <<lvars, evars, svars, failed>>
      /\ own[o] \in OwnRecord
  BY DEF IInv, Typed, process_own
<1>1. /\ c \in Object /\ c # Socket /\ c # o /\ Made(c) /\ own[c].owner = o /\ Alive(o) /\ Alive(c)
      /\ Owns(c) = 1 /\ c \notin own[o].owned
  BY <1>0, OwnTaken
<1>2. UNCHANGED <<closed, pstate, pending>>
  BY <1>0 DEF lvars, evars, svars
<1>3. CASE own[o].terminating
  <2> DEFINE r == process_seqnum(register_term_acks(own[o], 1))
  <2>1. /\ r \in OwnRecord /\ Kept(r, own[o]) /\ r.processed_seqnum = own[o].processed_seqnum + 1
        /\ r.terminating = own[o].terminating /\ r.owned = own[o].owned /\ r.term_acks = own[o].term_acks + 1
    BY <1>0, LateOps
  <2>2. own' = [own EXCEPT ![o] = r]
    BY <1>0, <1>3 DEF process_own
  <2> HIDE DEF r
  <2>3. PICK steps \in Seq(Work) :
           /\ Handled(o, steps) /\ NoDelete(steps) /\ Plain(steps) /\ Only(steps, {"term"}) /\ Calm(steps) /\ StepsOK(steps, Tid[o])
           /\ check_acks(o) \in Range(steps)
           /\ \A D : SeqCount(steps, Sends(D)) = B(Com(c, "term", 0) \in D)
    <3> SUFFICES ASSUME NEW type, type = "term", NEW a, a = 0
                 PROVE  \E steps \in Seq(Work) :
                   /\ Handled(o, steps) /\ NoDelete(steps) /\ Plain(steps) /\ Only(steps, {"term"}) /\ Calm(steps) /\ StepsOK(steps, Tid[o])
                   /\ check_acks(o) \in Range(steps)
                   /\ \A D : SeqCount(steps, Sends(D)) = B(Com(c, type, a) \in D)
      OBVIOUS
    <3>1. type \in CommandType \ SeqCommand /\ a \in Arg
      BY DEF CommandType, SeqCommand, Arg
    <3> DEFINE v == <<send_command(c, type, a)>>
               w == <<check_acks(o)>>
               t == Tid[o]
    <3>2. /\ v \in Seq(Work) /\ NoDelete(v) /\ Plain(v) /\ NoInc(v) /\ NoCheck(v)
          /\ (\A T2 : type \in T2 => Only(v, T2))
          /\ (type \notin {"bind", "hiccup", "pipe_term"} => Calm(v))
          /\ (\A D : SeqCount(v, Sends(D)) = B(Com(c, type, a) \in D))
          /\ DOMAIN v = {1} /\ v[1].op = "send" /\ v[1].to = c /\ v[1].type = type /\ v[1].arg = a /\ v[1].inc = 0
          /\ (SendOK(v, 1, t) => StepsOK(v, t))
      BY <1>1, <3>1, OneSend
    <3>3. /\ w \in Seq(Work) /\ NoDelete(w) /\ Plain(w) /\ Only(w, {"term"}) /\ Calm(w)
          /\ check_acks(o) \in Range(w) /\ StepsOK(w, t)
      BY <1>1, CheckStep
    <3>4. NoInc(w) /\ \A D : SeqCount(w, Sends(D)) = 0
      BY OwnStepFacts, CountSingle DEF B, NoInc, check_acks
    <3>5. Handled(o, v \o w)
      <4>1. Handled(o, <<send_command(c, type, a), check_acks(o)>>)
        BY <1>3 DEF process_own
      <4>2. \A e, f : <<e>> \o <<f>> = <<e, f>>
        <5> SUFFICES ASSUME NEW e, NEW f PROVE <<e>> \o <<f>> = <<e, f>>
          OBVIOUS
        <5> DEFINE S == {e, f}
        <5>1. e \in S /\ f \in S
          OBVIOUS
        <5> HIDE DEF S
        <5> QED
          BY <5>1, PairSeq
      <4> QED
        BY <4>1, <4>2
    <3> HIDE DEF v, w
    <3>6. CommandOK(Com(v[1].to, v[1].type, v[1].arg), Tid[v[1].to])
      BY <1>1, <3>2 DEF CommandOK, Com
    <3>7. SendOK(v, 1, t)
      BY <3>2, <3>6 DEF SendOK
    <3>8. Only(v, {"term"}) /\ Calm(v) /\ StepsOK(v, t)
      BY <3>2, <3>7
    <3>9. /\ v \o w \in Seq(Work) /\ NoDelete(v \o w) /\ Plain(v \o w) /\ Only(v \o w, {"term"}) /\ Calm(v \o w)
          /\ Range(v \o w) = Range(v) \cup Range(w)
      BY <3>2, <3>3, <3>8, ConcatForm
    <3>10. StepsOK(v \o w, t)
      BY <3>2, <3>3, <3>4, <3>8, StepsConcat
    <3>11. \A D : SeqCount(v \o w, Sends(D)) = B(Com(c, type, a) \in D)
      <4>1. v \in Seq(Work) /\ w \in Seq(Work)
        BY <3>2, <3>3
      <4>2. \A D : SeqCount(v \o w, Sends(D)) = SeqCount(v, Sends(D)) + SeqCount(w, Sends(D))
        BY <4>1, CountConcat
      <4> QED
        BY <3>2, <3>4, <4>2 DEF B
    <3> QED
      BY <3>3, <3>5, <3>9, <3>10, <3>11
  <2>4. HandlesOwn(o, c, steps) /\ TellsOf(o, r)
    BY <1>0, <2>2, <2>3 DEF HandlesOwn, TellsOf
  <2>5. r.owned \subseteq own[o].owned \cup {c} /\ own[o].owned \subseteq r.owned
    BY <2>1
  <2>a. AsBefore' /\ TakesChild(o, c, steps)
    BY <2>1, <2>4, <2>5, OwnTurn
  <2>6. /\ own'[o] = r /\ (\A y \in Object : y # o => own'[y] = own[y])
        /\ SameAlive /\ QType'
        /\ (\A y : Acks(y)' = Acks(y))
        /\ (\A y \in Object : Owns(y)' = Owns(y) - B(y = c))
        /\ (\A y \in Object : Terms(y)' = Terms(y) + SeqCount(steps, Sends(To(y, "term"))))
    BY <1>0, <2>1, <2>2, <2>a, OneOwn DEF TakesChild
  <2>7. \A y \in Object : Terms(y)' = Terms(y) + (IF y = c THEN 1 ELSE 0)
    <3>1. "term" \in CommandType /\ 0 \in Arg
      BY DEF CommandType, Arg
    <3>2. \A y \in Object : Com(c, "term", 0) \in To(y, "term") <=> y = c
      BY <1>1, <3>1, ComIn
    <3> QED
      BY <2>3, <2>6, <3>2 DEF B
  <2>8. Children' /\ Awaited'
    <3>1. \A y \in Object : /\ own'[y].owner = own[y].owner /\ own'[y].terminating = own[y].terminating
                            /\ own'[y].life = own[y].life
      BY <2>1, <2>6 DEF Kept
    <3>2. own'[o].owned = own[o].owned /\ own'[o].term_acks = own[o].term_acks + 1
      BY <2>1, <2>6
    <3> SUFFICES ASSUME NEW n \in {0, 1}, n = 1 PROVE Children' /\ Awaited'
      OBVIOUS
    <3>3. /\ own'[o].owned = (IF n = 1 THEN own[o].owned ELSE own[o].owned \cup {c})
          /\ own'[o].term_acks = own[o].term_acks + n
          /\ \A y \in Object : Terms(y)' = Terms(y) + (IF y = c THEN n ELSE 0)
      BY <2>7, <3>2
    <3> QED
      BY <1>0, <1>2, <2>6, <3>1, <3>3, OwnChildren
  <2> QED
    BY <2>a, <2>8 DEF AsBefore, IInv
<1>4. CASE ~own[o].terminating
  <2> DEFINE r == process_seqnum(Adopted(own[o], c))
  <2>1. /\ r \in OwnRecord /\ Kept(r, own[o]) /\ r.processed_seqnum = own[o].processed_seqnum + 1
        /\ r.terminating = own[o].terminating /\ r.owned = own[o].owned \cup {c} /\ r.term_acks = own[o].term_acks
    BY <1>0, <1>1, AdoptOps
  <2>2. own' = [own EXCEPT ![o] = r]
    BY <1>0, <1>4 DEF process_own
  <2> HIDE DEF r
  <2> DEFINE steps == <<check_acks(o)>>
  <2>3. /\ steps \in Seq(Work) /\ NoDelete(steps) /\ Plain(steps) /\ Only(steps, {"term"}) /\ Calm(steps)
        /\ check_acks(o) \in Range(steps) /\ StepsOK(steps, Tid[o])
    BY <1>1, CheckStep
  <2>4. \A D : SeqCount(steps, Sends(D)) = 0
    BY OwnStepFacts, CountSingle DEF B
  <2>5. Handled(o, steps)
    BY <1>4 DEF process_own
  <2> HIDE DEF steps
  <2>9. HandlesOwn(o, c, steps) /\ TellsOf(o, r)
    BY <1>0, <2>2, <2>3, <2>5 DEF HandlesOwn, TellsOf
  <2>10. /\ r.terminating => r.owned = own[o].owned
         /\ r.owned \subseteq own[o].owned \cup {c} /\ own[o].owned \subseteq r.owned
    BY <1>4, <2>1
  <2>a. AsBefore' /\ TakesChild(o, c, steps)
    BY <2>1, <2>9, <2>10, OwnTurn
  <2>6. /\ own'[o] = r /\ (\A y \in Object : y # o => own'[y] = own[y])
        /\ SameAlive /\ QType'
        /\ (\A y : Acks(y)' = Acks(y))
        /\ (\A y \in Object : Owns(y)' = Owns(y) - B(y = c))
        /\ (\A y \in Object : Terms(y)' = Terms(y) + SeqCount(steps, Sends(To(y, "term"))))
    BY <1>0, <2>1, <2>2, <2>a, OneOwn DEF TakesChild
  <2>7. \A y \in Object : Terms(y)' = Terms(y)
    <3>1. \A y : Terms(y) \in Nat
      BY <1>0, CountsType DEF Typed
    <3> QED
      BY <2>4, <2>6, <3>1
  <2>8. Children' /\ Awaited'
    <3>1. \A y \in Object : /\ own'[y].owner = own[y].owner /\ own'[y].terminating = own[y].terminating
                            /\ own'[y].life = own[y].life
      BY <2>1, <2>6 DEF Kept
    <3>2. own'[o].owned = own[o].owned \cup {c} /\ own'[o].term_acks = own[o].term_acks /\ own[o].term_acks \in Int
      BY <1>0, <2>1, <2>6 DEF OwnRecord
    <3>4. \A y : Terms(y) \in Nat
      BY <1>0, CountsType DEF Typed
    <3> SUFFICES ASSUME NEW n \in {0, 1}, n = 0 PROVE Children' /\ Awaited'
      OBVIOUS
    <3>3. /\ own'[o].owned = (IF n = 1 THEN own[o].owned ELSE own[o].owned \cup {c})
          /\ own'[o].term_acks = own[o].term_acks + n
          /\ \A y \in Object : Terms(y)' = Terms(y) + (IF y = c THEN n ELSE 0)
      BY <2>7, <3>2, <3>4
    <3> QED
      BY <1>0, <1>2, <2>6, <3>1, <3>3, OwnChildren
  <2> QED
    BY <2>a, <2>8 DEF AsBefore, IInv
<1> QED
  BY <1>3, <1>4
-----------------------------------------------------------------------------
(* The socket gets the end of a pipe that a session made *)

\* What is known of the pipe.
LEMMA BindTaken ==
    ASSUME IInv, process_bind, NEW p, p = arg(Socket)
    PROVE  /\ p \in Pipe /\ psession[p] \in Session /\ Alive(Socket) /\ Alive(psession[p])
           /\ Binds(p) = 1 /\ PipeOK(p) /\ PT(p, "session") = 0 /\ PA(p, "session") = 0 /\ PA(p, "socket") = 0
           /\ pstate[<<p, "socket">>] = "unbound" /\ pstate[<<p, "session">>] \in {"active", "term_req_sent1"}
           /\ pstate[<<p, "session">>] = "active" <=> PT(p, "socket") = 0
           /\ pstate[<<p, "session">>] = "term_req_sent1" <=> PT(p, "socket") = 1
<1>0. /\ Typed /\ Commands /\ Pipes /\ QType
  BY DEF IInv, Typed
<1>1. Handles(Socket, "bind") /\ "bind" \in PipeCommand
  BY DEF process_bind, PipeCommand
<1>2. Socket \in Object
  BY SocketIn
<1>3. /\ p \in Pipe /\ psession[p] \in Session /\ Alive(Socket) /\ Flight(About(p, "bind")) >= 1
  BY <1>0, <1>1, <1>2, PipeTargets
<1>4. Binds(p) >= 1 /\ PipeOK(p)
  BY <1>0, <1>3 DEF Binds, Pipes
<1>5. /\ Binds(p) = 1 /\ PT(p, "session") = 0 /\ PA(p, "session") = 0 /\ PA(p, "socket") = 0
      /\ pstate[<<p, "socket">>] = "unbound" /\ pstate[<<p, "session">>] \in {"active", "term_req_sent1"}
      /\ pstate[<<p, "session">>] = "active" <=> PT(p, "socket") = 0
      /\ pstate[<<p, "session">>] = "term_req_sent1" <=> PT(p, "socket") = 1
  BY <1>4 DEF PipeOK, Joint
<1>6. Alive(psession[p])
  <2>1. Alive(Sink(p, "session"))
    BY <1>3, <1>5, EndAlive DEF End
  <2> QED
    BY <2>1 DEF Sink
<1> QED
  BY <1>3, <1>4, <1>5, <1>6

\* The steps: a socket that is closed terminates the pipe at once.
LEMMA BindSteps ==
    ASSUME IInv, process_bind, NEW p, p = arg(Socket), NEW steps,
           steps = (IF closed THEN Tell(p, "socket", "pipe_term") ELSE <<>>) \o <<check_acks(Socket)>>
    PROVE  /\ steps \in Seq(Work) /\ NoDelete(steps) /\ Plain(steps) /\ Only(steps, PipeMove)
           /\ StepsOK(steps, Tid[Socket]) /\ check_acks(Socket) \in Range(steps) /\ InOrder(steps)
           /\ \E n \in {0, 1} : /\ n = 1 <=> closed
                                /\ Told(steps, p, "session", n, "pipe_term")
<1> SUFFICES ASSUME NEW x \in End, x = "socket"
             PROVE  /\ steps \in Seq(Work) /\ NoDelete(steps) /\ Plain(steps) /\ Only(steps, PipeMove)
                    /\ StepsOK(steps, Tid[Socket]) /\ check_acks(Socket) \in Range(steps) /\ InOrder(steps)
                    /\ \E n \in {0, 1} : /\ n = 1 <=> closed
                                         /\ Told(steps, p, Peer(x), n, "pipe_term")
  BY PeerFacts DEF End
<1>0. QType /\ Socket \in Object
  BY SocketIn DEF IInv, Typed
<1>1. /\ p \in Pipe /\ psession[p] \in Session /\ Alive(Socket) /\ Alive(psession[p]) /\ PA(p, "session") = 0
  BY BindTaken
<1>2. Peer(x) = "session" /\ Peer(x) \in End /\ Sink(p, Peer(x)) = psession[p] /\ Sink(p, x) = Socket
  BY PeerFacts DEF Sink
<1> DEFINE u == IF closed THEN Tell(p, x, "pipe_term") ELSE <<>>
           c == <<check_acks(Socket)>>
<1>3. PICK n \in {0, 1} :
        /\ n = 1 <=> closed
        /\ u \in Seq(Work) /\ NoDelete(u) /\ Plain(u) /\ Only(u, PipeMove) /\ NoInc(u) /\ NoCheck(u)
        /\ StepsOK(u, Tid[Socket]) /\ InOrder(u) /\ Told(u, p, Peer(x), n, "pipe_term")
  <2>1. CASE closed
    <3> DEFINE s == Tell(p, x, "pipe_term")
    <3>1. /\ s \in Seq(Work) /\ NoDelete(s) /\ Plain(s) /\ NoInc(s) /\ NoCheck(s) /\ Only(s, PipeMove)
          /\ StepsOK(s, Tid[Sink(p, x)])
          /\ DOMAIN s = {1} /\ s[1].op = "send" /\ s[1].to = Sink(p, Peer(x)) /\ s[1].type = "pipe_term" /\ s[1].arg = p
      BY <1>1, <1>2, TellFacts
    <3>2. Told(s, p, Peer(x), 1, "pipe_term")
      BY <1>1, <1>2, TellTold
    <3> HIDE DEF s
    <3>3. InOrder(s)
      BY <1>0, <1>1, <1>2, <3>1, TellOrder
    <3>4. u = s
      BY <2>1 DEF s
    <3>5. 1 = 1 <=> closed
      BY <2>1
    <3> HIDE DEF u
    <3> QED
      BY <1>2, <3>1, <3>2, <3>3, <3>4, <3>5
  <2>2. CASE ~closed
    <3>1. u = <<>>
      BY <2>2
    <3>2. Told(<<>>, p, Peer(x), 0, "pipe_term")
      BY <1>1, <1>2, ToldFacts
    <3>3. /\ <<>> \in Seq(Work) /\ NoDelete(<<>>) /\ Plain(<<>>) /\ Only(<<>>, PipeMove) /\ NoInc(<<>>) /\ NoCheck(<<>>)
          /\ StepsOK(<<>>, Tid[Socket]) /\ InOrder(<<>>)
      BY NoSteps
    <3>4. 0 = 1 <=> closed
      BY <2>2
    <3> HIDE DEF u
    <3> QED
      BY <3>1, <3>2, <3>3, <3>4
  <2> QED
    BY <2>1, <2>2
<1>4. steps = u \o c
  OBVIOUS
<1>5. /\ c \in Seq(Work) /\ NoDelete(c) /\ Plain(c) /\ Only(c, PipeMove) /\ Calm(c)
      /\ check_acks(Socket) \in Range(c) /\ StepsOK(c, Tid[Socket])
  BY <1>0, <1>1, CheckStep
<1>6. NoInc(c) /\ \A D : SeqCount(c, Sends(D)) = 0
  BY <1>0, OwnStepFacts, CountSingle DEF B, NoInc, check_acks
<1> HIDE DEF u, c
<1>7. /\ u \o c \in Seq(Work) /\ NoDelete(u \o c) /\ Plain(u \o c) /\ Only(u \o c, PipeMove)
      /\ Range(u \o c) = Range(u) \cup Range(c)
  BY <1>3, <1>5, ConcatForm
<1>8. StepsOK(u \o c, Tid[Socket])
  BY <1>3, <1>5, <1>6, StepsConcat
<1>9. \A D : SeqCount(u \o c, Sends(D)) = SeqCount(u, Sends(D))
  <2> SUFFICES ASSUME NEW D PROVE SeqCount(u \o c, Sends(D)) = SeqCount(u, Sends(D))
    OBVIOUS
  <2>0. u \in Seq(Work) /\ c \in Seq(Work)
    BY <1>3, <1>5
  <2>1. SeqCount(u \o c, Sends(D)) = SeqCount(u, Sends(D)) + SeqCount(c, Sends(D))
    BY <2>0, CountConcat
  <2>2. SeqCount(u, Sends(D)) \in Nat
    BY <2>0, SeqCountType
  <2> QED
    BY <1>6, <2>1, <2>2
<1>10. Told(u \o c, p, Peer(x), n, "pipe_term")
  BY <1>3, <1>9 DEF Told
<1>11. InOrder(u \o c)
  <2>1. \A j \in DOMAIN c : c[j].op # "send"
    BY <1>0, OwnStepFacts DEF c, check_acks
  <2>2. InOrder(c)
    BY <1>5, CalmInOrder
  <2>3. \A i \in DOMAIN u : \A j \in DOMAIN c : u[i].op = "send" /\ c[j].op = "send" => Sorted(u[i], c[j])
    BY <2>1
  <2> QED
    BY <1>3, <1>5, <2>2, <2>3, ConcatOrder
<1>12. /\ steps \in Seq(Work) /\ NoDelete(steps) /\ Plain(steps) /\ Only(steps, PipeMove)
       /\ StepsOK(steps, Tid[Socket]) /\ check_acks(Socket) \in Range(steps) /\ InOrder(steps)
  BY <1>4, <1>5, <1>7, <1>8, <1>11
<1>13. n \in {0, 1} /\ (n = 1 <=> closed) /\ Told(steps, p, Peer(x), n, "pipe_term")
  BY <1>3, <1>4, <1>10
<1> QED
  BY <1>12, <1>13

\* The fields of the socket.
LEMMA BindOwn ==
    ASSUME IInv, process_bind, NEW n \in {0, 1}, n = 1 <=> closed
    PROVE  /\ own' \in [Object -> OwnRecord] /\ SameShape
           /\ own'[Socket].term_acks = own[Socket].term_acks + n
           /\ \A y \in Object : y # Socket => own'[y] = own[y]
           /\ \A y \in Object : /\ own'[y].sent_seqnum = own[y].sent_seqnum
                                /\ own'[y].processed_seqnum = own[y].processed_seqnum + B(y = Socket)
<1>0. /\ own \in [Object -> OwnRecord] /\ Socket \in Object /\ own[Socket] \in OwnRecord /\ Made(Socket)
      /\ own[Socket].terminating = closed
  BY SocketIn DEF IInv, Typed, Tree
<1> DEFINE r == process_seqnum(IF own[Socket].terminating THEN register_term_acks(own[Socket], 1) ELSE own[Socket])
<1>1. own' = [own EXCEPT ![Socket] = r]
  BY DEF process_bind
<1>2. /\ r \in OwnRecord /\ Kept(r, own[Socket]) /\ r.processed_seqnum = own[Socket].processed_seqnum + 1
      /\ r.terminating = own[Socket].terminating /\ r.owned = own[Socket].owned
      /\ r.term_acks = own[Socket].term_acks + n
  <2>1. CASE closed
    <3> DEFINE q == process_seqnum(register_term_acks(own[Socket], 1))
    <3>1. /\ q \in OwnRecord /\ Kept(q, own[Socket]) /\ q.processed_seqnum = own[Socket].processed_seqnum + 1
          /\ q.terminating = own[Socket].terminating /\ q.owned = own[Socket].owned
          /\ q.term_acks = own[Socket].term_acks + 1
      BY <1>0, LateOps
    <3>2. r = q /\ n = 1
      BY <1>0, <2>1
    <3> QED
      BY <3>1, <3>2
  <2>2. CASE ~closed
    <3> DEFINE q == process_seqnum(own[Socket])
    <3>1. /\ q \in OwnRecord /\ Kept(q, own[Socket]) /\ q.processed_seqnum = own[Socket].processed_seqnum + 1
          /\ q.terminating = own[Socket].terminating /\ q.owned = own[Socket].owned
          /\ q.term_acks = own[Socket].term_acks
      BY <1>0, OwnOps
    <3>2. r = q /\ n = 0 /\ own[Socket].term_acks \in Int
      BY <1>0, <2>2 DEF OwnRecord
    <3> HIDE DEF r, q
    <3> QED
      BY <3>1, <3>2
  <2> QED
    BY <2>1, <2>2
<1> HIDE DEF r
<1>3. own' \in [Object -> OwnRecord] /\ own'[Socket] = r /\ \A y \in Object : y # Socket => own'[y] = own[y]
  BY <1>0, <1>1, <1>2, OneOwn
<1>4. \A y \in Object : own[y].processed_seqnum \in Nat
  BY <1>0 DEF OwnRecord
<1> QED
  BY <1>0, <1>2, <1>3, <1>4 DEF Kept, SameShape, B

\* process_bind () preserves the invariant.
LEMMA BindStep ==
    ASSUME IInv, process_bind
    PROVE  IInv'
<1> SUFFICES ASSUME NEW p, p = arg(Socket), NEW x \in End, x = "socket", NEW tin \in PipeCommand, tin = "bind",
                    NEW tout \in {"pipe_term", "pipe_term_ack"}, tout = "pipe_term", NEW steps,
                    steps = (IF closed THEN Tell(p, "socket", "pipe_term") ELSE <<>>) \o <<check_acks(Socket)>>,
                    NEW st, st = IF closed THEN "term_req_sent1" ELSE "active"
             PROVE  IInv'
  BY DEF End, PipeCommand
<1>0. /\ Typed /\ Tree /\ Links /\ Commands /\ Todo /\ Order /\ Pipes /\ QType /\ failed = {} /\ Socket \in Object
      /\ Children /\ Awaited /\ Gone /\ Checked /\ PlugFirst /\ Engines /\ own \in [Object -> OwnRecord]
  BY SocketIn DEF IInv, Typed
<1>1. Handles(Socket, tin) /\ tin \in CommandType /\ tin \in SeqCommand /\ Side(Socket) = x
  BY DEF process_bind, CommandType, SeqCommand, Side
<1>2. /\ p \in Pipe /\ psession[p] \in Session /\ Alive(Socket) /\ Alive(psession[p])
      /\ Binds(p) = 1 /\ PipeOK(p) /\ PT(p, "session") = 0 /\ PA(p, "session") = 0 /\ PA(p, "socket") = 0
      /\ pstate[<<p, x>>] = "unbound" /\ pstate[<<p, "session">>] \in {"active", "term_req_sent1"}
      /\ pstate[<<p, "session">>] = "active" <=> PT(p, "socket") = 0
      /\ pstate[<<p, "session">>] = "term_req_sent1" <=> PT(p, "socket") = 1
  BY BindTaken
<1>3. Peer(x) = "session" /\ Peer(x) \in End
  BY PeerFacts
<1>4. own[Socket].terminating = closed /\ closed \in BOOLEAN
  BY <1>0 DEF Tree, Typed
<1>5. Handled(Socket, steps)
  BY <1>4 DEF process_bind
<1>6. PICK n \in {0, 1} : (n = 1 <=> closed) /\ Told(steps, p, "session", n, "pipe_term")
  BY BindSteps
<1>7. /\ steps \in Seq(Work) /\ NoDelete(steps) /\ Plain(steps) /\ Only(steps, PipeMove)
      /\ StepsOK(steps, Tid[Socket]) /\ check_acks(Socket) \in Range(steps) /\ InOrder(steps)
  BY BindSteps
<1>8. /\ failed' = {} /\ UNCHANGED <<polled, engine, pending, endpoints, closed, immediate, pipe, psession>>
      /\ pstate' = [pstate EXCEPT ![<<p, x>>] = st]
  BY <1>0, <1>4 DEF process_bind, lvars, svars, PTerminated
<1>9. /\ own' \in [Object -> OwnRecord] /\ SameShape
      /\ own'[Socket].term_acks = own[Socket].term_acks + n
      /\ \A y \in Object : y # Socket => own'[y] = own[y]
      /\ \A y \in Object : /\ own'[y].sent_seqnum = own[y].sent_seqnum
                           /\ own'[y].processed_seqnum = own[y].processed_seqnum + B(y = Socket)
  BY <1>6, BindOwn
<1>10. st \in PState /\ st \in {"active", "term_req_sent1"} /\ (st = "active" <=> n = 0) /\ (closed => st # "active")
  BY <1>6 DEF PState
<1>11. Turn(Socket, steps) /\ Takes(Socket) /\ Msg(Socket) = Com(Socket, tin, p)
  BY <1>0, <1>1, <1>5, <1>7, HandlerTurn
<1>12. SameAlive
  BY <1>9, <1>11, TurnAlive DEF SameAlive, SameShape, Alive
<1>13. Grows
  BY <1>8, <1>9, <1>12, SameGrows
<1>14. Processes(Socket)
  BY <1>0, <1>1, <1>9, <1>11 DEF Processes, Com
<1>15. StepsOK(steps, Tid[Socket])' /\ Balanced(steps)
  BY <1>7, <1>13, StepsFrame, PlainBalanced
<1>16. QType' /\ Seqnums' /\ Commands' /\ Todo' /\ Order' /\ Requests'
  BY <1>7, <1>9, <1>11, <1>13, <1>14, <1>15, SeqTurn
<1> DEFINE T == PipeCommand
<1>17. Only(steps, T) /\ Msg(Socket).type \in T
  BY <1>1, <1>7, <1>11 DEF Only, PipeMove, PipeCommand, Com
<1>18. SameCounts(T)
  BY <1>11, <1>17, QuietCounts
<1>19. \A y : /\ Plugs(y)' = Plugs(y) /\ Attaches(y)' = Attaches(y) /\ Owns(y)' = Owns(y)
              /\ Terms(y)' = Terms(y) /\ Acks(y)' = Acks(y)
  BY <1>18 DEF SameCounts, PipeCommand
<1> HIDE DEF T
<1>23. /\ pstate' \in [Pipe \X End -> PState] /\ pstate'[<<p, x>>] = st /\ pstate'[<<p, Peer(x)>>] = pstate[<<p, Peer(x)>>]
       /\ \A q \in Pipe : q # p => \A y \in End : pstate'[<<q, y>>] = pstate[<<q, y>>]
       /\ \A q \in Pipe : \A y \in End : (q # p \/ y # x) => pstate'[<<q, y>>] = pstate[<<q, y>>]
       /\ (closed => \A q \in Pipe : pstate'[<<q, "socket">>] \notin {"active", "waiting_for_delimiter"})
  <2>1. /\ pstate' \in [Pipe \X End -> PState] /\ pstate'[<<p, x>>] = st /\ pstate'[<<p, Peer(x)>>] = pstate[<<p, Peer(x)>>]
        /\ \A q \in Pipe : q # p => \A y \in End : pstate'[<<q, y>>] = pstate[<<q, y>>]
        /\ \A q \in Pipe : \A y \in End : (q # p \/ y # x) => pstate'[<<q, y>>] = pstate[<<q, y>>]
    BY <1>0, <1>2, <1>3, <1>8, <1>10 DEF Typed, End
  <2>3. closed => \A q \in Pipe : pstate'[<<q, "socket">>] \notin {"active", "waiting_for_delimiter"}
    <3> SUFFICES ASSUME closed, NEW q \in Pipe PROVE pstate'[<<q, "socket">>] \notin {"active", "waiting_for_delimiter"}
      OBVIOUS
    <3>1. pstate[<<q, "socket">>] \notin {"active", "waiting_for_delimiter"}
      BY <1>0 DEF Links
    <3>2. q # p => pstate'[<<q, "socket">>] = pstate[<<q, "socket">>]
      BY <2>1 DEF End
    <3>3. q = p => pstate'[<<q, "socket">>] = "term_req_sent1"
      BY <1>10, <2>1
    <3> QED
      BY <3>1, <3>2, <3>3
  <2> QED
    BY <2>1, <2>3
<1>24. Typed'
  BY <1>0, <1>8, <1>9, <1>16, <1>23 DEF Typed, End
<1>25. Tree'
  BY <1>0, <1>8, <1>9, TreeFrame
<1>26. \A q \in Pipe : pstate'[<<q, "session">>] = pstate[<<q, "session">>]
  BY <1>23 DEF End
<1>27. Links'
  <2>1. \A s : OtherPipes(s, {})' = OtherPipes(s, {})
    BY <1>8, <1>26 DEF OtherPipes
  <2>2. Session \subseteq Object /\ polled \subseteq Object /\ engine \subseteq Object
    BY <1>0, SocketIn DEF Typed
  <2>3. /\ \A y \in polled' : Alive(y)' /\ ~own'[y].terminating
        /\ \A s \in engine' : own'[s].life = "live"
    BY <1>0, <1>8, <1>9, <1>12, <2>2 DEF Links, SameAlive, SameShape
  <2>4. \A q \in Pipe : psession'[q] # None => Made(psession[q])'
    <3> SUFFICES ASSUME NEW q \in Pipe, psession[q] # None PROVE own'[psession[q]].life # "none"
      BY <1>8 DEF Made
    <3>1. psession[q] \in Object /\ own[psession[q]].life # "none"
      BY <1>0, <2>2 DEF Typed, Links, Made
    <3> QED
      BY <1>9, <3>1 DEF SameShape
  <2>5. \A s \in Session : own'[s].terminating => OtherPipes(s, {})' = {}
    BY <1>0, <1>9, <2>1, <2>2 DEF Links, SameShape
  <2>6. \A s \in pending' : OtherPipes(s, {})' # {}
    BY <1>0, <1>8, <2>1 DEF Links
  <2>7. \A s \in Session : pipe'[s] # None =>
          psession'[pipe'[s]] = s /\ pstate'[<<pipe'[s], "session">>] \notin {"none", "gone"}
    BY <1>0, <1>8, <1>26 DEF Links, Typed
  <2> QED
    BY <1>0, <1>8, <1>23, <2>3, <2>4, <2>5, <2>6, <2>7 DEF Links
<1>28. Children'
  BY <1>0, <1>8, <1>9, <1>12, <1>19, ChildrenFrame
<1>29. Awaited'
  <2>1. \A y \in Object : Kids(y)' = Kids(y)
    BY <1>9, <1>12, <1>19, KidsFrame
  <2>2. pipes' = pipes \cup {p} /\ p \notin pipes /\ pipes \in SUBSET Pipe /\ pipes' \in SUBSET Pipe
    BY <1>2, <1>10, <1>23 DEF pipes, End
  <2>3. \A y \in Object : Cardinality(Kids(y)) \in Nat
    BY FS_Subset, FS_CardinalityType, OwnAssumption DEF Kids
  <2>4. ASSUME NEW y \in Object, y # Socket
        PROVE  own'[y].term_acks = Cardinality(Kids(y)') + Acks(y)' + Cardinality(AwaitedPipes(y)')
    <3>1. AwaitedPipes(y)' = {} /\ AwaitedPipes(y) = {}
      BY <2>4 DEF AwaitedPipes
    <3>2. own[y].term_acks = Cardinality(Kids(y)) + Acks(y) + Cardinality(AwaitedPipes(y))
      BY <1>0 DEF Awaited
    <3>3. own'[y].term_acks = own[y].term_acks /\ Acks(y)' = Acks(y)
      BY <1>9, <1>19, <2>4
    <3> QED
      BY <2>1, <3>1, <3>2, <3>3
  <2>5. own'[Socket].term_acks = Cardinality(Kids(Socket)') + Acks(Socket)' + Cardinality(AwaitedPipes(Socket)')
    <3>1. own[Socket].term_acks = Cardinality(Kids(Socket)) + Acks(Socket) + Cardinality(AwaitedPipes(Socket))
      BY <1>0 DEF Awaited
    <3>2. CASE closed
      <4>1. AwaitedPipes(Socket) = pipes /\ AwaitedPipes(Socket)' = pipes \cup {p}
        BY <1>8, <2>2, <3>2 DEF AwaitedPipes
      <4>2. IsFiniteSet(pipes) /\ Cardinality(pipes) \in Nat
        BY <2>2, FS_Subset, FS_CardinalityType, OwnAssumption
      <4>3. Cardinality(pipes \cup {p}) = Cardinality(pipes) + 1
        BY <2>2, <4>2, FS_AddElement
      <4>4. n = 1 /\ Acks(Socket) \in Nat
        BY <1>0, <1>6, <3>2, CountsType
      <4> QED
        BY <1>9, <1>19, <2>1, <2>3, <3>1, <4>1, <4>2, <4>3, <4>4, <1>0
    <3>3. CASE ~closed
      <4>1. AwaitedPipes(Socket) = {} /\ AwaitedPipes(Socket)' = {}
        BY <1>8, <3>3 DEF AwaitedPipes
      <4>2. Cardinality({}) = 0
        BY FS_EmptySet
      <4>3. n = 0 /\ Acks(Socket) \in Nat
        BY <1>0, <1>6, <3>3, CountsType
      <4> QED
        BY <1>0, <1>9, <1>19, <2>1, <2>3, <3>1, <4>1, <4>2, <4>3
    <3> QED
      BY <3>2, <3>3
  <2> QED
    BY <2>4, <2>5 DEF Awaited
<1>30. Gone'
  <2> SUFFICES ASSUME NEW y \in Object, Made(y)', ~Alive(y)' PROVE GoneOK(y)'
    BY DEF Gone
  <2>1. Made(y) /\ ~Alive(y) /\ y # Socket
    BY <1>2, <1>9, <1>12 DEF SameAlive, SameShape, Made
  <2>2. GoneOK(y)
    BY <1>0, <2>1 DEF Gone
  <2> QED
    BY <1>9, <1>12, <2>1, <2>2 DEF GoneOK, SameShape, SameAlive
<1>31. Checked'
  <2>1. \A y \in Object : Alive(y)' /\ CanGo(own'[y]) =>
               \/ Alive(y) /\ CanGo(own[y])
               \/ y = Socket /\ check_acks(Socket) \in Range(steps)
    BY <1>7, <1>9, <1>12 DEF SameAlive
  <2> QED
    BY <1>0, <1>11, <2>1, TurnChecked
<1>32. PlugFirst' /\ Engines'
  BY <1>0, <1>8, <1>9, <1>19, PlugFrame, EnginesFrame
<1>33. /\ \A q \in Pipe : q # p =>
                /\ Binds(q)' = Binds(q) /\ Hiccups(q)' = Hiccups(q)
                /\ \A y \in End : PT(q, y)' = PT(q, y) /\ PA(q, y)' = PA(q, y)
       /\ Binds(p)' = 0 /\ Hiccups(p)' = Hiccups(p)
       /\ PT(p, x)' = PT(p, x) /\ PA(p, x)' = PA(p, x)
       /\ PT(p, Peer(x))' = PT(p, Peer(x)) + n /\ PA(p, Peer(x))' = PA(p, Peer(x))
  <2>1. Msg(Socket) = Com(Socket, tin, p) /\ Told(steps, p, Peer(x), n, tout)
    BY <1>3, <1>6, <1>11
  <2>2. /\ \A q \in Pipe : q # p =>
                /\ Binds(q)' = Binds(q) /\ Hiccups(q)' = Hiccups(q)
                /\ \A y \in End : PT(q, y)' = PT(q, y) /\ PA(q, y)' = PA(q, y)
        /\ Binds(p)' = Binds(p) - (IF tin = "bind" THEN 1 ELSE 0)
        /\ Hiccups(p)' = Hiccups(p) - (IF tin = "hiccup" THEN 1 ELSE 0)
        /\ PT(p, x)' = PT(p, x) - (IF tin = "pipe_term" THEN 1 ELSE 0)
        /\ PA(p, x)' = PA(p, x) - (IF tin = "pipe_term_ack" THEN 1 ELSE 0)
        /\ PT(p, Peer(x))' = PT(p, Peer(x)) + (IF tout = "pipe_term" THEN n ELSE 0)
        /\ PA(p, Peer(x))' = PA(p, Peer(x)) + (IF tout = "pipe_term_ack" THEN n ELSE 0)
    BY <1>1, <1>2, <1>11, <2>1, HandledTold
  <2> QED
    BY <2>2, <1>0, <1>2, CountsType
<1>34. Pipes'
  <2> SUFFICES ASSUME NEW q \in Pipe PROVE PipeOK(q)'
    BY DEF Pipes
  <2>1. CASE q # p
    BY <1>0, <1>8, <1>23, <1>33, <2>1, OtherPipe DEF Pipes
  <2>2. CASE q = p
    BY <1>0, <1>2, <1>3, <1>8, <1>10, <1>23, <1>33, <2>2, CountsType DEF PipeOK, Joint
  <2> QED
    BY <2>1, <2>2
<1> QED
  BY <1>8, <1>16, <1>24, <1>25, <1>27, <1>28, <1>29, <1>30, <1>31, <1>32, <1>34 DEF IInv
=============================================================================
