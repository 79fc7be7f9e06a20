------------------------------- MODULE Lemmas --------------------------------
(***************************************************************************)
(* Facts that the proofs about several components need: what sums over     *)
(* finite sets add up to, and what the operators of Limits do to the       *)
(* histories of calls and times.                                           *)
(***************************************************************************)
EXTENDS Sums, Limits, FiniteSetTheorems, SequenceTheorems, WellFoundedInduction, TLAPS

-----------------------------------------------------------------------------
(* Sums                                                                    *)

\* f gives every member of the finite set S a natural number.
Summable(f, S) == IsFiniteSet(S) /\ \A x \in S : f[x] \in Nat

\* The units of one member.
LEMMA OneUnits ==
  ASSUME NEW x, NEW n \in Nat
  PROVE  IsFiniteSet({x} \X (1 .. n)) /\ Cardinality({x} \X (1 .. n)) = n
<1>1. IsFiniteSet({x}) /\ Cardinality({x}) = 1
  BY FS_Singleton
<1>2. IsFiniteSet(1 .. n) /\ Cardinality(1 .. n) = n
  <2>1. n \in Int /\ 1 \in Int
    OBVIOUS
  <2>2. IsFiniteSet(1 .. n) /\ Cardinality(1 .. n) = IF 1 > n THEN 0 ELSE n - 1 + 1
    BY <2>1, FS_Interval
  <2> QED
    BY <2>2
<1>3. IsFiniteSet({x} \X (1 .. n))
      /\ Cardinality({x} \X (1 .. n)) = Cardinality({x}) * Cardinality(1 .. n)
  BY <1>1, <1>2, FS_Product
<1> QED
  BY <1>1, <1>2, <1>3

\* A sum of natural numbers is one.
LEMMA SumType ==
  ASSUME NEW f, NEW S, Summable(f, S)
  PROVE  IsFiniteSet(UnitsOf(f, S)) /\ SumOf(f, S) \in Nat
<1> DEFINE Parts == {{x} \X (1 .. f[x]) : x \in S}
           part == [x \in S |-> {x} \X (1 .. f[x])]
<1>1. ASSUME NEW x \in S PROVE IsFiniteSet({x} \X (1 .. f[x]))
  <2>1. PICK n \in Nat : n = f[x]
    BY DEF Summable
  <2> QED
    BY <2>1, OneUnits
<1>2. IsFiniteSet(Parts)
  <2>1. part \in Surjection(S, Parts)
    BY DEF Surjection
  <2> QED
    BY <2>1, FS_Surjection DEF Summable
<1>3. IsFiniteSet(UNION Parts)
  BY <1>1, <1>2, FS_UNION
<1> QED
  BY <1>3, FS_CardinalityType DEF UnitsOf, SumOf

\* Nothing adds up to nothing.
LEMMA SumEmpty == ASSUME NEW f PROVE SumOf(f, {}) = 0
BY FS_EmptySet DEF SumOf, UnitsOf

\* A sum depends on what its members have.
LEMMA SumSame ==
  ASSUME NEW f, NEW g, NEW S, \A x \in S : f[x] = g[x]
  PROVE  SumOf(f, S) = SumOf(g, S)
<1>1. UnitsOf(f, S) = UnitsOf(g, S)
  BY DEF UnitsOf
<1> QED
  BY <1>1 DEF SumOf

\* More members, or members with more, have no less together.
LEMMA SumMore ==
  ASSUME NEW f, NEW g, NEW S, NEW T, S \subseteq T, Summable(g, T),
         \A x \in S : f[x] \in Nat /\ f[x] <= g[x]
  PROVE  SumOf(f, S) <= SumOf(g, T)
<1>1. UnitsOf(f, S) \subseteq UnitsOf(g, T)
  BY DEF UnitsOf, Summable
<1>2. IsFiniteSet(UnitsOf(g, T))
  BY SumType
<1> QED
  BY <1>1, <1>2, FS_Subset DEF SumOf

\* Sets that have no member in common.
LEMMA SumUnion ==
  ASSUME NEW f, NEW S, NEW T, Summable(f, S), Summable(f, T), S \cap T = {}
  PROVE  SumOf(f, S \cup T) = SumOf(f, S) + SumOf(f, T)
<1>1. PICK U, V, W : U = UnitsOf(f, S) /\ V = UnitsOf(f, T) /\ W = UnitsOf(f, S \cup T)
  OBVIOUS
<1>2. IsFiniteSet(U) /\ IsFiniteSet(V) /\ Cardinality(U) \in Nat /\ Cardinality(V) \in Nat
  BY <1>1, SumType DEF SumOf
<1>3. W = U \cup V /\ U \cap V = {}
  BY <1>1 DEF UnitsOf
<1>4. Cardinality(U \cup V) = Cardinality(U) + Cardinality(V) - Cardinality(U \cap V)
  BY <1>2, FS_Union
<1>5. Cardinality(U \cap V) = 0
  <2>1. Cardinality({}) = 0
    BY FS_EmptySet
  <2> QED
    BY <1>3, <2>1
<1>6. Cardinality(W) = Cardinality(U) + Cardinality(V)
  BY <1>2, <1>3, <1>4, <1>5
<1> QED
  BY <1>1, <1>6 DEF SumOf

\* One member more.
LEMMA SumAdd ==
  ASSUME NEW f, NEW S, Summable(f, S), NEW x, x \notin S, f[x] \in Nat
  PROVE  SumOf(f, S \cup {x}) = SumOf(f, S) + f[x]
<1>1. Summable(f, {x})
  BY FS_Singleton DEF Summable
<1>2. SumOf(f, {x}) = f[x]
  <2>1. PICK n \in Nat : n = f[x]
    OBVIOUS
  <2>2. UnitsOf(f, {x}) = {x} \X (1 .. n)
    BY <2>1 DEF UnitsOf
  <2> QED
    BY <2>1, <2>2, OneUnits DEF SumOf
<1>3. SumOf(f, S \cup {x}) = SumOf(f, S) + SumOf(f, {x})
  <2>1. S \cap {x} = {}
    OBVIOUS
  <2> QED
    BY <1>1, <2>1, SumUnion
<1> QED
  BY <1>2, <1>3

\* One member more, with the others keeping what they have.
LEMMA SumGrow ==
  ASSUME NEW f, NEW g, NEW S, NEW T, NEW x, Summable(f, S), x \notin S, T = S \cup {x},
         g[x] \in Nat, \A y \in S : g[y] = f[y]
  PROVE  Summable(g, T) /\ SumOf(g, T) = SumOf(f, S) + g[x]
<1>1. Summable(g, S)
  BY DEF Summable
<1>2. SumOf(g, S \cup {x}) = SumOf(g, S) + g[x]
  BY <1>1, SumAdd
<1>3. SumOf(g, S) = SumOf(f, S)
  BY SumSame
<1>4. IsFiniteSet(S \cup {x})
  BY FS_AddElement DEF Summable
<1> QED
  BY <1>1, <1>2, <1>3, <1>4 DEF Summable

\* What each member has is matched by a member of its own.
LEMMA SumInject ==
  ASSUME NEW f, NEW g, NEW S, NEW T, Summable(f, S), Summable(g, T), NEW h,
         \A x \in S : h[x] \in T /\ f[x] <= g[h[x]],
         \A x, y \in S : h[x] = h[y] => x = y
  PROVE  SumOf(f, S) <= SumOf(g, T)
<1> DEFINE U == UnitsOf(f, S)
           V == UnitsOf(g, T)
           unit == [u \in U |-> <<h[u[1]], u[2]>>]
<1>1. ASSUME NEW u \in U PROVE u[1] \in S /\ u = <<u[1], u[2]>> /\ unit[u] \in V
  <2>1. PICK x \in S : u \in {x} \X (1 .. f[x])
    BY DEF UnitsOf
  <2>2. u[1] = x /\ u = <<u[1], u[2]>> /\ u[2] \in 1 .. f[x]
    BY <2>1
  <2>3. h[x] \in T /\ f[x] \in Nat /\ g[h[x]] \in Nat /\ f[x] <= g[h[x]]
    BY DEF Summable
  <2>4. u[2] \in 1 .. g[h[x]]
    BY <2>2, <2>3
  <2>5. unit[u] = <<h[x], u[2]>>
    BY <2>2
  <2> QED
    BY <2>2, <2>3, <2>4, <2>5 DEF UnitsOf
<1>2. unit \in Injection(U, V)
  <2>1. unit \in [U -> V]
    BY <1>1
  <2>2. ASSUME NEW u \in U, NEW v \in U, unit[u] = unit[v] PROVE u = v
    <3>1. h[u[1]] = h[v[1]] /\ u[2] = v[2]
      BY <2>2
    <3> QED
      BY <1>1, <3>1
  <2> HIDE DEF unit
  <2> QED
    BY <2>1, <2>2 DEF Injection, IsInjective
<1>3. IsFiniteSet(V)
  BY SumType
<1> HIDE DEF unit
<1>4. Cardinality(U) <= Cardinality(V)
  BY <1>2, <1>3, FS_Injection
<1> QED
  BY <1>4 DEF SumOf

\* Members that have nothing have nothing together.
LEMMA SumNothing ==
  ASSUME NEW f, NEW S, \A x \in S : f[x] = 0
  PROVE  SumOf(f, S) = 0
<1>1. UnitsOf(f, S) = {}
  BY DEF UnitsOf
<1> QED
  BY <1>1, FS_EmptySet DEF SumOf

\* One member that has n more.
LEMMA SumRaise ==
  ASSUME NEW f, NEW g, NEW S, Summable(f, S), NEW x \in S, NEW n \in Nat,
         g[x] = f[x] + n, \A y \in S : y # x => g[y] = f[y]
  PROVE  SumOf(g, S) = SumOf(f, S) + n
<1> DEFINE R == S \ {x}
<1>1. S = R \cup {x} /\ x \notin R
  OBVIOUS
<1>2. IsFiniteSet(R)
  BY FS_Subset DEF Summable
<1>3. Summable(f, R) /\ Summable(g, R) /\ f[x] \in Nat /\ g[x] \in Nat /\ \A y \in R : g[y] = f[y]
  BY <1>2 DEF Summable
<1> HIDE DEF R
<1>4. SumOf(f, R \cup {x}) = SumOf(f, R) + f[x] /\ SumOf(g, R \cup {x}) = SumOf(g, R) + g[x]
  BY <1>1, <1>3, SumAdd
<1>5. SumOf(g, R) = SumOf(f, R) /\ SumOf(f, R) \in Nat
  BY <1>3, SumSame, SumType
<1> QED
  BY <1>1, <1>3, <1>4, <1>5

-----------------------------------------------------------------------------
(* Histories                                                               *)

\* What is left of a sequence without its first n elements.
LEMMA DropFirst ==
  ASSUME NEW S, NEW s \in Seq(S), NEW n \in Nat, NEW rest, rest = SubSeq(s, 1 + n, Len(s))
  PROVE  /\ DOMAIN rest = 1..(IF 1 + n <= Len(s) THEN Len(s) - n ELSE 0)
         /\ \A i \in DOMAIN rest : rest[i] = s[i + n] /\ i + n \in DOMAIN s
<1> PICK m \in Nat : m = Len(s)
  BY LenProperties
<1>1. DOMAIN s = 1..m /\ \A i \in (1 + n)..m : s[i] \in S
  <2>1. DOMAIN s = 1..m /\ \A i \in 1..m : s[i] \in S
    BY LenProperties, ElementOfSeq
  <2>2. (1 + n)..m \subseteq 1..m
    OBVIOUS
  <2> QED
    BY <2>1, <2>2
<1>2. /\ rest \in Seq(S)
      /\ Len(rest) = (IF 1 + n <= m THEN m - (1 + n) + 1 ELSE 0)
      /\ \A i \in 1..(m - (1 + n) + 1) : rest[i] = s[(1 + n) + i - 1]
  <2>1. 1 + n \in Int /\ m \in Int
    OBVIOUS
  <2> DEFINE k == 1 + n
  <2>2. k \in Int /\ rest = SubSeq(s, k, m) /\ \A i \in k..m : s[i] \in S
    BY <1>1
  <2> HIDE DEF k
  <2>3. /\ rest \in Seq(S)
        /\ Len(rest) = (IF k <= m THEN m - k + 1 ELSE 0)
        /\ \A i \in 1..(m - k + 1) : rest[i] = s[k + i - 1]
    BY ONLY <2>1, <2>2, SubSeqProperties
  <2> QED
    BY <2>3 DEF k
<1>3. DOMAIN rest = 1..Len(rest)
  BY <1>2, LenProperties
<1>4. (IF 1 + n <= m THEN m - (1 + n) + 1 ELSE 0) = (IF 1 + n <= m THEN m - n ELSE 0)
  OBVIOUS
<1>5. ASSUME NEW i \in DOMAIN rest PROVE rest[i] = s[i + n] /\ i + n \in DOMAIN s
  <2>1. i \in 1..(IF 1 + n <= m THEN m - n ELSE 0)
    BY <1>2, <1>3, <1>4
  <2>2. i \in 1..(m - (1 + n) + 1) /\ (1 + n) + i - 1 = i + n /\ i + n \in 1..m
    BY <2>1
  <2> QED
    BY <1>1, <1>2, <2>2
<1>6. DOMAIN rest = 1..(IF 1 + n <= m THEN m - n ELSE 0)
  BY <1>2, <1>3, <1>4
<1> QED
  BY <1>5, <1>6

\* A non-empty set of positions has a first one.
LEMMA FirstPosition ==
  ASSUME NEW S, S \subseteq Nat, S # {}
  PROVE  \E i \in S : \A j \in S : i <= j
<1>1. \E i \in S : \A j \in S : ~ (<<j, i>> \in OpToRel(<, Nat))
  BY NatLessThanWellFounded, WFMin
<1>2. PICK i \in S : \A j \in S : ~ (<<j, i>> \in OpToRel(<, Nat))
  BY <1>1
<1>3. ASSUME NEW j \in S, j < i
      PROVE  FALSE
  <2>1. <<j, i>> \in Nat \X Nat
    OBVIOUS
  <2>2. <<j, i>> \in OpToRel(<, Nat)
    BY <1>3, <2>1 DEF OpToRel
  <2> QED
    BY <1>2, <2>2
<1> QED
  BY <1>3

\* RateLimit.charge: what is left after the expired timestamps are dropped is
\* again a sequence of timestamps, no longer than before.
LEMMA DropExpiredType ==
  ASSUME NEW S, NEW seq \in Seq(S), NEW horizon \in Int
  PROVE  /\ DropExpired(seq, horizon) \in Seq(S)
         /\ Len(DropExpired(seq, horizon)) <= Len(seq)
<1> DEFINE live == {i \in DOMAIN seq : seq[i] > horizon}
           first == CHOOSE i \in live : \A j \in live : i <= j
<1>1. CASE live = {}
  BY <1>1 DEF DropExpired
<1>2. CASE live # {}
  <2>1. first \in live
    <3>1. live \subseteq Nat
      OBVIOUS
    <3>2. \E i \in live : \A j \in live : i <= j
      BY <1>2, <3>1, FirstPosition
    <3> QED
      BY <3>2
  <2> HIDE DEF first
  <2>2. first \in 1..Len(seq)
    <3>1. first \in DOMAIN seq
      BY <2>1
    <3>2. DOMAIN seq = 1..Len(seq)
      BY LenProperties
    <3> QED
      BY <3>1, <3>2
  <2>3. DropExpired(seq, horizon) = SubSeq(seq, first, Len(seq))
    BY <1>2 DEF DropExpired, first
  <2> QED
    BY <2>2, <2>3
<1> QED
  BY <1>1, <1>2

\* LoopGuard.record: the history keeps its type and its bound.
LEMMA RememberType ==
  ASSUME NEW S, NEW seq \in Seq(S), NEW x \in S, NEW history \in Nat
  PROVE  Remember(seq, x, history) \in Seq(S)
<1>1. Append(seq, x) \in Seq(S) /\ Append(seq, x) # <<>>
  BY AppendProperties
<1>2. Tail(Append(seq, x)) \in Seq(S)
  BY <1>1
<1> QED
  BY <1>1, <1>2 DEF Remember

\* Positions moved by a constant are as many as before.
LEMMA ShiftedFewer ==
  ASSUME NEW S, NEW T, T \subseteq Nat, IsFiniteSet(S), NEW cut \in Nat, \A j \in T : j + cut \in S
  PROVE  IsFiniteSet(T) /\ Cardinality(T) \in Nat /\ Cardinality(T) <= Cardinality(S)
<1> DEFINE f == [j \in T |-> j + cut]
<1>1. f \in Injection(T, S)
  BY DEF Injection, IsInjective
<1> HIDE DEF f
<1> QED
  BY <1>1, FS_Injection, FS_CardinalityType

\* How many times of a history lie after h.
Later(seq, h) == {i \in DOMAIN seq : seq[i] > h}

\* The admissions after a moment are finitely many.
LEMMA LaterFinite ==
  ASSUME NEW seq \in Seq(Nat), NEW h \in Int
  PROVE  /\ Later(seq, h) \subseteq 1..Len(seq) /\ IsFiniteSet(Later(seq, h))
         /\ Cardinality(Later(seq, h)) \in Nat /\ Cardinality(Later(seq, h)) <= Len(seq)
<1>1. Len(seq) \in Nat /\ DOMAIN seq = 1..Len(seq)
  BY LenProperties
<1>2. IsFiniteSet(1..Len(seq)) /\ Cardinality(1..Len(seq)) = Len(seq)
  <2> DEFINE n == Len(seq)
  <2>1. n \in Nat /\ 1 \in Int /\ n \in Int
    BY <1>1
  <2> HIDE DEF n
  <2>2. IsFiniteSet(1..n) /\ Cardinality(1..n) = IF 1 > n THEN 0 ELSE n - 1 + 1
    BY <2>1, FS_Interval
  <2>3. Cardinality(1..n) = n
    BY <2>1, <2>2
  <2> QED
    BY <2>2, <2>3 DEF n
<1>3. Later(seq, h) \subseteq 1..Len(seq)
  BY <1>1 DEF Later
<1>4. IsFiniteSet(Later(seq, h)) /\ Cardinality(Later(seq, h)) <= Cardinality(1..Len(seq))
  BY <1>2, <1>3, FS_Subset
<1> QED
  BY <1>2, <1>3, <1>4, FS_CardinalityType

\* One more time counts when it lies after h.
LEMMA LaterAppend ==
  ASSUME NEW seq \in Seq(Nat), NEW h \in Int, NEW x \in Nat
  PROVE  Cardinality(Later(Append(seq, x), h)) =
           Cardinality(Later(seq, h)) + IF x > h THEN 1 ELSE 0
<1>1. /\ Append(seq, x) \in Seq(Nat) /\ Len(Append(seq, x)) = Len(seq) + 1
      /\ Len(seq) \in Nat /\ DOMAIN seq = 1..Len(seq)
      /\ Append(seq, x)[Len(seq) + 1] = x
      /\ \A i \in 1..Len(seq) : Append(seq, x)[i] = seq[i]
  BY AppendProperties, LenProperties
<1>2. DOMAIN Append(seq, x) = 1..(Len(seq) + 1)
  BY <1>1, LenProperties
<1> DEFINE S == Later(seq, h)
<1>3. IsFiniteSet(S) /\ S \subseteq 1..Len(seq) /\ Cardinality(S) \in Nat
  BY LaterFinite
<1>4. ASSUME NEW i PROVE i \in Later(Append(seq, x), h) <=> i \in S \/ (i = Len(seq) + 1 /\ x > h)
  <2>1. i \in 1..(Len(seq) + 1) <=> i \in 1..Len(seq) \/ i = Len(seq) + 1
    BY <1>1
  <2> QED
    BY <1>1, <1>2, <2>1 DEF Later
<1> HIDE DEF S
<1>5. CASE x > h
  <2>1. Later(Append(seq, x), h) = S \cup {Len(seq) + 1}
    BY <1>4, <1>5
  <2>2. Len(seq) + 1 \notin S
    BY <1>1, <1>3
  <2>3. Cardinality(S \cup {Len(seq) + 1}) = Cardinality(S) + 1
    BY <1>3, <2>2, FS_AddElement
  <2> QED
    BY <1>5, <2>1, <2>3 DEF S
<1>6. CASE ~(x > h)
  <2>1. Later(Append(seq, x), h) = S
    BY <1>4, <1>6
  <2> QED
    BY <1>3, <1>6, <2>1 DEF S
<1> QED
  BY <1>5, <1>6

\* What RateLimit.charge drops lies before its horizon: every time after a later
\* moment is kept.
LEMMA LaterDrop ==
  ASSUME NEW seq \in Seq(Nat), NEW h \in Int, NEW horizon \in Int, horizon <= h
  PROVE  Cardinality(Later(seq, h)) <= Cardinality(Later(DropExpired(seq, horizon), h))
<1> DEFINE live == Later(seq, horizon)
           first == CHOOSE i \in live : \A j \in live : i <= j
           rest == DropExpired(seq, horizon)
<1>1. Len(seq) \in Nat /\ DOMAIN seq = 1..Len(seq)
  BY LenProperties
<1>2. Later(seq, h) \subseteq live
  BY <1>1 DEF Later
<1>3. rest \in Seq(Nat)
  BY DropExpiredType
<1>4. CASE live = {}
  <2>1. Cardinality(Later(seq, h)) = 0
    BY <1>2, <1>4, FS_EmptySet
  <2>2. Cardinality(Later(rest, h)) \in Nat
    BY <1>3, LaterFinite
  <2> QED
    BY <2>1, <2>2
<1>5. CASE live # {}
  <2>1. live \subseteq 1..Len(seq) /\ live \subseteq Nat
    BY LaterFinite
  <2>2. first \in live /\ \A j \in live : first <= j
    <3>1. \E i \in live : \A j \in live : i <= j
      <4> HIDE DEF live
      <4> QED
        BY <1>5, <2>1, FirstPosition
    <3> QED
      BY <3>1
  <2>3. rest = SubSeq(seq, first, Len(seq))
    BY <1>5 DEF DropExpired, Later
  <2> HIDE DEF live, first, rest
  <2>4. first \in 1..Len(seq) /\ first \in Nat
    BY <2>1, <2>2
  <2>5. Len(rest) = Len(seq) - first + 1
        /\ \A i \in 1..(Len(seq) - first + 1) : rest[i] = seq[first + i - 1]
    BY <1>1, <2>3, <2>4, SubSeqProperties
  <2>6. ASSUME NEW j \in Later(seq, h) PROVE j + (1 - first) \in Later(rest, h)
    <3>1. j \in 1..Len(seq) /\ first <= j /\ seq[j] > h
      BY <1>1, <1>2, <2>2 DEF Later
    <3>2. j + (1 - first) \in 1..(Len(seq) - first + 1) /\ first + (j + (1 - first)) - 1 = j
      BY <1>1, <2>4, <3>1
    <3>3. DOMAIN rest = 1..(Len(seq) - first + 1)
      BY <1>3, <2>5, LenProperties
    <3> QED
      BY <2>5, <3>1, <3>2, <3>3 DEF Later
  <2> DEFINE f == [j \in Later(seq, h) |-> j + (1 - first)]
  <2>7. f \in Injection(Later(seq, h), Later(rest, h))
    <3>1. Later(seq, h) \subseteq Nat
      BY <1>1 DEF Later
    <3>2. f \in [Later(seq, h) -> Later(rest, h)]
      BY <2>6
    <3>3. \A i, j \in Later(seq, h) : f[i] = f[j] => i = j
      BY <2>4, <3>1
    <3> QED
      BY <3>2, <3>3 DEF Injection, IsInjective
  <2>8. IsFiniteSet(Later(rest, h))
    BY <1>3, LaterFinite
  <2> HIDE DEF f
  <2> QED
    BY <2>7, <2>8, FS_Injection DEF rest
<1> QED
  BY <1>4, <1>5

\* What a function gives for finitely many arguments is finitely many values.
LEMMA ImageFinite ==
  ASSUME NEW f, NEW S, IsFiniteSet(S) PROVE IsFiniteSet({f[x] : x \in S})
<1> DEFINE T == {f[x] : x \in S}
           g == [x \in S |-> f[x]]
<1>1. g \in Surjection(S, T)
  BY DEF Surjection
<1> HIDE DEF g, T
<1>2. IsFiniteSet(T)
  BY <1>1, FS_Surjection
<1> QED
  BY <1>2 DEF T
=============================================================================
