------------------------------ MODULE Induction ------------------------------
(***************************************************************************)
(* Induction over data in a form that SMT can use: with sets and functions *)
(* where the theorems of NaturalsInduction take operators.  What is to be  *)
(* proved of every number becomes the set of the numbers it holds for, and *)
(* the step of a recursive definition becomes a function.  With it, what   *)
(* the operators on sequences do that no library theorem tells.            *)
(***************************************************************************)
EXTENDS Integers, FiniteSets, SequencesExt, FiniteSetTheorems, SequenceTheorems,
  WellFoundedInduction, TLAPS

(* Every set of naturals with a member has a least one: the intervals up to *)
(* its members are finite sets, which strict inclusion orders well.         *)
LEMMA LeastNatural ==
  ASSUME NEW T \in SUBSET Nat, T # {}
  PROVE  \E m \in T : \A k \in T : m <= k
<1>1. PICK n \in T : TRUE OBVIOUS
<1> DEFINE S == 0 .. n
           U == {0 .. k : k \in T \cap S}
<1>2. IsFiniteSet(S)
  BY FS_Interval
<1>3. IsWellFoundedOn(StrictSubsetOrdering(S), SUBSET S)
  BY <1>2, FS_StrictSubsetOrderingWellFounded, FS_FiniteSubsetsOfFinite
<1>4. U \subseteq SUBSET S /\ U # {}
  OBVIOUS
<1> HIDE DEF U
<1>5. PICK X \in U : \A Y \in U : <<Y, X>> \notin StrictSubsetOrdering(S)
  BY <1>3, <1>4, WFMin
<1>6. PICK m \in T \cap S : X = 0 .. m
  BY DEF U
<1>7. ASSUME NEW k \in T, k < m PROVE FALSE
  <2>1. 0 .. k \in U /\ k \in S
    BY <1>7 DEF U
  <2>2. (0 .. k) \subseteq (0 .. m) /\ m \notin 0 .. k /\ m \in 0 .. m
    BY <1>7
  <2>3. <<0 .. k, X>> \in StrictSubsetOrdering(S)
    BY <2>1, <2>2, <1>4, <1>6 DEF StrictSubsetOrdering
  <2> QED BY <2>1, <2>3, <1>5
<1> QED BY <1>7

(* A set with 0, and with the successor of each natural in it, has them all. *)
LEMMA NatSetInduction ==
  ASSUME NEW S, 0 \in S, \A n \in Nat : n \in S => n + 1 \in S
  PROVE  \A n \in Nat : n \in S
<1> DEFINE T == Nat \ S
<1> SUFFICES ASSUME T # {} PROVE FALSE
  OBVIOUS
<1> HIDE DEF T
<1>1. PICK m \in T : \A k \in T : m <= k
  BY LeastNatural DEF T
<1>2. m \in Nat /\ m # 0 /\ m - 1 \in Nat
  BY DEF T
<1>3. m - 1 \in S
  BY <1>1, <1>2 DEF T
<1> QED BY <1>2, <1>3 DEF T

(* The same up to a bound: a set with 0, and with the successor of each     *)
(* number below the bound in it, has all the numbers up to the bound.       *)
LEMMA BoundedInduction ==
  ASSUME NEW N \in Nat, NEW S, 0 \in S, \A n \in 0 .. (N - 1) : n \in S => n + 1 \in S
  PROVE  \A n \in 0 .. N : n \in S
<1> DEFINE T == {n \in Nat : n \in 0 .. N => n \in S}
<1>1. 0 \in T
  OBVIOUS
<1>2. ASSUME NEW n \in Nat, n \in T PROVE n + 1 \in T
  BY <1>2
<1> HIDE DEF T
<1>3. \A n \in Nat : n \in T
  BY <1>1, <1>2, NatSetInduction
<1> QED BY <1>3 DEF T

(* The function g is the recursion from a over 0 .. N by F, a function of   *)
(* the value before and the number.                                         *)
Recurs(g, N, S, a, F) ==
  /\ g \in [0 .. N -> S]
  /\ g[0] = a
  /\ \A n \in 1 .. N : g[n] = F[<<g[n - 1], n>>]

(* Every recursion has a solution: one that goes up to n is extended by one. *)
LEMMA RecursionExists ==
  ASSUME NEW N \in Nat, NEW S, NEW a \in S, NEW F \in [S \X Nat -> S]
  PROVE  \E g : Recurs(g, N, S, a, F)
<1> DEFINE T == {m \in Nat : \E g : Recurs(g, m, S, a, F)}
<1>1. 0 \in T
  <2> DEFINE g == [i \in 0 .. 0 |-> a]
  <2>1. Recurs(g, 0, S, a, F)
    BY DEF Recurs
  <2> QED BY <2>1
<1>2. ASSUME NEW m \in Nat, m \in T PROVE m + 1 \in T
  <2>1. PICK g : Recurs(g, m, S, a, F)
    BY <1>2
  <2>2. /\ g \in [0 .. m -> S] /\ g[0] = a
        /\ \A n \in 1 .. m : g[n] = F[<<g[n - 1], n>>]
    BY <2>1 DEF Recurs
  <2> DEFINE h == [i \in 0 .. (m + 1) |-> IF i = m + 1 THEN F[<<g[m], m + 1>>] ELSE g[i]]
  <2>3. F[<<g[m], m + 1>>] \in S
    BY <2>2
  <2>4. h \in [0 .. (m + 1) -> S] /\ h[0] = a
    BY <2>2, <2>3
  <2>5. ASSUME NEW n \in 1 .. (m + 1) PROVE h[n] = F[<<h[n - 1], n>>]
    <3>1. n - 1 \in 0 .. m /\ h[n - 1] = g[n - 1]
      OBVIOUS
    <3>2. CASE n = m + 1
      BY <3>1, <3>2, SMTT(30)
    <3>3. CASE n # m + 1
      <4>1. n \in 1 .. m /\ h[n] = g[n]
        BY <3>3
      <4> QED BY <4>1, <3>1, <2>2
    <3> QED BY <3>2, <3>3
  <2> HIDE DEF h
  <2>6. Recurs(h, m + 1, S, a, F)
    BY <2>4, <2>5 DEF Recurs
  <2> QED BY <2>6
<1> HIDE DEF T
<1>3. \A m \in Nat : m \in T
  BY <1>1, <1>2, NatSetInduction
<1> QED BY <1>3 DEF T

-----------------------------------------------------------------------------
(* Numbers. *)

(* Multiples, which SMT does not see through by itself. *)
LEMMA MultipleFacts ==
  ASSUME NEW n \in Nat, NEW w \in Nat \ {0}
  PROVE  /\ n * w \in Nat /\ (n * w) \div w = n
         /\ \A k \in 1 .. n : k * w = (k - 1) * w + w /\ (k - 1) * w \in Nat /\ k * w <= n * w
<1>1. n * w \in Nat
  OBVIOUS
<1>2. \A a, b \in Nat : a <= b => a * w <= b * w
  OBVIOUS
<1> DEFINE q == (n * w) \div w
<1>3. q \in Nat /\ q * w <= n * w /\ n * w < (q + 1) * w
  BY <1>1
<1> HIDE DEF q
<1>4. ~(q < n)
  <2> SUFFICES ASSUME q < n PROVE FALSE
    OBVIOUS
  <2>1. q + 1 \in Nat /\ q + 1 <= n
    BY <1>3
  <2>2. (q + 1) * w <= n * w
    BY <1>2, <2>1
  <2> QED BY <1>1, <1>3, <2>1, <2>2
<1>5. ~(n < q)
  <2> SUFFICES ASSUME n < q PROVE FALSE
    OBVIOUS
  <2>1. n + 1 \in Nat /\ n + 1 <= q
    BY <1>3
  <2>2. (n + 1) * w <= q * w
    BY <1>2, <1>3, <2>1
  <2>3. (n + 1) * w = n * w + w
    OBVIOUS
  <2> QED BY <1>1, <1>3, <2>2, <2>3
<1>6. q = n
  BY <1>3, <1>4, <1>5
<1>7. ASSUME NEW k \in 1 .. n
      PROVE  k * w = (k - 1) * w + w /\ (k - 1) * w \in Nat /\ k * w <= n * w
  <2>1. k \in Nat /\ k - 1 \in Nat /\ k <= n
    OBVIOUS
  <2> QED BY <1>2, <2>1
<1> QED BY <1>1, <1>6, <1>7 DEF q

-----------------------------------------------------------------------------
(* Sequences. *)

LEMMA FunctionIsSequence ==
  ASSUME NEW S, NEW n \in Nat, NEW f \in [1 .. n -> S]
  PROVE  f \in Seq(S) /\ Len(f) = n
<1>1. f \in Seq(S)
  BY SeqDef
<1>2. f = [i \in 1 .. n |-> f[i]]
  OBVIOUS
<1>3. Len(f) = n
  BY <1>2
<1> QED BY <1>1, <1>3

(* Every set of numbers up to a bound has a greatest one, if any. *)
LEMMA GreatestNumber ==
  ASSUME NEW N \in Nat, NEW T \in SUBSET (1 .. N), T # {}
  PROVE  \E m \in T : \A k \in T : m >= k
<1> DEFINE U == {N - k : k \in T}
<1>1. U \in SUBSET Nat /\ U # {}
  <2>1. \A k \in T : N - k \in Nat
    OBVIOUS
  <2> QED BY <2>1
<1> HIDE DEF U
<1>2. PICK u \in U : \A v \in U : u <= v
  BY <1>1, LeastNatural
<1>3. PICK m \in T : u = N - m
  BY <1>2 DEF U
<1>4. ASSUME NEW k \in T PROVE m >= k
  <2>1. u <= N - k
    BY <1>2 DEF U
  <2>2. k \in 1 .. N /\ m \in 1 .. N
    OBVIOUS
  <2> QED BY <1>3, <2>1, <2>2
<1> QED BY <1>4

(* Where the parts of a sequence of sequences begin when they are joined. *)
AreOffsets(o, parts) ==
  /\ o \in [0 .. Len(parts) -> Nat]
  /\ o[0] = 0
  /\ \A t \in 1 .. Len(parts) : o[t] = o[t - 1] + Len(parts[t])

LEMMA OffsetsExist ==
  ASSUME NEW S, NEW parts \in Seq(Seq(S))
  PROVE  \E o : AreOffsets(o, parts)
<1> DEFINE N == Len(parts)
           F == [x \in Nat \X Nat |-> IF x[2] \in 1 .. N THEN x[1] + Len(parts[x[2]]) ELSE x[1]]
<1>1. N \in Nat /\ \A t \in 1 .. N : Len(parts[t]) \in Nat
  <2>1. N \in Nat /\ \A t \in 1 .. N : parts[t] \in Seq(S)
    BY LenProperties, ElementOfSeq
  <2> QED BY <2>1, LenProperties
<1>2. F \in [Nat \X Nat -> Nat]
  <2> HIDE DEF N
  <2> QED BY <1>1
<1>3. PICK o : Recurs(o, N, Nat, 0, F)
  <2> HIDE DEF F, N
  <2> QED BY <1>1, <1>2, RecursionExists
<1>4. o \in [0 .. N -> Nat] /\ o[0] = 0 /\ \A t \in 1 .. N : o[t] = F[<<o[t - 1], t>>]
  BY <1>3 DEF Recurs
<1>5. ASSUME NEW t \in 1 .. N PROVE o[t] = o[t - 1] + Len(parts[t])
  <2>1. t - 1 \in 0 .. N /\ t \in Nat
    BY <1>1
  <2>2. o[t - 1] \in Nat
    BY <1>4, <2>1
  <2>3. F[<<o[t - 1], t>>] = o[t - 1] + Len(parts[t])
    <3> HIDE DEF N
    <3> QED BY <2>1, <2>2, <1>5
  <2> HIDE DEF F
  <2> QED BY <1>4, <2>3
<1> QED BY <1>4, <1>5 DEF AreOffsets

(* Every place up to the end is in one of the parts. *)
LEMMA OffsetsCover ==
  ASSUME NEW S, NEW parts \in Seq(Seq(S)), NEW o, AreOffsets(o, parts)
  PROVE  \A t \in 0 .. Len(parts) : \A n \in 1 .. o[t] :
           \E u \in 1 .. t : \E k \in 1 .. Len(parts[u]) : n = o[u - 1] + k
<1> DEFINE N == Len(parts)
           Covered(t) == \A n \in 1 .. o[t] :
                           \E u \in 1 .. t : \E k \in 1 .. Len(parts[u]) : n = o[u - 1] + k
           T == {t \in 0 .. N : Covered(t)}
<1>1. N \in Nat /\ \A t \in 1 .. N : Len(parts[t]) \in Nat
  <2>1. N \in Nat /\ \A t \in 1 .. N : parts[t] \in Seq(S)
    BY LenProperties, ElementOfSeq
  <2> QED BY <2>1, LenProperties
<1>2. /\ o \in [0 .. N -> Nat] /\ o[0] = 0
      /\ \A t \in 1 .. N : o[t] = o[t - 1] + Len(parts[t])
  BY DEF AreOffsets
<1> HIDE DEF N
<1>3. 0 \in T
  BY <1>1, <1>2
<1>4. ASSUME NEW t \in 0 .. (N - 1), t \in T PROVE t + 1 \in T
  <2>1. /\ t + 1 \in 1 .. N /\ t + 1 \in 0 .. N /\ t \in 0 .. N /\ (t + 1) - 1 = t
        /\ o[t] \in Nat
    BY <1>1, <1>2
  <2>2. o[t + 1] = o[t] + Len(parts[t + 1]) /\ Len(parts[t + 1]) \in Nat
    BY <1>1, <1>2, <2>1
  <2> SUFFICES ASSUME NEW n \in 1 .. o[t + 1]
               PROVE  \E u \in 1 .. (t + 1) : \E k \in 1 .. Len(parts[u]) : n = o[u - 1] + k
    BY <2>1
  <2>3. CASE n <= o[t]
    <3>1. n \in 1 .. o[t]
      BY <2>1, <2>3
    <3>2. PICK u \in 1 .. t : \E k \in 1 .. Len(parts[u]) : n = o[u - 1] + k
      BY <1>4, <3>1
    <3>3. u \in 1 .. (t + 1)
      BY <2>1
    <3> QED BY <3>2, <3>3
  <2>4. CASE n > o[t]
    <3>1. n - o[t] \in 1 .. Len(parts[t + 1]) /\ n = o[t] + (n - o[t])
      BY <2>1, <2>2, <2>4
    <3>2. t + 1 \in 1 .. (t + 1) /\ o[(t + 1) - 1] = o[t]
      BY <2>1
    <3> QED BY <3>1, <3>2
  <2> QED BY <2>1, <2>3, <2>4
<1> HIDE DEF T
<1>5. \A t \in 0 .. N : t \in T
  BY <1>1, <1>3, <1>4, BoundedInduction
<1> QED BY <1>5 DEF T, N

(* What is at each place when the parts are joined. *)
LEMMA FlattenSteps ==
  ASSUME NEW S, NEW parts \in Seq(Seq(S)), Len(parts) > 0
  PROVE  \E g \in [1 .. Len(parts) -> Seq(S)] :
           /\ FlattenSeq(parts) = g[Len(parts)]
           /\ g[1] = parts[1]
           /\ \A t \in 2 .. Len(parts) : g[t] = g[t - 1] \o parts[t]
<1> DEFINE N == Len(parts)
           F == [x \in Seq(S) \X Nat |->
                  IF x[2] = 1 THEN parts[1]
                  ELSE IF x[2] \in 1 .. N THEN x[1] \o parts[x[2]] ELSE x[1]]
           IsJoin(h) == h = [i \in 1 .. N |-> IF i = 1 THEN parts[i] ELSE h[i - 1] \o parts[i]]
<1>1. N \in Nat /\ 1 \in 1 .. N /\ \A t \in 1 .. N : parts[t] \in Seq(S)
  BY LenProperties, ElementOfSeq
<1>2. F \in [Seq(S) \X Nat -> Seq(S)]
  <2> HIDE DEF N
  <2>1. ASSUME NEW x \in Seq(S) \X Nat PROVE F[x] \in Seq(S)
    <3>1. CASE x[2] = 1
      BY <1>1, <3>1
    <3>2. CASE x[2] # 1 /\ x[2] \in 1 .. N
      <4>1. x[1] \o parts[x[2]] \in Seq(S)
        BY <1>1, <3>2, ConcatProperties
      <4> QED BY <3>2, <4>1
    <3>3. CASE x[2] # 1 /\ x[2] \notin 1 .. N
      BY <3>3
    <3> QED BY <3>1, <3>2, <3>3
  <2> QED BY <2>1
<1>3. << >> \in Seq(S)
  BY EmptySeq
<1>4. PICK g : Recurs(g, N, Seq(S), << >>, F)
  <2> HIDE DEF F, N
  <2> QED BY <1>1, <1>2, <1>3, RecursionExists
<1>5. g \in [0 .. N -> Seq(S)] /\ \A t \in 1 .. N : g[t] = F[<<g[t - 1], t>>]
  BY <1>4 DEF Recurs
<1>6. ASSUME NEW t \in 1 .. N
      PROVE  g[t] = IF t = 1 THEN parts[t] ELSE g[t - 1] \o parts[t]
  <2>1. t - 1 \in 0 .. N /\ t \in Nat
    BY <1>1
  <2>2. <<g[t - 1], t>> \in Seq(S) \X Nat
    BY <1>5, <2>1
  <2> HIDE DEF N
  <2>3. F[<<g[t - 1], t>>] = IF t = 1 THEN parts[t] ELSE g[t - 1] \o parts[t]
    BY <2>2, <1>6
  <2> HIDE DEF F
  <2> QED BY <1>5, <2>3
<1> DEFINE h == [i \in 1 .. N |-> g[i]]
<1>7. IsJoin(h)
  <2>1. ASSUME NEW i \in 1 .. N
        PROVE  h[i] = IF i = 1 THEN parts[i] ELSE h[i - 1] \o parts[i]
    <3>1. CASE i = 1
      BY <1>6, <3>1
    <3>2. CASE i # 1
      <4>1. i - 1 \in 1 .. N
        BY <3>2, <1>1
      <4> QED BY <1>6, <3>2, <4>1
    <3> QED BY <3>1, <3>2
  <2> QED BY <2>1
<1> DEFINE flatten == CHOOSE f : IsJoin(f)
<1>8. IsJoin(flatten)
  <2> HIDE DEF IsJoin, h
  <2> QED BY <1>7
<1>9. FlattenSeq(parts) = flatten[N]
  BY DEF FlattenSeq
<1>10. \A i \in 1 .. N : flatten[i] = IF i = 1 THEN parts[i] ELSE flatten[i - 1] \o parts[i]
  <2> HIDE DEF N, flatten
  <2>1. flatten = [i \in 1 .. N |-> IF i = 1 THEN parts[i] ELSE flatten[i - 1] \o parts[i]]
    BY <1>8
  <2> QED BY <2>1, Zenon
<1>11. /\ flatten[1] = parts[1]
       /\ \A t \in 2 .. N : flatten[t] = flatten[t - 1] \o parts[t]
  <2> HIDE DEF N, flatten
  <2>1. \A t \in 2 .. N : t \in 1 .. N /\ t # 1
    BY <1>1
  <2> QED BY <1>1, <1>10, <2>1
<1>12. \A t \in 1 .. N : flatten[t] \in Seq(S)
  <2> DEFINE T == {t \in 0 .. N : t # 0 => flatten[t] \in Seq(S)}
  <2> HIDE DEF N, flatten
  <2>1. 0 \in T
    BY <1>1
  <2>2. ASSUME NEW t \in 0 .. (N - 1), t \in T PROVE t + 1 \in T
    <3>1. t + 1 \in 1 .. N /\ t + 1 \in 0 .. N /\ (t + 1) - 1 = t
      BY <1>1
    <3>2. CASE t = 0
      BY <3>1, <3>2, <1>1, <1>11
    <3>3. CASE t # 0
      <4>1. t + 1 \in 2 .. N /\ flatten[t] \in Seq(S)
        BY <3>3, <2>2, <1>1
      <4>2. flatten[t + 1] = flatten[t] \o parts[t + 1]
        BY <3>1, <4>1, <1>11
      <4>3. flatten[t] \o parts[t + 1] \in Seq(S)
        BY <1>1, <3>1, <4>1, ConcatProperties
      <4> QED BY <3>1, <4>2, <4>3
    <3> QED BY <3>2, <3>3
  <2> HIDE DEF T
  <2>3. \A t \in 0 .. N : t \in T
    BY <1>1, <2>1, <2>2, BoundedInduction
  <2> QED BY <2>3, <1>1 DEF T
<1>13. flatten \in [1 .. N -> Seq(S)]
  <2> HIDE DEF N, flatten
  <2> QED BY <1>8, <1>12
<1> HIDE DEF flatten
<1> QED BY <1>9, <1>11, <1>13

LEMMA FlattenFacts ==
  ASSUME NEW S, NEW parts \in Seq(Seq(S)), NEW o, AreOffsets(o, parts)
  PROVE  /\ FlattenSeq(parts) \in Seq(S)
         /\ Len(FlattenSeq(parts)) = o[Len(parts)]
         /\ \A t \in 1 .. Len(parts) : \A k \in 1 .. Len(parts[t]) :
              /\ o[t - 1] + k \in 1 .. o[Len(parts)]
              /\ FlattenSeq(parts)[o[t - 1] + k] = parts[t][k]
<1> DEFINE N == Len(parts)
<1>1. N \in Nat /\ \A t \in 1 .. N : parts[t] \in Seq(S) /\ Len(parts[t]) \in Nat
  <2>1. N \in Nat /\ \A t \in 1 .. N : parts[t] \in Seq(S)
    BY LenProperties, ElementOfSeq
  <2> QED BY <2>1, LenProperties
<1>2. /\ o \in [0 .. N -> Nat] /\ o[0] = 0
      /\ \A t \in 1 .. N : o[t] = o[t - 1] + Len(parts[t])
  BY DEF AreOffsets
<1>3. CASE N = 0
  <2>1. parts = << >>
    BY <1>3, EmptySeq
  <2>2. FlattenSeq(parts) = << >>
    BY <1>3, <2>1 DEF FlattenSeq
  <2>3. << >> \in Seq(S) /\ Len(<< >>) = 0
    BY EmptySeq
  <2> QED BY <1>2, <1>3, <2>2, <2>3
<1>4. CASE N > 0
  <2>1. PICK g \in [1 .. N -> Seq(S)] :
          /\ FlattenSeq(parts) = g[N]
          /\ g[1] = parts[1]
          /\ \A t \in 2 .. N : g[t] = g[t - 1] \o parts[t]
    BY <1>4, FlattenSteps
  <2> DEFINE Joined(n) ==
               /\ Len(g[n]) = o[n]
               /\ \A t \in 1 .. n : \A k \in 1 .. Len(parts[t]) :
                    o[t - 1] + k \in 1 .. o[n] /\ g[n][o[t - 1] + k] = parts[t][k]
             T == {n \in 0 .. N : n # 0 => Joined(n)}
  <2> HIDE DEF N
  <2>2. 0 \in T
    BY <1>1
  <2>3. ASSUME NEW n \in 0 .. (N - 1), n \in T PROVE n + 1 \in T
    <3>1. n + 1 \in 1 .. N /\ n + 1 \in 0 .. N /\ n \in 0 .. N /\ (n + 1) - 1 = n
      BY <1>1
    <3>2. o[n] \in Nat /\ o[n + 1] = o[n] + Len(parts[n + 1]) /\ Len(parts[n + 1]) \in Nat
      BY <1>1, <1>2, <3>1
    <3>3. CASE n = 0
      <4>1. o[1] = Len(parts[1]) /\ Len(g[1]) = o[1] /\ o[0] = 0 /\ Len(parts[1]) \in Nat
        BY <1>2, <2>1, <3>2, <3>3
      <4>2. ASSUME NEW t \in 1 .. 1, NEW k \in 1 .. Len(parts[t])
            PROVE  o[t - 1] + k \in 1 .. o[1] /\ g[1][o[t - 1] + k] = parts[t][k]
        BY <2>1, <4>1
      <4> QED BY <3>1, <3>3, <4>1, <4>2
    <3>4. CASE n # 0
      <4>1. Joined(n) /\ n \in 1 .. N /\ n + 1 \in 2 .. N
        <5>1. Joined(n)
          <6> HIDE DEF Joined
          <6> QED BY <2>3, <3>4
        <5>2. n \in 1 .. N /\ n + 1 \in 2 .. N
          BY <3>1, <3>4, <1>1
        <5> QED BY <5>1, <5>2
      <4>2. g[n + 1] = g[n] \o parts[n + 1] /\ g[n] \in Seq(S) /\ parts[n + 1] \in Seq(S)
        BY <1>1, <2>1, <3>1, <4>1
      <4>3. /\ Len(g[n + 1]) = Len(g[n]) + Len(parts[n + 1])
            /\ \A i \in 1 .. (Len(g[n]) + Len(parts[n + 1])) :
                 g[n + 1][i] = IF i <= Len(g[n]) THEN g[n][i] ELSE parts[n + 1][i - Len(g[n])]
        <5> DEFINE a == g[n]
                   b == parts[n + 1]
        <5> HIDE DEF a, b
        <5>1. a \in Seq(S) /\ b \in Seq(S) /\ g[n + 1] = a \o b
          BY <4>2 DEF a, b
        <5>2. /\ Len(a \o b) = Len(a) + Len(b)
              /\ \A i \in 1 .. (Len(a) + Len(b)) :
                   (a \o b)[i] = IF i <= Len(a) THEN a[i] ELSE b[i - Len(a)]
          BY <5>1, ConcatProperties
        <5> QED BY <5>1, <5>2 DEF a, b
      <4>4. /\ Len(g[n + 1]) = o[n + 1]
            /\ \A i \in 1 .. o[n + 1] :
                 g[n + 1][i] = IF i <= o[n] THEN g[n][i] ELSE parts[n + 1][i - o[n]]
        BY <3>2, <4>1, <4>3
      <4>5. ASSUME NEW t \in 1 .. (n + 1), NEW k \in 1 .. Len(parts[t])
            PROVE  o[t - 1] + k \in 1 .. o[n + 1] /\ g[n + 1][o[t - 1] + k] = parts[t][k]
        <5>1. CASE t = n + 1
          <6>1. /\ o[t - 1] = o[n] /\ o[n] + k \in 1 .. o[n + 1] /\ ~(o[n] + k <= o[n])
                /\ (o[n] + k) - o[n] = k
            BY <3>1, <3>2, <4>5, <5>1
          <6> QED BY <4>4, <5>1, <6>1
        <5>2. CASE t \in 1 .. n
          <6>1. o[t - 1] + k \in 1 .. o[n] /\ g[n][o[t - 1] + k] = parts[t][k]
            BY <4>1, <4>5, <5>2
          <6>2. o[t - 1] + k \in 1 .. o[n + 1] /\ o[t - 1] + k <= o[n]
            BY <3>2, <6>1, SMTT(30)
          <6> QED BY <4>4, <6>1, <6>2
        <5> QED BY <3>1, <5>1, <5>2
      <4> QED BY <3>1, <4>4, <4>5
    <3> QED BY <3>3, <3>4
  <2> HIDE DEF T
  <2>4. \A n \in 0 .. N : n \in T
    BY <1>1, <2>2, <2>3, BoundedInduction
  <2>5. Joined(N)
    BY <1>1, <1>4, <2>4 DEF T
  <2>6. N \in 1 .. N
    BY <1>1, <1>4
  <2> QED BY <2>1, <2>5, <2>6 DEF N
<1> QED BY <1>1, <1>3, <1>4

(* The sequence of the first values of a function. *)
LEMMA AppendNext ==
  ASSUME NEW M \in Nat, NEW S, NEW f \in [1 .. M -> S], NEW m \in 0 .. (M - 1)
  PROVE  Append([k \in 1 .. m |-> f[k]], f[m + 1]) = [k \in 1 .. (m + 1) |-> f[k]]
<1> DEFINE a == [k \in 1 .. m |-> f[k]]
           b == [k \in 1 .. (m + 1) |-> f[k]]
<1>1. m \in Nat /\ m + 1 \in Nat /\ m + 1 \in 1 .. M
  OBVIOUS
<1>2. a \in [1 .. m -> S] /\ b \in [1 .. (m + 1) -> S] /\ f[m + 1] \in S
  <2>1. \A k \in 1 .. (m + 1) : k \in 1 .. M
    BY <1>1
  <2> QED BY <1>1, <2>1
<1>3. a \in Seq(S) /\ Len(a) = m /\ b \in Seq(S) /\ Len(b) = m + 1
  <2> HIDE DEF a, b
  <2> QED BY <1>1, <1>2, FunctionIsSequence
<1>4. /\ Append(a, f[m + 1]) \in Seq(S) /\ Len(Append(a, f[m + 1])) = m + 1
      /\ \A k \in 1 .. m : Append(a, f[m + 1])[k] = a[k]
      /\ Append(a, f[m + 1])[m + 1] = f[m + 1]
  <2> HIDE DEF a
  <2> QED BY <1>2, <1>3, AppendProperties
<1>5. ASSUME NEW k \in 1 .. (m + 1) PROVE Append(a, f[m + 1])[k] = b[k]
  <2>1. CASE k = m + 1
    BY <1>4, <2>1
  <2>2. CASE k \in 1 .. m
    <3>1. a[k] = f[k] /\ b[k] = f[k]
      BY <2>2
    <3> HIDE DEF a, b
    <3> QED BY <1>4, <2>2, <3>1
  <2> QED BY <2>1, <2>2
<1> HIDE DEF a, b
<1>6. Append(a, f[m + 1]) = b
  BY <1>3, <1>4, <1>5, SeqEqual
<1> QED BY <1>6 DEF a, b

(* The sequence s ends the sequence t. *)
IsTail(s, t) == Len(s) <= Len(t) /\ \A k \in 1 .. Len(s) : s[k] = t[Len(t) - Len(s) + k]

LEMMA TailIsSuffix ==
  ASSUME NEW S, NEW s \in Seq(S), NEW t \in Seq(S), IsTail(s, t)
  PROVE  IsSuffix(s, t)
<1> DEFINE m == Len(s)
           n == Len(t)
           a == Reverse(s)
           b == Reverse(t)
<1>1. m \in Nat /\ n \in Nat /\ m <= n
  BY LenProperties DEF IsTail
<1>2. \A k \in 1 .. m : s[k] = t[n - m + k]
  BY DEF IsTail
<1>3. (\A k \in 1 .. m : s[k] \in S) /\ (\A k \in 1 .. n : t[k] \in S)
  BY ElementOfSeq
<1>4. a = [i \in 1 .. m |-> s[(m - i) + 1]] /\ b = [i \in 1 .. n |-> t[(n - i) + 1]]
  BY DEF Reverse
<1> HIDE DEF m, n, a, b
<1>5. a \in [1 .. m -> S] /\ b \in [1 .. n -> S]
  <2>1. \A i \in 1 .. m : (m - i) + 1 \in 1 .. m
    BY <1>1
  <2>2. \A i \in 1 .. n : (n - i) + 1 \in 1 .. n
    BY <1>1
  <2> QED BY <1>3, <1>4, <2>1, <2>2
<1>6. a \in Seq(S) /\ Len(a) = m /\ b \in Seq(S) /\ Len(b) = n
  BY <1>1, <1>5, FunctionIsSequence
<1>7. ASSUME NEW i \in 1 .. m PROVE a[i] = b[i]
  <2>1. i \in 1 .. n /\ (m - i) + 1 \in 1 .. m /\ n - m + ((m - i) + 1) = (n - i) + 1
    BY <1>1
  <2> QED BY <1>2, <1>4, <2>1
<1> DEFINE front == SubSeq(b, 1, m)
           same == SubSeq(a, 1, m)
<1>8. /\ front \in Seq(S) /\ Len(front) = m /\ \A i \in 1 .. m : front[i] = b[i]
  <2>1. \A i \in 1 .. m : b[i] \in S
    <3>1. \A i \in 1 .. m : i \in 1 .. n
      BY <1>1
    <3> QED BY <1>5, <3>1
  <2>2. 1 \in Int /\ m \in Int
    BY <1>1
  <2>3. /\ front \in Seq(S)
        /\ Len(front) = (IF 1 <= m THEN m - 1 + 1 ELSE 0)
        /\ \A i \in 1 .. (m - 1 + 1) : front[i] = b[1 + i - 1]
    BY <2>1, <2>2, SubSeqProperties
  <2>4. /\ (IF 1 <= m THEN m - 1 + 1 ELSE 0) = m /\ m - 1 + 1 = m
        /\ \A i \in 1 .. m : 1 + i - 1 = i
    BY <1>1
  <2> HIDE DEF front
  <2> QED BY <2>3, <2>4
<1>9. /\ same \in Seq(S) /\ Len(same) = m /\ \A i \in 1 .. m : same[i] = a[i]
  <2>1. \A i \in 1 .. m : a[i] \in S
    BY <1>5
  <2>2. 1 \in Int /\ m \in Int
    BY <1>1
  <2>3. /\ same \in Seq(S)
        /\ Len(same) = (IF 1 <= m THEN m - 1 + 1 ELSE 0)
        /\ \A i \in 1 .. (m - 1 + 1) : same[i] = a[1 + i - 1]
    BY <2>1, <2>2, SubSeqProperties
  <2>4. /\ (IF 1 <= m THEN m - 1 + 1 ELSE 0) = m /\ m - 1 + 1 = m
        /\ \A i \in 1 .. m : 1 + i - 1 = i
    BY <1>1
  <2> HIDE DEF same
  <2> QED BY <2>3, <2>4
<1> HIDE DEF front, same
<1>10. same = front
  <2>1. \A i \in 1 .. m : same[i] = front[i]
    BY <1>7, <1>8, <1>9
  <2> QED BY <1>8, <1>9, <2>1, SeqEqual
<1>11. IsPrefix(a, b)
  BY <1>1, <1>6, <1>10 DEF IsPrefix, same, front
<1> QED BY <1>11 DEF IsSuffix, a, b

LEMMA FrontOfAppend ==
  ASSUME NEW S, NEW s \in Seq(S), NEW x \in S
  PROVE  /\ Append(s, x) \in Seq(S) /\ Len(Append(s, x)) = Len(s) + 1
         /\ Front(Append(s, x)) = s /\ Last(Append(s, x)) = x
         /\ \A k \in 1 .. Len(s) : Append(s, x)[k] = s[k]
<1> DEFINE a == Append(s, x)
           n == Len(s)
           f == SubSeq(a, 1, n)
<1>1. /\ a \in Seq(S) /\ Len(a) = n + 1 /\ a[n + 1] = x
      /\ (\A k \in 1 .. n : a[k] = s[k]) /\ n \in Nat
  BY AppendProperties, LenProperties
<1>2. \A k \in 1 .. n : s[k] \in S
  BY ElementOfSeq
<1> HIDE DEF a, n
<1>3. /\ f \in Seq(S) /\ Len(f) = n /\ \A k \in 1 .. n : f[k] = a[k]
  <2>1. \A k \in 1 .. n : a[k] \in S
    BY <1>1, <1>2
  <2>2. 1 \in Int /\ n \in Int
    BY <1>1
  <2>3. /\ f \in Seq(S)
        /\ Len(f) = (IF 1 <= n THEN n - 1 + 1 ELSE 0)
        /\ \A i \in 1 .. (n - 1 + 1) : f[i] = a[1 + i - 1]
    BY <2>1, <2>2, SubSeqProperties
  <2>4. /\ (IF 1 <= n THEN n - 1 + 1 ELSE 0) = n /\ n - 1 + 1 = n
        /\ \A k \in 1 .. n : 1 + k - 1 = k
    BY <1>1
  <2> HIDE DEF f
  <2> QED BY <2>3, <2>4
<1> HIDE DEF f
<1>4. f = s
  <2>1. Len(f) = Len(s) /\ \A k \in 1 .. Len(f) : f[k] = s[k]
    BY <1>1, <1>3 DEF n
  <2> QED BY <1>3, <2>1, SeqEqual
<1>5. (n + 1) - 1 = n
  BY <1>1
<1>6. Front(a) = s
  BY <1>1, <1>4, <1>5 DEF Front, f
<1>7. Last(a) = x
  BY <1>1 DEF Last
<1> QED BY <1>1, <1>6, <1>7 DEF a, n
=============================================================================
