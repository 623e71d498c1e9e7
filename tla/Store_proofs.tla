---------------------------- MODULE Store_proofs ----------------------------
(***************************************************************************)
(* Proofs about the store, for all callers, namespaces, programs and       *)
(* arrays.  What set does with an array and an evaluation with its         *)
(* accesses are recursions over data: each has a lemma with its equations, *)
(* and the rest is by induction with the lemmas of Induction.              *)
(***************************************************************************)
EXTENDS Store, Induction, SequenceTheorems

Stores == [Key -> Value]
Caches == [Key -> Value \cup {Missing}]
Evaluation == [namespace : FullyQualified, overlay : Overlays, program : Programs, kv : Caches]
SetEvent == [namespace : FullyQualified, key : Key, value : Value]

LEMMA ValueFacts == 0 \in Value /\ Missing \notin Value /\ Modulus \in Nat /\ Modulus > 0
  BY ModulusAssumption DEF Value, Missing

LEMMA QualifyType ==
  ASSUME NEW n \in Namespace, NEW c \in Caller
  PROVE  Qualify(n, c) \in FullyQualified
  BY DEF Qualify, FullyQualified

-----------------------------------------------------------------------------
(* What set stores. *)

(* The n-th pair of an array. *)
LEMMA PairType ==
  ASSUME NEW kvs, IsKeyValues(kvs), NEW n \in 1 .. (Len(kvs) \div 2)
  PROVE  kvs[2 * n - 1] \in Key /\ kvs[2 * n] \in Value
  BY DEF IsKeyValues

LEMMA PairsType ==
  ASSUME NEW kvs, IsKeyValues(kvs)
  PROVE  Len(kvs) \in Nat /\ Len(kvs) \div 2 \in Nat
<1>1. Len(kvs) \in Nat
  BY LenProperties DEF IsKeyValues
<1> QED BY <1>1

(* The loop of set, turn by turn.  It runs over the cache too, for the     *)
(* overlay, where a key may be missing.                                     *)
LEMMA StoredSteps ==
  ASSUME NEW kvs, IsKeyValues(kvs), NEW stored \in Caches
  PROVE  \E state \in [0 .. (Len(kvs) \div 2) -> Caches] :
           /\ Stored(kvs, stored) = state[Len(kvs) \div 2]
           /\ state[0] = stored
           /\ \A n \in 1 .. (Len(kvs) \div 2) :
                state[n] = [state[n - 1] EXCEPT ![kvs[2 * n - 1]] = kvs[2 * n]]
<1> DEFINE N == Len(kvs) \div 2
           Turn(before, n) == [before EXCEPT ![kvs[2 * n - 1]] = kvs[2 * n]]
           F == [x \in Caches \X Nat |-> IF x[2] \in 1 .. N THEN Turn(x[1], x[2]) ELSE x[1]]
           IsLoop(g) == g = [n \in 0 .. N |-> IF n = 0 THEN stored ELSE Turn(g[n - 1], n)]
<1>1. N \in Nat
  BY PairsType
<1>2. ASSUME NEW before \in Caches, NEW n \in 1 .. N PROVE Turn(before, n) \in Caches
  BY <1>2, PairType DEF Caches
<1>3. F \in [Caches \X Nat -> Caches]
  BY <1>2
<1>4. PICK g : Recurs(g, N, Caches, stored, F)
  <2> HIDE DEF N, F
  <2> QED BY <1>1, <1>3, RecursionExists
<1>5. ASSUME NEW n \in 1 .. N PROVE g[n] = Turn(g[n - 1], n)
  <2>1. n - 1 \in 0 .. N /\ n \in Nat
    BY <1>1
  <2>2. <<g[n - 1], n>> \in Caches \X Nat
    BY <2>1, <1>4 DEF Recurs
  <2> HIDE DEF Turn, N
  <2> QED BY <1>4, <1>5, <2>2 DEF Recurs
<1>6. IsLoop(g)
  <2> HIDE DEF Turn, N, F
  <2> SUFFICES \A n \in 0 .. N : g[n] = IF n = 0 THEN stored ELSE Turn(g[n - 1], n)
    BY <1>4 DEF Recurs
  <2> QED BY <1>1, <1>4, <1>5 DEF Recurs
<1> DEFINE state == CHOOSE h : IsLoop(h)
<1>7. IsLoop(state)
  <2> HIDE DEF IsLoop
  <2> QED BY <1>6
<1>8. Stored(kvs, stored) = state[N]
  BY DEF Stored
<1>9. state[0] = stored /\ \A n \in 1 .. N : state[n] = Turn(state[n - 1], n)
  <2> HIDE DEF Turn, N, state
  <2> QED BY <1>1, <1>7
<1>10. \A n \in 0 .. N : state[n] \in Caches
  <2> DEFINE T == {n \in 0 .. N : state[n] \in Caches}
  <2> HIDE DEF state, Turn, N
  <2>1. 0 \in T
    BY <1>1, <1>9
  <2>2. ASSUME NEW n \in 0 .. (N - 1), n \in T PROVE n + 1 \in T
    <3>1. n + 1 \in 1 .. N /\ (n + 1) - 1 = n
      BY <1>1
    <3> QED BY <1>2, <1>9, <2>2, <3>1
  <2> HIDE DEF T
  <2>3. \A n \in 0 .. N : n \in T
    BY <1>1, <2>1, <2>2, BoundedInduction
  <2> QED BY <2>3 DEF T
<1>11. state \in [0 .. N -> Caches]
  <2> HIDE DEF state, Turn, N
  <2> QED BY <1>7, <1>10
<1> HIDE DEF state
<1> QED BY <1>8, <1>9, <1>11

(* For a key, what the last pair of the key says, or what was there before  *)
(* when no pair has the key.                                                *)
AsPairsSay(kvs, key, before, after) ==
  LET N == Len(kvs) \div 2 IN
    \/ /\ after = before
       /\ \A n \in 1 .. N : kvs[2 * n - 1] # key
    \/ \E n \in 1 .. N :
         /\ kvs[2 * n - 1] = key
         /\ after = kvs[2 * n]
         /\ \A m \in 1 .. N : kvs[2 * m - 1] = key => m <= n

LEMMA LastPairStays ==
  ASSUME NEW kvs, IsKeyValues(kvs), NEW stored \in Caches, NEW key \in Key
  PROVE  AsPairsSay(kvs, key, stored[key], Stored(kvs, stored)[key])
<1> DEFINE N == Len(kvs) \div 2
<1>1. N \in Nat
  BY PairsType
<1>2. PICK state \in [0 .. N -> Caches] :
        /\ Stored(kvs, stored) = state[N]
        /\ state[0] = stored
        /\ \A n \in 1 .. N : state[n] = [state[n - 1] EXCEPT ![kvs[2 * n - 1]] = kvs[2 * n]]
  BY StoredSteps
<1> DEFINE Holds(t) ==
             \/ /\ state[t][key] = stored[key]
                /\ \A n \in 1 .. t : kvs[2 * n - 1] # key
             \/ \E n \in 1 .. t :
                  /\ kvs[2 * n - 1] = key
                  /\ state[t][key] = kvs[2 * n]
                  /\ \A m \in 1 .. t : kvs[2 * m - 1] = key => m <= n
           T == {t \in 0 .. N : Holds(t)}
<1> HIDE DEF N
<1>3. 0 \in T
  BY <1>1, <1>2
<1>4. ASSUME NEW t \in 0 .. (N - 1), t \in T PROVE t + 1 \in T
  <2>1. t + 1 \in 1 .. N /\ (t + 1) - 1 = t /\ t \in 0 .. N /\ t + 1 \in 0 .. N /\ t \in Nat
    BY <1>1
  <2>2. state[t] \in Caches /\ state[t + 1] = [state[t] EXCEPT ![kvs[2 * (t + 1) - 1]] = kvs[2 * (t + 1)]]
    BY <1>2, <2>1
  <2>3. CASE kvs[2 * (t + 1) - 1] = key
    <3>1. state[t + 1][key] = kvs[2 * (t + 1)]
      BY <2>2, <2>3 DEF Caches
    <3>2. Holds(t + 1)
      BY <2>1, <2>3, <3>1
    <3> QED BY <2>1, <3>2
  <2>4. CASE kvs[2 * (t + 1) - 1] # key
    <3>1. state[t + 1][key] = state[t][key]
      BY <2>2, <2>4 DEF Caches
    <3>2. \A m \in 1 .. (t + 1) : m \in 1 .. t \/ m = t + 1
      BY <2>1
    <3>3. Holds(t)
      BY <1>4
    <3>4. CASE \A n \in 1 .. t : kvs[2 * n - 1] # key
      <4>1. \A n \in 1 .. (t + 1) : kvs[2 * n - 1] # key
        BY <2>4, <3>2, <3>4
      <4>2. state[t][key] = stored[key]
        BY <3>3, <3>4
      <4> QED BY <2>1, <3>1, <4>1, <4>2
    <3>5. CASE \E n \in 1 .. t : kvs[2 * n - 1] = key
      <4>1. PICK n \in 1 .. t : /\ kvs[2 * n - 1] = key
                                /\ state[t][key] = kvs[2 * n]
                                /\ \A m \in 1 .. t : kvs[2 * m - 1] = key => m <= n
        BY <3>3, <3>5
      <4>2. \A m \in 1 .. (t + 1) : kvs[2 * m - 1] = key => m <= n
        BY <2>4, <3>2, <4>1
      <4>3. n \in 1 .. (t + 1)
        BY <2>1
      <4> QED BY <2>1, <3>1, <4>1, <4>2, <4>3
    <3> QED BY <3>4, <3>5
  <2> QED BY <2>3, <2>4
<1> HIDE DEF T
<1>5. \A t \in 0 .. N : t \in T
  BY <1>1, <1>3, <1>4, BoundedInduction
<1>6. Holds(N)
  <2>1. N \in 0 .. N
    BY <1>1
  <2> HIDE DEF Holds
  <2> QED BY <1>5, <2>1 DEF T
<1> QED BY <1>2, <1>6 DEF N, AsPairsSay

LEMMA StoresAreCaches == Stores \subseteq Caches
  BY DEF Stores, Caches

LEMMA StoredCache ==
  ASSUME NEW kvs, IsKeyValues(kvs), NEW stored \in Caches
  PROVE  Stored(kvs, stored) \in Caches
<1>1. Len(kvs) \div 2 \in 0 .. (Len(kvs) \div 2)
  BY PairsType
<1> QED BY <1>1, StoredSteps

LEMMA StoredType ==
  ASSUME NEW kvs, IsKeyValues(kvs), NEW stored \in Stores
  PROVE  Stored(kvs, stored) \in Stores
<1>1. stored \in Caches /\ Stored(kvs, stored) \in Caches
  BY StoresAreCaches, StoredCache
<1>2. ASSUME NEW key \in Key PROVE Stored(kvs, stored)[key] \in Value
  <2>1. \/ Stored(kvs, stored)[key] = stored[key]
        \/ \E n \in 1 .. (Len(kvs) \div 2) : Stored(kvs, stored)[key] = kvs[2 * n]
    <3>1. AsPairsSay(kvs, key, stored[key], Stored(kvs, stored)[key])
      BY <1>1, LastPairStays
    <3> QED BY <3>1 DEF AsPairsSay
  <2> QED BY <2>1, PairType DEF Stores
<1> QED BY <1>1, <1>2 DEF Stores, Caches

(* The cache that an evaluation starts with, over the store, is the store   *)
(* with the pairs of the overlay set in it.                                 *)
Overlay(kv, stored) == [key \in Key |-> IF kv[key] = Missing THEN stored[key] ELSE kv[key]]

LEMMA OverlaidIsStored ==
  ASSUME NEW overlay, IsKeyValues(overlay), NEW stored \in Stores
  PROVE  /\ Overlaid(overlay) \in Caches
         /\ Overlay(Overlaid(overlay), stored) = Stored(overlay, stored)
<1> DEFINE N == Len(overlay) \div 2
<1> PICK none \in Caches : none = [key \in Key |-> Missing]
  BY DEF Caches
<1>1. stored \in Caches
  BY StoresAreCaches
<1>2. Overlaid(overlay) = Stored(overlay, none)
  BY DEF Overlaid
<1> HIDE DEF N
<1>3. ASSUME NEW key \in Key
      PROVE  Overlay(Overlaid(overlay), stored)[key] = Stored(overlay, stored)[key]
  <2> DEFINE kept == Stored(overlay, none)[key]
             left == Stored(overlay, stored)[key]
  <2>1. \/ kept = none[key] /\ \A n \in 1 .. N : overlay[2 * n - 1] # key
        \/ \E n \in 1 .. N : /\ overlay[2 * n - 1] = key
                             /\ kept = overlay[2 * n]
                             /\ \A m \in 1 .. N : overlay[2 * m - 1] = key => m <= n
    <3>1. AsPairsSay(overlay, key, none[key], kept)
      BY LastPairStays
    <3> HIDE DEF kept
    <3> QED BY <3>1 DEF N, AsPairsSay
  <2>2. \/ left = stored[key] /\ \A n \in 1 .. N : overlay[2 * n - 1] # key
        \/ \E n \in 1 .. N : /\ overlay[2 * n - 1] = key
                             /\ left = overlay[2 * n]
                             /\ \A m \in 1 .. N : overlay[2 * m - 1] = key => m <= n
    <3>1. AsPairsSay(overlay, key, stored[key], left)
      BY <1>1, LastPairStays
    <3> HIDE DEF left
    <3> QED BY <3>1 DEF N, AsPairsSay
  <2>3. none[key] = Missing
    OBVIOUS
  <2>4. Overlay(Overlaid(overlay), stored)[key] = IF kept = Missing THEN stored[key] ELSE kept
    BY <1>2 DEF Overlay
  <2> HIDE DEF kept, left
  <2>5. CASE \A n \in 1 .. N : overlay[2 * n - 1] # key
    BY <2>1, <2>2, <2>3, <2>4, <2>5 DEF left
  <2>6. CASE \E n \in 1 .. N : overlay[2 * n - 1] = key
    <3>1. PICK n \in 1 .. N : /\ overlay[2 * n - 1] = key
                             /\ kept = overlay[2 * n]
                             /\ \A l \in 1 .. N : overlay[2 * l - 1] = key => l <= n
      BY <2>1, <2>6
    <3>2. PICK m \in 1 .. N : /\ overlay[2 * m - 1] = key
                             /\ left = overlay[2 * m]
                             /\ \A l \in 1 .. N : overlay[2 * l - 1] = key => l <= m
      BY <2>2, <2>6
    <3>3. n = m
      <4>1. n <= m /\ m <= n
        BY <3>1, <3>2
      <4> QED BY <4>1
    <3>4. overlay[2 * n] \in Value
      BY PairType DEF N
    <3> QED BY <2>4, <3>1, <3>2, <3>3, <3>4, ValueFacts DEF left
  <2> QED BY <2>5, <2>6
<1>4. Overlaid(overlay) \in Caches
  BY <1>2, StoredCache
<1>5. Stored(overlay, stored) \in Stores
  BY StoredType
<1> QED BY <1>3, <1>4, <1>5 DEF Overlay, Stores

-----------------------------------------------------------------------------
(* The array that a cache is returned as. *)

CachedKeys(kv) == {key \in Key : kv[key] # Missing}

(* Keys and values in turn, one pair for each cached key and none besides. *)
LEMMA ArraysType ==
  ASSUME NEW kv \in Caches, NEW kvs \in Arrays(kv)
  PROVE  /\ IsKeyValues(kvs)
         /\ Len(kvs) % 2 = 0
         /\ \A n \in 1 .. (Len(kvs) \div 2) :
              kvs[2 * n - 1] \in CachedKeys(kv) /\ kvs[2 * n] = kv[kvs[2 * n - 1]]
         /\ \A key \in CachedKeys(kv) : \E n \in 1 .. (Len(kvs) \div 2) : kvs[2 * n - 1] = key
<1> DEFINE keys == CachedKeys(kv)
           N == Cardinality(keys)
<1>1. N \in Nat
  <2>1. keys \subseteq Key
    BY DEF CachedKeys
  <2> QED BY <2>1, KeyAssumption, FS_Subset, FS_CardinalityType
<1>2. PICK order \in [1 .. N -> keys] :
        /\ {order[i] : i \in DOMAIN order} = keys
        /\ kvs = [i \in 1 .. (2 * N) |->
                    IF i % 2 = 1 THEN order[(i + 1) \div 2] ELSE kv[order[i \div 2]]]
  BY DEF Arrays, CachedKeys
<1> HIDE DEF N
<1>3. \A i \in 1 .. N : order[i] \in Key /\ kv[order[i]] \in Value /\ order[i] \in keys
  BY <1>2 DEF CachedKeys, Caches
<1>4. \A i \in 1 .. (2 * N) : kvs[i] \in Key \cup Value
  <2> TAKE i \in 1 .. (2 * N)
  <2>1. CASE i % 2 = 1
    <3>1. (i + 1) \div 2 \in 1 .. N
      BY <1>1, <2>1
    <3> QED BY <1>2, <1>3, <2>1, <3>1
  <2>2. CASE i % 2 # 1
    <3>1. i \div 2 \in 1 .. N
      BY <1>1, <2>2
    <3> QED BY <1>2, <1>3, <2>2, <3>1
  <2> QED BY <2>1, <2>2
<1>5. 2 * N \in Nat /\ DOMAIN kvs = 1 .. (2 * N)
  BY <1>1, <1>2
<1>6. kvs \in Seq(Key \cup Value) /\ Len(kvs) = 2 * N
  <2>1. kvs \in [1 .. (2 * N) -> Key \cup Value]
    BY <1>2, <1>4
  <2> QED BY <1>5, <2>1, IsASeq, LenProperties
<1>7. Len(kvs) \div 2 = N /\ Len(kvs) % 2 = 0
  BY <1>1, <1>6
<1>8. \A n \in 1 .. N : kvs[2 * n - 1] = order[n] /\ kvs[2 * n] = kv[order[n]]
  <2> TAKE n \in 1 .. N
  <2>1. /\ 2 * n \in 1 .. (2 * N) /\ 2 * n - 1 \in 1 .. (2 * N)
        /\ (2 * n - 1) % 2 = 1 /\ (2 * n) % 2 = 0
        /\ ((2 * n - 1) + 1) \div 2 = n /\ (2 * n) \div 2 = n
    BY <1>1
  <2>2. kvs[2 * n - 1] = order[n]
    BY <1>2, <2>1
  <2>3. \A i \in 1 .. (2 * N) : i % 2 = 0 => kvs[i] = kv[order[i \div 2]]
    BY <1>2
  <2>4. kvs[2 * n] = kv[order[(2 * n) \div 2]]
    BY <2>1, <2>3
  <2> QED BY <2>1, <2>2, <2>4
<1>9. \A key \in keys : \E n \in 1 .. N : order[n] = key
  BY <1>2
<1>10. IsKeyValues(kvs)
  BY <1>3, <1>6, <1>7, <1>8 DEF IsKeyValues
<1>11. \A n \in 1 .. N : kvs[2 * n - 1] \in keys /\ kvs[2 * n] = kv[kvs[2 * n - 1]]
  BY <1>3, <1>8
<1>12. \A key \in keys : \E n \in 1 .. N : kvs[2 * n - 1] = key
  BY <1>8, <1>9
<1> QED BY <1>7, <1>10, <1>11, <1>12

(* So set leaves, of each cached key, what the cache has for it. *)
LEMMA ArraysStored ==
  ASSUME NEW kv \in Caches, NEW kvs \in Arrays(kv), NEW stored \in Stores
  PROVE  Stored(kvs, stored) = [key \in Key |-> IF kv[key] = Missing THEN stored[key] ELSE kv[key]]
<1> DEFINE N == Len(kvs) \div 2
<1>1. /\ IsKeyValues(kvs)
      /\ \A n \in 1 .. N : kvs[2 * n - 1] \in CachedKeys(kv) /\ kvs[2 * n] = kv[kvs[2 * n - 1]]
      /\ \A key \in CachedKeys(kv) : \E n \in 1 .. N : kvs[2 * n - 1] = key
  BY ArraysType
<1>2. Stored(kvs, stored) \in Stores
  BY <1>1, StoredType
<1>3. ASSUME NEW key \in Key
      PROVE  Stored(kvs, stored)[key] = IF kv[key] = Missing THEN stored[key] ELSE kv[key]
  <2>1. \/ /\ Stored(kvs, stored)[key] = stored[key]
           /\ \A n \in 1 .. N : kvs[2 * n - 1] # key
        \/ \E n \in 1 .. N : kvs[2 * n - 1] = key /\ Stored(kvs, stored)[key] = kvs[2 * n]
    <3>1. stored \in Caches
      BY StoresAreCaches
    <3>2. AsPairsSay(kvs, key, stored[key], Stored(kvs, stored)[key])
      BY <1>1, <3>1, LastPairStays
    <3> QED BY <3>2 DEF AsPairsSay
  <2> HIDE DEF N
  <2> QED BY <1>1, <2>1 DEF CachedKeys
<1> QED BY <1>2, <1>3 DEF Stores

-----------------------------------------------------------------------------
(* An evaluation through the cache, and one on the store itself. *)

Cached(before, access, stored) ==
  LET value == IF access.op = "set" THEN (before.read + access.amount) % Modulus
               ELSE IF before.kv[access.key] = Missing THEN stored[access.key]
               ELSE before.kv[access.key]
  IN [kv   |-> [before.kv EXCEPT ![access.key] = value],
      read |-> IF access.op = "get" THEN value ELSE before.read]

Direct(before, access) ==
  IF access.op = "get"
  THEN [before EXCEPT !.read = before.store[access.key]]
  ELSE [before EXCEPT !.store[access.key] = (before.read + access.amount) % Modulus]

CachedState == [kv : Caches, read : Value]
DirectState == [store : Stores, read : Value]

LEMMA SumIsValue ==
  ASSUME NEW v \in Value, NEW amount \in Nat
  PROVE  (v + amount) % Modulus \in Value
  BY ModulusAssumption DEF Value

LEMMA CachedType ==
  ASSUME NEW before \in CachedState, NEW access \in Access, NEW stored \in Stores
  PROVE  Cached(before, access, stored) \in CachedState
<1>1. /\ before.kv \in Caches /\ before.read \in Value
      /\ access.key \in Key /\ access.amount \in Nat /\ access.op \in {"get", "set"}
      /\ stored[access.key] \in Value
  BY DEF CachedState, Access, Stores
<1> DEFINE value == IF access.op = "set" THEN (before.read + access.amount) % Modulus
                    ELSE IF before.kv[access.key] = Missing THEN stored[access.key]
                    ELSE before.kv[access.key]
<1>2. value \in Value
  BY <1>1, SumIsValue DEF Caches
<1> HIDE DEF value
<1>3. [before.kv EXCEPT ![access.key] = value] \in Caches
  BY <1>1, <1>2 DEF Caches
<1> QED BY <1>1, <1>2, <1>3 DEF Cached, CachedState, value

LEMMA DirectType ==
  ASSUME NEW before \in DirectState, NEW access \in Access
  PROVE  Direct(before, access) \in DirectState
<1>1. /\ before.store \in Stores /\ before.read \in Value
      /\ access.key \in Key /\ access.amount \in Nat
  BY DEF DirectState, Access
<1>2. (before.read + access.amount) % Modulus \in Value
  BY <1>1, SumIsValue
<1> QED BY <1>1, <1>2 DEF Direct, DirectState, Stores

(* The accesses one by one, through the cache. *)
LEMMA EvaluatedSteps ==
  ASSUME NEW overlay, IsKeyValues(overlay), NEW program \in Seq(Access), NEW stored \in Stores
  PROVE  \E state \in [0 .. Len(program) -> CachedState] :
           /\ Evaluated(overlay, program, stored) = state[Len(program)]
           /\ state[0] = [kv |-> Overlaid(overlay), read |-> 0]
           /\ \A n \in 1 .. Len(program) :
                state[n] = Cached(state[n - 1], program[n], stored)
<1> DEFINE N == Len(program)
           first == [kv |-> Overlaid(overlay), read |-> 0]
           F == [x \in CachedState \X Nat |->
                   IF x[2] \in 1 .. N THEN Cached(x[1], program[x[2]], stored) ELSE x[1]]
           IsRun(g) == g = [n \in 0 .. N |-> IF n = 0 THEN first ELSE Cached(g[n - 1], program[n], stored)]
<1>1. N \in Nat /\ \A n \in 1 .. N : program[n] \in Access
  BY LenProperties, ElementOfSeq
<1>2. first \in CachedState
  BY ValueFacts, OverlaidIsStored DEF CachedState
<1>3. F \in [CachedState \X Nat -> CachedState]
  BY <1>1, CachedType
<1>4. PICK g : Recurs(g, N, CachedState, first, F)
  <2> HIDE DEF N, F, first
  <2> QED BY <1>1, <1>2, <1>3, RecursionExists
<1>5. ASSUME NEW n \in 1 .. N PROVE g[n] = Cached(g[n - 1], program[n], stored)
  <2>1. n - 1 \in 0 .. N /\ n \in Nat
    BY <1>1
  <2>2. <<g[n - 1], n>> \in CachedState \X Nat
    BY <2>1, <1>4 DEF Recurs
  <2> HIDE DEF N, first
  <2> QED BY <1>4, <1>5, <2>2 DEF Recurs
<1>6. IsRun(g)
  <2> HIDE DEF N, F, first
  <2> SUFFICES \A n \in 0 .. N : g[n] = IF n = 0 THEN first ELSE Cached(g[n - 1], program[n], stored)
    BY <1>4 DEF Recurs
  <2> QED BY <1>1, <1>4, <1>5 DEF Recurs
<1> DEFINE state == CHOOSE h : IsRun(h)
<1>7. IsRun(state)
  <2> HIDE DEF IsRun
  <2> QED BY <1>6
<1>8. Evaluated(overlay, program, stored) = state[N]
  BY DEF Evaluated, Cached
<1>9. state[0] = first /\ \A n \in 1 .. N : state[n] = Cached(state[n - 1], program[n], stored)
  <2> HIDE DEF N, state, first
  <2> QED BY <1>1, <1>7
<1>10. \A n \in 0 .. N : state[n] \in CachedState
  <2> DEFINE T == {n \in 0 .. N : state[n] \in CachedState}
  <2> HIDE DEF state, N, first
  <2>1. 0 \in T
    BY <1>1, <1>2, <1>9
  <2>2. ASSUME NEW n \in 0 .. (N - 1), n \in T PROVE n + 1 \in T
    <3>1. n + 1 \in 1 .. N /\ (n + 1) - 1 = n
      BY <1>1
    <3> QED BY <1>1, <1>9, <2>2, <3>1, CachedType
  <2> HIDE DEF T
  <2>3. \A n \in 0 .. N : n \in T
    BY <1>1, <2>1, <2>2, BoundedInduction
  <2> QED BY <2>3 DEF T
<1>11. state \in [0 .. N -> CachedState]
  <2> HIDE DEF state, N, first
  <2> QED BY <1>7, <1>10
<1> HIDE DEF state
<1> QED BY <1>8, <1>9, <1>11

(* The accesses one by one, on the store. *)
LEMMA RunDirectlySteps ==
  ASSUME NEW program \in Seq(Access), NEW stored \in Stores
  PROVE  \E state \in [0 .. Len(program) -> DirectState] :
           /\ RunDirectly(program, stored) = state[Len(program)].store
           /\ state[0] = [store |-> stored, read |-> 0]
           /\ \A n \in 1 .. Len(program) : state[n] = Direct(state[n - 1], program[n])
<1> DEFINE N == Len(program)
           first == [store |-> stored, read |-> 0]
           F == [x \in DirectState \X Nat |->
                   IF x[2] \in 1 .. N THEN Direct(x[1], program[x[2]]) ELSE x[1]]
           IsRun(g) == g = [n \in 0 .. N |-> IF n = 0 THEN first ELSE Direct(g[n - 1], program[n])]
<1>1. N \in Nat /\ \A n \in 1 .. N : program[n] \in Access
  BY LenProperties, ElementOfSeq
<1>2. first \in DirectState
  BY ValueFacts DEF DirectState
<1>3. F \in [DirectState \X Nat -> DirectState]
  BY <1>1, DirectType
<1>4. PICK g : Recurs(g, N, DirectState, first, F)
  <2> HIDE DEF N, F, first
  <2> QED BY <1>1, <1>2, <1>3, RecursionExists
<1>5. ASSUME NEW n \in 1 .. N PROVE g[n] = Direct(g[n - 1], program[n])
  <2>1. n - 1 \in 0 .. N /\ n \in Nat
    BY <1>1
  <2>2. <<g[n - 1], n>> \in DirectState \X Nat
    BY <2>1, <1>4 DEF Recurs
  <2> HIDE DEF N, first
  <2> QED BY <1>4, <1>5, <2>2 DEF Recurs
<1>6. IsRun(g)
  <2> HIDE DEF N, F, first
  <2> SUFFICES \A n \in 0 .. N : g[n] = IF n = 0 THEN first ELSE Direct(g[n - 1], program[n])
    BY <1>4 DEF Recurs
  <2> QED BY <1>1, <1>4, <1>5 DEF Recurs
<1> DEFINE state == CHOOSE h : IsRun(h)
<1>7. IsRun(state)
  <2> HIDE DEF IsRun
  <2> QED BY <1>6
<1>8. RunDirectly(program, stored) = state[N].store
  BY DEF RunDirectly, Direct
<1>9. state[0] = first /\ \A n \in 1 .. N : state[n] = Direct(state[n - 1], program[n])
  <2> HIDE DEF N, state, first
  <2> QED BY <1>1, <1>7
<1>10. \A n \in 0 .. N : state[n] \in DirectState
  <2> DEFINE T == {n \in 0 .. N : state[n] \in DirectState}
  <2> HIDE DEF state, N, first
  <2>1. 0 \in T
    BY <1>1, <1>2, <1>9
  <2>2. ASSUME NEW n \in 0 .. (N - 1), n \in T PROVE n + 1 \in T
    <3>1. n + 1 \in 1 .. N /\ (n + 1) - 1 = n
      BY <1>1
    <3> QED BY <1>1, <1>9, <2>2, <3>1, DirectType
  <2> HIDE DEF T
  <2>3. \A n \in 0 .. N : n \in T
    BY <1>1, <2>1, <2>2, BoundedInduction
  <2> QED BY <2>3 DEF T
<1>11. state \in [0 .. N -> DirectState]
  <2> HIDE DEF state, N, first
  <2> QED BY <1>7, <1>10
<1> HIDE DEF state
<1> QED BY <1>8, <1>9, <1>11

LEMMA StateKVType ==
  ASSUME NEW overlay, IsKeyValues(overlay), NEW program \in Seq(Access), NEW stored \in Stores
  PROVE  StateKV(overlay, program, stored) \in Caches
<1>1. Len(program) \in 0 .. Len(program)
  BY LenProperties
<1>2. PICK state \in [0 .. Len(program) -> CachedState] :
        Evaluated(overlay, program, stored) = state[Len(program)]
  BY EvaluatedSteps
<1>3. state[Len(program)] \in CachedState
  BY <1>1, <1>2
<1> QED BY <1>2, <1>3 DEF StateKV, CachedState

(* A key in the cache has its value there, any other key in the store: seen *)
(* so, the two evaluations are in the same state after every access.        *)
LEMMA SameStep ==
  ASSUME NEW cached \in CachedState, NEW direct \in DirectState, NEW stored \in Stores,
         NEW access \in Access,
         direct.store = Overlay(cached.kv, stored), direct.read = cached.read
  PROVE  /\ Direct(direct, access).store = Overlay(Cached(cached, access, stored).kv, stored)
         /\ Direct(direct, access).read = Cached(cached, access, stored).read
<1> DEFINE value == IF access.op = "set" THEN (cached.read + access.amount) % Modulus
                    ELSE IF cached.kv[access.key] = Missing THEN stored[access.key]
                    ELSE cached.kv[access.key]
<1>1. /\ cached.kv \in Caches /\ cached.read \in Value /\ stored[access.key] \in Value
      /\ access.key \in Key /\ access.amount \in Nat /\ access.op \in {"get", "set"}
  BY DEF CachedState, Access, Stores
<1>2. value \in Value /\ value # Missing
  BY <1>1, SumIsValue, ValueFacts DEF Caches
<1>3. /\ Cached(cached, access, stored).kv = [cached.kv EXCEPT ![access.key] = value]
      /\ Cached(cached, access, stored).read = IF access.op = "get" THEN value ELSE cached.read
  BY DEF Cached
<1>4. CASE access.op = "get"
  <2>1. Direct(direct, access).store = direct.store /\ Direct(direct, access).read = direct.store[access.key]
    BY <1>4 DEF Direct, DirectState
  <2>2. direct.store[access.key] = value
    BY <1>1, <1>4 DEF Overlay
  <2> HIDE DEF value
  <2>3. Overlay([cached.kv EXCEPT ![access.key] = value], stored) = Overlay(cached.kv, stored)
    <3> SUFFICES ASSUME NEW key \in Key
                 PROVE  Overlay([cached.kv EXCEPT ![access.key] = value], stored)[key] = Overlay(cached.kv, stored)[key]
      BY DEF Overlay
    <3>1. CASE key = access.key
      BY <1>1, <1>2, <2>2, <3>1 DEF Overlay, Caches
    <3>2. CASE key # access.key
      BY <1>1, <3>2 DEF Overlay, Caches
    <3> QED BY <3>1, <3>2
  <2> QED BY <1>3, <1>4, <2>1, <2>2, <2>3
<1>5. CASE access.op = "set"
  <2>1. value = (cached.read + access.amount) % Modulus
    BY <1>5
  <2>2. /\ Direct(direct, access).store = [direct.store EXCEPT ![access.key] = value]
        /\ Direct(direct, access).read = direct.read
    BY <1>5, <2>1 DEF Direct, DirectState
  <2> HIDE DEF value
  <2>3. Overlay([cached.kv EXCEPT ![access.key] = value], stored) = [Overlay(cached.kv, stored) EXCEPT ![access.key] = value]
    BY <1>1, <1>2 DEF Overlay, Caches
  <2> QED BY <1>3, <1>5, <2>2, <2>3
<1> QED BY <1>1, <1>4, <1>5

(* Cache and store together are what direct access leaves in a store where  *)
(* the overlay has been set.                                                *)
LEMMA CacheIsOverlay ==
  ASSUME NEW overlay, IsKeyValues(overlay), NEW program \in Seq(Access), NEW stored \in Stores
  PROVE  RunDirectly(program, Stored(overlay, stored)) =
           Overlay(StateKV(overlay, program, stored), stored)
<1> DEFINE N == Len(program)
<1>1. N \in Nat /\ \A n \in 1 .. N : program[n] \in Access
  BY LenProperties, ElementOfSeq
<1>2. PICK cached \in [0 .. N -> CachedState] :
        /\ Evaluated(overlay, program, stored) = cached[N]
        /\ cached[0] = [kv |-> Overlaid(overlay), read |-> 0]
        /\ \A n \in 1 .. N : cached[n] = Cached(cached[n - 1], program[n], stored)
  BY EvaluatedSteps
<1>3. PICK direct \in [0 .. N -> DirectState] :
        /\ RunDirectly(program, Stored(overlay, stored)) = direct[N].store
        /\ direct[0] = [store |-> Stored(overlay, stored), read |-> 0]
        /\ \A n \in 1 .. N : direct[n] = Direct(direct[n - 1], program[n])
  BY StoredType, RunDirectlySteps
<1> DEFINE T == {n \in 0 .. N : /\ direct[n].store = Overlay(cached[n].kv, stored)
                                /\ direct[n].read = cached[n].read}
<1> HIDE DEF N
<1>4. 0 \in T
  <2>1. Overlay(Overlaid(overlay), stored) = Stored(overlay, stored)
    BY OverlaidIsStored
  <2> QED BY <1>1, <1>2, <1>3, <2>1
<1>5. ASSUME NEW n \in 0 .. (N - 1), n \in T PROVE n + 1 \in T
  <2>1. n + 1 \in 1 .. N /\ (n + 1) - 1 = n /\ n \in 0 .. N /\ n + 1 \in 0 .. N
    BY <1>1
  <2>2. /\ cached[n + 1] = Cached(cached[n], program[n + 1], stored)
        /\ direct[n + 1] = Direct(direct[n], program[n + 1])
        /\ cached[n] \in CachedState /\ direct[n] \in DirectState /\ program[n + 1] \in Access
    BY <1>1, <1>2, <1>3, <2>1
  <2> QED BY <1>5, <2>1, <2>2, SameStep
<1> HIDE DEF T
<1>6. \A n \in 0 .. N : n \in T
  BY <1>1, <1>4, <1>5, BoundedInduction
<1>7. N \in T
  BY <1>1, <1>6
<1> QED BY <1>2, <1>3, <1>7 DEF T, StateKV

-----------------------------------------------------------------------------
(* The types. *)

LEMMA SetEventsType ==
  ASSUME NEW n \in FullyQualified, NEW kvs, IsKeyValues(kvs)
  PROVE  /\ SetEvents(n, kvs) \in Seq(SetEvent)
         /\ Len(SetEvents(n, kvs)) = Len(kvs) \div 2
         /\ \A i \in 1 .. (Len(kvs) \div 2) :
              SetEvents(n, kvs)[i] = [namespace |-> n, key |-> kvs[2 * i - 1], value |-> kvs[2 * i]]
<1> DEFINE N == Len(kvs) \div 2
<1>1. N \in Nat
  BY PairsType
<1>2. \A i \in 1 .. N :
        [namespace |-> n, key |-> kvs[2 * i - 1], value |-> kvs[2 * i]] \in SetEvent
  BY PairType DEF SetEvent
<1>3. SetEvents(n, kvs) = [i \in 1 .. N |-> [namespace |-> n, key |-> kvs[2 * i - 1], value |-> kvs[2 * i]]]
  BY DEF SetEvents
<1> HIDE DEF N
<1>4. SetEvents(n, kvs) \in [1 .. N -> SetEvent]
  BY <1>2, <1>3
<1>5. SetEvents(n, kvs) \in Seq(SetEvent) /\ Len(SetEvents(n, kvs)) = N
  BY <1>1, <1>4, IsASeq, LenProperties
<1>6. \A i \in 1 .. N :
        SetEvents(n, kvs)[i] = [namespace |-> n, key |-> kvs[2 * i - 1], value |-> kvs[2 * i]]
  BY <1>3
<1> QED BY <1>5, <1>6 DEF N

LEMMA SetAsKeepsTypes ==
  ASSUME TypeOK, NEW c \in Caller, NEW n \in Namespace, NEW kvs, IsKeyValues(kvs), SetAs(c, n, kvs)
  PROVE  sStore' \in [FullyQualified -> Stores] /\ events' \in Seq(SetEvent)
<1>1. Qualify(n, c) \in FullyQualified
  BY QualifyType
<1>2. sStore[Qualify(n, c)] \in Stores
  BY <1>1 DEF TypeOK, Stores
<1>3. sStore' \in [FullyQualified -> Stores]
  BY <1>1, <1>2, StoredType DEF SetAs, TypeOK, Stores
<1>4. events' \in Seq(SetEvent)
  <2>1. events \in Seq(SetEvent)
    BY DEF TypeOK, SetEvent
  <2>2. events' = events \o SetEvents(Qualify(n, c), kvs)
    BY DEF SetAs
  <2> QED BY <1>1, <2>1, <2>2, SetEventsType, ConcatProperties
<1> QED BY <1>3, <1>4

(* What an oldest evaluation is, and the array it is persisted as. *)
LEMMA PendingType ==
  ASSUME TypeOK, NEW c \in Caller, pending[c] # << >>
  PROVE  /\ pending[c] \in Seq(Evaluation)
         /\ Head(pending[c]) \in Evaluation
         /\ Head(pending[c]) = pending[c][1]
         /\ Tail(pending[c]) \in Seq(Evaluation)
         /\ Len(Tail(pending[c])) = Len(pending[c]) - 1
         /\ \A kvs \in Arrays(Head(pending[c]).kv) : IsKeyValues(kvs)
<1>1. pending[c] \in Seq(Evaluation)
  BY DEF TypeOK, Evaluation, Caches
<1>2. /\ Head(pending[c]) \in Evaluation
      /\ Head(pending[c]) = pending[c][1]
      /\ Tail(pending[c]) \in Seq(Evaluation)
      /\ Len(Tail(pending[c])) = Len(pending[c]) - 1
  BY <1>1, HeadTailProperties, ElementOfSeq, LenProperties
<1>3. Head(pending[c]).kv \in Caches
  BY <1>2 DEF Evaluation
<1> QED BY <1>1, <1>2, <1>3, ArraysType

LEMMA TypesKept ==
  ASSUME TypeOK, [Next]_vars
  PROVE  TypeOK'
<1> USE DEF Stores, SetEvent, Evaluation, Caches
<1>1. ASSUME NEW c \in Caller, NEW n \in FullyQualified, NEW overlay \in Overlays,
             NEW program \in Programs, Eval4(c, n, overlay, program)
      PROVE  TypeOK'
  <2> DEFINE kv == StateKV(overlay, program, sStore[n])
  <2>1. program \in Seq(Access) /\ IsKeyValues(overlay)
    BY ProgramsAssumption, OverlaysAssumption
  <2>2. kv \in Caches
    BY <2>1, StateKVType DEF TypeOK
  <2>3. pending' = [pending EXCEPT ![c] = Append(@, [namespace |-> n, overlay |-> overlay,
                                                     program |-> program, kv |-> kv])]
    BY <1>1 DEF Eval4
  <2> HIDE DEF kv
  <2>4. Append(pending[c], [namespace |-> n, overlay |-> overlay, program |-> program,
                            kv |-> kv]) \in Seq(Evaluation)
    BY <2>2, AppendProperties DEF TypeOK
  <2> QED BY <1>1, <2>3, <2>4 DEF Eval4, TypeOK
<1>2. ASSUME NEW c \in Caller, NEW n \in Namespace, NEW kvs \in KeyLists, SetDirectly(c, n, kvs)
      PROVE  TypeOK'
  <2>1. IsKeyValues(kvs)
    BY KeyListsAssumption
  <2> QED BY <1>2, <2>1, SetAsKeepsTypes DEF SetDirectly, TypeOK
<1>3. ASSUME NEW c \in Caller, NEW n \in Namespace, Persist(c, n)
      PROVE  TypeOK'
  <2>1. pending[c] # << >>
    BY <1>3 DEF Persist
  <2>2. PICK kvs \in Arrays(Head(pending[c]).kv) : SetAs(c, n, kvs)
    BY <1>3 DEF Persist
  <2>3. IsKeyValues(kvs) /\ Tail(pending[c]) \in Seq(Evaluation)
    BY <2>1, PendingType
  <2>4. sStore' \in [FullyQualified -> Stores] /\ events' \in Seq(SetEvent)
    BY <2>2, <2>3, SetAsKeepsTypes
  <2>5. pending' \in [Caller -> Seq(Evaluation)]
    BY <1>3, <2>3 DEF Persist, TypeOK
  <2> QED BY <2>4, <2>5 DEF TypeOK
<1>4. ASSUME NEW c \in Caller, Discard(c)
      PROVE  TypeOK'
  <2>1. pending[c] # << >>
    BY <1>4 DEF Discard
  <2>2. Tail(pending[c]) \in Seq(Evaluation)
    BY <2>1, PendingType
  <2> QED BY <1>4, <2>2 DEF Discard, TypeOK
<1>5. CASE UNCHANGED vars
  BY <1>5 DEF vars, TypeOK
<1> QED BY <1>1, <1>2, <1>3, <1>4, <1>5 DEF Next

LEMMA InitTyped == Init => TypeOK
  BY ValueFacts DEF Init, TypeOK, FullyQualified

(* Every variable has its type in every state of the store. *)
THEOREM StoreTypeOK == Spec => []TypeOK
<1>1. TypeOK /\ [Next]_vars => TypeOK'
  BY TypesKept
<1> QED BY <1>1, InitTyped, PTL DEF Spec

-----------------------------------------------------------------------------
(* Events tell the store. *)

(* The last event about a key, if any, has its value. *)
IsAbout(event, n, key) == event.namespace = n /\ event.key = key

Told(n, key) ==
  \/ sStore[n][key] = 0 /\ \A i \in DOMAIN events : ~IsAbout(events[i], n, key)
  \/ \E i \in DOMAIN events :
       /\ IsAbout(events[i], n, key)
       /\ events[i].value = sStore[n][key]
       /\ \A j \in DOMAIN events : IsAbout(events[j], n, key) => j <= i

AllTold == \A n \in FullyQualified, key \in Key : Told(n, key)

LEMMA ToldIsEvents ==
  ASSUME TypeOK, AllTold
  PROVE  EventsTellTheStore
<1> SUFFICES ASSUME NEW n \in FullyQualified, NEW key \in Key
             PROVE  LET about == {i \in DOMAIN events : events[i].namespace = n /\ events[i].key = key}
                        last == CHOOSE i \in about : \A j \in about : j <= i
                    IN sStore[n][key] = IF about = {} THEN 0 ELSE events[last].value
  BY DEF EventsTellTheStore
<1> DEFINE about == {i \in DOMAIN events : events[i].namespace = n /\ events[i].key = key}
           last == CHOOSE i \in about : \A j \in about : j <= i
<1>1. Told(n, key)
  BY DEF AllTold
<1>2. DOMAIN events \subseteq Int
  BY LenProperties DEF TypeOK
<1>3. ASSUME about = {} PROVE sStore[n][key] = 0
  BY <1>1, <1>3 DEF Told, IsAbout
<1>4. ASSUME about # {} PROVE sStore[n][key] = events[last].value
  <2>1. PICK i \in about : events[i].value = sStore[n][key] /\ \A j \in about : j <= i
    BY <1>1, <1>4 DEF Told, IsAbout
  <2>2. last \in about /\ \A j \in about : j <= last
    <3> HIDE DEF about
    <3> QED BY <2>1
  <2>3. last = i
    <3>1. last <= i /\ i <= last /\ last \in Int /\ i \in Int
      BY <1>2, <2>1, <2>2
    <3> HIDE DEF last
    <3> QED BY <3>1
  <2> HIDE DEF last, about
  <2> QED BY <1>4, <2>1, <2>3
<1>5. sStore[n][key] = IF about = {} THEN 0 ELSE events[last].value
  <2> HIDE DEF last, about
  <2> QED BY <1>3, <1>4
<1> QED BY <1>5

(* A call of set keeps this: of the keys in its array, the last pair is the *)
(* last event, and of the others nothing is new.                            *)
LEMMA SetAsTells ==
  ASSUME TypeOK, AllTold, NEW c \in Caller, NEW ns \in Namespace, NEW kvs, IsKeyValues(kvs),
         SetAs(c, ns, kvs)
  PROVE  AllTold'
<1> SUFFICES ASSUME NEW n \in FullyQualified, NEW key \in Key PROVE Told(n, key)'
  BY DEF AllTold
<1> DEFINE q == Qualify(ns, c)
           N == Len(kvs) \div 2
           E == Len(events)
<1>1. q \in FullyQualified /\ N \in Nat /\ E \in Nat /\ DOMAIN events = 1 .. E
  BY QualifyType, PairsType, LenProperties DEF TypeOK
<1>2. /\ SetEvents(q, kvs) \in Seq(SetEvent) /\ Len(SetEvents(q, kvs)) = N
      /\ \A i \in 1 .. N : SetEvents(q, kvs)[i] = [namespace |-> q, key |-> kvs[2 * i - 1], value |-> kvs[2 * i]]
  BY <1>1, SetEventsType
<1>3. events \in Seq(SetEvent) /\ events' = events \o SetEvents(q, kvs)
  BY DEF TypeOK, SetEvent, SetAs
<1> HIDE DEF N, E, q
<1>4. /\ DOMAIN events' = 1 .. (E + N)
      /\ \A i \in 1 .. E : events'[i] = events[i]
      /\ \A i \in 1 .. N : events'[E + i] = [namespace |-> q, key |-> kvs[2 * i - 1], value |-> kvs[2 * i]]
  <2>1. /\ events' \in Seq(SetEvent)
        /\ Len(events') = E + N
        /\ \A i \in 1 .. (E + N) : events'[i] = IF i <= E THEN events[i] ELSE SetEvents(q, kvs)[i - E]
    BY <1>2, <1>3, ConcatProperties DEF E
  <2>2. DOMAIN events' = 1 .. (E + N)
    BY <2>1, LenProperties
  <2>3. \A i \in 1 .. N : E + i \in 1 .. (E + N) /\ ~(E + i <= E) /\ (E + i) - E = i
    BY <1>1
  <2>4. \A i \in 1 .. E : i \in 1 .. (E + N) /\ i <= E
    BY <1>1
  <2>5. \A i \in 1 .. N : events'[E + i] = SetEvents(q, kvs)[i]
    BY <2>1, <2>3
  <2> QED BY <1>2, <2>1, <2>2, <2>4, <2>5
<1>4a. \A m \in 1 .. N : /\ E + m \in 1 .. (E + N)
                         /\ IsAbout(events'[E + m], n, key) <=> q = n /\ kvs[2 * m - 1] = key
                         /\ events'[E + m].value = kvs[2 * m]
  <2> TAKE m \in 1 .. N
  <2>1. events'[E + m] = [namespace |-> q, key |-> kvs[2 * m - 1], value |-> kvs[2 * m]]
    BY <1>4
  <2>2. E + m \in 1 .. (E + N)
    BY <1>1
  <2> QED BY <2>1, <2>2 DEF IsAbout
<1>5. Told(n, key)
  BY DEF AllTold
<1>6. sStore' = [sStore EXCEPT ![q] = Stored(kvs, sStore[q])] /\ sStore[q] \in Stores
  BY <1>1 DEF SetAs, TypeOK, Stores, q
<1>7. \A i \in 1 .. (E + N) : i \in 1 .. E \/ \E m \in 1 .. N : i = E + m
  <2> TAKE i \in 1 .. (E + N)
  <2>1. CASE i <= E
    BY <1>1, <2>1
  <2>2. CASE i > E
    <3>1. i - E \in 1 .. N /\ i = E + (i - E)
      BY <1>1, <2>2
    <3> QED BY <3>1
  <2> QED BY <1>1, <2>1, <2>2
<1>8. ASSUME sStore'[n][key] = sStore[n][key], \A m \in 1 .. N : ~(q = n /\ kvs[2 * m - 1] = key)
      PROVE  Told(n, key)'
  <2>1. \A m \in 1 .. N : ~IsAbout(events'[E + m], n, key)
    BY <1>8, <1>4a
  <2>2. CASE sStore[n][key] = 0 /\ \A i \in DOMAIN events : ~IsAbout(events[i], n, key)
    <3>1. \A i \in 1 .. (E + N) : ~IsAbout(events'[i], n, key)
      BY <1>1, <1>4, <1>7, <2>1, <2>2
    <3> QED BY <1>4, <1>8, <2>2, <3>1 DEF Told, IsAbout
  <2>3. CASE \E i \in DOMAIN events :
               /\ IsAbout(events[i], n, key)
               /\ events[i].value = sStore[n][key]
               /\ \A j \in DOMAIN events : IsAbout(events[j], n, key) => j <= i
    <3>1. PICK i \in 1 .. E :
               /\ IsAbout(events[i], n, key)
               /\ events[i].value = sStore[n][key]
               /\ \A j \in 1 .. E : IsAbout(events[j], n, key) => j <= i
      BY <1>1, <2>3
    <3>2. i \in 1 .. (E + N) /\ events'[i] = events[i]
      BY <1>1, <1>4
    <3>3. \A j \in 1 .. (E + N) : IsAbout(events'[j], n, key) => j <= i
      BY <1>4, <1>7, <2>1, <3>1
    <3> QED BY <1>4, <1>8, <3>1, <3>2, <3>3 DEF Told, IsAbout
  <2> QED BY <1>5, <2>2, <2>3 DEF Told
<1>9. CASE n # q
  <2>1. sStore'[n] = sStore[n]
    BY <1>6, <1>9 DEF TypeOK
  <2> QED BY <1>8, <1>9, <2>1
<1>10. CASE n = q
  <2>1. sStore'[n] = Stored(kvs, sStore[n])
    BY <1>1, <1>6, <1>10 DEF TypeOK
  <2>2. \/ /\ Stored(kvs, sStore[n])[key] = sStore[n][key]
           /\ \A m \in 1 .. N : kvs[2 * m - 1] # key
        \/ \E m \in 1 .. N :
             /\ kvs[2 * m - 1] = key
             /\ Stored(kvs, sStore[n])[key] = kvs[2 * m]
             /\ \A l \in 1 .. N : kvs[2 * l - 1] = key => l <= m
    <3>1. sStore[n] \in Caches
      BY <1>6, <1>10, StoresAreCaches
    <3>2. AsPairsSay(kvs, key, sStore[n][key], Stored(kvs, sStore[n])[key])
      BY <3>1, LastPairStays
    <3> QED BY <3>2 DEF N, AsPairsSay
  <2>3. CASE /\ Stored(kvs, sStore[n])[key] = sStore[n][key]
             /\ \A m \in 1 .. N : kvs[2 * m - 1] # key
    BY <1>8, <2>1, <2>3
  <2>4. CASE \E m \in 1 .. N :
             /\ kvs[2 * m - 1] = key
             /\ Stored(kvs, sStore[n])[key] = kvs[2 * m]
             /\ \A l \in 1 .. N : kvs[2 * l - 1] = key => l <= m
    <3>1. PICK m \in 1 .. N :
             /\ kvs[2 * m - 1] = key
             /\ Stored(kvs, sStore[n])[key] = kvs[2 * m]
             /\ \A l \in 1 .. N : kvs[2 * l - 1] = key => l <= m
      BY <2>4
    <3>2. E + m \in 1 .. (E + N) /\ IsAbout(events'[E + m], n, key) /\ events'[E + m].value = sStore'[n][key]
      BY <1>10, <1>4a, <2>1, <3>1
    <3>3. \A j \in 1 .. (E + N) : IsAbout(events'[j], n, key) => j <= E + m
      <4> SUFFICES ASSUME NEW j \in 1 .. (E + N), IsAbout(events'[j], n, key) PROVE j <= E + m
        OBVIOUS
      <4>1. CASE j \in 1 .. E
        BY <1>1, <4>1
      <4>2. CASE \E l \in 1 .. N : j = E + l
        <5>1. PICK l \in 1 .. N : j = E + l
          BY <4>2
        <5>2. kvs[2 * l - 1] = key
          BY <1>4a, <5>1
        <5> QED BY <1>1, <3>1, <5>1, <5>2
      <4> QED BY <1>7, <4>1, <4>2
    <3> QED BY <1>4, <3>2, <3>3 DEF Told, IsAbout
  <2> QED BY <2>2, <2>3, <2>4
<1> QED BY <1>9, <1>10

LEMMA ToldKept ==
  ASSUME TypeOK, AllTold, [Next]_vars
  PROVE  AllTold'
<1>1. ASSUME UNCHANGED <<sStore, events>> PROVE AllTold'
  BY <1>1 DEF AllTold, Told
<1>2. ASSUME NEW c \in Caller, NEW n \in FullyQualified, NEW overlay \in Overlays,
             NEW program \in Programs, Eval4(c, n, overlay, program)
      PROVE  AllTold'
  BY <1>1, <1>2 DEF Eval4
<1>3. ASSUME NEW c \in Caller, NEW n \in Namespace, NEW kvs \in KeyLists, SetDirectly(c, n, kvs)
      PROVE  AllTold'
  BY <1>3, SetAsTells, KeyListsAssumption DEF SetDirectly
<1>4. ASSUME NEW c \in Caller, NEW n \in Namespace, Persist(c, n) PROVE AllTold'
  <2>1. pending[c] # << >>
    BY <1>4 DEF Persist
  <2>2. PICK kvs \in Arrays(Head(pending[c]).kv) : SetAs(c, n, kvs)
    BY <1>4 DEF Persist
  <2>3. IsKeyValues(kvs)
    BY <2>1, PendingType
  <2> QED BY <2>2, <2>3, SetAsTells
<1>5. ASSUME NEW c \in Caller, Discard(c) PROVE AllTold'
  BY <1>1, <1>5 DEF Discard
<1>6. CASE UNCHANGED vars
  BY <1>1, <1>6 DEF vars
<1> QED BY <1>2, <1>3, <1>4, <1>5, <1>6 DEF Next

(* An indexer of the events knows the store, whatever arrays are set, also  *)
(* with several pairs of one key, and in whatever order callers set them.   *)
THEOREM StoreEvents == Spec => []EventsTellTheStore
<1>1. Init => AllTold
  BY DEF Init, AllTold, Told
<1>2. TypeOK /\ AllTold /\ [Next]_vars => AllTold'
  BY ToldKept
<1>3. TypeOK /\ AllTold => EventsTellTheStore
  BY ToldIsEvents
<1> QED BY <1>1, <1>2, <1>3, StoreTypeOK, PTL DEF Spec

-----------------------------------------------------------------------------
(* Without interleaving, persisting is as direct access. *)

(* Is a fully qualified namespace one of the caller's? *)
IsOwn(namespace, c) == \E m \in Namespace : namespace = Qualify(m, c)

(* A caller has at most one evaluation.  If this is in a namespace of the   *)
(* caller's, what is in its cache is what an evaluation on the store as it  *)
(* is now would leave there; another caller's may have changed since.       *)
FreshFor(c) ==
  pending[c] # << >> =>
    /\ Len(pending[c]) = 1
    /\ LET evaluation == pending[c][1] IN
         IsOwn(evaluation.namespace, c) =>
           evaluation.kv =
             StateKV(evaluation.overlay, evaluation.program, sStore[evaluation.namespace])

PendingIsFresh == \A c \in Caller : FreshFor(c)

LEMMA QualifyApart ==
  ASSUME NEW n, NEW m, NEW c, NEW d, c # d
  PROVE  Qualify(n, c) # Qualify(m, d)
  BY DEF Qualify

(* What a caller sets is in its own namespaces: no other cache gets stale. *)
LEMMA SetAsKeepsOthersFresh ==
  ASSUME TypeOK, PendingIsFresh, NEW c \in Caller, NEW n \in Namespace, NEW kvs, SetAs(c, n, kvs),
         NEW d \in Caller, d # c, pending'[d] = pending[d]
  PROVE  FreshFor(d)'
<1>1. FreshFor(d)
  BY DEF PendingIsFresh
<1> SUFFICES ASSUME pending[d] # << >>, IsOwn(pending[d][1].namespace, d)
             PROVE  sStore'[pending[d][1].namespace] = sStore[pending[d][1].namespace]
  BY <1>1 DEF FreshFor, IsOwn
<1>2. PICK m \in Namespace : pending[d][1].namespace = Qualify(m, d)
  BY DEF IsOwn
<1>3. Qualify(m, d) # Qualify(n, c) /\ Qualify(m, d) \in FullyQualified
  BY QualifyApart, QualifyType
<1> QED BY <1>2, <1>3 DEF SetAs, TypeOK

LEMMA FreshKept ==
  ASSUME ~Interleaved, TypeOK, PendingIsFresh, [Next]_vars
  PROVE  PendingIsFresh'
<1>1. ASSUME NEW c \in Caller, NEW n \in FullyQualified, NEW overlay \in Overlays,
             NEW program \in Programs, Eval4(c, n, overlay, program)
      PROVE  PendingIsFresh'
  <2> DEFINE evaluation == [namespace |-> n, overlay |-> overlay, program |-> program,
                            kv |-> StateKV(overlay, program, sStore[n])]
  <2>1. pending[c] = << >> /\ sStore' = sStore /\ pending' = [pending EXCEPT ![c] = Append(@, evaluation)]
    BY <1>1 DEF Eval4
  <2>2. pending'[c] = <<evaluation>> /\ \A d \in Caller : d # c => pending'[d] = pending[d]
    <3>1. pending'[c] = Append(<< >>, evaluation)
      BY <2>1 DEF TypeOK
    <3> HIDE DEF evaluation
    <3>2. Append(<< >>, evaluation) = <<evaluation>>
      OBVIOUS
    <3> QED BY <2>1, <3>1, <3>2 DEF TypeOK
  <2>3. Len(pending'[c]) = 1 /\ pending'[c][1] = evaluation
    <3> HIDE DEF evaluation
    <3> QED BY <2>2
  <2>4. FreshFor(c)'
    BY <2>1, <2>3 DEF FreshFor
  <2>5. ASSUME NEW d \in Caller, d # c PROVE FreshFor(d)'
    BY <2>1, <2>2, <2>5 DEF PendingIsFresh, FreshFor, IsOwn
  <2> QED BY <2>4, <2>5 DEF PendingIsFresh
<1>2. ASSUME NEW c \in Caller, NEW n \in Namespace, NEW kvs \in KeyLists, SetDirectly(c, n, kvs)
      PROVE  PendingIsFresh'
  <2>1. pending[c] = << >> /\ pending' = pending /\ SetAs(c, n, kvs)
    BY <1>2 DEF SetDirectly
  <2>2. FreshFor(c)'
    BY <2>1 DEF FreshFor
  <2>3. ASSUME NEW d \in Caller, d # c PROVE FreshFor(d)'
    BY <2>1, <2>3, SetAsKeepsOthersFresh
  <2> QED BY <2>2, <2>3 DEF PendingIsFresh
<1>3. ASSUME NEW c \in Caller, pending[c] # << >>
      PROVE  Tail(pending[c]) = << >>
  <2>1. pending[c] \in Seq(Evaluation) /\ Len(pending[c]) = 1
    BY <1>3, PendingType DEF PendingIsFresh, FreshFor
  <2>2. Tail(pending[c]) \in Seq(Evaluation) /\ Len(Tail(pending[c])) = 0
    BY <1>3, <2>1, PendingType
  <2> QED BY <2>2, EmptySeq
<1>4. ASSUME NEW c \in Caller, NEW n \in Namespace, Persist(c, n) PROVE PendingIsFresh'
  <2>1. pending[c] # << >> /\ pending' = [pending EXCEPT ![c] = Tail(@)]
    BY <1>4 DEF Persist
  <2>2. PICK kvs \in Arrays(Head(pending[c]).kv) : SetAs(c, n, kvs)
    BY <1>4 DEF Persist
  <2>3. pending'[c] = << >> /\ \A d \in Caller : d # c => pending'[d] = pending[d]
    BY <1>3, <2>1 DEF TypeOK
  <2>4. FreshFor(c)'
    BY <2>3 DEF FreshFor
  <2>5. ASSUME NEW d \in Caller, d # c PROVE FreshFor(d)'
    BY <2>2, <2>3, <2>5, SetAsKeepsOthersFresh
  <2> QED BY <2>4, <2>5 DEF PendingIsFresh
<1>5. ASSUME NEW c \in Caller, Discard(c) PROVE PendingIsFresh'
  <2>1. pending[c] # << >> /\ pending' = [pending EXCEPT ![c] = Tail(@)] /\ sStore' = sStore
    BY <1>5 DEF Discard
  <2>2. pending'[c] = << >> /\ \A d \in Caller : d # c => pending'[d] = pending[d]
    BY <1>3, <2>1 DEF TypeOK
  <2> QED BY <2>1, <2>2 DEF PendingIsFresh, FreshFor, IsOwn
<1>6. CASE UNCHANGED vars
  BY <1>6 DEF vars, PendingIsFresh, FreshFor, IsOwn
<1> QED BY <1>1, <1>2, <1>4, <1>5, <1>6 DEF Next

LEMMA PersistIsDirect ==
  ASSUME TypeOK, PendingIsFresh, NEW c \in Caller, NEW namespace \in Namespace,
         Persist(c, namespace), Head(pending[c]).namespace = Qualify(namespace, c)
  PROVE  LET evaluation == Head(pending[c])
             n == Qualify(namespace, c)
         IN sStore' = [sStore EXCEPT ![n] =
              RunDirectly(evaluation.program, Stored(evaluation.overlay, @))]
<1> DEFINE evaluation == Head(pending[c])
           n == Qualify(namespace, c)
<1>1. pending[c] # << >>
  BY DEF Persist
<1>2. PICK kvs \in Arrays(evaluation.kv) : SetAs(c, namespace, kvs)
  BY DEF Persist
<1>3. /\ evaluation \in Evaluation /\ evaluation = pending[c][1]
      /\ evaluation.kv \in Caches /\ evaluation.program \in Seq(Access)
      /\ IsKeyValues(evaluation.overlay) /\ n \in FullyQualified
  BY <1>1, PendingType, ProgramsAssumption, OverlaysAssumption, QualifyType DEF Evaluation
<1>4. evaluation.kv = StateKV(evaluation.overlay, evaluation.program, sStore[n])
  <2>1. IsOwn(evaluation.namespace, c) /\ evaluation.namespace = n
    BY DEF IsOwn
  <2>2. FreshFor(c)
    BY DEF PendingIsFresh
  <2> HIDE DEF n, evaluation
  <2> QED BY <1>1, <1>3, <2>1, <2>2 DEF FreshFor
<1>5. sStore[n] \in Stores
  BY <1>3 DEF TypeOK, Stores
<1>6. Stored(kvs, sStore[n]) = Overlay(evaluation.kv, sStore[n])
  BY <1>3, <1>5, ArraysStored DEF Overlay
<1>7. RunDirectly(evaluation.program, Stored(evaluation.overlay, sStore[n])) =
        Overlay(evaluation.kv, sStore[n])
  BY <1>3, <1>4, <1>5, CacheIsOverlay
<1>8. sStore' = [sStore EXCEPT ![n] = Stored(kvs, sStore[n])]
  BY <1>2 DEF SetAs
<1> HIDE DEF n, evaluation
<1>9. sStore' = [sStore EXCEPT ![n] =
        RunDirectly(evaluation.program, Stored(evaluation.overlay, sStore[n]))]
  BY <1>6, <1>7, <1>8
<1> QED BY <1>9 DEF n, evaluation

(* Where callers do nothing else between an evaluation and persisting it    *)
(* where they evaluated it, overlay, cache and set together are access to   *)
(* the store: first the pairs of the overlay are set, then the program      *)
(* reads and writes.  So it is for every overlay and program, whatever      *)
(* other callers do and in whatever order the pairs are passed on.          *)
THEOREM StorePersists ==
  ASSUME ~Interleaved
  PROVE  Spec => PersistsAsIfDirect
<1>1. Init => PendingIsFresh
  BY DEF Init, PendingIsFresh, FreshFor
<1>2. TypeOK /\ PendingIsFresh /\ [Next]_vars => PendingIsFresh'
  BY FreshKept
<1>3. TypeOK /\ PendingIsFresh =>
        [\A c \in Caller, namespace \in Namespace :
           Persist(c, namespace) =>
             LET evaluation == Head(pending[c])
                 n == Qualify(namespace, c)
             IN evaluation.namespace = n =>
                  sStore' = [sStore EXCEPT ![n] =
                    RunDirectly(evaluation.program, Stored(evaluation.overlay, @))]]_vars
  BY PersistIsDirect
<1> QED BY <1>1, <1>2, <1>3, StoreTypeOK, PTL DEF Spec, PersistsAsIfDirect
=============================================================================
