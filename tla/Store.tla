-------------------------------- MODULE Store --------------------------------
(***************************************************************************)
(* RainterpreterStore and the contracts that use it.  A contract evaluates *)
(* an expression, a view call that reads the store through the cache of    *)
(* the op "get" and returns the cache as keys and values, and persists     *)
(* them later with set.  Nothing ties the two calls together: any caller   *)
(* may do anything in between, the contract itself included.  The cache    *)
(* starts with the pairs of the state overlay, and these are returned too, *)
(* whether the expression touches their keys or not.                       *)
(*                                                                         *)
(* eval4 takes a fully qualified namespace, of any caller, and set the     *)
(* name of one of the caller's own.                                        *)
(*                                                                         *)
(* Of an expression only its accesses to the store matter here.  A program *)
(* is a sequence of them: "get" reads a key, "set" writes to a key what    *)
(* the last get read plus an amount.                                       *)
(***************************************************************************)
EXTENDS Integers, Sequences, FiniteSets

CONSTANTS
  Caller,      (* Contracts that evaluate and persist.                     *)
  Namespace,   (* State namespaces, as the callers name them.              *)
  Key,         (* Keys, as the expressions name them.                      *)
  Modulus,     (* Values are 0 .. Modulus - 1, with the zero of storage.   *)
  Programs,    (* The programs evaluated.                                  *)
  Overlays,    (* The state overlays given to eval4.                       *)
  KeyLists,    (* The arrays that callers pass to set on their own.        *)
  MaxEvents,   (* A bound on the Set events of a behaviour.                *)
  Interleaved  (* May a caller evaluate again before it has persisted?     *)

ASSUME ModulusAssumption == Modulus \in Nat \ {0}

VARIABLES
  sStore,   (* Fully qualified namespace |-> key |-> value.                *)
  events,   (* The Set events.                                             *)
  pending   (* For each caller the evaluations it has not persisted.       *)

vars == <<sStore, events, pending>>

Value == 0 .. (Modulus - 1)
Missing == Modulus

(* Keys and values in turn, as set takes them. *)
IsKeyValues(kvs) ==
  /\ kvs \in Seq(Key \cup Value)
  /\ \A n \in 1 .. (Len(kvs) \div 2) : kvs[2 * n - 1] \in Key /\ kvs[2 * n] \in Value

Access == [op : {"get", "set"}, key : Key, amount : Nat]

ASSUME KeyAssumption == IsFiniteSet(Key)
ASSUME ProgramsAssumption == Programs \subseteq Seq(Access)
ASSUME OverlaysAssumption == \A overlay \in Overlays : IsKeyValues(overlay)
ASSUME KeyListsAssumption == \A kvs \in KeyLists : IsKeyValues(kvs)

(* Mutant of Qualify: the caller does not count. *)
Unqualified(namespace, caller) == <<namespace, CHOOSE c \in Caller : TRUE>>

(* qualifyNamespace hashes the caller's address into the namespace. *)
FullyQualified == Namespace \X Caller
Qualify(namespace, caller) == <<namespace, caller>>

Get(key) == [op |-> "get", key |-> key, amount |-> 0]
Set(key, amount) == [op |-> "set", key |-> key, amount |-> amount]

-----------------------------------------------------------------------------
(* Mutant of Stored: the pairs from the last to the first. *)
StoredBackwards(kvs, stored) ==
  LET state[n \in 0 .. (Len(kvs) \div 2)] ==
        IF n = 0 THEN stored
        ELSE [state[n - 1] EXCEPT ![kvs[Len(kvs) - 2 * n + 1]] = kvs[Len(kvs) - 2 * n + 2]]
  IN state[Len(kvs) \div 2]

(* The loop of set: pairs in order, so that the last of a key stays. *)
Stored(kvs, stored) ==
  LET state[n \in 0 .. (Len(kvs) \div 2)] ==
        IF n = 0 THEN stored ELSE [state[n - 1] EXCEPT ![kvs[2 * n - 1]] = kvs[2 * n]]
  IN state[Len(kvs) \div 2]

(* Mutant of Overlaid: the first pair of a key stays. *)
OverlaidBackwards(overlay) == StoredBackwards(overlay, [key \in Key |-> Missing])

(* The cache that an evaluation starts with: nothing but the overlay, whose *)
(* pairs are set in order too.                                              *)
Overlaid(overlay) == Stored(overlay, [key \in Key |-> Missing])

(* The cache and the last value read after the first n accesses, where the *)
(* store holds stored: a miss is read from the store and cached.           *)
Evaluated(overlay, program, stored) ==
  LET state[n \in 0 .. Len(program)] ==
        IF n = 0 THEN [kv |-> Overlaid(overlay), read |-> 0]
        ELSE LET before == state[n - 1]
                 access == program[n]
                 value == IF access.op = "set" THEN (before.read + access.amount) % Modulus
                          ELSE IF before.kv[access.key] = Missing THEN stored[access.key]
                          ELSE before.kv[access.key]
             IN [kv   |-> [before.kv EXCEPT ![access.key] = value],
                 read |-> IF access.op = "get" THEN value ELSE before.read]
  IN state[Len(program)]

(* The keys and values that toBytes32Array returns, as a map. *)
StateKV(overlay, program, stored) == Evaluated(overlay, program, stored).kv

(* The array that set receives for a map, in some order. *)
Arrays(kv) ==
  LET keys == {key \in Key : kv[key] # Missing} IN
    {[i \in 1 .. (2 * Cardinality(keys)) |->
        IF i % 2 = 1 THEN order[(i + 1) \div 2] ELSE kv[order[i \div 2]]] :
      order \in {o \in [1 .. Cardinality(keys) -> keys] : {o[i] : i \in DOMAIN o} = keys}}

(* Every pair emits an event. *)
SetEvents(namespace, kvs) ==
  [n \in 1 .. (Len(kvs) \div 2) |->
     [namespace |-> namespace, key |-> kvs[2 * n - 1], value |-> kvs[2 * n]]]

-----------------------------------------------------------------------------
Init ==
  /\ sStore = [n \in FullyQualified |-> [key \in Key |-> 0]]
  /\ events = << >>
  /\ pending = [c \in Caller |-> << >>]

(* eval4, called by c: an overlay of odd length is refused. *)
Eval4(c, namespace, overlay, program) ==
  /\ Interleaved \/ pending[c] = << >>
  /\ Len(pending[c]) < 2
  /\ Len(overlay) % 2 = 0
  /\ pending' = [pending EXCEPT ![c] = Append(@,
       [namespace |-> namespace, overlay |-> overlay, program |-> program,
        kv |-> StateKV(overlay, program, sStore[namespace])])]
  /\ UNCHANGED <<sStore, events>>

(* set, called by c: a list of odd length is refused as a whole. *)
SetAs(c, namespace, kvs) ==
  /\ Len(kvs) % 2 = 0
  /\ Len(events) + Len(kvs) \div 2 <= MaxEvents
  /\ sStore' = [sStore EXCEPT ![Qualify(namespace, c)] = Stored(kvs, @)]
  /\ events' = events \o SetEvents(Qualify(namespace, c), kvs)

(* The caller persists its oldest evaluation, under a name of its own. *)
Persist(c, namespace) ==
  /\ pending[c] # << >>
  /\ \E kvs \in Arrays(Head(pending[c]).kv) : SetAs(c, namespace, kvs)
  /\ pending' = [pending EXCEPT ![c] = Tail(@)]

(* Or calls set with an array of its own. *)
SetDirectly(c, namespace, kvs) ==
  /\ Interleaved \/ pending[c] = << >>
  /\ SetAs(c, namespace, kvs)
  /\ UNCHANGED pending

(* Or does not persist, because its transaction reverts. *)
Discard(c) ==
  /\ pending[c] # << >>
  /\ pending' = [pending EXCEPT ![c] = Tail(@)]
  /\ UNCHANGED <<sStore, events>>

Next ==
  \E c \in Caller :
    \/ \E namespace \in FullyQualified, overlay \in Overlays, program \in Programs :
         Eval4(c, namespace, overlay, program)
    \/ \E namespace \in Namespace :
         \/ \E kvs \in KeyLists : SetDirectly(c, namespace, kvs)
         \/ Persist(c, namespace)
    \/ Discard(c)

Spec == Init /\ [][Next]_vars

-----------------------------------------------------------------------------
(* Properties. *)

(* Every variable has its type. *)
TypeOK ==
  /\ sStore \in [FullyQualified -> [Key -> Value]]
  /\ events \in Seq([namespace : FullyQualified, key : Key, value : Value])
  /\ pending \in [Caller -> Seq([namespace : FullyQualified, overlay : Overlays,
                                 program : Programs, kv : [Key -> Value \cup {Missing}]])]

(* An indexer that only sees the Set events knows the whole store: what a *)
(* key holds is what the last event about it says.                        *)
EventsTellTheStore ==
  \A n \in FullyQualified, key \in Key :
    LET about == {i \in DOMAIN events : events[i].namespace = n /\ events[i].key = key}
        last == CHOOSE i \in about : \A j \in about : j <= i
    IN sStore[n][key] = IF about = {} THEN 0 ELSE events[last].value

(* What the program leaves in a store it reads and writes directly. *)
RunDirectly(program, stored) ==
  LET state[n \in 0 .. Len(program)] ==
        IF n = 0 THEN [store |-> stored, read |-> 0]
        ELSE LET before == state[n - 1]
                 access == program[n]
             IN IF access.op = "get"
                THEN [before EXCEPT !.read = before.store[access.key]]
                ELSE [before EXCEPT !.store[access.key] =
                        (before.read + access.amount) % Modulus]
  IN state[Len(program)].store

(* If its caller does nothing else in between, an expression that is      *)
(* persisted where it was evaluated works on the store as if there were no *)
(* cache and no separate call to persist it, and no other caller can make  *)
(* a difference.  Its overlay is no exception: the store is as if the pairs *)
(* had been set first, those that the expression does not touch included.  *)
PersistsAsIfDirect ==
  [][\A c \in Caller, namespace \in Namespace :
       Persist(c, namespace) =>
         LET evaluation == Head(pending[c])
             n == Qualify(namespace, c)
         IN evaluation.namespace = n =>
              sStore' = [sStore EXCEPT ![n] =
                RunDirectly(evaluation.program, Stored(evaluation.overlay, @))]]_vars

(* The keys that an evaluation only reads, if that. *)
ReadOnly(evaluation) ==
  {key \in Key :
    /\ \A i \in DOMAIN evaluation.program :
         evaluation.program[i].key = key => evaluation.program[i].op = "get"
    /\ Overlaid(evaluation.overlay)[key] = Missing}

(* Keys that were only read are persisted too.  The comment on the op "get" *)
(* has it that this costs a store write and nothing more: the write does    *)
(* not change what the store holds.                                         *)
ReadOnlyWriteBackIsIdle ==
  [][\A c \in Caller, namespace \in Namespace :
       Persist(c, namespace) =>
         LET evaluation == Head(pending[c])
             n == Qualify(namespace, c)
         IN evaluation.namespace = n =>
              \A key \in ReadOnly(evaluation) : sStore'[n][key] = sStore[n][key]]_vars
=============================================================================
