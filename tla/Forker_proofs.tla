---------------------------- MODULE Forker_proofs ----------------------------
(***************************************************************************)
(* Proofs about the Forker, for all chains, accounts, requests and bounds: *)
(* its invariants, and that it implements ForkViews.                       *)
(***************************************************************************)
EXTENDS ForkerRefinement, FiniteSetTheorems, SequenceTheorems, TLAPS

AnyTx == AllTxs \cup {UserTx(a) : a \in Account}

(* What holds between the steps of the Forker, in all its states. *)
CallIsTyped ==
  /\ call.at = "create" => call.id \notin DOMAIN forks
  /\ call.at = "replay" => active # None /\ call.tx # None
  /\ call.at # "idle" /\ call.tx # None => call.id.block \in Nat

NothingPersists == persistent = {}

Inv == TypeOK /\ CallIsTyped /\ NothingPersists /\ RecordsNameForks

-----------------------------------------------------------------------------
(* The values that the actions are built from. *)

(* A mined block is a sequence of transactions. *)
LEMMA BlockType ==
  ASSUME NEW url \in Url, NEW n \in BlockNumbers(url)
  PROVE  n \in Nat /\ BlockAt(url, n) \in Seq(AllTxs)
<1>1. Chain[url] \in Seq(Seq(TxsOf(url)))
  BY ChainAssumption
<1>2. n + 1 \in 1 .. Len(Chain[url]) /\ n \in Nat
  BY <1>1 DEF BlockNumbers
<1>3. BlockAt(url, n) \in Seq(TxsOf(url))
  BY <1>1, <1>2, ElementOfSeq DEF BlockAt
<1>4. TxsOf(url) \subseteq AllTxs
  BY DEF AllTxs
<1> QED
  BY <1>2, <1>3, <1>4

(* What is left of a block that a transaction is in. *)
LEMMA BeforeType ==
  ASSUME NEW txs \in Seq(AllTxs), NEW tx
  PROVE  Before(txs, tx) \in Seq(AllTxs)
<1> DEFINE first == {i \in DOMAIN txs : txs[i] = tx}
<1>1. CASE first = {}
  BY <1>1 DEF Before
<1>2. CASE first # {}
  <2> DEFINE i == CHOOSE j \in first : TRUE
  <2>1. i \in 1 .. Len(txs)
    BY <1>2
  <2>2. Before(txs, tx) = SubSeq(txs, 1, i - 1)
    BY <1>2 DEF Before
  <2>3. i - 1 \in Nat /\ i - 1 <= Len(txs)
    BY <2>1
  <2>4. \A k \in 1 .. (i - 1) : txs[k] \in AllTxs
    BY <2>3, ElementOfSeq
  <2>5. SubSeq(txs, 1, i - 1) \in Seq(AllTxs)
    BY <2>3, <2>4, SubSeqProperties
  <2> QED
    BY <2>2, <2>5
<1> QED
  BY <1>1, <1>2

(* The transactions before another are no more than the whole block. *)
LEMMA BeforeShort ==
  ASSUME NEW txs \in Seq(AllTxs), NEW tx
  PROVE  Len(Before(txs, tx)) <= Len(txs)
<1> DEFINE first == {i \in DOMAIN txs : txs[i] = tx}
<1>1. CASE first = {}
  BY <1>1 DEF Before
<1>2. CASE first # {}
  <2> DEFINE i == CHOOSE j \in first : TRUE
  <2>1. i \in 1 .. Len(txs)
    BY <1>2
  <2>2. Before(txs, tx) = SubSeq(txs, 1, i - 1)
    BY <1>2 DEF Before
  <2>3. i - 1 \in Nat /\ i - 1 <= Len(txs)
    BY <2>1
  <2>4. \A k \in 1 .. (i - 1) : txs[k] \in AllTxs
    BY <2>3, ElementOfSeq
  <2>5. Len(SubSeq(txs, 1, i - 1)) = IF 1 <= i - 1 THEN (i - 1) - 1 + 1 ELSE 0
    BY <2>3, <2>4, SubSeqProperties
  <2> QED
    BY <2>2, <2>3, <2>5
<1> QED
  BY <1>1, <1>2

(* A new fork is a fork, of the chain it was made for. *)
LEMMA NewForkType ==
  ASSUME NEW url \in Url, NEW number \in Nat
  PROVE  NewFork(url, number) \in ForkState /\ NewFork(url, number).url = url
BY DEF NewFork, Untouched, ForkState, AccountState

(* Commits change what the accounts of a fork hold, and nothing else of it. *)
LEMMA CommittedType ==
  ASSUME NEW fork \in ForkState, NEW txs \in Seq(AnyTx)
  PROVE  /\ Committed(fork, txs) \in ForkState
         /\ Committed(fork, txs).url = fork.url
<1> DEFINE accounts == [a \in Account |-> Ran(fork.accounts[a], txs)]
<1>1. \A a \in Account : fork.accounts[a] \in AccountState
  BY DEF ForkState
<1>2. \A a \in Account : fork.accounts[a].txs \in Seq(AnyTx)
  BY <1>1 DEF AccountState, AnyTx
<1>3. \A a \in Account : fork.accounts[a].txs \o txs \in Seq(AnyTx)
  BY <1>2
<1>4. accounts \in [Account -> AccountState]
  BY <1>1, <1>3 DEF AccountState, AnyTx, Ran
<1>5. Committed(fork, txs) = [url |-> fork.url, block |-> fork.block, accounts |-> accounts]
  BY DEF Committed, WithAccounts, Ran
<1> QED
  BY <1>4, <1>5 DEF ForkState

(* While nothing persists, a fork that becomes active is left as it was, and *)
(* a rolled one starts anew.                                                 *)
LEMMA NothingCarried ==
  ASSUME NothingPersists, NEW fork \in ForkState, NEW number \in Nat
  PROVE  /\ Carried(fork) = fork
         /\ Rolled(fork, number) = NewFork(fork.url, number)
<1>1. ASSUME NEW other \in ForkState, NEW from PROVE Kept(other, from) = other
  <2>1. Kept(other, from) =
          [url |-> other.url, block |-> other.block,
           accounts |-> [a \in Account |-> other.accounts[a]]]
    BY DEF Kept, WithAccounts, NothingPersists
  <2> QED
    BY <2>1 DEF ForkState
<1>2. fork.url \in Url
  BY DEF ForkState
<1> QED
  BY <1>1, <1>2, NewForkType DEF Carried, Rolled

(* A transaction of a user is none of the chain's. *)
LEMMA UserTxType ==
  ASSUME NEW to \in Account
  PROVE  <<UserTx(to)>> \in Seq(AnyTx) /\ Len(<<UserTx(to)>>) = 1
BY DEF AnyTx

(* The method under way knows what it was asked for. *)
LEMMA CallFields ==
  ASSUME call \in CallState, call.at # "idle"
  PROVE  /\ call.id \in ForkIds /\ call.id.url \in Url
         /\ call.tx \in AllTxs \cup {None}
         /\ call.fetched \in Nat
         /\ call = [at |-> call.at, id |-> call.id, tx |-> call.tx, created |-> call.created,
                    fetched |-> call.fetched]
         /\ call.created \in BOOLEAN
BY DEF CallState, Idle, ForkIds

(* A new record: one more than before, and the others stay. *)
LEMMA RecordType ==
  ASSUME TypeOK, NEW id \in ForkIds, id \notin DOMAIN forks,
         NEW local \in 0 .. Cardinality(DOMAIN forks), NEW number \in Nat,
         forks' = Record(id, local, number)
  PROVE  /\ DOMAIN forks' = DOMAIN forks \cup {id}
         /\ DOMAIN forks' \subseteq ForkIds
         /\ IsFiniteSet(DOMAIN forks')
         /\ Cardinality(DOMAIN forks') = Cardinality(DOMAIN forks) + 1
         /\ Cardinality(DOMAIN forks) \in Nat
         /\ forks'[id] = [local |-> local, block |-> number]
         /\ \A known \in DOMAIN forks : forks'[known] = forks[known]
         /\ \A known \in DOMAIN forks' : forks'[known] \in RecordState'
<1>1. DOMAIN forks' = DOMAIN forks \cup {id}
  BY DEF Record
<1>2. IsFiniteSet(DOMAIN forks)
  BY DEF TypeOK
<1>3. /\ IsFiniteSet(DOMAIN forks')
      /\ Cardinality(DOMAIN forks') = Cardinality(DOMAIN forks) + 1
      /\ Cardinality(DOMAIN forks) \in Nat
  BY <1>1, <1>2, FS_AddElement, FS_CardinalityType
<1>4. forks'[id] = [local |-> local, block |-> number]
  BY DEF Record
<1>5. \A known \in DOMAIN forks : forks'[known] = forks[known]
  BY DEF Record
<1>6. ASSUME NEW known \in DOMAIN forks' PROVE forks'[known] \in RecordState'
  <2>1. CASE known = id
    BY <2>1, <1>3, <1>4 DEF RecordState
  <2>2. CASE known # id
    <3>1. known \in DOMAIN forks /\ forks'[known] = forks[known]
      BY <2>2, <1>1, <1>5
    <3>2. forks[known] \in [local : 0 .. (Cardinality(DOMAIN forks) - 1), block : Nat]
      BY <3>1 DEF TypeOK, RecordState
    <3> QED
      BY <3>1, <3>2, <1>3 DEF RecordState
  <2> QED
    BY <2>1, <2>2
<1>7. DOMAIN forks' \subseteq ForkIds
  BY <1>1 DEF TypeOK
<1> QED
  BY <1>1, <1>3, <1>4, <1>5, <1>6, <1>7

-----------------------------------------------------------------------------
(* Three kinds of step keep the invariant. *)

CallKept ==
  /\ call' \in CallState
  /\ (call.at = "create" => call.id \notin DOMAIN forks)'
  /\ (call.at = "replay" => active # None /\ call.tx # None)'
  /\ (call.at # "idle" /\ call.tx # None => call.id.block \in Nat)'

HeadKept == DOMAIN head' = Url /\ \A url \in Url : head'[url] \in BlockNumbers(url)

(* A step that touches neither the backend nor the records. *)
LEMMA QuietStep ==
  ASSUME Inv, UNCHANGED <<backend, active, persistent, forks, lost>>,
         HeadKept, envBlock' \in Nat, CallKept
  PROVE  Inv'
<1>1. TypeOK'
  BY DEF Inv, TypeOK, RecordState, HeadKept, CallKept
<1>2. CallIsTyped'
  BY DEF CallIsTyped, CallKept
<1>3. NothingPersists' /\ RecordsNameForks'
  BY DEF Inv, NothingPersists, RecordsNameForks
<1> QED
  BY <1>1, <1>2, <1>3 DEF Inv

(* A step that writes to the active fork. *)
LEMMA WriteStep ==
  ASSUME Inv, active # None, NEW fork \in ForkState, fork.url = backend[active + 1].url,
         backend' = [backend EXCEPT ![active + 1] = fork],
         UNCHANGED <<head, active, persistent, forks, lost>>,
         envBlock' \in Nat, CallKept
  PROVE  Inv'
<1>1. active + 1 \in 1 .. Len(backend) /\ backend \in Seq(ForkState)
  BY DEF Inv, TypeOK
<1>2. /\ backend' \in Seq(ForkState)
      /\ Len(backend') = Len(backend)
      /\ \A i \in DOMAIN backend : backend'[i].url = backend[i].url
      /\ DOMAIN backend' = DOMAIN backend
  BY <1>1, ExceptSeq
<1>3. TypeOK'
  BY <1>2 DEF Inv, TypeOK, RecordState, CallKept
<1>4. CallIsTyped'
  BY DEF CallIsTyped, CallKept
<1>5. NothingPersists' /\ RecordsNameForks'
  BY <1>2 DEF Inv, NothingPersists, RecordsNameForks
<1> QED
  BY <1>3, <1>4, <1>5 DEF Inv

(* A step in which the backend creates the fork of a new record. *)
LEMMA CreateStep ==
  ASSUME Inv, NEW id \in ForkIds, id \notin DOMAIN forks, NEW number \in Nat,
         forks' = Record(id, NextLocalId, number),
         NEW fork \in ForkState, fork.url = id.url, backend' = Append(backend, fork),
         active' \in {active, Len(backend)},
         UNCHANGED <<head, persistent, lost>>,
         envBlock' \in Nat, CallKept
  PROVE  Inv'
<1> DEFINE local == Cardinality(DOMAIN forks)
<1>1. /\ backend \in Seq(ForkState) /\ Len(backend) \in Nat
      /\ IsFiniteSet(DOMAIN forks) /\ local \in Nat
      /\ lost \subseteq DOMAIN forks
  BY FS_CardinalityType DEF Inv, TypeOK
<1>2. /\ backend' \in Seq(ForkState)
      /\ Len(backend') = Len(backend) + 1
      /\ DOMAIN backend = 1 .. Len(backend)
      /\ DOMAIN backend' = 1 .. (Len(backend) + 1)
      /\ \A i \in 1 .. Len(backend) : backend'[i] = backend[i]
      /\ backend'[Len(backend) + 1] = fork
  BY <1>1, AppendProperties
<1>3. local \in 0 .. Cardinality(DOMAIN forks) /\ forks' = Record(id, local, number)
  BY <1>1 DEF NextLocalId
<1> HIDE DEF local
<1>4. /\ DOMAIN forks' = DOMAIN forks \cup {id}
      /\ DOMAIN forks' \subseteq ForkIds
      /\ IsFiniteSet(DOMAIN forks')
      /\ Cardinality(DOMAIN forks') = Cardinality(DOMAIN forks) + 1
      /\ forks'[id] = [local |-> local, block |-> number]
      /\ \A known \in DOMAIN forks : forks'[known] = forks[known]
      /\ \A known \in DOMAIN forks' : forks'[known] \in RecordState'
  BY <1>3, RecordType DEF Inv
<1>5. active' # None => active' \in Nat /\ active' < Len(backend')
  BY <1>1, <1>2 DEF Inv, TypeOK
<1>6. TypeOK'
  BY <1>1, <1>2, <1>4, <1>5 DEF Inv, TypeOK, CallKept
<1>7. CallIsTyped'
  BY DEF CallIsTyped, CallKept
<1>8. ASSUME lost = {}
      PROVE  /\ Cardinality(DOMAIN forks') = Len(backend')
             /\ \A known \in DOMAIN forks' :
                  /\ forks'[known].local + 1 \in DOMAIN backend'
                  /\ backend'[forks'[known].local + 1].url = known.url
                  /\ \A other \in DOMAIN forks' :
                       forks'[other].local = forks'[known].local => other = known
  <2>1. /\ local = Len(backend)
        /\ \A known \in DOMAIN forks :
             /\ forks[known].local + 1 \in 1 .. Len(backend)
             /\ backend[forks[known].local + 1].url = known.url
             /\ \A other \in DOMAIN forks : forks[other].local = forks[known].local => other = known
    BY <1>2, <1>8 DEF Inv, RecordsNameForks, local
  <2>2. Cardinality(DOMAIN forks') = Len(backend')
    BY <1>2, <1>4, <2>1 DEF local
  <2>3. ASSUME NEW known \in DOMAIN forks
        PROVE  /\ forks'[known].local \in Nat
               /\ forks'[known].local < Len(backend)
               /\ backend'[forks'[known].local + 1].url = known.url
    <3>1. forks'[known] = forks[known]
      BY <1>4
    <3>2. forks[known].local \in Nat
      BY DEF Inv, TypeOK, RecordState
    <3> QED
      BY <1>1, <1>2, <2>1, <3>1, <3>2
  <2>4. forks'[id].local = Len(backend) /\ backend'[Len(backend) + 1].url = id.url
    BY <1>2, <1>4, <2>1
  <2>5. ASSUME NEW known \in DOMAIN forks'
        PROVE  /\ forks'[known].local + 1 \in DOMAIN backend'
               /\ backend'[forks'[known].local + 1].url = known.url
    BY <1>1, <1>2, <1>4, <2>3, <2>4
  <2>6. ASSUME NEW known \in DOMAIN forks', NEW other \in DOMAIN forks',
               forks'[other].local = forks'[known].local
        PROVE  other = known
    BY <1>1, <1>4, <2>1, <2>3, <2>4, <2>6
  <2> QED
    BY <2>2, <2>5, <2>6
<1>9. NothingPersists' /\ RecordsNameForks'
  BY <1>8 DEF Inv, NothingPersists, RecordsNameForks
<1> QED
  BY <1>6, <1>7, <1>9 DEF Inv

-----------------------------------------------------------------------------
(* The actions. *)

(* Whichever method selected, it knows its fork when it goes on. *)
LEMMA SelectedKeeps ==
  ASSUME Inv, call.at \in {"select", "create"}, NEW created \in BOOLEAN, Selected(created),
         active' # None
  PROVE  CallKept
<1>1. call \in CallState /\ call.at # "idle"
  BY DEF Inv, TypeOK
<1>2. CASE call.tx = None
  BY <1>2 DEF Selected, Return, CallKept, Idle, CallState
<1>3. CASE call.tx # None
  <2>1. call' = [at |-> "replay", id |-> call.id, tx |-> call.tx, created |-> created,
                 fetched |-> call.fetched]
    BY <1>1, <1>3, CallFields DEF Selected
  <2>2. call.id.block \in Nat
    BY <1>1, <1>3 DEF Inv, CallIsTyped
  <2>3. call' \in CallState
    BY <1>1, <1>3, <2>1, CallFields DEF CallState
  <2> QED
    BY <1>3, <2>1, <2>2, <2>3 DEF CallKept
<1> QED
  BY <1>2, <1>3

(* A method that returns leaves nothing that could be badly typed. *)
LEMMA IdleKeeps ==
  ASSUME call' = Idle
  PROVE  CallKept
BY DEF CallKept, CallState, Idle

(* No chain grows in the steps of the Forker itself. *)
LEMMA HeadStays ==
  ASSUME Inv, UNCHANGED head
  PROVE  HeadKept
BY DEF Inv, TypeOK, HeadKept

(* Steps of add_or_select. *)
LEMMA SelectStep ==
  ASSUME Inv, Select
  PROVE  Inv'
<1>0. call \in CallState /\ TypeOK /\ envBlock \in Nat
  BY DEF Inv, TypeOK
<1>1. CASE SelectActive
  <2>1. active \in Nat /\ active' = active
    BY <1>1, <1>0 DEF SelectActive, IsActive, TypeOK, RecordState
  <2>2. CallKept
    BY <1>1, <2>1, SelectedKeeps, NoneAssumption DEF SelectActive, AtSelect
  <2> QED
    BY <1>0, <1>1, <2>2, HeadStays, QuietStep DEF SelectActive, AtSelect
<1>2. CASE SelectKnown
  <2> DEFINE local == forks[call.id].local
  <2>1. /\ local \in Nat /\ local + 1 \in DOMAIN backend
        /\ backend[local + 1] \in ForkState
        /\ local < Len(backend) /\ backend \in Seq(ForkState) /\ Len(backend) \in Nat
    BY <1>0, <1>2, ElementOfSeq DEF SelectKnown, TypeOK, RecordState
  <2>2. backend' = backend
    <3>1. Carried(backend[local + 1]) = backend[local + 1]
      BY <2>1, NothingCarried DEF Inv
    <3>2. backend' = [backend EXCEPT ![local + 1] = Carried(backend[local + 1])]
      BY <1>2 DEF SelectKnown
    <3> QED
      BY <2>1, <3>1, <3>2
  <2>3. active' = local /\ active' # None
    BY <1>2, <2>1, NoneAssumption DEF SelectKnown
  <2>4. CallKept
    BY <1>2, <2>3, SelectedKeeps DEF SelectKnown, AtSelect
  <2>5. UNCHANGED <<head, persistent, forks, lost, envBlock>>
    BY <1>2 DEF SelectKnown, AtSelect
  <2>6. TypeOK'
    BY <2>1, <2>2, <2>3, <2>4, <2>5 DEF Inv, TypeOK, RecordState, CallKept
  <2>7. CallIsTyped'
    BY <2>4 DEF CallIsTyped, CallKept
  <2>8. NothingPersists' /\ RecordsNameForks'
    BY <2>2, <2>5 DEF Inv, NothingPersists, RecordsNameForks
  <2> QED
    BY <2>6, <2>7, <2>8 DEF Inv
<1>3. CASE SelectFails
  BY <1>0, <1>3, IdleKeeps, HeadStays, QuietStep DEF SelectFails, AtSelect, Return
<1>4. CASE FetchEnv
  <2>1. call' = [at |-> "create", id |-> call.id, tx |-> call.tx, created |-> call.created,
                 fetched |-> IF call.id.block = None THEN head[call.id.url] ELSE call.id.block]
    BY <1>0, <1>4, CallFields DEF FetchEnv, AtSelect
  <2>2. call'.fetched \in Nat
    <3>1. call.id \in ForkIds /\ call.id.url \in Url
      BY <1>0, <1>4, CallFields DEF FetchEnv, AtSelect
    <3>2. head[call.id.url] \in Nat
      BY <1>0, <3>1, BlockType DEF TypeOK
    <3> QED
      BY <2>1, <3>1, <3>2 DEF ForkIds
  <2>3. CallKept
    <3>1. /\ call'.at = "create" /\ call'.id = call.id /\ call'.tx = call.tx
          /\ call.at # "idle" /\ call.id \notin DOMAIN forks /\ forks' = forks
      BY <1>4, <2>1 DEF FetchEnv, AtSelect
    <3>2. call' \in CallState
      BY <1>0, <2>1, <2>2, <3>1, CallFields DEF CallState
    <3> QED
      BY <3>1, <3>2 DEF CallKept, Inv, CallIsTyped
  <2> QED
    BY <1>0, <1>4, <2>3, HeadStays, QuietStep DEF FetchEnv, AtSelect
<1>5. CASE FetchFails
  BY <1>0, <1>5, IdleKeeps, HeadStays, QuietStep DEF FetchFails, AtSelect, Return
<1>6. CASE SpawnFails
  BY <1>0, <1>6, IdleKeeps, HeadStays, QuietStep DEF SpawnFails, AtCreate, Return, executorVars
<1>7. ASSUME AtCreate
      PROVE  /\ call.id \in ForkIds /\ call.id.url \in Url /\ call.id \notin DOMAIN forks
             /\ call.fetched \in Nat
             /\ \A number \in StartBlocks(call.id, call.fetched) :
                  NewFork(call.id.url, number) \in ForkState /\ NewFork(call.id.url, number).url = call.id.url
  <2>1. /\ call.id \in ForkIds /\ call.id.url \in Url /\ call.id \notin DOMAIN forks
        /\ call.fetched \in Nat
    BY <1>0, <1>7, CallFields DEF AtCreate, Inv, CallIsTyped
  <2>2. head[call.id.url] \in Nat
    BY <1>0, <2>1, BlockType DEF TypeOK
  <2>3. StartBlocks(call.id, call.fetched) \subseteq Nat
    BY <2>1, <2>2 DEF StartBlocks, ForkIds
  <2> QED
    BY <2>1, <2>3, NewForkType
<1>8. CASE NewWithFork
  <2>1. lost = {} /\ Cardinality(DOMAIN forks) = 0
    BY <1>8, FS_EmptySet DEF NewWithFork, Inv, TypeOK
  <2>2. Len(backend) = 0 /\ backend = << >>
    BY <2>1, <1>0, EmptySeq DEF Inv, RecordsNameForks, TypeOK
  <2>3. PICK number \in StartBlocks(call.id, call.fetched) :
          backend' = <<NewFork(call.id.url, number)>>
    BY <1>8 DEF NewWithFork
  <2>4. backend' = Append(backend, NewFork(call.id.url, number))
    BY <2>2, <2>3
  <2>5. active' = Len(backend) /\ active' # None
    BY <1>8, <2>2, NoneAssumption DEF NewWithFork
  <2>6. CallKept
    BY <1>8, <2>5, SelectedKeeps DEF NewWithFork, AtCreate
  <2>7. forks' = Record(call.id, NextLocalId, call.fetched)
    BY <1>8, <2>1 DEF NewWithFork, NextLocalId
  <2>8. UNCHANGED <<head, persistent, lost>> /\ envBlock' \in Nat
    BY <1>7, <1>8 DEF NewWithFork, AtCreate, Inv, NothingPersists
  <2> QED
    BY <1>7, <1>8, <2>3, <2>4, <2>5, <2>6, <2>7, <2>8, CreateStep DEF NewWithFork
<1>9. CASE CreateSelectFork
  <2>1. PICK number \in StartBlocks(call.id, call.fetched) :
          backend' = Append(backend, Carried(NewFork(call.id.url, number)))
    BY <1>9 DEF CreateSelectFork
  <2>2. AtCreate
    BY <1>9 DEF CreateSelectFork, RecordFork
  <2>3. backend' = Append(backend, NewFork(call.id.url, number))
    BY <1>7, <2>1, <2>2, NothingCarried DEF Inv
  <2>4. active' = Len(backend) /\ active' # None
    BY <1>0, <1>9, NoneAssumption DEF CreateSelectFork, TypeOK
  <2>5. CallKept
    BY <1>9, <2>2, <2>4, SelectedKeeps DEF CreateSelectFork, AtCreate
  <2> QED
    BY <1>0, <1>7, <1>9, <2>1, <2>2, <2>3, <2>4, <2>5, CreateStep
    DEF CreateSelectFork, RecordFork, AtCreate
<1>10. CASE CreatedUnselected
  <2>1. PICK number \in StartBlocks(call.id, call.fetched) :
          backend' = Append(backend, NewFork(call.id.url, number))
    BY <1>10 DEF CreatedUnselected
  <2>2. AtCreate
    BY <1>10 DEF CreatedUnselected, RecordFork
  <2> QED
    BY <1>0, <1>7, <1>10, <2>1, <2>2, IdleKeeps, CreateStep
    DEF CreatedUnselected, RecordFork, AtCreate, Return
<1>11. CASE CreateFails
  <2>1. AtCreate /\ forks' = Record(call.id, NextLocalId, call.fetched)
    BY <1>11 DEF CreateFails, RecordFork
  <2>2. NextLocalId \in 0 .. Cardinality(DOMAIN forks)
    BY <1>0, FS_CardinalityType DEF NextLocalId, TypeOK
  <2>3. /\ DOMAIN forks' = DOMAIN forks \cup {call.id}
        /\ DOMAIN forks' \subseteq ForkIds
        /\ IsFiniteSet(DOMAIN forks')
        /\ \A known \in DOMAIN forks' : forks'[known] \in RecordState'
    BY <1>0, <1>7, <2>1, <2>2, RecordType
  <2>4. UNCHANGED <<head, backend, active, persistent, envBlock>> /\ lost' = lost \cup {call.id}
    BY <1>11 DEF CreateFails, RecordFork, AtCreate, executorVars
  <2>5. CallKept
    BY <1>11, IdleKeeps DEF CreateFails, Return
  <2>6. TypeOK'
    BY <2>3, <2>4, <2>5 DEF Inv, TypeOK, CallKept
  <2>7. CallIsTyped'
    BY <2>5 DEF CallIsTyped, CallKept
  <2>8. NothingPersists' /\ RecordsNameForks'
    BY <2>4 DEF Inv, NothingPersists, RecordsNameForks
  <2> QED
    BY <2>6, <2>7, <2>8 DEF Inv
<1> QED
  BY <1>1, <1>2, <1>3, <1>4, <1>5, <1>6, <1>8, <1>9, <1>10, <1>11 DEF Select

(* The active fork, and what commits make of it. *)
LEMMA ActiveFork ==
  ASSUME Inv, active # None
  PROVE  /\ active \in Nat /\ active + 1 \in DOMAIN backend
         /\ backend[active + 1] \in ForkState /\ backend[active + 1].url \in Url
         /\ \A txs \in Seq(AnyTx) :
              /\ Committed(backend[active + 1], txs) \in ForkState
              /\ Committed(backend[active + 1], txs).url = backend[active + 1].url
<1>1. /\ active \in Nat /\ active + 1 \in DOMAIN backend
      /\ backend[active + 1] \in ForkState
  BY ElementOfSeq DEF Inv, TypeOK
<1> QED
  BY <1>1, CommittedType DEF ForkState

(* A commit writes to the active fork only, or to none. *)
LEMMA CommitStep ==
  ASSUME Inv, NEW to \in Account, AlloyCallCommitting(to)
  PROVE  Inv'
<1>1. /\ call = Idle /\ call' = call
      /\ UNCHANGED <<head, active, persistent, forks, lost, envBlock>>
  BY DEF AlloyCallCommitting, PersistentAfter, Inv, NothingPersists
<1>2. CallKept /\ envBlock' \in Nat
  BY <1>1, IdleKeeps DEF Inv, TypeOK
<1>3. CASE backend' = backend
  BY <1>1, <1>2, <1>3, HeadStays, QuietStep
<1>4. CASE /\ active # None
           /\ backend' = [backend EXCEPT ![active + 1] = Committed(@, <<UserTx(to)>>)]
  <2> DEFINE fork == Committed(backend[active + 1], <<UserTx(to)>>)
  <2>1. fork \in ForkState /\ fork.url = backend[active + 1].url
    BY <1>4, ActiveFork, UserTxType
  <2>2. backend' = [backend EXCEPT ![active + 1] = fork]
    BY <1>4
  <2> HIDE DEF fork
  <2> QED
    BY <1>1, <1>2, <1>4, <2>1, <2>2, WriteStep
<1> QED
  BY <1>3, <1>4 DEF AlloyCallCommitting

(* A roll replaces the active fork by a new one of the same chain. *)
LEMMA RollStep ==
  ASSUME Inv, NEW asked \in RollTargets, RollFork(asked)
  PROVE  Inv'
<1>1. /\ call = Idle /\ call' = call /\ active # None
      /\ UNCHANGED <<head, active, persistent, forks, lost>>
  BY DEF RollFork
<1>2. PICK id \in ActiveRecords :
        LET target == IF asked = None THEN OriginalBlock(id) ELSE asked
            fork == backend[active + 1]
        IN  /\ envBlock' = target
            /\ \/ /\ target <= head[fork.url]
                  /\ backend' = [backend EXCEPT ![active + 1] = Rolled(@, target)]
                  /\ last' = RollAnswer(asked, "ok")
               \/ /\ last' = RollAnswer(asked, "ExecutorError")
                  /\ UNCHANGED backend
  BY DEF RollFork
<1> DEFINE target == IF asked = None THEN OriginalBlock(id) ELSE asked
           fork == Rolled(backend[active + 1], target)
<1>3. target \in Nat
  BY RollAssumption DEF ActiveRecords, OriginalBlock, Inv, TypeOK, RecordState
<1>4. CallKept /\ envBlock' \in Nat
  BY <1>1, <1>2, <1>3, IdleKeeps
<1>5. fork \in ForkState /\ fork.url = backend[active + 1].url
  BY <1>1, <1>3, ActiveFork, NothingCarried, NewForkType DEF Inv
<1>6. backend' = backend \/ backend' = [backend EXCEPT ![active + 1] = fork]
  BY <1>2
<1> HIDE DEF fork, target
<1>7. CASE backend' = backend
  BY <1>1, <1>4, <1>7, HeadStays, QuietStep
<1>8. CASE backend' = [backend EXCEPT ![active + 1] = fork]
  BY <1>1, <1>4, <1>5, <1>8, WriteStep
<1> QED
  BY <1>6, <1>7, <1>8

(* A replay commits transactions of the block, as many as succeed. *)
LEMMA ReplayStep ==
  ASSUME Inv, Replay \/ ReplayFails
  PROVE  Inv'
<1>1. /\ call' = Idle /\ active # None /\ call.id \in ForkIds /\ envBlock' = ReplayBlock
      /\ UNCHANGED <<head, active, persistent, forks, lost>>
  BY CallFields DEF Replay, ReplayFails, AtReplay, Inv, CallIsTyped, TypeOK
<1>2. CASE ReplayBlock \in BlockNumbers(ReplayedOn)
  <2> DEFINE txs == BlockAt(ReplayedOn, ReplayBlock)
  <2>1. ReplayBlock \in Nat /\ txs \in Seq(AllTxs)
    BY <1>1, <1>2, ActiveFork, BlockType DEF ReplayedOn
  <2>2. CallKept /\ envBlock' \in Nat
    BY <1>1, <2>1, IdleKeeps
  <2> HIDE DEF txs
  <2>3. Before(txs, call.tx) \in Seq(AllTxs)
    BY <2>1, BeforeType
  <2>4. \/ backend' = backend
        \/ \E some \in Seq(AnyTx) :
             backend' = [backend EXCEPT ![active + 1] = Committed(backend[active + 1], some)]
    <3>1. CASE Replay
      <4>1. Prefix(txs) \in Seq(AnyTx)
        BY <2>3 DEF Prefix, AnyTx
      <4> QED
        BY <3>1, <4>1 DEF Replay, txs
    <3>2. CASE ReplayFails
      <4>1. \/ backend' = backend
            \/ \E n \in 0 .. Len(Before(txs, call.tx)) :
                 backend' = [backend EXCEPT ![active + 1] = Committed(@, SubSeq(txs, 1, n))]
        BY <3>2 DEF ReplayFails, txs
      <4>2. ASSUME NEW n \in 0 .. Len(Before(txs, call.tx))
            PROVE  SubSeq(txs, 1, n) \in Seq(AnyTx)
        <5>1. n \in Int /\ n <= Len(txs)
          BY <2>1, <2>3, BeforeShort
        <5>2. \A k \in 1 .. n : txs[k] \in AnyTx
          BY <2>1, <5>1, ElementOfSeq DEF AnyTx
        <5> QED
          BY <5>1, <5>2, SubSeqProperties
      <4> QED
        BY <4>1, <4>2
    <3> QED
      BY <3>1, <3>2
  <2>5. CASE backend' = backend
    BY <1>1, <2>2, <2>5, HeadStays, QuietStep
  <2>6. CASE \E some \in Seq(AnyTx) :
               backend' = [backend EXCEPT ![active + 1] = Committed(backend[active + 1], some)]
    <3>1. PICK some \in Seq(AnyTx) :
            backend' = [backend EXCEPT ![active + 1] = Committed(backend[active + 1], some)]
      BY <2>6
    <3> QED
      BY <1>1, <2>2, <3>1, ActiveFork, WriteStep
  <2> QED
    BY <2>4, <2>5, <2>6
<1>3. CASE ReplayBlock \notin BlockNumbers(ReplayedOn)
  <2>1. backend' = backend
    BY <1>3 DEF Replay, ReplayFails
  <2>2. envBlock' \in Nat
    <3>1. call.at = "replay"
      BY DEF Replay, ReplayFails, AtReplay
    <3> QED
      BY <1>1, <3>1 DEF ReplayBlock, Inv, CallIsTyped
  <2> QED
    BY <1>1, <2>1, <2>2, IdleKeeps, HeadStays, QuietStep
<1> QED
  BY <1>2, <1>3

(* A replay has found its transaction on the active fork's chain. *)
LEMMA ReplayBegins ==
  ASSUME Inv, NEW tx \in AllTxs, ReplayTransaction(tx)
  PROVE  Inv'
<1>1. active # None /\ UNCHANGED <<head, executorVars, forks, lost>>
  BY DEF ReplayTransaction
<1>2. PICK number \in MinedAt(backend[active + 1].url, tx) \ {0} :
        call' = [at |-> "select", id |-> ForkId(backend[active + 1].url, number - 1), tx |-> tx,
                 created |-> FALSE, fetched |-> 0]
  BY DEF ReplayTransaction
<1>3. backend[active + 1].url \in Url /\ head[backend[active + 1].url] \in Nat
  BY <1>1, ActiveFork, BlockType DEF Inv, TypeOK
<1>4. number - 1 \in Nat
  BY <1>2, <1>3 DEF MinedAt
<1>5. CallKept
  BY <1>2, <1>3, <1>4, NoneAssumption DEF CallKept, CallState, ForkId, ForkIds
<1>6. envBlock' \in Nat
  BY <1>1 DEF executorVars, Inv, TypeOK
<1> QED
  BY <1>1, <1>5, <1>6, HeadStays, QuietStep DEF executorVars

(* The Forker's invariant holds whatever the chains do and callers ask for. *)
THEOREM Invariance == Spec => []Inv
<1>1. Init => Inv
  <2> SUFFICES ASSUME Init PROVE Inv
    OBVIOUS
  <2>1. \A url \in Url : head[url] \in BlockNumbers(url)
    <3> SUFFICES ASSUME NEW url \in Url PROVE 0 \in BlockNumbers(url)
      BY DEF Init
    <3>1. Chain[url] \in Seq(Seq(TxsOf(url))) /\ Chain[url] # << >>
      BY ChainAssumption
    <3>2. Len(Chain[url]) \in Nat /\ Len(Chain[url]) # 0
      BY <3>1, EmptySeq
    <3> QED
      BY <3>2 DEF BlockNumbers
  <2>2. DOMAIN forks = {} /\ IsFiniteSet(DOMAIN forks) /\ Cardinality(DOMAIN forks) = 0
    BY FS_EmptySet DEF Init
  <2>3. backend \in Seq(ForkState) /\ Len(backend) = 0
    BY DEF Init
  <2>4. TypeOK
    BY <2>1, <2>2, <2>3 DEF Init, TypeOK, CallState, Idle
  <2>5. CallIsTyped /\ NothingPersists /\ RecordsNameForks
    BY <2>2, <2>3 DEF Init, CallIsTyped, NothingPersists, RecordsNameForks, Idle
  <2> QED
    BY <2>4, <2>5 DEF Inv
<1>2. Inv /\ [Next]_vars => Inv'
  <2> SUFFICES ASSUME Inv, [Next]_vars PROVE Inv'
    OBVIOUS
  <2>0. /\ TypeOK /\ envBlock \in Nat
        /\ call' = call /\ active' = active /\ forks' = forks => CallKept
    BY DEF Inv, TypeOK, CallIsTyped, CallKept
  <2>1. CASE UNCHANGED vars
    BY <2>0, <2>1, HeadStays, QuietStep DEF vars, executorVars
  <2>2. ASSUME NEW url \in Url, Mine(url) PROVE Inv'
    <3>1. HeadKept
      BY <2>0, <2>2 DEF Mine, TypeOK, HeadKept
    <3> QED
      BY <2>0, <2>2, <3>1, QuietStep DEF Mine, executorVars
  <2>3. ASSUME NEW id \in Requested, AddOrSelect(id) PROVE Inv'
    <3>1. CallKept
      BY <2>3, RequestedAssumption DEF AddOrSelect, CallKept, CallState
    <3> QED
      BY <2>0, <2>3, <3>1, HeadStays, QuietStep DEF AddOrSelect, executorVars
  <2>4. CASE Select
    BY <2>4, SelectStep
  <2>5. CASE AlloyCall
    BY <2>0, <2>5, HeadStays, QuietStep DEF AlloyCall, executorVars
  <2>6. ASSUME NEW to \in Account, AlloyCallCommitting(to) \/ TransactFails(to) PROVE Inv'
    <3>1. CASE TransactFails(to)
      <4>1. persistent' = persistent
        BY <3>1 DEF TransactFails, PersistentAfter, Inv, NothingPersists
      <4> QED
        BY <2>0, <3>1, <4>1, HeadStays, QuietStep DEF TransactFails
    <3> QED
      BY <2>6, <3>1, CommitStep
  <2>7. CASE InvalidAddress
    BY <2>0, <2>7, HeadStays, QuietStep DEF InvalidAddress, executorVars
  <2>8. ASSUME NEW asked \in RollTargets, NoActiveFork(asked) \/ RollFork(asked) PROVE Inv'
    <3>1. CASE NoActiveFork(asked)
      BY <2>0, <3>1, HeadStays, QuietStep DEF NoActiveFork, executorVars
    <3> QED
      BY <2>8, <3>1, RollStep
  <2>9. CASE ReplayWithoutFork \/ ReplayUnknown
    BY <2>0, <2>9, HeadStays, QuietStep DEF ReplayWithoutFork, ReplayUnknown, executorVars
  <2>10. ASSUME NEW tx \in AllTxs, ReplayGenesis(tx) \/ ReplayTransaction(tx) PROVE Inv'
    <3>1. CASE ReplayGenesis(tx)
      BY <2>0, <3>1, HeadStays, QuietStep DEF ReplayGenesis, executorVars
    <3> QED
      BY <2>10, <3>1, ReplayBegins
  <2>11. CASE Replay \/ ReplayFails
    BY <2>11, ReplayStep
  <2> QED
    BY <2>1, <2>2, <2>3, <2>4, <2>5, <2>6, <2>7, <2>8, <2>9, <2>10, <2>11 DEF Next
<1> QED
  BY <1>1, <1>2, PTL DEF Spec

(* The Forker's variables have their types. *)
THEOREM ForkerTypeOK == Spec => []TypeOK
<1>1. Inv => TypeOK
  BY DEF Inv
<1> QED
  BY <1>1, Invariance, PTL

(* A record of the map names a fork of the chain it was asked for, and each  *)
(* fork of the backend has one, as long as no creation failed (fork.rs:211). *)
THEOREM ForkerRecords == Spec => []RecordsNameForks
<1>1. Inv => RecordsNameForks
  BY DEF Inv
<1> QED
  BY <1>1, Invariance, PTL

-----------------------------------------------------------------------------
(* Isolation. *)

OthersUntouched ==
  \A f \in DOMAIN backend : backend'[f] # backend[f] => active = f - 1 /\ active' = active

(* Selecting and creating forks changes none that is there. *)
LEMMA SelectLeavesForks ==
  ASSUME Inv, Select
  PROVE  OthersUntouched
<1>1. CASE SelectActive \/ SelectFails \/ FetchEnv \/ FetchFails \/ SpawnFails \/ CreateFails
  BY <1>1 DEF SelectActive, SelectFails, FetchEnv, FetchFails, SpawnFails, CreateFails,
              executorVars, OthersUntouched
<1>2. CASE SelectKnown
  <2> DEFINE local == forks[call.id].local
  <2>1. /\ backend' = [backend EXCEPT ![local + 1] = Carried(backend[local + 1])]
        /\ local + 1 \in DOMAIN backend
    BY <1>2 DEF SelectKnown
  <2>2. backend[local + 1] \in ForkState
    BY <2>1, ElementOfSeq DEF Inv, TypeOK
  <2>3. Carried(backend[local + 1]) = backend[local + 1]
    BY <2>2, NothingCarried DEF Inv
  <2> QED
    BY <2>1, <2>3 DEF OthersUntouched
<1>3. CASE NewWithFork
  <2>1. lost = {} /\ Cardinality(DOMAIN forks) = 0
    BY <1>3, FS_EmptySet DEF NewWithFork, Inv, TypeOK
  <2>2. backend \in Seq(ForkState) /\ Len(backend) = 0
    BY <2>1 DEF Inv, TypeOK, RecordsNameForks
  <2> QED
    BY <2>2 DEF OthersUntouched
<1>4. ASSUME NEW fork, backend' = Append(backend, fork)
      PROVE  OthersUntouched
  <2>1. backend \in Seq(ForkState)
    BY DEF Inv, TypeOK
  <2> QED
    BY <1>4, <2>1 DEF OthersUntouched
<1>5. CASE CreateSelectFork
  BY <1>4, <1>5 DEF CreateSelectFork
<1>6. CASE CreatedUnselected
  BY <1>4, <1>6 DEF CreatedUnselected
<1> QED
  BY <1>1, <1>2, <1>3, <1>5, <1>6 DEF Select

(* Nothing that happens on one fork, or to the map, is seen on another       *)
(* (fork.rs:377: no account persists from fork to fork).                     *)
THEOREM ForkerIsolation == Spec => ForksAreIsolated
<1>1. Inv /\ [Next]_vars => [OthersUntouched]_vars
  <2> SUFFICES ASSUME Inv, Next PROVE OthersUntouched
    OBVIOUS
  <2>1. ASSUME UNCHANGED backend PROVE OthersUntouched
    BY <2>1 DEF OthersUntouched
  <2>2. ASSUME active # None, active' = active,
               NEW fork, backend' = [backend EXCEPT ![active + 1] = fork]
        PROVE  OthersUntouched
    <3>1. active \in Nat /\ backend \in Seq(ForkState)
      BY <2>2 DEF Inv, TypeOK
    <3>2. ASSUME NEW f \in DOMAIN backend, backend'[f] # backend[f] PROVE active = f - 1
      <4>1. f \in Nat
        BY <3>1
      <4>2. f = active + 1
        BY <2>2, <3>2
      <4> QED
        BY <3>1, <4>1, <4>2
    <3> QED
      BY <2>2, <3>2 DEF OthersUntouched
  <2>3. ASSUME NEW url \in Url, Mine(url) PROVE OthersUntouched
    BY <2>1, <2>3 DEF Mine, executorVars
  <2>4. ASSUME NEW id \in Requested, AddOrSelect(id) PROVE OthersUntouched
    BY <2>1, <2>4 DEF AddOrSelect, executorVars
  <2>5. CASE AlloyCall \/ InvalidAddress \/ ReplayWithoutFork \/ ReplayUnknown
    BY <2>1, <2>5 DEF AlloyCall, InvalidAddress, ReplayWithoutFork, ReplayUnknown, executorVars
  <2>6. ASSUME NEW to \in Account, AlloyCallCommitting(to) \/ TransactFails(to)
        PROVE  OthersUntouched
    BY <2>1, <2>2, <2>6 DEF AlloyCallCommitting, TransactFails
  <2>7. ASSUME NEW asked \in RollTargets, NoActiveFork(asked) \/ RollFork(asked)
        PROVE  OthersUntouched
    BY <2>1, <2>2, <2>7 DEF NoActiveFork, RollFork, executorVars
  <2>8. ASSUME NEW tx \in AllTxs, ReplayGenesis(tx) \/ ReplayTransaction(tx)
        PROVE  OthersUntouched
    BY <2>1, <2>8 DEF ReplayGenesis, ReplayTransaction, executorVars
  <2>9. CASE Replay \/ ReplayFails
    <3>1. active # None /\ active' = active
      BY <2>9 DEF Replay, ReplayFails, AtReplay, Inv, CallIsTyped
    <3> QED
      BY <2>1, <2>2, <2>9, <3>1 DEF Replay, ReplayFails
  <2> QED
    BY <2>3, <2>4, <2>5, <2>6, <2>7, <2>8, <2>9, SelectLeavesForks DEF Next
<1> QED
  BY <1>1, Invariance, PTL DEF Spec, ForksAreIsolated, OthersUntouched

-----------------------------------------------------------------------------
(* Answers. *)

NothingAnswered == call.at # "idle" => last = NoAnswer

BlocksAsAsked ==
  /\ \A id \in DOMAIN forks : id.block # None => forks[id].block = id.block
  /\ call.at = "create" /\ call.id.block # None => call.fetched = call.id.block

AnswerInv == Inv /\ NothingAnswered /\ BlocksAsAsked /\ RollsToOriginal

(* Steps of add_or_select answer as add_or_select or replay, or not yet. *)
LEMMA SelectAnswers ==
  ASSUME Inv, NothingAnswered, Select
  PROVE  /\ last'.op # "roll" /\ last'.op # "commit"
         /\ NothingAnswered'
<1>1. call.at \in {"select", "create"} /\ last = NoAnswer
  BY DEF Select, SelectActive, SelectKnown, SelectFails, FetchEnv, FetchFails, NewWithFork,
         SpawnFails, CreateSelectFork, CreateFails, CreatedUnselected, RecordFork, AtSelect,
         AtCreate, NothingAnswered
<1>2. ASSUME NEW outcome, Return(Answer(outcome))
      PROVE  call'.at = "idle" /\ last'.op # "roll" /\ last'.op # "commit"
  BY <1>2 DEF Return, Answer, Idle
<1>3. CASE \E outcome : Return(Answer(outcome))
  BY <1>2, <1>3 DEF NothingAnswered
<1>4. CASE last' = last
  BY <1>1, <1>4 DEF NoAnswer, NothingAnswered
<1>5. ASSUME NEW created, Selected(created)
      PROVE  last' = last \/ \E outcome : Return(Answer(outcome))
  BY <1>5 DEF Selected
<1>6. last' = last \/ \E outcome : Return(Answer(outcome))
  BY <1>5 DEF Select, SelectActive, SelectKnown, SelectFails, FetchEnv, FetchFails, NewWithFork,
     SpawnFails, CreateSelectFork, CreateFails, CreatedUnselected
<1> QED
  BY <1>3, <1>4, <1>6

(* A record made for a given block keeps that block. *)
LEMMA SelectRecords ==
  ASSUME Inv, BlocksAsAsked, Select
  PROVE  BlocksAsAsked'
<1>0. call \in CallState
  BY DEF Inv, TypeOK
<1>01. call.at # "idle"
  BY DEF Select, SelectActive, SelectKnown, SelectFails, FetchEnv, FetchFails, NewWithFork,
         SpawnFails, CreateSelectFork, CreateFails, CreatedUnselected, RecordFork, AtSelect, AtCreate
<1>1. ASSUME NEW created, Selected(created) PROVE call'.at # "create"
  <2>1. CASE call.tx = None
    BY <1>1, <2>1 DEF Selected, Return, Idle
  <2>2. CASE call.tx # None
    BY <1>0, <1>01, <1>1, <2>2, CallFields DEF Selected
  <2> QED
    BY <2>1, <2>2
<1>2. ASSUME NEW outcome, Return(Answer(outcome)) PROVE call'.at # "create"
  BY <1>2 DEF Return, Idle
<1>3. CASE SelectActive \/ SelectKnown
  BY <1>1, <1>3 DEF SelectActive, SelectKnown, BlocksAsAsked
<1>4. CASE SelectFails \/ FetchFails \/ SpawnFails
  BY <1>2, <1>4 DEF SelectFails, FetchFails, SpawnFails, BlocksAsAsked
<1>5. CASE FetchEnv
  <2>1. /\ call'.id = call.id /\ forks' = forks
        /\ call'.fetched = IF call.id.block = None THEN head[call.id.url] ELSE call.id.block
    BY <1>0, <1>5, CallFields DEF FetchEnv, AtSelect
  <2> QED
    BY <2>1 DEF BlocksAsAsked
<1>6. ASSUME call.at = "create", NEW local, forks' = Record(call.id, local, call.fetched),
             call'.at # "create"
      PROVE  BlocksAsAsked'
  BY <1>6 DEF BlocksAsAsked, Record
<1>7. CASE NewWithFork
  BY <1>1, <1>6, <1>7 DEF NewWithFork, AtCreate
<1>8. CASE CreateSelectFork
  BY <1>1, <1>6, <1>8 DEF CreateSelectFork, RecordFork, AtCreate
<1>9. CASE CreateFails \/ CreatedUnselected
  BY <1>2, <1>6, <1>9 DEF CreateFails, CreatedUnselected, RecordFork, AtCreate
<1> QED
  BY <1>3, <1>4, <1>5, <1>7, <1>8, <1>9 DEF Select

(* A roll without a number goes back to the block of the record. *)
LEMMA RollGoesBack ==
  ASSUME Inv, BlocksAsAsked, NEW asked \in RollTargets, RollFork(asked)
  PROVE  RollsToOriginal'
<1> SUFFICES ASSUME last'.outcome = "ok", last'.asked = None, lost' = {}
             PROVE  \E id \in DOMAIN forks' :
                      /\ forks'[id].local = active'
                      /\ id.block # None => backend'[active' + 1].block = id.block
                      /\ backend'[active' + 1] = NewFork(id.url, forks'[id].block)
                      /\ envBlock' = backend'[active' + 1].block
  BY DEF RollsToOriginal
<1>1. /\ active # None /\ active' = active /\ forks' = forks /\ lost = {}
      /\ persistent = {}
  BY DEF RollFork, Inv, NothingPersists
<1>2. PICK id \in ActiveRecords :
        LET target == IF asked = None THEN OriginalBlock(id) ELSE asked
            fork == backend[active + 1]
        IN  /\ envBlock' = target
            /\ \/ /\ target <= head[fork.url]
                  /\ backend' = [backend EXCEPT ![active + 1] = Rolled(@, target)]
                  /\ last' = RollAnswer(asked, "ok")
               \/ /\ last' = RollAnswer(asked, "ExecutorError")
                  /\ UNCHANGED backend
  BY DEF RollFork
<1>3. /\ asked = None /\ envBlock' = forks[id].block
      /\ backend' = [backend EXCEPT ![active + 1] = Rolled(backend[active + 1], forks[id].block)]
  BY <1>2 DEF RollAnswer, OriginalBlock
<1>4. id \in DOMAIN forks /\ forks[id].local = active /\ forks[id].block \in Nat
  BY <1>2 DEF ActiveRecords, NamesActive, Inv, TypeOK, RecordState
<1>5. backend[active + 1].url = id.url
  BY <1>1, <1>4 DEF Inv, RecordsNameForks
<1>6. backend'[active + 1] = NewFork(id.url, forks[id].block)
  BY <1>1, <1>3, <1>4, <1>5, ActiveFork, NothingCarried DEF Inv
<1>7. backend'[active + 1].block = forks[id].block
  BY <1>6 DEF NewFork
<1> QED
  BY <1>1, <1>3, <1>4, <1>6, <1>7 DEF BlocksAsAsked

(* What the other actions leave alone, and how they answer. *)
LEMMA OtherAnswers ==
  ASSUME AnswerInv, [Next]_vars, ~Select
  PROVE  NothingAnswered' /\ BlocksAsAsked' /\ RollsToOriginal'
<1>0. NothingAnswered /\ BlocksAsAsked /\ RollsToOriginal /\ Inv
  BY DEF AnswerInv
<1>1. ASSUME UNCHANGED <<backend, active, envBlock, forks, call, last, lost>>
      PROVE  NothingAnswered' /\ BlocksAsAsked' /\ RollsToOriginal'
  BY <1>0, <1>1 DEF NothingAnswered, BlocksAsAsked, RollsToOriginal
<1>2. ASSUME forks' = forks, call'.at # "create", last' = NoAnswer \/ call'.at = "idle",
             last'.op # "roll"
      PROVE  NothingAnswered' /\ BlocksAsAsked' /\ RollsToOriginal'
  BY <1>0, <1>2 DEF NothingAnswered, BlocksAsAsked, RollsToOriginal
<1>3. CASE UNCHANGED vars
  BY <1>1, <1>3 DEF vars, executorVars
<1>4. ASSUME NEW url \in Url, Mine(url)
      PROVE  NothingAnswered' /\ BlocksAsAsked' /\ RollsToOriginal'
  BY <1>1, <1>4 DEF Mine, executorVars
<1>5. ASSUME NEW id \in Requested, AddOrSelect(id)
      PROVE  NothingAnswered' /\ BlocksAsAsked' /\ RollsToOriginal'
  BY <1>2, <1>5 DEF AddOrSelect, NoAnswer
<1>6. CASE AlloyCall
  BY <1>2, <1>6 DEF AlloyCall, NoAnswer, Idle
<1>7. ASSUME NEW to \in Account, AlloyCallCommitting(to)
      PROVE  NothingAnswered' /\ BlocksAsAsked' /\ RollsToOriginal'
  <2>1. forks' = forks /\ call'.at = "idle" /\ last'.op = "commit"
    BY <1>7 DEF AlloyCallCommitting, Called, Idle
  <2> QED
    BY <1>2, <2>1
<1>8. ASSUME NEW to \in Account, TransactFails(to)
      PROVE  NothingAnswered' /\ BlocksAsAsked' /\ RollsToOriginal'
  BY <1>2, <1>8 DEF TransactFails, Called, Idle
<1>9. CASE InvalidAddress
  BY <1>2, <1>9 DEF InvalidAddress, Called, Idle
<1>10. ASSUME NEW asked \in RollTargets, NoActiveFork(asked)
       PROVE  NothingAnswered' /\ BlocksAsAsked' /\ RollsToOriginal'
  <2>1. forks' = forks /\ call'.at = "idle" /\ last'.outcome # "ok"
    BY <1>10 DEF NoActiveFork, RollAnswer, Idle
  <2> QED
    BY <1>0, <2>1 DEF NothingAnswered, BlocksAsAsked, RollsToOriginal
<1>11. ASSUME NEW asked \in RollTargets, RollFork(asked)
       PROVE  NothingAnswered' /\ BlocksAsAsked' /\ RollsToOriginal'
  <2>1. forks' = forks /\ call'.at = "idle"
    BY <1>11 DEF RollFork, Idle
  <2> QED
    BY <1>0, <1>11, <2>1, RollGoesBack DEF NothingAnswered, BlocksAsAsked
<1>12. CASE ReplayWithoutFork \/ ReplayUnknown
  BY <1>2, <1>12 DEF ReplayWithoutFork, ReplayUnknown, Failed, Idle
<1>13. ASSUME NEW tx \in AllTxs, ReplayGenesis(tx)
       PROVE  NothingAnswered' /\ BlocksAsAsked' /\ RollsToOriginal'
  BY <1>2, <1>13 DEF ReplayGenesis, Failed, Idle
<1>14. ASSUME NEW tx \in AllTxs, ReplayTransaction(tx)
       PROVE  NothingAnswered' /\ BlocksAsAsked' /\ RollsToOriginal'
  <2>1. forks' = forks /\ call'.at = "select" /\ last' = NoAnswer
    BY <1>14 DEF ReplayTransaction
  <2> QED
    BY <1>2, <2>1 DEF NoAnswer
<1>15. CASE Replay \/ ReplayFails
  <2>1. forks' = forks /\ call'.at = "idle"
    BY <1>15 DEF Replay, ReplayFails, AtReplay, Idle
  <2>2. last'.op = "replay"
    BY <1>15 DEF Replay, ReplayFails, Failed
  <2> QED
    BY <1>2, <2>1, <2>2
<1> QED
  BY <1>3, <1>4, <1>5, <1>6, <1>7, <1>8, <1>9, <1>10, <1>11, <1>12, <1>13, <1>14, <1>15 DEF Next

(* What was answered agrees with the records and forks, at every step. *)
THEOREM AnswerInvariance == Spec => []AnswerInv
<1>1. Init => NothingAnswered /\ BlocksAsAsked /\ RollsToOriginal
  BY DEF Init, NothingAnswered, BlocksAsAsked, RollsToOriginal, Idle, NoAnswer
<1>2. AnswerInv /\ Inv' /\ [Next]_vars => AnswerInv'
  <2> SUFFICES ASSUME AnswerInv, Inv', [Next]_vars PROVE AnswerInv'
    OBVIOUS
  <2>1. CASE Select
    <3>1. last'.op # "roll" /\ NothingAnswered' /\ BlocksAsAsked'
      BY <2>1, SelectAnswers, SelectRecords DEF AnswerInv
    <3> QED
      BY <3>1 DEF AnswerInv, RollsToOriginal
  <2>2. CASE ~Select
    BY <2>2, OtherAnswers DEF AnswerInv
  <2> QED
    BY <2>1, <2>2
<1>3. Inv /\ NothingAnswered /\ BlocksAsAsked /\ RollsToOriginal <=> AnswerInv
  BY DEF AnswerInv
<1> QED
  BY <1>1, <1>2, <1>3, Invariance, PTL DEF Spec

(* Rolling back reaches the block a fork was asked for, and everything that  *)
(* was committed is gone, whatever ran before on this fork and on others.    *)
THEOREM ForkerRolls == Spec => []RollsToOriginal
<1>1. AnswerInv => RollsToOriginal
  BY DEF AnswerInv
<1> QED
  BY <1>1, AnswerInvariance, PTL

AnswersCommit ==
  last'.op = "commit" /\ head' = head /\ active # None =>
    (backend' # backend <=> last'.outcome \in {"ok", "TypedError"})

(* The answer of a committing call says whether it was committed.            *)
THEOREM ForkerCommits == Spec => CommitsAsAnswered
<1>1. AnswerInv /\ [Next]_vars => [AnswersCommit]_vars
  <2> SUFFICES ASSUME AnswerInv, Next, ~UNCHANGED vars PROVE AnswersCommit
    OBVIOUS
  <2>0. Inv /\ NothingAnswered
    BY DEF AnswerInv
  <2>1. CASE Select
    BY <2>0, <2>1, SelectAnswers DEF AnswersCommit
  <2>2. ASSUME NEW url \in Url, Mine(url) PROVE AnswersCommit
    BY <2>2 DEF AnswersCommit, Mine, executorVars, vars, Inv
  <2>3. ASSUME NEW id \in Requested, AddOrSelect(id) PROVE AnswersCommit
    BY <2>3 DEF AddOrSelect, AnswersCommit, NoAnswer
  <2>4. CASE AlloyCall
    BY <2>4 DEF AlloyCall, AnswersCommit, NoAnswer
  <2>5. ASSUME NEW to \in Account, AlloyCallCommitting(to) PROVE AnswersCommit
    <3> SUFFICES ASSUME active # None
                 PROVE  backend' # backend <=> last'.outcome \in {"ok", "TypedError"}
      BY DEF AnswersCommit
    <3>1. PICK exit \in Exits : \E outcome \in OutcomesOf(exit) :
            /\ last' = Called("commit", outcome)
            /\ backend' = IF exit = "ok" /\ active # None
                 THEN [backend EXCEPT ![active + 1] = Committed(@, <<UserTx(to)>>)]
                 ELSE backend
      BY <2>5 DEF AlloyCallCommitting
    <3>2. exit = "ok" <=> last'.outcome \in {"ok", "TypedError"}
      BY <3>1 DEF OutcomesOf, Outcome, Called, Exits
    <3>3. ASSUME exit = "ok" PROVE backend' # backend
      <4> DEFINE fork == backend[active + 1]
                 account == CHOOSE a \in Account : TRUE
                 txs == fork.accounts[account].txs
      <4>1. backend'[active + 1] = Committed(fork, <<UserTx(to)>>)
        BY <2>0, <3>1, <3>3, ActiveFork
      <4>2. account \in Account
        BY AccountAssumption
      <4>3. fork \in ForkState
        BY <2>0, ActiveFork
      <4> HIDE DEF fork, account
      <4>4. fork.accounts[account] \in AccountState
        BY <4>2, <4>3 DEF ForkState
      <4>5. txs \in Seq(AnyTx) /\ Len(txs) \in Nat
        BY <4>4 DEF AccountState, AnyTx
      <4>6. Committed(fork, <<UserTx(to)>>).accounts[account].txs = txs \o <<UserTx(to)>>
        BY <4>2, <4>4 DEF Committed, WithAccounts, Ran, AccountState
      <4>7. Len(txs \o <<UserTx(to)>>) = Len(txs) + 1
        BY <4>5, UserTxType
      <4>8. backend'[active + 1] # fork
        BY <4>1, <4>5, <4>6, <4>7
      <4> QED
        BY <4>8 DEF fork
    <3> QED
      BY <3>1, <3>2, <3>3
  <2>6. ASSUME NEW to \in Account, TransactFails(to) PROVE AnswersCommit
    BY <2>6 DEF TransactFails, Called, AnswersCommit
  <2>7. CASE InvalidAddress
    BY <2>7 DEF InvalidAddress, Called, AnswersCommit, executorVars
  <2>8. ASSUME NEW asked \in RollTargets, NoActiveFork(asked) \/ RollFork(asked)
        PROVE  AnswersCommit
    BY <2>8 DEF NoActiveFork, RollFork, RollAnswer, AnswersCommit
  <2>9. CASE ReplayWithoutFork \/ ReplayUnknown
    BY <2>9 DEF ReplayWithoutFork, ReplayUnknown, Failed, AnswersCommit
  <2>10. ASSUME NEW tx \in AllTxs, ReplayGenesis(tx) \/ ReplayTransaction(tx)
         PROVE  AnswersCommit
    BY <2>10 DEF ReplayGenesis, ReplayTransaction, Failed, NoAnswer, AnswersCommit
  <2>11. CASE Replay \/ ReplayFails
    <3>1. last'.op = "replay"
      BY <2>11 DEF Replay, ReplayFails, Failed
    <3> QED
      BY <3>1 DEF AnswersCommit
  <2> QED
    BY <2>1, <2>2, <2>3, <2>4, <2>5, <2>6, <2>7, <2>8, <2>9, <2>10, <2>11 DEF Next
<1> QED
  BY <1>1, AnswerInvariance, PTL DEF Spec, CommitsAsAnswered, AnswersCommit

-----------------------------------------------------------------------------
(* Replays. *)

(* A replay that has created its fork finds it as the chain had it. *)
ReplaysFresh ==
  call.at = "replay" /\ call.created =>
    backend[active + 1] = NewFork(call.id.url, call.id.block)

(* What a method that selected knows when it goes on. *)
LEMMA SelectedCall ==
  ASSUME Inv, call.at \in {"select", "create"}, NEW created \in BOOLEAN, Selected(created)
  PROVE  \/ call' = Idle /\ last' = Answer("ok") /\ last'.op # "replay"
         \/ /\ last' = last
            /\ call.tx # None /\ call.id.block \in Nat
            /\ call' = [at |-> "replay", id |-> call.id, tx |-> call.tx, created |-> created,
                        fetched |-> call.fetched]
<1>1. call \in CallState /\ call.at # "idle"
  BY DEF Inv, TypeOK
<1>2. CASE call.tx = None
  BY <1>2 DEF Selected, Return, Answer
<1>3. CASE call.tx # None
  BY <1>1, <1>3, CallFields DEF Selected, Inv, CallIsTyped
<1> QED
  BY <1>2, <1>3

(* What a creation for a replay hands on. *)
LEMMA CreatesFresh ==
  ASSUME Inv, NewWithFork \/ CreateSelectFork
  PROVE  ReplaysFresh' /\ (last' = last \/ last'.op # "replay")
<1>1. call \in CallState /\ call.at = "create" /\ Selected(TRUE)
  BY DEF Inv, TypeOK, NewWithFork, CreateSelectFork, RecordFork, AtCreate
<1>2. CASE call' = Idle /\ last'.op # "replay"
  BY <1>2 DEF ReplaysFresh, Idle
<1>3. CASE /\ last' = last
           /\ call.id.block \in Nat
           /\ call' = [at |-> "replay", id |-> call.id, tx |-> call.tx, created |-> TRUE,
                       fetched |-> call.fetched]
  <2> DEFINE fork == NewFork(call.id.url, call.id.block)
  <2>1. StartBlocks(call.id, call.fetched) = {call.id.block}
    BY <1>3, NoneAssumption DEF StartBlocks
  <2>2. backend'[active' + 1] = fork
    <3>1. CASE NewWithFork
      BY <2>1, <3>1 DEF NewWithFork
    <3>2. CASE CreateSelectFork
      <4>1. /\ active' = Len(backend) /\ backend \in Seq(ForkState)
            /\ backend' = Append(backend, Carried(fork))
        BY <2>1, <3>2 DEF CreateSelectFork, Inv, TypeOK
      <4>2. fork \in ForkState
        BY <1>1, <1>3, CallFields, NewForkType
      <4>3. Carried(fork) = fork
        BY <1>3, <4>2, NothingCarried DEF Inv
      <4> HIDE DEF fork
      <4> QED
        BY <4>1, <4>2, <4>3, AppendProperties
    <3> QED
      BY <3>1, <3>2
  <2> QED
    BY <1>3, <2>2 DEF ReplaysFresh
<1> QED
  BY <1>1, <1>2, <1>3, SelectedCall

(* Steps of add_or_select, for a caller or for a replay. *)
LEMMA SelectReplays ==
  ASSUME Inv, ReplaysFresh, Select
  PROVE  ReplaysFresh' /\ (last' = last \/ last'.op # "replay" \/ last'.outcome # "ok")
<1>1. CASE NewWithFork \/ CreateSelectFork
  BY <1>1, CreatesFresh
<1>2. CASE SelectActive \/ SelectKnown
  <2>1. call.at \in {"select", "create"} /\ Selected(FALSE)
    BY <1>2 DEF SelectActive, SelectKnown, AtSelect
  <2>2. CASE call' = Idle /\ last'.op # "replay"
    BY <2>2 DEF ReplaysFresh, Idle
  <2>3. ASSUME NEW id, NEW tx, NEW fetched,
               call' = [at |-> "replay", id |-> id, tx |-> tx, created |-> FALSE,
                        fetched |-> fetched]
        PROVE  ~call'.created
    BY <2>3, Zenon
  <2>4. CASE last' = last /\ ~call'.created
    BY <2>4 DEF ReplaysFresh
  <2> QED
    BY <2>1, <2>2, <2>3, <2>4, SelectedCall
<1>3. CASE SelectFails \/ FetchFails \/ SpawnFails \/ CreateFails \/ CreatedUnselected
  <2>1. PICK outcome \in {"ExecutorError", "Eyre"} : Return(Answer(outcome))
    BY <1>3 DEF SelectFails, FetchFails, SpawnFails, CreateFails, CreatedUnselected
  <2> QED
    BY <2>1 DEF Return, Answer, ReplaysFresh, Idle
<1>4. CASE FetchEnv
  <2>1. call.at = "select" /\ call \in CallState /\ last' = last
    BY <1>4 DEF FetchEnv, AtSelect, Inv, TypeOK
  <2>2. call'.at = "create"
    BY <1>4, <2>1, CallFields DEF FetchEnv
  <2> QED
    BY <2>1, <2>2 DEF ReplaysFresh
<1> QED
  BY <1>1, <1>2, <1>3, <1>4 DEF Select

(* A replay on a fork of its own commits what came before, to the state the *)
(* chain had.                                                               *)
LEMMA ReplayOnState ==
  ASSUME Inv, ReplaysFresh, Replay
  PROVE  FirstReplayOnItsState'
<1> SUFFICES ASSUME last'.outcome = "ok", last'.created
             PROVE  last'.on = BeforeTx(last'.id, last'.tx)
  BY DEF FirstReplayOnItsState, Replayed, BeforeTx
<1> DEFINE txs == BlockAt(ReplayedOn, ReplayBlock)
           before == Committed(backend[active + 1], Prefix(txs))
<1>1. last' = [op |-> "replay", outcome |-> "ok", tx |-> call.tx, id |-> call.id,
               created |-> call.created, callee |-> Callee(call.tx), on |-> before.accounts]
  BY DEF Replay, Failed
<1>2. call.at = "replay" /\ call.created
  BY <1>1 DEF Replay, AtReplay
<1>3. /\ backend[active + 1] = NewFork(call.id.url, call.id.block)
      /\ ReplayedOn = call.id.url
  BY <1>2 DEF ReplaysFresh, ReplayedOn, NewFork
<1>4. before.accounts = BeforeTx(call.id, call.tx)
  BY <1>3 DEF BeforeTx, ReplayBlock, Prefix
<1> QED
  BY <1>1, <1>4

(* A replay that makes its fork runs the transaction on the state that it    *)
(* had on its chain (fork.rs:480-504), whatever else the Forker was used for.*)
THEOREM ForkerReplays == Spec => []FirstReplayOnItsState
<1>1. Init => ReplaysFresh /\ FirstReplayOnItsState
  BY DEF Init, ReplaysFresh, FirstReplayOnItsState, Replayed, Idle, NoAnswer
<1>2. Inv /\ ReplaysFresh /\ FirstReplayOnItsState /\ [Next]_vars
        => ReplaysFresh' /\ FirstReplayOnItsState'
  <2> SUFFICES ASSUME Inv, ReplaysFresh, FirstReplayOnItsState, [Next]_vars
               PROVE  ReplaysFresh' /\ FirstReplayOnItsState'
    OBVIOUS
  <2>1. ASSUME last' = last \/ last'.op # "replay" \/ last'.outcome # "ok"
        PROVE  FirstReplayOnItsState'
    BY <2>1 DEF FirstReplayOnItsState, Replayed, BeforeTx
  <2>2. ASSUME call'.at = "idle" \/ call'.at = "select" PROVE ReplaysFresh'
    BY <2>2 DEF ReplaysFresh
  <2>3. CASE Select
    BY <2>1, <2>3, SelectReplays
  <2>4. CASE UNCHANGED <<backend, active, call, last>>
    BY <2>1, <2>4 DEF ReplaysFresh
  <2>5. ASSUME NEW url \in Url, Mine(url) PROVE ReplaysFresh' /\ FirstReplayOnItsState'
    BY <2>4, <2>5 DEF Mine, executorVars
  <2>6. ASSUME NEW id \in Requested, AddOrSelect(id)
        PROVE  ReplaysFresh' /\ FirstReplayOnItsState'
    BY <2>1, <2>2, <2>6 DEF AddOrSelect, NoAnswer
  <2>7. ASSUME NEW to \in Account, AlloyCallCommitting(to) \/ TransactFails(to)
        PROVE  ReplaysFresh' /\ FirstReplayOnItsState'
    BY <2>1, <2>2, <2>7 DEF AlloyCallCommitting, TransactFails, Called, Idle
  <2>8. CASE AlloyCall \/ InvalidAddress
    BY <2>1, <2>2, <2>8 DEF AlloyCall, InvalidAddress, NoAnswer, Called, Idle
  <2>9. ASSUME NEW asked \in RollTargets, NoActiveFork(asked) \/ RollFork(asked)
        PROVE  ReplaysFresh' /\ FirstReplayOnItsState'
    <3>1. last'.op = "roll" /\ call'.at = "idle"
      BY <2>9 DEF NoActiveFork, RollFork, RollAnswer, Idle
    <3> QED
      BY <2>1, <2>2, <3>1
  <2>10. CASE ReplayWithoutFork \/ ReplayUnknown
    BY <2>1, <2>2, <2>10 DEF ReplayWithoutFork, ReplayUnknown, Failed, Idle
  <2>11. ASSUME NEW tx \in AllTxs, ReplayGenesis(tx)
         PROVE  ReplaysFresh' /\ FirstReplayOnItsState'
    BY <2>1, <2>2, <2>11 DEF ReplayGenesis, Failed, Idle
  <2>12. ASSUME NEW tx \in AllTxs, ReplayTransaction(tx)
         PROVE  ReplaysFresh' /\ FirstReplayOnItsState'
    <3>1. last' = NoAnswer /\ call'.at = "select"
      BY <2>12 DEF ReplayTransaction
    <3> QED
      BY <2>1, <2>2, <3>1 DEF NoAnswer
  <2>13. CASE Replay
    <3>1. call'.at = "idle"
      BY <2>13 DEF Replay, AtReplay, Idle
    <3> QED
      BY <2>2, <2>13, <3>1, ReplayOnState
  <2>14. CASE ReplayFails
    BY <2>1, <2>2, <2>14 DEF ReplayFails, AtReplay, Failed, Idle
  <2> QED
    BY <2>3, <2>4, <2>5, <2>6, <2>7, <2>8, <2>9, <2>10, <2>11, <2>12, <2>13, <2>14
    DEF Next, vars, executorVars
<1> QED
  BY <1>1, <1>2, Invariance, PTL DEF Spec

-----------------------------------------------------------------------------
(* The Forker implements ForkViews. *)

(* The block that a creation starts from is one of its chain. *)
FetchedMined == call.at = "create" => call.fetched \in 0 .. head[call.id.url]

(* No fork is without a record. *)
Covered ==
  lost = {} => \A n \in 0 .. (Len(backend) - 1) : \E id \in DOMAIN forks : forks[id].local = n

ViewInv == Inv /\ BlocksAsAsked /\ FetchedMined /\ Covered

viewVars == <<lost = {}, Views, Current>>

-----------------------------------------------------------------------------
(* The current view. *)

LEMMA CurrentView ==
  ASSUME ViewInv, lost = {}, active # None
  PROVE  /\ Current \in DOMAIN forks /\ Current # None
         /\ forks[Current].local = active
         /\ \A id \in DOMAIN forks : forks[id].local = active => id = Current
<1>1. active \in 0 .. (Len(backend) - 1)
  BY DEF ViewInv, Inv, TypeOK
<1>2. \E id \in DOMAIN forks : forks[id].local = active
  BY <1>1 DEF ViewInv, Covered
<1>3. Current = CHOOSE id \in DOMAIN forks : forks[id].local = active
  BY DEF Current
<1>4. Current \in DOMAIN forks /\ forks[Current].local = active
  BY <1>2, <1>3
<1>5. Current # None
  BY <1>4, NoneAssumption DEF ViewInv, Inv, TypeOK
<1>6. \A id \in DOMAIN forks : forks[id].local = active => id = Current
  BY <1>4 DEF ViewInv, Inv, RecordsNameForks
<1> QED
  BY <1>4, <1>5, <1>6

(* The views are made from what a step leaves alone. *)
LEMMA ViewsStay ==
  ASSUME UNCHANGED <<backend, forks, lost>>
  PROVE  UNCHANGED <<lost = {}, Views>>
BY DEF Views, View

LEMMA CurrentStays ==
  ASSUME UNCHANGED <<active, forks, lost>>
  PROVE  Current' = Current
BY DEF Current

(* A view, from the fork that the record names. *)
LEMMA ViewOf ==
  ASSUME ViewInv, lost = {}, NEW id \in DOMAIN forks
  PROVE  /\ DOMAIN Views = DOMAIN forks
         /\ Views[id] = [origin |-> forks[id].block,
                         block |-> backend[forks[id].local + 1].block,
                         accounts |-> backend[forks[id].local + 1].accounts]
         /\ forks[id].local \in Nat /\ forks[id].local + 1 \in DOMAIN backend
         /\ forks[id].block \in Nat
         /\ backend[forks[id].local + 1] \in ForkState
         /\ backend[forks[id].local + 1].url = id.url
<1>1. /\ forks[id].local \in Nat /\ forks[id].block \in Nat
      /\ backend \in Seq(ForkState)
  BY DEF ViewInv, Inv, TypeOK, RecordState
<1>2. /\ forks[id].local + 1 \in DOMAIN backend
      /\ backend[forks[id].local + 1].url = id.url
  BY DEF ViewInv, Inv, RecordsNameForks
<1>3. backend[forks[id].local + 1] \in ForkState
  BY <1>1, <1>2
<1> QED
  BY <1>1, <1>2, <1>3 DEF Views, View

-----------------------------------------------------------------------------
(* The kinds of step. *)

(* Once a creation has failed nothing is promised any more. *)
LEMMA NothingKept ==
  ASSUME lost # {}, lost \subseteq lost'
  PROVE  UNCHANGED viewVars
<1>1. (lost = {}) = (lost' = {}) /\ lost' # {}
  OBVIOUS
<1> QED
  BY <1>1 DEF viewVars, Views, Current

(* A write to the active fork is one to the current view. *)
LEMMA WriteView ==
  ASSUME ViewInv, lost = {}, active # None, NEW fork,
         backend' = [backend EXCEPT ![active + 1] = fork],
         UNCHANGED <<active, forks, lost>>
  PROVE  /\ UNCHANGED <<lost = {}, Current>>
         /\ Views' = [Views EXCEPT ![Current] = [origin |-> forks[Current].block,
                                                 block |-> fork.block,
                                                 accounts |-> fork.accounts]]
<1>1. Current' = Current
  BY CurrentStays
<1>2. /\ Current \in DOMAIN forks /\ forks[Current].local = active
      /\ \A id \in DOMAIN forks : forks[id].local = active => id = Current
  BY CurrentView
<1>3. ASSUME NEW id \in DOMAIN forks
      PROVE  View(id)' = IF id = Current
                         THEN [origin |-> forks[Current].block, block |-> fork.block,
                               accounts |-> fork.accounts]
                         ELSE View(id)
  <2>1. forks[id].local \in Nat /\ forks[id].local + 1 \in DOMAIN backend
    BY ViewOf
  <2>2. active \in Nat
    BY DEF ViewInv, Inv, TypeOK
  <2>3. backend'[forks[id].local + 1] = IF id = Current THEN fork ELSE backend[forks[id].local + 1]
    BY <1>2, <2>1, <2>2
  <2> QED
    BY <2>3 DEF View
<1>4. Views = [id \in DOMAIN forks |-> View(id)]
  BY DEF Views
<1>5. Views' = [id \in DOMAIN forks |-> View(id)']
  BY DEF Views
<1> QED
  BY <1>1, <1>2, <1>3, <1>4, <1>5

(* Transactions that are committed run on the current view. *)
LEMMA RunStep ==
  ASSUME ViewInv, lost = {}, active # None, NEW txs \in AllRuns,
         backend' = [backend EXCEPT ![active + 1] = Committed(backend[active + 1], txs)],
         UNCHANGED <<active, forks, lost>>
  PROVE  Promised!Next
<1> DEFINE fork == Committed(backend[active + 1], txs)
<1>1. /\ UNCHANGED <<lost = {}, Current>>
      /\ Views' = [Views EXCEPT ![Current] = [origin |-> forks[Current].block,
                                              block |-> fork.block,
                                              accounts |-> fork.accounts]]
  BY WriteView
<1>2. /\ Current \in DOMAIN forks /\ Current # None
      /\ forks[Current].local = active
  BY CurrentView
<1>3. /\ DOMAIN Views = DOMAIN forks
      /\ Views[Current] = [origin |-> forks[Current].block,
                           block |-> backend[active + 1].block,
                           accounts |-> backend[active + 1].accounts]
  BY <1>2, ViewOf
<1>4. /\ fork.block = backend[active + 1].block
      /\ fork.accounts = [a \in Account |-> [backend[active + 1].accounts[a] EXCEPT !.txs = @ \o txs]]
  BY DEF Committed, WithAccounts, Ran
<1>5. Promised!After(Views[Current].accounts, txs) = fork.accounts
  BY <1>3, <1>4 DEF Promised!After
<1>6. Promised!Run(txs)
  <2> DEFINE accounts == Promised!After(Views[Current].accounts, txs)
  <2>1. [Views[Current] EXCEPT !.accounts = accounts]
          = [origin |-> forks[Current].block, block |-> fork.block, accounts |-> fork.accounts]
    <3> HIDE DEF accounts, fork
    <3>1. fork.block = backend[active + 1].block /\ accounts = fork.accounts
      BY <1>4, <1>5 DEF fork, accounts
    <3> QED
      BY <1>3, <3>1
  <2> QED
    BY <1>1, <2>1 DEF Promised!Run
<1> QED
  BY <1>1, <1>2, <1>6 DEF Promised!Next

(* What comes before a transaction is the beginning of its block. *)
LEMMA BeforePrefix ==
  ASSUME NEW txs \in Seq(AllTxs), NEW tx
  PROVE  \E k \in 0 .. Len(txs) : Before(txs, tx) = SubSeq(txs, 1, k)
<1> DEFINE first == {i \in DOMAIN txs : txs[i] = tx}
<1>1. CASE first = {}
  <2>1. Before(txs, tx) = txs
    BY <1>1 DEF Before
  <2>2. SubSeq(txs, 1, Len(txs)) = txs
    OBVIOUS
  <2>3. Len(txs) \in 0 .. Len(txs)
    OBVIOUS
  <2> QED
    BY <2>1, <2>2, <2>3
<1>2. CASE first # {}
  <2> DEFINE i == CHOOSE j \in first : TRUE
  <2>1. i \in 1 .. Len(txs)
    BY <1>2
  <2>2. Before(txs, tx) = SubSeq(txs, 1, i - 1)
    BY <1>2 DEF Before
  <2> HIDE DEF i
  <2>3. i - 1 \in 0 .. Len(txs)
    BY <2>1
  <2> QED
    BY <2>2, <2>3
<1> QED
  BY <1>1, <1>2

(* A roll of the active fork is one of the current view. *)
LEMMA RollViewStep ==
  ASSUME ViewInv, lost = {}, NEW asked \in RollTargets, RollFork(asked)
  PROVE  UNCHANGED viewVars \/ Promised!Next
<1>1. active # None /\ UNCHANGED <<active, forks, lost>>
  BY DEF RollFork
<1>2. PICK id \in ActiveRecords :
        LET target == IF asked = None THEN OriginalBlock(id) ELSE asked
            fork == backend[active + 1]
        IN  /\ envBlock' = target
            /\ \/ /\ target <= head[fork.url]
                  /\ backend' = [backend EXCEPT ![active + 1] = Rolled(@, target)]
                  /\ last' = RollAnswer(asked, "ok")
               \/ /\ last' = RollAnswer(asked, "ExecutorError")
                  /\ UNCHANGED backend
  BY DEF RollFork
<1>3. /\ Current \in DOMAIN forks /\ Current # None
      /\ forks[Current].local = active
      /\ id = Current
  BY <1>1, <1>2, CurrentView DEF ActiveRecords, NamesActive
<1> DEFINE number == IF asked = None THEN forks[Current].block ELSE asked
<1>4. number \in Nat
  BY <1>3, ViewOf, RollAssumption
<1>5. CASE UNCHANGED backend
  BY <1>1, <1>5, ViewsStay, CurrentStays DEF viewVars
<1>6. CASE backend' = [backend EXCEPT ![active + 1] = Rolled(backend[active + 1], number)]
  <2> DEFINE fork == NewFork(Current.url, number)
  <2>1. backend' = [backend EXCEPT ![active + 1] = fork]
    <3>1. backend[active + 1] \in ForkState /\ backend[active + 1].url = Current.url
      BY <1>3, ViewOf
    <3>2. Rolled(backend[active + 1], number) = fork
      BY <1>4, <3>1, NothingCarried DEF ViewInv, Inv
    <3> QED
      BY <1>6, <3>2
  <2>2. fork.block = number /\ fork.accounts = Promised!Empty(Current, number)
    BY DEF NewFork, Untouched, Promised!Empty
  <2> HIDE DEF fork
  <2>3. /\ UNCHANGED <<lost = {}, Current>>
        /\ Views' = [Views EXCEPT ![Current] = [origin |-> forks[Current].block,
                                                block |-> fork.block,
                                                accounts |-> fork.accounts]]
    BY <1>1, <2>1, WriteView
  <2>4. /\ DOMAIN Views = DOMAIN forks
        /\ Views[Current] = [origin |-> forks[Current].block,
                             block |-> backend[active + 1].block,
                             accounts |-> backend[active + 1].accounts]
    BY <1>3, ViewOf
  <2>5. Promised!Roll(asked)
    <3> DEFINE accounts == Promised!Empty(Current, number)
    <3>1. /\ Views[Current].origin = forks[Current].block
          /\ number = IF asked = None THEN Views[Current].origin ELSE asked
      BY <2>4
    <3> HIDE DEF number, accounts
    <3> QED
      BY <2>2, <2>3, <3>1 DEF Promised!Roll, accounts
  <2> QED
    BY <1>3, <2>3, <2>5 DEF Promised!Next
<1> QED
  BY <1>2, <1>3, <1>5, <1>6 DEF OriginalBlock

(* A fork that is created opens a view, and is the current one or not. *)
LEMMA OpenStep ==
  ASSUME ViewInv, lost = {}, lost' = lost, call.at = "create",
         forks' = Record(call.id, NextLocalId, call.fetched),
         NEW number \in StartBlocks(call.id, call.fetched),
         backend' = Append(backend, NewFork(call.id.url, number)),
         active' \in {active, Len(backend)}
  PROVE  Promised!Next
<1>0. PICK id : id = call.id
  OBVIOUS
<1> DEFINE fork == NewFork(id.url, number)
<1>1. /\ call \in CallState /\ id \in ForkIds /\ id.url \in Url
      /\ id \notin DOMAIN forks
      /\ head[id.url] \in BlockNumbers(id.url)
      /\ call.fetched \in 0 .. head[id.url]
      /\ id.block # None => call.fetched = id.block
  BY <1>0, CallFields DEF ViewInv, Inv, TypeOK, CallIsTyped, FetchedMined, BlocksAsAsked
<1>2. /\ call.fetched \in BlockNumbers(id.url) /\ number \in BlockNumbers(id.url)
      /\ call.fetched \in Nat /\ number \in Nat
      /\ IF id.block = None THEN call.fetched <= number ELSE call.fetched = number
      /\ id.block \in {None, number}
  <2>1. Len(Chain[id.url]) \in Nat
    BY <1>1, ChainAssumption
  <2>2. head[id.url] \in Nat /\ head[id.url] < Len(Chain[id.url])
    BY <1>1, <2>1 DEF BlockNumbers
  <2>3. CASE id.block = None
    <3>1. number \in call.fetched .. head[id.url]
      BY <1>0, <2>3 DEF StartBlocks
    <3> QED
      BY <1>1, <2>1, <2>2, <2>3, <3>1 DEF BlockNumbers
  <2>4. CASE id.block # None
    <3>1. number = id.block /\ number = call.fetched
      BY <1>0, <1>1, <2>4 DEF StartBlocks
    <3> QED
      BY <1>1, <2>1, <2>2, <2>4, <3>1 DEF BlockNumbers
  <2> QED
    BY <2>3, <2>4
<1>3. /\ backend \in Seq(ForkState) /\ Len(backend) \in Nat
      /\ NextLocalId = Len(backend)
      /\ \A known \in DOMAIN forks :
           forks[known].local \in Nat /\ forks[known].local < Len(backend)
  <2>1. NextLocalId = Len(backend) /\ backend \in Seq(ForkState)
    BY DEF ViewInv, Inv, TypeOK, RecordsNameForks, NextLocalId
  <2>2. DOMAIN backend = 1 .. Len(backend) /\ Len(backend) \in Nat
    BY <2>1
  <2>3. \A known \in DOMAIN forks :
          forks[known].local \in Nat /\ forks[known].local + 1 \in DOMAIN backend
    BY ViewOf
  <2> QED
    BY <2>1, <2>2, <2>3
<1>4. /\ backend'[Len(backend) + 1] = fork
      /\ \A i \in 1 .. Len(backend) : backend'[i] = backend[i]
  <2>1. fork \in ForkState
    BY <1>1, <1>2, NewForkType
  <2>2. backend' = Append(backend, fork)
    BY <1>0
  <2> HIDE DEF fork
  <2> QED
    BY <1>3, <2>1, <2>2, AppendProperties
<1>5. /\ DOMAIN forks' = DOMAIN forks \cup {id}
      /\ forks'[id] = [local |-> Len(backend), block |-> call.fetched]
      /\ \A known \in DOMAIN forks : forks'[known] = forks[known]
  BY <1>0, <1>1, <1>3 DEF Record
<1>6. Views' = [known \in DOMAIN Views \cup {id} |->
                  IF known = id
                  THEN [origin |-> call.fetched, block |-> number,
                        accounts |-> Promised!Empty(id, number)]
                  ELSE Views[known]]
  <2>1. /\ fork.block = number
        /\ fork.accounts = Promised!Empty(id, number)
    BY DEF NewFork, Untouched, Promised!Empty
  <2> HIDE DEF fork
  <2>2. View(id)' = [origin |-> call.fetched, block |-> number,
                     accounts |-> Promised!Empty(id, number)]
    BY <1>4, <1>5, <2>1 DEF View
  <2>3. ASSUME NEW known \in DOMAIN forks PROVE View(known)' = View(known)
    BY <1>3, <1>4, <1>5 DEF View
  <2>4. Views = [known \in DOMAIN forks |-> View(known)]
    BY DEF Views
  <2>5. Views' = [known \in DOMAIN forks \cup {id} |-> View(known)']
    BY <1>5 DEF Views
  <2> QED
    BY <2>2, <2>3, <2>4, <2>5
<1>7. Current' \in {id, Current}
  <2> DEFINE named == CHOOSE known \in DOMAIN forks' : forks'[known].local = active'
  <2>1. CASE active' = Len(backend)
    <3>1. active' # None /\ forks'[id].local = active'
      BY <1>3, <1>5, <2>1, NoneAssumption
    <3>2. named \in DOMAIN forks' /\ forks'[named].local = Len(backend)
      BY <1>5, <2>1, <3>1
    <3>3. named = id
      BY <1>3, <1>5, <3>2
    <3>4. Current' = named
      BY <3>1 DEF Current
    <3> QED
      BY <3>3, <3>4
  <2>2. CASE active' = active /\ active # None
    <3>1. /\ Current \in DOMAIN forks /\ forks[Current].local = active
          /\ \A known \in DOMAIN forks : forks[known].local = active => known = Current
          /\ active # Len(backend)
      BY <2>2, CurrentView, <1>3
    <3>2. named \in DOMAIN forks' /\ forks'[named].local = active
      BY <1>5, <2>2, <3>1
    <3>3. named = Current
      BY <1>5, <3>1, <3>2
    <3>4. Current' = named
      BY <2>2 DEF Current
    <3> QED
      BY <3>3, <3>4
  <2>3. CASE active' = active /\ active = None
    BY <2>3 DEF Current
  <2> QED
    BY <2>1, <2>2, <2>3
<1>8. id \notin DOMAIN Views /\ id = [url |-> id.url, block |-> id.block]
  BY <1>1 DEF Views, ForkIds
<1>9. Promised!Open(id, call.fetched, number)
  BY <1>2, <1>6, <1>7, <1>8 DEF Promised!Open
<1>10. Promised!Open([url |-> id.url, block |-> id.block], call.fetched, number)
  BY <1>8, <1>9
<1>11. AllBlocks[id.url] = BlockNumbers(id.url)
  BY <1>1 DEF AllBlocks
<1> QED
  BY <1>1, <1>2, <1>10, <1>11 DEF Promised!Next

(* A known fork that is selected is a view found as it was left. *)
LEMMA SelectKnownStep ==
  ASSUME ViewInv, lost = {}, SelectKnown
  PROVE  Promised!Next
<1> DEFINE local == forks[call.id].local
<1>1. /\ call.id \in DOMAIN forks /\ active' = local
      /\ backend' = [backend EXCEPT ![local + 1] = Carried(backend[local + 1])]
      /\ UNCHANGED <<forks, lost>>
  BY DEF SelectKnown
<1>2. local + 1 \in DOMAIN backend /\ backend[local + 1] \in ForkState /\ local \in Nat
  BY <1>1, ViewOf
<1>3. backend' = backend
  <2>1. Carried(backend[local + 1]) = backend[local + 1]
    BY <1>2, NothingCarried DEF ViewInv, Inv
  <2>2. backend \in Seq(ForkState)
    BY DEF ViewInv, Inv, TypeOK
  <2> QED
    BY <1>1, <1>2, <2>1, <2>2
<1>4. UNCHANGED <<lost = {}, Views>>
  BY <1>1, <1>3, ViewsStay
<1>5. Current' = call.id
  <2> DEFINE named == CHOOSE known \in DOMAIN forks : forks[known].local = local
  <2>1. named \in DOMAIN forks /\ forks[named].local = local
    BY <1>1
  <2>2. named = call.id
    BY <1>1, <2>1 DEF ViewInv, Inv, RecordsNameForks
  <2>3. active' # None
    BY <1>1, <1>2, NoneAssumption
  <2>4. Current' = named
    BY <1>1, <2>3 DEF Current
  <2> QED
    BY <2>2, <2>4
<1>6. call.id \in DOMAIN Views
  BY <1>1 DEF Views
<1>7. Promised!Select(call.id)
  BY <1>4, <1>5 DEF Promised!Select
<1> QED
  BY <1>4, <1>6, <1>7 DEF Promised!Next

-----------------------------------------------------------------------------
(* The steps, and the invariant. *)

(* Steps of add_or_select. *)
LEMMA SelectViews ==
  ASSUME ViewInv, Select
  PROVE  UNCHANGED viewVars \/ Promised!Next
<1>0. lost \subseteq lost'
  BY DEF Select, SelectActive, SelectKnown, SelectFails, FetchEnv, FetchFails, NewWithFork,
         SpawnFails, CreateSelectFork, CreateFails, CreatedUnselected, executorVars
<1>1. CASE lost # {}
  BY <1>0, <1>1, NothingKept
<1>2. CASE UNCHANGED <<backend, active, forks, lost>>
  BY <1>2, ViewsStay, CurrentStays DEF viewVars
<1>3. CASE SelectActive \/ SelectFails \/ FetchEnv \/ FetchFails \/ SpawnFails
  BY <1>2, <1>3 DEF SelectActive, SelectFails, FetchEnv, FetchFails, SpawnFails, executorVars
<1>4. CASE lost = {} /\ SelectKnown
  BY <1>4, SelectKnownStep
<1>5. CASE lost = {} /\ NewWithFork
  <2>1. /\ Cardinality(DOMAIN forks) = 0
        /\ backend \in Seq(ForkState) /\ Len(backend) = Cardinality(DOMAIN forks)
    BY <1>5, FS_EmptySet DEF NewWithFork, ViewInv, Inv, TypeOK, RecordsNameForks
  <2>2. backend = << >> /\ NextLocalId = 0
    BY <2>1 DEF NextLocalId
  <2>3. PICK number \in StartBlocks(call.id, call.fetched) :
          backend' = <<NewFork(call.id.url, number)>>
    BY <1>5 DEF NewWithFork
  <2>4. backend' = Append(backend, NewFork(call.id.url, number))
    BY <2>2, <2>3
  <2> QED
    BY <1>5, <2>1, <2>2, <2>4, OpenStep DEF NewWithFork, AtCreate
<1>6. CASE lost = {} /\ CreateSelectFork
  <2>1. PICK number \in StartBlocks(call.id, call.fetched) :
          backend' = Append(backend, Carried(NewFork(call.id.url, number)))
    BY <1>6 DEF CreateSelectFork
  <2>2. NewFork(call.id.url, number) \in ForkState
    <3>1. /\ call \in CallState /\ call.at = "create" /\ call.id.url \in Url
          /\ call.fetched \in Nat /\ call.id.block \in Nat \cup {None}
          /\ head[call.id.url] \in Nat
      BY <1>6, CallFields, BlockType
      DEF ViewInv, Inv, TypeOK, CreateSelectFork, RecordFork, AtCreate, ForkIds
    <3>2. number \in Nat
      BY <3>1 DEF StartBlocks
    <3> QED
      BY <3>1, <3>2, NewForkType
  <2>3. Carried(NewFork(call.id.url, number)) = NewFork(call.id.url, number)
    BY <2>2, NothingCarried DEF ViewInv, Inv
  <2> QED
    BY <1>6, <2>1, <2>3, OpenStep DEF CreateSelectFork, RecordFork, AtCreate
<1>7. CASE lost = {} /\ CreateFails
  <2>1. lost' # {}
    BY <1>7 DEF CreateFails
  <2>2. (lost = {}) = TRUE /\ (lost' = {}) = FALSE /\ Views' = << >> /\ Current' = None
    BY <1>7, <2>1 DEF Views, Current
  <2> QED
    BY <2>2 DEF Promised!Next, Promised!Forget
<1>8. CASE lost = {} /\ CreatedUnselected
  BY <1>8, OpenStep DEF CreatedUnselected, RecordFork, AtCreate
<1> QED
  BY <1>1, <1>3, <1>4, <1>5, <1>6, <1>7, <1>8 DEF Select

(* A replay commits the first transactions of a block. *)
LEMMA ReplayViews ==
  ASSUME ViewInv, lost = {}, Replay \/ ReplayFails
  PROVE  UNCHANGED viewVars \/ Promised!Next
<1>1. /\ active # None /\ UNCHANGED <<active, forks, lost>>
  BY DEF Replay, ReplayFails, AtReplay, ViewInv, Inv, CallIsTyped
<1>2. CASE UNCHANGED backend
  BY <1>1, <1>2, ViewsStay, CurrentStays DEF viewVars
<1>3. CASE ReplayBlock \in BlockNumbers(ReplayedOn) /\ backend' # backend
  <2> DEFINE txs == BlockAt(ReplayedOn, ReplayBlock)
  <2>1. ReplayedOn \in Url
    BY <1>1, ActiveFork DEF ReplayedOn, ViewInv
  <2>2. txs \in Seq(AllTxs) /\ ReplayBlock \in Nat
    BY <1>3, <2>1, BlockType
  <2>3. txs \in TxsIn(Chain[ReplayedOn])
    <3>1. Chain[ReplayedOn] \in Seq(Seq(TxsOf(ReplayedOn)))
      BY <2>1, ChainAssumption
    <3>2. ReplayBlock + 1 \in DOMAIN Chain[ReplayedOn]
      BY <1>3, <2>2, <3>1 DEF BlockNumbers
    <3> QED
      BY <3>2 DEF TxsIn, BlockAt
  <2>4. \A k \in 0 .. Len(txs) : SubSeq(txs, 1, k) \in AllRuns
    BY <2>1, <2>3 DEF AllRuns, RunsOf
  <2> HIDE DEF txs
  <2>5. \E k \in 0 .. Len(txs) : Before(txs, call.tx) = SubSeq(txs, 1, k)
    BY <2>2, BeforePrefix
  <2>6. \E k \in 0 .. Len(txs) :
          backend' = [backend EXCEPT ![active + 1] =
                        Committed(backend[active + 1], SubSeq(txs, 1, k))]
    <3>1. CASE Replay
      BY <2>5, <3>1 DEF Replay, Prefix, txs
    <3>2. CASE ReplayFails
      <4>1. PICK n \in 0 .. Len(Before(txs, call.tx)) :
              backend' = [backend EXCEPT ![active + 1] =
                            Committed(@, SubSeq(txs, 1, n))]
        BY <1>3, <3>2 DEF ReplayFails, txs
      <4>2. Before(txs, call.tx) \in Seq(AllTxs) /\ Len(Before(txs, call.tx)) <= Len(txs)
        BY <2>2, BeforeType, BeforeShort
      <4>3. n \in 0 .. Len(txs)
        BY <2>2, <4>2
      <4> QED
        BY <4>1, <4>3
    <3> QED
      BY <3>1, <3>2
  <2> QED
    BY <1>1, <2>4, <2>6, RunStep
<1>4. CASE ReplayBlock \notin BlockNumbers(ReplayedOn)
  BY <1>2, <1>4 DEF Replay, ReplayFails
<1> QED
  BY <1>2, <1>3, <1>4

(* Every step of the Forker keeps the promise. *)
LEMMA StepsKeepViews ==
  ASSUME ViewInv, [Next]_vars
  PROVE  [Promised!Next]_viewVars
<1>1. CASE UNCHANGED <<backend, active, forks, lost>>
  BY <1>1, ViewsStay, CurrentStays DEF viewVars
<1>2. CASE UNCHANGED vars
  BY <1>1, <1>2 DEF vars, executorVars
<1>3. ASSUME NEW url \in Url, Mine(url) PROVE UNCHANGED viewVars
  BY <1>1, <1>3, ViewsStay, CurrentStays DEF Mine, executorVars, viewVars
<1>4. ASSUME NEW id \in Requested, AddOrSelect(id) PROVE UNCHANGED viewVars
  BY <1>4, ViewsStay, CurrentStays DEF AddOrSelect, executorVars, viewVars
<1>5. CASE Select
  BY <1>5, SelectViews
<1>6. CASE AlloyCall \/ InvalidAddress \/ ReplayWithoutFork \/ ReplayUnknown
  BY <1>1, <1>6
  DEF AlloyCall, InvalidAddress, ReplayWithoutFork, ReplayUnknown, executorVars
<1>7. ASSUME lost # {}, lost' = lost PROVE UNCHANGED viewVars
  BY <1>7, NothingKept
<1>8. ASSUME NEW to \in Account, AlloyCallCommitting(to) \/ TransactFails(to)
      PROVE  UNCHANGED viewVars \/ Promised!Next
  <2>1. UNCHANGED <<active, forks, lost>>
    BY <1>8 DEF AlloyCallCommitting, TransactFails
  <2>2. \/ UNCHANGED backend
        \/ /\ active # None
           /\ backend' = [backend EXCEPT ![active + 1] =
                            Committed(backend[active + 1], <<UserTx(to)>>)]
    BY <1>8 DEF AlloyCallCommitting, TransactFails
  <2>3. <<UserTx(to)>> \in AllRuns
    BY DEF AllRuns
  <2>4. CASE UNCHANGED backend
    BY <2>1, <2>4, ViewsStay, CurrentStays DEF viewVars
  <2> QED
    BY <1>7, <2>1, <2>2, <2>3, <2>4, RunStep
<1>9. ASSUME NEW asked \in RollTargets, NoActiveFork(asked) \/ RollFork(asked)
      PROVE  UNCHANGED viewVars \/ Promised!Next
  <2>1. CASE NoActiveFork(asked)
    BY <2>1, ViewsStay, CurrentStays DEF NoActiveFork, executorVars, viewVars
  <2>2. CASE RollFork(asked)
    <3>1. lost' = lost
      BY <2>2 DEF RollFork
    <3> QED
      BY <1>7, <2>2, <3>1, RollViewStep
  <2> QED
    BY <1>9, <2>1, <2>2
<1>10. ASSUME NEW tx \in AllTxs, ReplayGenesis(tx) \/ ReplayTransaction(tx)
       PROVE  UNCHANGED viewVars
  BY <1>10, ViewsStay, CurrentStays
  DEF ReplayGenesis, ReplayTransaction, executorVars, viewVars
<1>11. CASE Replay \/ ReplayFails
  <2>1. lost' = lost
    BY <1>11 DEF Replay, ReplayFails, AtReplay
  <2> QED
    BY <1>7, <1>11, <2>1, ReplayViews
<1> QED
  BY <1>2, <1>3, <1>4, <1>5, <1>6, <1>1, <1>8, <1>9, <1>10, <1>11 DEF Next

(* Steps of add_or_select fetch a block that is there, and give every fork a *)
(* record, unless a creation fails.                                          *)
LEMMA SelectCovers ==
  ASSUME ViewInv, Select
  PROVE  FetchedMined' /\ Covered'
<1>0. call \in CallState /\ call.at \in {"select", "create"} /\ head' = head
  BY DEF ViewInv, Inv, TypeOK, Select, SelectActive, SelectKnown, SelectFails, FetchEnv,
         FetchFails, NewWithFork, SpawnFails, CreateSelectFork, CreateFails, CreatedUnselected,
         RecordFork, AtSelect, AtCreate
<1>1. ASSUME NEW created \in BOOLEAN, Selected(created) PROVE call'.at # "create"
  <2>1. CASE call' = Idle
    BY <2>1 DEF Idle
  <2>2. CASE call' = [at |-> "replay", id |-> call.id, tx |-> call.tx, created |-> created,
                      fetched |-> call.fetched]
    BY <2>2
  <2> QED
    BY <1>0, <1>1, <2>1, <2>2, SelectedCall DEF ViewInv
<1>2. ASSUME NEW outcome, Return(Answer(outcome)) PROVE call'.at # "create"
  BY <1>2 DEF Return, Idle
<1>3. FetchedMined'
  <2>1. CASE FetchEnv
    <3>1. /\ call.id.url \in Url /\ call.id.block \in Nat \cup {None}
          /\ head[call.id.url] \in Nat
      BY <1>0, CallFields, BlockType DEF ViewInv, Inv, TypeOK, ForkIds
    <3>2. /\ call'.id = call.id
          /\ call'.fetched = IF call.id.block = None THEN head[call.id.url] ELSE call.id.block
          /\ call.id.block # None => call.id.block <= head[call.id.url]
      BY <1>0, <2>1, CallFields DEF FetchEnv
    <3> QED
      BY <1>0, <3>1, <3>2 DEF FetchedMined
  <2>2. CASE ~FetchEnv
    <3>1. call'.at # "create"
      BY <1>1, <1>2, <2>2 DEF Select, SelectActive, SelectKnown, SelectFails, FetchFails,
         NewWithFork, SpawnFails, CreateSelectFork, CreateFails, CreatedUnselected
    <3> QED
      BY <3>1 DEF FetchedMined
  <2> QED
    BY <2>1, <2>2
<1>4. Covered'
  <2>1. ASSUME lost' = lost, forks' = forks, backend \in Seq(ForkState),
               backend' \in Seq(ForkState), Len(backend') = Len(backend)
        PROVE  Covered'
    BY <2>1 DEF ViewInv, Covered
  <2>2. backend \in Seq(ForkState) /\ Len(backend) \in Nat
    BY DEF ViewInv, Inv, TypeOK
  <2>3. CASE SelectActive \/ SelectFails \/ FetchEnv \/ FetchFails \/ SpawnFails
    BY <2>1, <2>2, <2>3
    DEF SelectActive, SelectFails, FetchEnv, FetchFails, SpawnFails, executorVars
  <2>4. CASE SelectKnown
    BY <2>4, <2>2 DEF SelectKnown, ViewInv, Covered
  <2>5. CASE CreateFails
    BY <2>5 DEF CreateFails, Covered
  <2>6. ASSUME NEW local, forks' = Record(call.id, local, call.fetched), lost' = lost,
               lost = {} => local = Len(backend), Len(backend') = Len(backend) + 1,
               call.at = "create"
        PROVE  Covered'
    <3> SUFFICES ASSUME lost = {}, NEW n \in 0 .. Len(backend)
                 PROVE  \E id \in DOMAIN forks' : forks'[id].local = n
      BY <2>2, <2>6 DEF Covered
    <3>0. call.id \notin DOMAIN forks
      BY <2>6 DEF ViewInv, Inv, CallIsTyped
    <3>1. CASE n = Len(backend)
      BY <2>6, <3>1 DEF Record
    <3>2. CASE n # Len(backend)
      <4>1. n \in 0 .. (Len(backend) - 1)
        BY <2>2, <3>2
      <4>2. PICK id \in DOMAIN forks : forks[id].local = n
        BY <4>1 DEF ViewInv, Covered
      <4> QED
        BY <2>6, <3>0, <4>2 DEF Record
    <3> QED
      BY <3>1, <3>2
  <2>7. lost = {} => NextLocalId = Len(backend)
    BY DEF ViewInv, Inv, RecordsNameForks, NextLocalId
  <2>8. CASE NewWithFork
    <3>1. lost = {} => Len(backend) = 0
      BY <2>8, <2>7, FS_EmptySet DEF NewWithFork, NextLocalId
    <3>2. lost = {}
      BY <2>8 DEF NewWithFork, ViewInv, Inv, TypeOK
    <3>3. Len(backend') = 1
      BY <2>8 DEF NewWithFork
    <3> QED
      BY <2>6, <2>8, <3>1, <3>2, <3>3 DEF NewWithFork, AtCreate
  <2>9. CASE CreateSelectFork \/ CreatedUnselected
    <3>1. PICK fork : backend' = Append(backend, fork)
      BY <2>9 DEF CreateSelectFork, CreatedUnselected
    <3>2. Len(backend') = Len(backend) + 1
      BY <2>2, <3>1
    <3> QED
      BY <2>6, <2>7, <2>9, <3>2 DEF CreateSelectFork, CreatedUnselected, RecordFork, AtCreate
  <2> QED
    BY <2>3, <2>4, <2>5, <2>8, <2>9 DEF Select
<1> QED
  BY <1>3, <1>4

(* No other step makes a record or a fork, or begins a creation. *)
LEMMA OthersCover ==
  ASSUME ViewInv, [Next]_vars, ~Select
  PROVE  FetchedMined' /\ Covered'
<1>1. /\ backend \in Seq(ForkState)
      /\ \A url \in Url : head[url] \in Nat
      /\ DOMAIN head = Url
  BY BlockType DEF ViewInv, Inv, TypeOK
<1>2. ASSUME call'.at # "create" PROVE FetchedMined'
  BY <1>2 DEF FetchedMined
<1>3. ASSUME UNCHANGED <<head, call>> PROVE FetchedMined'
  BY <1>3 DEF ViewInv, FetchedMined
<1>4. ASSUME UNCHANGED <<forks, lost>>, Len(backend') = Len(backend) PROVE Covered'
  BY <1>4 DEF ViewInv, Covered
<1>5. ASSUME UNCHANGED <<forks, lost>>, NEW fork, backend' = [backend EXCEPT ![active + 1] = fork]
      PROVE  Covered'
  <2>1. Len(backend') = Len(backend)
    BY <1>1, <1>5
  <2> QED
    BY <1>4, <1>5, <2>1
<1>6. CASE UNCHANGED vars
  BY <1>3, <1>4, <1>6 DEF vars, executorVars
<1>7. ASSUME NEW url \in Url, Mine(url) PROVE FetchedMined' /\ Covered'
  <2>1. Covered'
    BY <1>4, <1>7 DEF Mine, executorVars
  <2>2. call' = call /\ \A other \in Url : head[other] <= head'[other] /\ head'[other] \in Nat
    BY <1>1, <1>7 DEF Mine
  <2>3. FetchedMined'
    <3> SUFFICES ASSUME call.at = "create" PROVE call.fetched \in 0 .. head'[call.id.url]
      BY <2>2 DEF FetchedMined
    <3>1. call.id.url \in Url /\ call.fetched \in 0 .. head[call.id.url]
      BY CallFields DEF ViewInv, Inv, TypeOK, FetchedMined
    <3> QED
      BY <1>1, <2>2, <3>1
  <2> QED
    BY <2>1, <2>3
<1>8. ASSUME NEW id \in Requested, AddOrSelect(id) PROVE FetchedMined' /\ Covered'
  BY <1>2, <1>4, <1>8 DEF AddOrSelect, executorVars
<1>9. CASE AlloyCall \/ InvalidAddress \/ ReplayWithoutFork \/ ReplayUnknown
  BY <1>3, <1>4, <1>9
  DEF AlloyCall, InvalidAddress, ReplayWithoutFork, ReplayUnknown, executorVars
<1>10. ASSUME NEW to \in Account, AlloyCallCommitting(to) \/ TransactFails(to)
       PROVE  FetchedMined' /\ Covered'
  BY <1>3, <1>4, <1>5, <1>10 DEF AlloyCallCommitting, TransactFails
<1>11. ASSUME NEW asked \in RollTargets, NoActiveFork(asked) \/ RollFork(asked)
       PROVE  FetchedMined' /\ Covered'
  BY <1>3, <1>4, <1>5, <1>11 DEF NoActiveFork, RollFork, executorVars
<1>12. ASSUME NEW tx \in AllTxs, ReplayGenesis(tx) \/ ReplayTransaction(tx)
       PROVE  FetchedMined' /\ Covered'
  <2>1. call' = call \/ call'.at = "select"
    BY <1>12 DEF ReplayGenesis, ReplayTransaction
  <2> QED
    BY <1>2, <1>3, <1>4, <1>12, <2>1 DEF ReplayGenesis, ReplayTransaction, executorVars
<1>13. CASE Replay \/ ReplayFails
  <2>1. call'.at # "create"
    BY <1>13 DEF Replay, ReplayFails, AtReplay, Idle
  <2> QED
    BY <1>2, <1>4, <1>5, <1>13, <2>1 DEF Replay, ReplayFails, AtReplay
<1> QED
  BY <1>6, <1>7, <1>8, <1>9, <1>10, <1>11, <1>12, <1>13 DEF Next

(* The records name every fork, and creations start at blocks that are there. *)
THEOREM ViewInvariance == Spec => []ViewInv
<1>1. Init => FetchedMined /\ Covered
  <2> SUFFICES ASSUME Init PROVE FetchedMined /\ Covered
    OBVIOUS
  <2>1. 0 .. (Len(backend) - 1) = {}
    BY DEF Init
  <2> QED
    BY <2>1 DEF Init, FetchedMined, Covered, Idle
<1>2. AnswerInv /\ FetchedMined /\ Covered /\ [Next]_vars => FetchedMined' /\ Covered'
  BY SelectCovers, OthersCover DEF ViewInv, AnswerInv
<1>3. AnswerInv /\ FetchedMined /\ Covered => ViewInv
  BY DEF ViewInv, AnswerInv
<1> QED
  BY <1>1, <1>2, <1>3, AnswerInvariance, PTL DEF Spec

(* As long as no creation fails in the backend, map and backend together     *)
(* are a separate and lasting view for each fork (fork.rs:179-228, 386-423): *)
(* every step of the Forker is a step of ForkViews, or none that shows.      *)
THEOREM ForkerKeepsViews == Spec => ImplementsForkViews
<1>1. Init => Promised!Init
  <2> SUFFICES ASSUME Init PROVE Promised!Init
    OBVIOUS
  <2>1. Views = << >>
    BY DEF Init, Views
  <2> QED
    BY <2>1 DEF Init, Promised!Init, Current
<1>2. ViewInv /\ [Next]_vars => [Promised!Next]_viewVars
  BY StepsKeepViews
<1> QED
  BY <1>1, <1>2, ViewInvariance, PTL DEF Spec, ImplementsForkViews, Promised!Spec, viewVars
===============================================================================
