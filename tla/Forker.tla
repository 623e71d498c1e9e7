------------------------------- MODULE Forker -------------------------------
(***************************************************************************)
(* The Forker of the Rust crates: one EVM executor over forks of remote    *)
(* chains.  The backend of the executor numbers its forks itself; the      *)
(* Forker keeps a map of its own, from what was asked for (a URL and a     *)
(* block number, or none for the latest) to the number it believes the     *)
(* backend gave the fork.                                                  *)
(*                                                                         *)
(* A method takes &mut self, so two never overlap on one Forker.  What     *)
(* does go on meanwhile is the remote chain, and every answer of it may be *)
(* an error, or never come: the caller then drops the future, which is an  *)
(* error here too.  The backend, the executor and the chain are external.  *)
(*                                                                         *)
(* What an account holds is the block it was fetched at and all that ran   *)
(* on its fork since, any of which it may depend on.  The caller's nonce,  *)
(* the other fields of the block environment, and what is written while no *)
(* fork is active (in memory that the first fork replaces) are left out.   *)
(***************************************************************************)
EXTENDS Integers, Sequences, FiniteSets, AlloyCalls

CONSTANTS
  Url,          (* The remote chains.                                      *)
  Account,      (* Accounts, under the same address on all chains.         *)
  ZeroAddress,  (* The address of nobody.                                  *)
  None,         (* The Option without a value.                             *)
  Chain,        (* For each URL its blocks to come, block 0 first: each is *)
                (* a sequence of transactions [hash, kind, to].            *)
  Requested,    (* The forks that callers ask for: [url, block].           *)
  RollTargets,  (* The block numbers that callers roll to, or None.        *)
  MaxForks,     (* A bound on the records of a behaviour.                  *)
  MaxApplied,   (* A bound on the transactions applied to an account.      *)
  CreationMayFail (* May the backend fail to create a fork?                *)

VARIABLES
  head,        (* Remote: the number of the latest block of each chain.    *)
  backend,     (* The backend's forks, that with local id 0 first.         *)
  active,      (* The local id of its active fork, or None.                *)
  persistent,  (* The accounts it carries from fork to fork.               *)
  envBlock,    (* The block number in the environment of the executor.     *)
  forks,       (* The Forker's map: ForkId |-> (local id, block number).   *)
  call,        (* The method under way, between its steps.                 *)
  last,        (* History: what the last method returned.                  *)
  lost         (* History: the ids whose creation failed in the backend.   *)

executorVars == <<backend, active, persistent, envBlock>>
vars == <<head, executorVars, forks, call, last, lost>>

TxsIn(txs) == {txs[i] : i \in DOMAIN txs}
BlockNumbers(url) == 0 .. (Len(Chain[url]) - 1)
BlockAt(url, number) == Chain[url][number + 1]
TxsOf(url) == UNION {TxsIn(Chain[url][i]) : i \in DOMAIN Chain[url]}
AllTxs == UNION {TxsOf(url) : url \in Url}

ForkId(url, number) == [url |-> url, block |-> number]
ForkIds == [url : Url, block : Nat \cup {None}]

ASSUME NoneAssumption == None \notin Nat /\ None \notin AllTxs /\ None \notin ForkIds
ASSUME AccountAssumption == Account # {} /\ ZeroAddress \notin Account
ASSUME RequestedAssumption == Requested \subseteq ForkIds
ASSUME RollAssumption == RollTargets \subseteq Nat \cup {None}
ASSUME ChainAssumption ==
  \A url \in Url :
    /\ Chain[url] \in Seq(Seq(TxsOf(url))) /\ Chain[url] # << >>
    /\ \A tx \in TxsOf(url) : tx.to \in Account /\ tx.kind \in {"call", "create"}

Idle == [at |-> "idle"]
NoAnswer == [op |-> "none"]

Init ==
  /\ head = [url \in Url |-> 0]
  /\ backend = << >>
  /\ active = None
  /\ persistent = {}
  /\ envBlock = 0
  /\ forks = << >>
  /\ call = Idle
  /\ last = NoAnswer
  /\ lost = {}

-----------------------------------------------------------------------------
(* External: the chains, and the backend. *)

Mine(url) ==
  /\ head[url] + 1 \in BlockNumbers(url)
  /\ head' = [head EXCEPT ![url] = @ + 1]
  /\ UNCHANGED <<executorVars, forks, call, last, lost>>

Untouched(url, number) == [url |-> url, block |-> number, txs |-> << >>]

NewFork(url, number) ==
  [url |-> url, block |-> number, accounts |-> [a \in Account |-> Untouched(url, number)]]

WithAccounts(fork, accounts) == [url |-> fork.url, block |-> fork.block, accounts |-> accounts]

(* Transactions are committed to a fork. *)
Ran(account, txs) == [account EXCEPT !.txs = @ \o txs]

Committed(fork, txs) == WithAccounts(fork, [a \in Account |-> Ran(fork.accounts[a], txs)])

(* One fork takes the persistent accounts of another. *)
Kept(fork, from) ==
  WithAccounts(fork, [a \in Account |->
    IF a \in persistent THEN from.accounts[a] ELSE fork.accounts[a]])

(* A fork that becomes active takes them of the one that was active before. *)
Carried(fork) == IF active = None THEN fork ELSE Kept(fork, backend[active + 1])

(* A rolled fork forgets what was committed, but for persistent accounts. *)
Rolled(fork, number) == Kept(NewFork(fork.url, number), fork)

(* Where a fork starts: at the block asked for, or at the latest when the *)
(* backend fetches it, which is later than fork_evm_env did.              *)
StartBlocks(id, fetched) ==
  IF id.block = None THEN fetched .. head[id.url] ELSE {id.block}

-----------------------------------------------------------------------------
(* add_or_select and new_with_fork. *)

(* The method under way returns. *)
Return(answer) ==
  /\ call' = Idle
  /\ last' = answer

Answer(outcome) ==
  [op |-> IF call.tx = None THEN "add_or_select" ELSE "replay", outcome |-> outcome, id |-> call.id]

AddOrSelect(id) ==
  /\ call = Idle
  /\ id \in DOMAIN forks \/ Cardinality(DOMAIN forks) < MaxForks
  /\ call' = [at |-> "select", id |-> id, tx |-> None, created |-> FALSE, fetched |-> 0]
  /\ last' = NoAnswer
  /\ UNCHANGED <<head, executorVars, forks, lost>>

(* A replay goes on with the fork it has selected. *)
Selected(created) ==
  IF call.tx = None THEN Return(Answer("ok"))
  ELSE /\ call' = [call EXCEPT !.at = "replay", !.created = created]
       /\ UNCHANGED last

AtSelect == call.at = "select" /\ UNCHANGED <<head, envBlock>>

IsActive(id) == id \in DOMAIN forks /\ forks[id].local = active

SelectActive ==
  /\ AtSelect
  /\ IsActive(call.id)
  /\ Selected(FALSE)
  /\ UNCHANGED <<backend, active, persistent, forks, lost>>

(* The environment that select_fork updates is a default one that is then   *)
(* dropped: the executor keeps its own.                                     *)
SelectKnown ==
  /\ AtSelect
  /\ call.id \in DOMAIN forks
  /\ LET local == forks[call.id].local IN
       /\ local # active
       /\ local + 1 \in DOMAIN backend
       /\ backend' = [backend EXCEPT ![local + 1] = Carried(@)]
       /\ active' = local
  /\ Selected(FALSE)
  /\ UNCHANGED <<persistent, forks, lost>>

SelectFails ==
  /\ AtSelect
  /\ call.id \in DOMAIN forks /\ ~IsActive(call.id)
  /\ Return(Answer("ExecutorError"))
  /\ UNCHANGED <<backend, active, persistent, forks, lost>>

(* fork_evm_env reads the block to fork from over RPC. *)
FetchEnv ==
  /\ AtSelect
  /\ call.id \notin DOMAIN forks
  /\ call.id.block # None => call.id.block <= head[call.id.url]
  /\ call' = [call EXCEPT !.at = "create",
                !.fetched = IF call.id.block = None THEN head[call.id.url] ELSE call.id.block]
  /\ UNCHANGED <<backend, active, persistent, forks, last, lost>>

FetchFails ==
  /\ AtSelect
  /\ call.id \notin DOMAIN forks
  /\ Return(Answer("Eyre"))
  /\ UNCHANGED <<backend, active, persistent, forks, lost>>

Record(id, local, number) ==
  [known \in DOMAIN forks \cup {id} |->
     IF known = id THEN [local |-> local, block |-> number] ELSE forks[known]]

AtCreate == call.at = "create" /\ UNCHANGED head

(* new_with_fork builds a new executor whose backend has the one fork, and *)
(* add_or_select on an empty Forker takes it over.                         *)
NewWithFork ==
  /\ AtCreate
  /\ DOMAIN forks = {}
  /\ \E number \in StartBlocks(call.id, call.fetched) : backend' = <<NewFork(call.id.url, number)>>
  /\ active' = 0
  /\ persistent' = {}
  /\ envBlock' = call.fetched
  /\ forks' = Record(call.id, 0, call.fetched)
  /\ Selected(TRUE)
  /\ UNCHANGED lost

SpawnFails ==
  /\ AtCreate
  /\ DOMAIN forks = {}
  /\ Return(Answer("Eyre"))
  /\ UNCHANGED <<executorVars, forks, lost>>

(* Mutant of NextLocalId: the record is counted before the id is taken. *)
LocalIdAfterInsert == Cardinality(DOMAIN forks) + 1

NextLocalId == Cardinality(DOMAIN forks)

(* The record is made first, for the fork that the backend is to create. *)
RecordFork ==
  /\ AtCreate
  /\ DOMAIN forks # {}
  /\ forks' = Record(call.id, NextLocalId, call.fetched)

CreateSelectFork ==
  /\ RecordFork
  /\ \E number \in StartBlocks(call.id, call.fetched) :
       backend' = Append(backend, Carried(NewFork(call.id.url, number)))
  /\ active' = Len(backend)
  /\ Selected(TRUE)
  /\ UNCHANGED <<persistent, envBlock, lost>>

(* The backend creates no fork, and the record stays. *)
CreateFails ==
  /\ CreationMayFail
  /\ RecordFork
  /\ lost' = lost \cup {call.id}
  /\ Return(Answer("ExecutorError"))
  /\ UNCHANGED executorVars

(* The backend creates the fork and does not select it. *)
CreatedUnselected ==
  /\ RecordFork
  /\ \E number \in StartBlocks(call.id, call.fetched) :
       backend' = Append(backend, NewFork(call.id.url, number))
  /\ Return(Answer("ExecutorError"))
  /\ UNCHANGED <<active, persistent, envBlock, lost>>

-----------------------------------------------------------------------------
(* Calls. *)

Called(op, outcome) == [op |-> op, outcome |-> outcome]

(* call and alloy_call run on a copy of the backend and leave nothing behind; *)
(* what they answer matters to module Client.                                 *)
AlloyCall ==
  /\ call = Idle
  /\ last' = NoAnswer
  /\ UNCHANGED <<head, executorVars, forks, call, lost>>

UserTx(to) == [hash |-> "user", kind |-> "call", to |-> to]

RoomFor(fork, txs) ==
  \A a \in Account : Len(fork.accounts[a].txs) + Len(txs) <= MaxApplied

(* Mutant of PersistentAfter: it is not undone. *)
PersistentKept(to) == persistent \cup {to}

(* transact_raw makes the called account persistent, for the cheat codes of *)
(* the tests that the executor is made for, and call_committing undoes it.  *)
PersistentAfter(to) == (persistent \cup {to}) \ {to}

(* A result is committed when the call succeeded, whatever the method then *)
(* makes of the bytes returned.                                            *)
AlloyCallCommitting(to) ==
  /\ call = Idle
  /\ active # None => RoomFor(backend[active + 1], <<UserTx(to)>>)
  /\ \E exit \in Exits : \E outcome \in OutcomesOf(exit) :
       /\ last' = Called("commit", outcome)
       /\ backend' = IF exit = "ok" /\ active # None
                     THEN [backend EXCEPT ![active + 1] = Committed(@, <<UserTx(to)>>)]
                     ELSE backend
  /\ persistent' = PersistentAfter(to)
  /\ UNCHANGED <<head, active, envBlock, forks, call, lost>>

(* The EVM itself fails, on an account it cannot load. *)
TransactFails(to) ==
  /\ call = Idle
  /\ last' = Called("commit", "ExecutorError")
  /\ persistent' = PersistentAfter(to)
  /\ UNCHANGED <<head, backend, active, envBlock, forks, call, lost>>

(* An address that is not 20 bytes long. *)
InvalidAddress ==
  /\ call = Idle
  /\ last' = Called("commit", "ExecutorError")
  /\ UNCHANGED <<head, executorVars, forks, call, lost>>

-----------------------------------------------------------------------------
(* roll_fork. *)

NamesActive(id) == forks[id].local = active

(* The records that carry the active fork's local id, in no order. *)
ActiveRecords == {id \in DOMAIN forks : NamesActive(id)}

RollAnswer(asked, outcome) == [op |-> "roll", outcome |-> outcome, asked |-> asked]

NoActiveFork(asked) ==
  /\ call = Idle
  /\ active = None \/ ActiveRecords = {}
  /\ last' = RollAnswer(asked, "ExecutorError")
  /\ UNCHANGED <<head, executorVars, forks, call, lost>>

(* Mutant of OriginalBlock: the number the caller asked for when it forked, *)
(* zero when it asked for the latest.                                       *)
RequestedBlock(id) == IF id.block = None THEN 0 ELSE id.block

OriginalBlock(id) == forks[id].block

(* The executor's environment is set before the backend rolls the fork: it *)
(* keeps the new number when the backend cannot.                           *)
RollFork(asked) ==
  /\ call = Idle
  /\ active # None
  /\ \E id \in ActiveRecords :
       LET target == IF asked = None THEN OriginalBlock(id) ELSE asked
           fork == backend[active + 1]
       IN  /\ envBlock' = target
           /\ \/ /\ target <= head[fork.url]
                 /\ backend' = [backend EXCEPT ![active + 1] = Rolled(@, target)]
                 /\ last' = RollAnswer(asked, "ok")
              \/ /\ last' = RollAnswer(asked, "ExecutorError")
                 /\ UNCHANGED backend
  /\ UNCHANGED <<head, active, persistent, forks, call, lost>>

-----------------------------------------------------------------------------
(* replay_transaction. *)

Failed(error) == last' = [op |-> "replay", outcome |-> error]

MinedAt(url, tx) == {n \in 0 .. head[url] : tx \in TxsIn(BlockAt(url, n))}

ReplayWithoutFork ==
  /\ call = Idle
  /\ active = None
  /\ Failed("NoActiveFork")
  /\ UNCHANGED <<head, executorVars, forks, call, lost>>

(* The active fork's chain does not know the transaction, has it in no block *)
(* yet, or does not answer.                                                  *)
ReplayUnknown ==
  /\ call = Idle
  /\ active # None
  /\ \E error \in {"DatabaseError", "NoBlockNumberFound"} : Failed(error)
  /\ UNCHANGED <<head, executorVars, forks, call, lost>>

ReplayGenesis(tx) ==
  /\ call = Idle
  /\ active # None
  /\ 0 \in MinedAt(backend[active + 1].url, tx)
  /\ Failed("GenesisBlockReplay")
  /\ UNCHANGED <<head, executorVars, forks, call, lost>>

(* The part of a block that comes before a transaction, all of it when the *)
(* transaction is not in the block.                                        *)
Before(txs, tx) ==
  LET first == {i \in DOMAIN txs : txs[i] = tx}
  IN IF first = {} THEN txs ELSE SubSeq(txs, 1, (CHOOSE i \in first : TRUE) - 1)

(* The transaction is replayed on a fork at the block before its own. *)
ReplayTransaction(tx) ==
  /\ call = Idle
  /\ active # None
  /\ LET url == backend[active + 1].url IN
       \E number \in MinedAt(url, tx) \ {0} :
         LET id == ForkId(url, number - 1) IN
           /\ id \in DOMAIN forks \/ Cardinality(DOMAIN forks) < MaxForks
           /\ \A f \in DOMAIN backend : RoomFor(backend[f], Before(BlockAt(url, number), tx))
           /\ call' = [at |-> "select", id |-> id, tx |-> tx, created |-> FALSE, fetched |-> 0]
  /\ last' = NoAnswer
  /\ UNCHANGED <<head, executorVars, forks, lost>>

ReplayBlock == call.id.block + 1

(* A deployment is called at the zero address. *)
Callee(tx) == IF tx.kind = "call" THEN tx.to ELSE ZeroAddress

AtReplay ==
  /\ call.at = "replay"
  /\ call' = Idle
  /\ envBlock' = ReplayBlock
  /\ UNCHANGED <<head, active, persistent, forks, lost>>

ReplayedOn == backend[active + 1].url

(* Mutant of Prefix: the transaction itself is committed before it is called. *)
PrefixWithTx(txs) == Append(Before(txs, call.tx), call.tx)

Prefix(txs) == Before(txs, call.tx)

(* The transactions before it are committed to the fork, and the call that *)
(* stands for the transaction itself is not.                               *)
Replay ==
  /\ AtReplay
  /\ ReplayBlock \in BlockNumbers(ReplayedOn) /\ ReplayBlock <= head[ReplayedOn]
  /\ LET txs == BlockAt(ReplayedOn, ReplayBlock)
         before == Committed(backend[active + 1], Prefix(txs))
     IN  /\ backend' = [backend EXCEPT ![active + 1] = before]
         /\ IF call.tx \in TxsIn(txs)
            THEN \/ last' = [op |-> "replay", outcome |-> "ok", tx |-> call.tx, id |-> call.id,
                             created |-> call.created, callee |-> Callee(call.tx),
                             on |-> before.accounts]
                 \/ Failed("ExecutorError")
            ELSE Failed("TransactionNotFound")

(* The backend fails on a transaction that comes before, with those before  *)
(* it committed; or on the block, or the fork.                              *)
ReplayFails ==
  /\ AtReplay
  /\ Failed("Eyre")
  /\ IF ReplayBlock \in BlockNumbers(ReplayedOn) /\ ReplayBlock <= head[ReplayedOn]
     THEN \E n \in 0 .. Len(Before(BlockAt(ReplayedOn, ReplayBlock), call.tx)) :
            backend' = [backend EXCEPT ![active + 1] =
                 Committed(@, SubSeq(BlockAt(ReplayedOn, ReplayBlock), 1, n))]
     ELSE UNCHANGED backend

-----------------------------------------------------------------------------
Select ==
  \/ SelectActive \/ SelectKnown \/ SelectFails \/ FetchEnv \/ FetchFails
  \/ NewWithFork \/ SpawnFails \/ CreateSelectFork \/ CreateFails \/ CreatedUnselected

Next ==
  \/ \E url \in Url : Mine(url)
  \/ \E id \in Requested : AddOrSelect(id)
  \/ Select
  \/ AlloyCall
  \/ \E to \in Account : AlloyCallCommitting(to) \/ TransactFails(to)
  \/ InvalidAddress
  \/ \E asked \in RollTargets : NoActiveFork(asked) \/ RollFork(asked)
  \/ ReplayWithoutFork \/ ReplayUnknown
  \/ \E tx \in AllTxs : ReplayGenesis(tx) \/ ReplayTransaction(tx)
  \/ Replay \/ ReplayFails

Spec == Init /\ [][Next]_vars
-----------------------------------------------------------------------------
(* Properties. *)

AccountState == [url : Url, block : Nat, txs : Seq(AllTxs \cup {UserTx(a) : a \in Account})]

ForkState == [url : Url, block : Nat, accounts : [Account -> AccountState]]

RecordState == [local : 0 .. (Cardinality(DOMAIN forks) - 1), block : Nat]

CallState ==
  {Idle} \cup
  [at : {"select", "create", "replay"}, id : ForkIds, tx : AllTxs \cup {None},
   created : BOOLEAN, fetched : Nat]

(* Every variable of the Forker has its type; a record names a local id that *)
(* the backend has or is yet to give.                                        *)
TypeOK ==
  /\ DOMAIN head = Url /\ \A url \in Url : head[url] \in BlockNumbers(url)
  /\ backend \in Seq(ForkState)
  /\ active # None => active \in Nat /\ active < Len(backend)
  /\ persistent \subseteq Account
  /\ envBlock \in Nat
  /\ DOMAIN forks \subseteq ForkIds /\ IsFiniteSet(DOMAIN forks)
  /\ \A id \in DOMAIN forks : forks[id] \in RecordState
  /\ call \in CallState
  /\ lost \subseteq DOMAIN forks

(* The Forker counts its records where the backend numbers its forks: so    *)
(* long as the backend has created every fork it was asked for, each record *)
(* names a fork of its own, of its own chain, and every fork has a record.  *)
RecordsNameForks ==
  lost = {} =>
    /\ Cardinality(DOMAIN forks) = Len(backend)
    /\ \A id \in DOMAIN forks :
         /\ forks[id].local + 1 \in DOMAIN backend
         /\ backend[forks[id].local + 1].url = id.url
         /\ \A other \in DOMAIN forks : forks[other].local = forks[id].local => other = id

(* No fork sees what happens to another: a step changes what a fork holds   *)
(* only if it is the active one before and after, so that switching to a    *)
(* fork, creating one next to it, and writing to another all leave it alone.*)
ForksAreIsolated ==
  [][\A f \in DOMAIN backend : backend'[f] # backend[f] => active = f - 1 /\ active' = active]_vars

(* The answer of a committing call tells whether it was committed: it was   *)
(* exactly if the caller gets a value, or a TypedError because the bytes    *)
(* returned were not what it expected.  No other error, nor a failure of    *)
(* the registry of selectors, comes back from a call that took effect.      *)
CommitsAsAnswered ==
  [][last'.op = "commit" /\ head' = head /\ active # None =>
       (backend' # backend <=> last'.outcome \in {"ok", "TypedError"})]_vars

(* Rolling without a number takes a fork back to the block it was asked for *)
(* with all that was committed to it gone, whatever was created, selected   *)
(* and rolled before; a fork of the latest block goes back to what was the  *)
(* latest then.                                                             *)
RollsToOriginal ==
  last.op = "roll" /\ last.outcome = "ok" /\ last.asked = None /\ lost = {} =>
    \E id \in DOMAIN forks :
      LET fork == backend[active + 1] IN
        /\ forks[id].local = active
        /\ id.block # None => fork.block = id.block
        /\ fork = NewFork(id.url, forks[id].block)
        /\ envBlock = fork.block

-----------------------------------------------------------------------------
(* What a replay should run on: the state before the block of the            *)
(* transaction, and of that block exactly what comes before it.              *)
BeforeTx(id, tx) ==
  Committed(NewFork(id.url, id.block), Before(BlockAt(id.url, id.block + 1), tx)).accounts

Replayed == last.op = "replay" /\ last.outcome = "ok"

(* A replay that creates its fork runs the transaction on the state it had   *)
(* on its chain.                                                             *)
FirstReplayOnItsState ==
  Replayed /\ last.created => last.on = BeforeTx(last.id, last.tx)

(* "Replays a transaction", after "all transactions that came before": so do *)
(* all replays, also when the fork at the block before is there already.     *)
ReplaysOnItsState == Replayed => last.on = BeforeTx(last.id, last.tx)

(* add_or_select "adds new fork and sets it as active or if the fork already *)
(* exists, selects it as active": when it returns, the active fork is one of *)
(* the chain that was asked for.                                             *)
SelectsAsked ==
  last.op = "add_or_select" /\ last.outcome = "ok" =>
    backend[active + 1].url = last.id.url
=============================================================================
