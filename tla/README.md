# Rain interpreter: specifications and proofs

TLA+ models of the Rain interpreter (`src/src`, Solidity), of the script that
deploys it (`src/script`) and of the Rust crates that fork chains, evaluate on
them and read their traces (`src/crates`), with TLC configurations that check
them on small instances and TLAPS proofs that hold for every instance.

An *expression* is an array of constants and a bytecode made of *sources*. The
parser writes it, the integrity check accepts or rejects it, and the
interpreter runs it without a single bounds check at run time. That last
sentence is the reason for this project: the safety of the interpreter is an
agreement between two pieces of code that never meet, the walk of
`integrityCheck2` and the loop of `evalLoop`, and it is made in assembly.

## 1. Inventory

| Part | State | Operations | Talks to |
|---|---|---|---|
| Parser (`lib/parse`, `RainterpreterParser`) | `ParseState`: fsm, counters of top level items and parens, linked lists of op slots, constants, sub parsers, stack names | read pragma, LHS, RHS, operands, literals; `pushOpToSource`, `endLine`, `endSource`, `buildBytecode`, `buildConstants` | sub parsers (external calls) |
| Integrity check (`LibIntegrityCheck`, each op's `integrity`) | `IntegrityCheckState`: stack height, peak, read highwater, op index | `newState`, `integrityCheck2` | extern contracts (`externIntegrity`) |
| Expression deployer | none | `parse2`: parser, then integrity check | parser, interpreter's pointers |
| Interpreter (`Rainterpreter`, `LibEval`, state libraries) | `InterpreterState`: stack regions, `stackBottoms`, `sourceIndex`, `stateKV`; one activation per call | `eval4`: deserialize, overlay, copy inputs, `evalLoop` | store (`get`), externs, stack tracer |
| Ops (`lib/op`) | none of their own | `integrity`, `run`, `referenceFn` of 72 words | the interpreter's stack |
| Store (`RainterpreterStore`) | `sStore`: fully qualified namespace, key, value | `set` (emits `Set`), `get` | callers, interpreter |
| Externs (`BaseRainterpreterExtern`, `LibExtern`, the reference extern) | none | `extern`, `externIntegrity`, sub parsing | interpreter, parser |
| Registry (`Rainlang`), `Deploy.sol` | the code at each address of each network | getters; `run` deploys one contract on every network | the factory, all networks |
| Forker (`crates/eval/src/fork.rs`) | `forks`: what was asked for to the local id it believes the backend gave; the executor's backend and environment | `new`, `new_with_fork`, `add_or_select`, `call`, `call_committing`, `alloy_call`, `alloy_call_committing`, `roll_fork`, `replay_transaction` | EVM backend, RPC |
| Traces (`crates/eval/src/trace.rs`) | none | from the inspector's arena to traces, path names, tables; `search_trace_by_path` | the interpreter's tracer calls |
| Evaluation client (`eval.rs`), parser client (`crates/parser`), command line (`crates/cli`) | one fork, the addresses found, the output file | `fork_eval`, `fork_parse`, `parse_text`, `parse_pragma`, `Eval`, `Parse` | Forker, all contracts |
| Test fixture (`crates/test_fixtures`) | an Anvil chain | `LocalEvm::new` | all contracts |

How they interact: the deployer passes the parser's bytecode to the integrity
check. A caller gives the bytecode to `eval4`, a view function, which reads the
store, calls externs and the tracer, and returns a stack and a list of keys and
values. The caller persists that list with `store.set`, in a call of its own.
The command line forks a network, asks `Rainlang` for the addresses of the other
contracts, has the text parsed and evaluated by calls on the fork, and writes an
output; the network goes on meanwhile. The Forker keeps several such forks, and
traces are read from what its inspector recorded.

What is hard here:

- *two walks that must agree* on the height of the stack at every op, at every
  call depth, because neither looks at the other (protocol over two phases);
- *one memory for everything*: all stacks of all sources lie side by side,
  unzeroed; a call writes below the callee's bottom, traces and external calls
  borrow the word above a stack top, and at full height that word is the length
  word of the same stack (boundaries);
- *state shared by activations*: `state.sourceIndex` is global, the pointers
  are locals (stale state after a nested call);
- *recursion*, which the check accepts and only gas stops;
- *order*: inputs are reversed into a callee, outputs are not, extern outputs
  are reversed, traces come in post-order;
- *read now, write later*: `eval4` reads the store, `set` writes it in a later
  call, and what was only read is written back;
- in the parser, *counters and pointers packed in bytes*: 62 counters of top
  level items in 64 bytes, 16-bit pointers, paren groups of three bytes;
- in the Forker, a map of local ids beside the backend's own, a record made
  before the operation that may fail, forks that are kept and found again
  changed, a chain that grows between two RPC calls, and state that is committed
  before the answer is decoded;
- in the traces, a call tree that is rebuilt from the order of a flat list;
- in the deployment, constants that name other contracts, set before these are
  there, and runs that stop half way.

What makes each part correct: the check accepts exactly the well-formed
expressions; an accepted expression never reads or writes outside its stacks,
never reads a word it did not compute, and computes what a machine with private
stacks computes; traces tell the call tree; the store after a persisted
evaluation is what direct reads and writes would have left; the parser emits
the bytecode of the abstract syntax it read or reverts; the Forker's ids are
the backend's and its forks do not see each other; a trace is attributed to the
call that made it; a command answers from one block, and its exit status tells
what happened; contracts find what they name.

`PROJECT.json` lists every component with its status and every hazard with its
source line and the properties that cover it.

## 2. Modules

| Module | Models | Reads |
|---|---|---|
| `Bytecode` | expressions, ops, the integrity functions of the ops, results of pure ops | - |
| `Validation` | abstract: which expressions are well formed, in one step | `Bytecode` |
| `IntegrityCheck` | `integrityCheck2`, one action per turn of its loops | `Bytecode`, `Validation` |
| `Eval` | `eval4` on an expression the check accepted | `IntegrityCheck` |
| `EvalMachine` | the private stacks that frames and memory stand for | `Eval`, `StackMachine` |
| `StackMachine` | abstract: evaluation with a private stack per activation | `Bytecode` |
| `Store` | `RainterpreterStore`, its callers, the cache of an evaluation | - |
| `ParseState` | `LibParseState`, `LibParseStackTracker`, `LibParseStackName`: what each function makes of the state | `Bytecode` |
| `Rainlang` | abstract: what a text means, said without a parser | `Bytecode` |
| `Parser` | `LibParse.parse` with pragma, interstitial and sub parsing, an action per token | `ParseState`, `Rainlang` |
| `Deployer` | `parse2`: the parser, then the check of what it wrote | `Parser`, `IntegrityCheck` |
| `AlloyCalls` | what a typed call makes of the EVM's result | - |
| `Forker` | `Forker`, with foundry's backend and the remote chains as external parts | `AlloyCalls` |
| `ForkViews` | abstract: a separate, lasting view for each fork that was asked for | - |
| `ForkerRefinement` | the views that the map and the backend of a Forker make together | `Forker`, `ForkViews` |
| `Traces` | `trace.rs`, operators only | - |
| `TracedEval` | an evaluation with the arena that the inspector records of it | `Eval`, `Traces` |
| `Deployment` | `Deploy.sol`, its dependencies, the chains it deploys to | - |
| `Contracts` | what a call to an address answers at a block | `Deployment` |
| `LocalEvm` | the construction of the test fixture | `Contracts` |
| `Client` | the commands `Eval` and `Parse`, `ParserV2`, `DISPaiR` | `LocalEvm`, `AlloyCalls` |
| `IntegrityCheck_proofs`, `Eval_proofs`, `TracedEval_proofs`, `Store_proofs`, `Deployer_proofs`, `Forker_proofs`, `Client_proofs` | theorems; those about `Validation` are in the first, about `EvalMachine` in the second, about `Parser` in `Deployer_proofs`, about `ForkViews` in `Forker_proofs`, about `Deployment` and `LocalEvm` in `Client_proofs` | the modules they are named for |
| `Induction` | induction on numbers, and recursive definitions, in the form SMT can use | - |
| `MCWords`, `MCEval`, `MCTraces`, `MCStore`, `MCRainlang`, `MCDeployer`, `MCParserLimits`, `MCForker`, `MCDeployment`, `MCClient` | instances for TLC | - |

**Bytecode.** `Op` is an op's code, its low 16 operand bits and the two nibbles
of its IO byte. `CalcIO` and `OperandRevert` are the integrity functions. The
words are represented by their kind: the seven that touch memory, the store,
constants, context, or another source (`stack`, `constant`, `context`,
`extern`, `call`, `get`, `set`) each by themselves, and of the rest `add`
(any number of inputs, at least two), `hash` (any number of inputs), `if`
(three inputs), `ensure` (no output, may revert). `Apply` is any function to
words. Sources and constants are counted from 1, stack items from 0.

**IntegrityCheck.** `NewState` is the begin of a source, `AcceptOp` a turn of
the inner loop that passes every check, the `Revert...` actions the ways it
does not, `EndSource` the comparison with the source's prefix. The order of the
checks is the code's. `source`, `opIndex`, `stackIndex`, `stackMaxIndex`,
`readHighwater` are the code's variables. `profile` is a history variable: the
height and highwater before each op, which is what the evaluation relies on. The
answer of an extern's own integrity function is arbitrary.

**Eval.** `mem` is memory as assembly sees it, an array of words from the first
stack up; `frames` is the Solidity call stack of `evalLoop`, a frame its locals
(`bottom`, `top`, `parent`, `src`, the cursor `pc`). `AllocateStack` is a turn
of `unsafeDeserialize`: one length word, then `alloc` words of whatever was
there (`Dirty`). `ApplyOverlay` is a turn of the overlay loop, `EnterEval` the
copy of the inputs. Every word has a `Run...` action and, where its run function
reverts, a `Revert...` action. `RunStack` finds its stack through
`stackBottoms[sourceIndex]`, as the code does, and not through the frame.
`RunExtern` and `StackTrace` borrow the word at `top - 1`; in memory the loan and
its return are `Restored(Borrowed(...))`, since the callee of a `staticcall`
cannot see this memory in between. `RunCall` copies in a loop that, in a source
that calls itself, may read what it has just written (`CopiedInput`).
`ReturnFromCall` is the end of `evalLoop` in a call, with its trace and the copy
of the outputs; `ReturnFromEval` makes the word above the stack the length of the
returned array. `EvalMachine` has the mapping to `StackMachine`: of every frame the words
between its top and its bottom, the last pushed last.

**Store.** An expression is its accesses: `get` reads a key through the cache,
`set` writes what the last `get` read plus an amount. The cache starts with the
pairs of the state overlay (`Overlaid`), which are returned as writes too, also
those whose keys the expression does not touch. `Evaluated` is the cache
after a program, `Stored` the loop of `set` and of the overlay, `Arrays` the orders
in which a cache may be exported. A caller evaluates (`Eval4`), in any fully qualified
namespace, another caller's included, then persists (`Persist`) in a namespace of its
own or never does (`Discard`, its transaction reverts), and may call `set` with
arrays of its own. Both refuse a list of odd length. The constant `Interleaved` says
whether callers do anything between evaluating and persisting.

**ParseState.** The state is a record; an operator takes it to the state after
the call, and a revert is a state whose `error` is set. Ops lie in slots of
`SlotOps` (7), in the order of writing; a pointer is a `Place`, a slot and how
many ops had been written to it. `topLevel` is the pair of words `topLevel0` and
`topLevel1`: the number of items, the counters of their ops, and the number of
LHS items, which `Counter` finds behind the last counter, as the code does.
`parens` keeps what a closed group leaves behind. `OpBefore` is the walk of
`endLine` from a remembered place to earlier slots, `CopyItem` and `WordsBack`
the reordering copy of `endSource`. Where the code would follow a pointer it
never wrote, the model stops with `WildAccess`.

**Rainlang.** The reference: inputs, outputs, nesting and the order of evaluation
of a word are read off the positions of the tokens (`Inputs`, `Outputs`,
`EvalOrder`), a name denotes the LHS item it stands at (`NamedItem`), `Means`
relates a text to sources and constants, and `WellFormed` says which texts mean
something. It has no state, no slots and no counters.

**Parser.** `text`, `cursor` and `state` are the code's; `phase` is the loop the
parser is in. Each action reads one token and makes every change the code makes
before the next: `ReadEndOfSource` is `endLine`, `endSource`, `resetSource` and
the reset of the fsm. `SubParseWord` is a turn of `subParseWordSlice` for an
unknown op, with the answers of the sub parsers from newest to oldest. A
character class is a token kind; a run of whitespace, a comment, a word with its
operand and a literal are one token each. How long a run of whitespace is matters
only after `using-words-from`, which takes one character of it: whether there are more
is a choice of `ReadKeyword`. `parsePragma1` of `Contracts` reverts on a text whose pragma
is malformed.

**Deployer.** `Parse2Check` is `IntegrityCheck!CheckNext` on what the parser wrote.

**Forker.** `forks` is the code's map, `backend` the sequence of foundry's forks
with local id 0 first, `envBlock` the block number of the executor's
environment. A method takes `&mut self`, so two never overlap; what goes on
between its steps is the chain (`Mine`), which is why `add_or_select` is a step
for the selection, one for `fork_evm_env` and one for the backend. Any remote
step may fail, which also stands for a caller that drops the future. An account
is the block it was fetched at and the transactions that ran on its fork:
whatever a call could depend on. `lost` is history: the ids whose record is there
and whose fork is not. `replay_transaction` selects a fork as `add_or_select`
does, and then is one step (`Replay`), or one that fails half way.

**ForkViews, ForkerRefinement.** What a caller of the Forker may think it has: for each
id a view, opened once, with an origin, a block and accounts, of which one is current.
The promise is `kept` until a creation fails in the backend. In the refinement the view
of an id is the fork that its record names by local id, its origin the block of the record.

**Traces, TracedEval.** A path is the sequence of its parts, a part the number that
it parses as, or one that does not parse. `TracedNext` is a step of `Eval` with the
calls it makes recorded in `arena`, the tracer's with the calldata that
`LibInterpreterState.stackTrace` writes; `callPaths` is history: the true path of
each trace, off the Solidity call stack.

**Deployment, Contracts, LocalEvm.** `chain` has for each network the state after
each block: the contract at each address, and one key of each store. `Run` starts
`Deploy.sol` with a contract, `Broadcast` is its turn at one network, `Stops` its
end anywhere in between. `CallAt` is what the code at an address answers. `Steps` are
the awaited calls of `LocalEvm::new` in their order.

**Client.** `proc` is the command's process, one action for each of its awaits.
The arguments are converted after the fork is made, as in `execute`. `Others` is the
rest of the world: the script, the stores, the fixture.

## 3. What the runs check

| Run | Instance | Question |
|---|---|---|
| `eval` | an entry source of up to 3 of 16 ops and 0 to 2 inputs with an honest prefix, 3 callees that call on, a leaf; and any prefix of up to 1 input, 2 outputs and 2 stack words with up to 2 of 14 ops, beside a source they may call; 7 requests; 2 extern answers; 3 words | Does the check accept exactly the well-formed expressions, is an accepted expression safe, and does it compute the right thing? |
| `traces` | 24 call trees of 5 sources, in which a source is reached twice or along two paths; sources that call themselves or one another, depth 4; under fairness | Do traces, names and searches tell the calls? Does recursion end? |
| `trace_search` | the same | Does a search find a value at the path it is given? (No.) |
| `store` | 2 callers that share a namespace, 2 keys, 3 values, 4 programs, 3 overlays (none, a key twice with another in between, one of odd length), 4 events | Is an evaluation persisted at once like direct access? |
| `store_interleaved` | the same with callers that do other things in between | Does a read leave the store alone? (No.) |
| `deployer` | 2400 texts of up to 3 lines from a stock of 15, with 2 sub parsers; 3400 of two sources; texts at each limit and one beyond; 21 with a token too many, too few or misplaced | Does the parser write what the text means, and does the check agree? |
| `parser_limits` | the limits of the code, sources of 61 and 62 items | Do the counters suffice for the documented number of items? (No.) |
| `forker` | 2 chains, one with a block of two transactions and one of a deployment, one with a transaction at genesis; forks of the latest block of each and of one block; 3 records; 1 transaction to an account; every step may fail | Are forks separate and lasting, and do answers tell what happened? |
| `forker_lost` | the same with forks of given blocks | Does success mean that the fork asked for is active? (No.) |
| `forker_replay` | the same with 2 transactions to an account, and no creation that fails | Does a replay run on the state before its transaction? (No.) |
| `deployment` | a supported network, a test network; a store write; under fairness | Does a contract find what it names, and do repeated runs end? |
| `client` | 16 commands on a supported network or on the fixture's; deployment, fixture and stores go on | Does a command answer from one block, and do errors and exit status tell the truth? |

`eval`: `CheckedBehindCursor` says that the ops behind the cursor satisfy
every condition and that heights stay within the declared allocation.
`ImplementsValidation` is refinement: the walk accepts an expression exactly
when every source is well formed *judged as a whole*: no op reads an item that
is not there or consumes one that is protected, the allocation is the peak, the
outputs are the final height. `Protected` is stated without a highwater: inputs,
everything there when a multi-output op has run, everything below an item read
by name. `HeightAsChecked` relates each activation to `profile`: the check
predicts the run. `StackInBounds`, `OnlyComputedWords` and `LengthWordsIntact`
are what follows for memory. `SourceIndexIsRunning` is the agreement of the
global index with the locals. `TracesAreFaithful` relates the traces to the call
graph and to the returned stack. `ImmutableBelowHighwater` and
`CallersUntouched` are action properties: what a step of anyone may not change.
`ImplementsStackMachine` maps frames and memory to private stacks and shows that
every step is a step of `StackMachine`: reversal of arguments, order of outputs,
overlay before store, what a call can see.

`traces`, recursion: while a source runs twice, two activations share a region, and the
inner one overwrites the outer one's items. That memory stays safe all the same is
proved (section 4); `RecursionReverts` says that such an evaluation never returns a
result.

`traces`, reading them: `ReadsWhatWasTraced` compares what is cut from the arena with
the traces of the evaluation. `NamesArePaths` says that the search for a parent among the
names before it finds the call that made the trace, and in a reverted evaluation, where
traces of waiting sources are missing, never another's. `NamesAreStatic` derives the
columns from the bytecode alone. `SearchFindsColumn` says that name and search agree, with
indices at and beyond the stack and at the end of `usize`, but for calls between the same
two sources, which `trace_search` is about.

`store`: `EventsTellTheStore` (an indexer of events knows the store) and
`PersistsAsIfDirect` (with nothing in between, an evaluation that is persisted where it
was evaluated is direct access to a store in which its overlay was set first, whatever
other callers do). It says of every persisting step what the store is after it, so that
a step that leaves out a write violates it too. An overlay is given for "what if"
analysis; whoever persists such an evaluation persists the assumption, which the property makes
explicit and no document excludes. An evaluation in another namespace than the one it is
persisted in takes part in the runs, and only `EventsTellTheStore` speaks of it: what it read
is not what its caller has there.

`deployer`: `EmitsMeaning` compares what slots, counters, parens and lists end up
as with the meaning of the text. `TakesTheWellFormed` is the other direction: of
the texts with the right tokens in the right places, the parser takes exactly
those that mean something within its limits. `CountsAgree` relates the stack
tracker to the walk of the integrity check, which computes the same heights in
another contract: what the parser writes never fails for an underflow, a peak
or a final height, so long as sub parsers do not change the number of inputs or
outputs. `LHSIsTheStack` is about both together: in an expression that passes,
every line leaves as many items as its LHS names, which alone makes
`NamesAreHeights` worth something: an index given to a name in the parser is the
item's place on the stack at run time. `BuiltStays` is the action property behind
sub parsing: nothing that is written moves.

`forker`: `RecordsNameForks` is the agreement of the two numberings. `RollsToOriginal`
is about the reverse look-up in the map. `ForksAreIsolated` and `CommitsAsAnswered` are
action properties over all failures. `FirstReplayOnItsState` says what a replay on a new
fork runs on. `ImplementsForkViews` is refinement: map and backend together are a
view of its own for each id, selected again as it was left.

`deployment`: `NoneNamedInVain` holds at every block because the order of deployment that
the lists of dependencies force is the order in which contracts name each other.
`EventuallyWhole` says that these lists have no circle.

`client`: `AnswersFromOneBlock` says of the five calls of an evaluation that their joint
answer is one that some block, asked for or latest meanwhile, gives. `ErrorsTellTheCause`
relates the kind of an error to deployment and text. `ClientsAgree` compares the parser client with the command. `FixtureServes` says
that the fixture's copies are where Rainlang says.

`store_interleaved`, `parser_limits`, `forker_lost`, `forker_replay` and `trace_search` are
expected to fail, see section 6.

**Bounds and why they are enough.** Three ops per source reach every pair of
effects of one op on the conditions of the next (a read that moves the
highwater, then a pop; a multi-output op, then a pop; a push to full height,
then an external call). Prefixes with up to two ops are arbitrary, so the accepted
and every kind of rejected prefix occur; with three ops prefixes are honest, and
ill-formed ops remain to be rejected by the check that runs first. Call depth 3 has a caller, a callee that is itself a
caller, and a leaf: a nested return into a suspended activation. `NibbleMax`
(15 in the code) is 2 or 3: it only bounds the number of inputs and outputs.
`MaxOutputs` is `type(uint256).max` in `Rainterpreter`; the small value in `eval`
exercises the truncation. `MaxDepth` stands for gas. `MaxEvents` bounds the
store's history. In `deployer` the limits are small, so that each is reached:
2 ops to a slot make items begin, end and lie in the middle of slots and span
three of them; `ByteMax` 7, 5 items, 2 items to a line, 2 parens, 2 sources and a
nibble of 3 are met and exceeded by texts of their own. Three lines give a
declaration, a use of it and a line after it; names and constants share bits of
their filters. `parser_limits` has the limits of the code but for `NibbleMax`,
which none of its texts comes near. What the bounds leave open for the
evaluation's memory safety is closed by the proofs.

In `forker` two chains tell forks apart, a block of two transactions has one
before another, and three records are one more than it takes for a lost record
to shift the next. `Requested` has both kinds of request, for a block and for the
latest, of the chain that grows. In `deployment` supported networks do nothing to each other, so
that one is enough; the proof has any number. In `client` a behaviour uses one of the two
networks (the state constraint `OneNetwork`), 7 blocks are the genesis, the five
contracts and a write to a store.

**Fairness.** `traces` assumes `WF` of the next step: the EVM executes a transaction's
steps until it returns or reverts; no fairness between branches. `deployment` assumes
`Repeated`: someone repeats the run of each contract, a run that is repeated is not
always stopped before a network where it could deploy (strong fairness, since others stop
it or go first), and a run that cannot go on stops. Everything else is safety.

## 4. What is proved

For every `Value`, `Apply`, `NibbleMax`, every set of typed expressions, every
request, extern answer, depth and number of outputs; for every set of callers,
namespaces, keys, programs, overlays and arrays of the store; for every set of texts, words, sub parsers
and limits of the parser; for every set of chains,
accounts, requests and bounds of the Forker; and for every set of networks and commands:

| Theorem | States |
|---|---|
| `CheckTypeCorrect`, `ChecksEveryOp` (`IntegrityCheck_proofs`) | `CheckSpec => []CheckTypeOK`, `CheckSpec => []CheckedBehindCursor` |
| `CheckValidates` (`IntegrityCheck_proofs`) | `CheckSpec => ImplementsValidation`: the walk is a validation of whole sources |
| `CheckValidatesForEval` (`Eval_proofs`) | `Spec => ImplementsValidation`: so it stays when evaluations follow |
| `EvalTypeCorrect`, `HeightsAsChecked`, `StacksInBounds`, `WordsAreComputed`, `LengthWordsStayIntact`, `RunningSourceIndex` (`Eval_proofs`) | `Spec => []P` for the property of the same name in run `eval` |
| `CallersKeepTheirStacks`, `ReadItemsStay` (`Eval_proofs`) | `Spec => CallersUntouched`, `Spec => ImmutableBelowHighwater`, the action properties |
| `RunsAsStackMachine` (`Eval_proofs`) | `Spec /\ []~Recursive => ImplementsStackMachine`: while no source runs twice at a time, memory and pointers are private stacks |
| `LayeredRunsAsStackMachine` (`Eval_proofs`) | `Spec => ImplementsStackMachine`, if the calls of every expression are layered (`CallsAreLayered`) |
| `TracesStayFaithful` (`TracedEval_proofs`) | `Spec => []TracesAreFaithful` |
| `TracesAreReadBack` (`TracedEval_proofs`) | `TracedSpec => []ReadsWhatWasTraced`: the crates read the traces that the interpreter wrote |
| `NamesFollowTheCalls` (`TracedEval_proofs`) | `TracedSpec => []NamesArePaths`: a name is the path of the call, or its end from the nearest activation without a trace |
| `NamesFindTheirColumns` (`TracedEval_proofs`) | `TracedSpec => []SearchFindsColumn` |
| `ParserStaysTyped` (`Deployer_proofs`) | `DeployerSpec => []ParserTypeOK`, which bounds every packed counter |
| `NamesStayHeights` (`Deployer_proofs`) | `DeployerSpec => []NamesAreHeights` |
| `BuiltIsKept` (`Deployer_proofs`) | `DeployerSpec => BuiltStays`, the action property |
| `StoreTypeOK`, `StoreEvents` (`Store_proofs`) | `Spec => []TypeOK`, `Spec => []EventsTellTheStore` |
| `StorePersists` (`Store_proofs`) | `Spec => PersistsAsIfDirect`, the action property, if callers do nothing between an evaluation and persisting it (`~Interleaved`); the property is about evaluations persisted in the namespace they were evaluated in, with any overlay |
| `ForkerTypeOK`, `ForkerRecords`, `ForkerRolls` (`Forker_proofs`) | `Spec => []TypeOK`, `[]RecordsNameForks`, `[]RollsToOriginal` |
| `ForkerIsolation`, `ForkerCommits` (`Forker_proofs`) | `Spec => ForksAreIsolated`, `Spec => CommitsAsAnswered`, the action properties |
| `ForkerReplays` (`Forker_proofs`) | `Spec => []FirstReplayOnItsState` |
| `ForkerKeepsViews` (`Forker_proofs`) | `Spec => ImplementsForkViews`: initial states map to initial states, and each step to a step of `ForkViews` or a stutter |
| `DeploymentTypeOK`, `DeploymentWhole` (`Client_proofs`) | `ChainSpec => []ChainTypeOK`, `ChainSpec => []NoneNamedInVain` |
| `FixtureIsWhole`, `ClientAnswers`, `ClientsOfTheParser` (`Client_proofs`) | `Spec => []FixtureServes`, `[]AnswersFromOneBlock`, `[]ClientsAgree` |
| `ClientErrors` (`Client_proofs`) | `Spec => []ErrorsTellTheCause`, if test networks are asked for their latest block (`LatestOfTests`) |

Assumptions are the named `ASSUME`s of `Bytecode`, `IntegrityCheck`, `Eval`, `TracedEval`, `Store`,
`ParseState`, `Parser`, `Forker`, `Deployment` and `Client`: `ZeroWords` are words, `Apply` returns words, expressions and requests are
typed (the structural check of the bytecode, `checkNoOOBPointers`, is what guarantees it
in the code), `Dirty` and `Missing` are not words, the depth is positive;
a word has a fixed number of bytes, a source index fits the bytes it is traced in and the outputs of a source fit
a `usize`; the limits of the parser are positive, texts are finite sequences whose literals have words as values, and a sub
parser answers with context, a constant, an extern or something malformed; there are finitely
many keys, programs are sequences of accesses, and overlays and the arrays passed to `set` have keys and
values in turn; chains are
sequences of blocks of transactions, `None` is no number and no fork id and the zero address
no account; a network is not both supported and local, and commands have the arguments that the
command line parses. TLC evaluates all of them in the runs.

Four theorems have a hypothesis besides, each because the code does not do better. A
source that calls itself writes over its own activation, so that without `~Recursive` there
are no private stacks; layered calls (each to a source of lower rank) are a condition on the bytecode
from which it follows that none recurses. With `Interleaved` the store's
promise is false, which run `store_interleaved` shows. And
an old block of a fixture's chain, from before its last step, has Rainlang without the contracts
that it names: a command that asks for it gets a revert that is not the text's fault.

*The argument, check and evaluation.* `CheckInv` (type and `CheckedBehindCursor`) is inductive for the
walk. `EvalInv` carries it along and adds what no property says alone:

- `Layout`: the regions `[length word, alloc words]` of the sources are disjoint
  and in order below the free pointer;
- `FramesFit`: each frame is at the height of `profile` at its op, less the
  inputs of its call if it waits, and waits for the frame above it (`WaitsFor`:
  the op it is at is a call of that frame's source);
- `HoldsWords`: live items are words;
- `LengthWordsAt`: the length words are in place.

None of the properties is inductive. The bounds of a stack do not follow from
the bounds before the step: the op must also be one the check has accepted at
this height, so that the height after it is again the one in `profile`, and
that one is within `alloc` because the walk compared the peak. A write through
one frame leaves the others' words alone only if regions are disjoint. And a
return lands at the right height only if the caller waits at a call of just
this source, whose declared outputs are at least the outputs of the call.
Each action has a lemma (`RunStackKeepsInv`-like names) that shows `EvalInv'`;
`WritesStack` names the common shape of what ops do to memory. Recursive
activations share a region; the invariant never claims that their items stay
as they were, only that they stay words.

*The argument, validation.* `Validation` judges a source by its heights, a recursive function,
and by what is protected at each op, said without a highwater; the walk has two numbers.
`WalkedTo` relates them: what is marked before each op is its height and the number of
protected items. Both directions are needed, since the walk may neither accept an ill-formed source nor
reject a well-formed one, unless an extern says so. `PeaksReached` adds to `CheckInv` that the
peak is a height the walk has been at, without which an allocation that
is too large could pass for the peak.

*The argument, stack machine.* `Shown` is the private stack of a frame in a memory. That
ops, calls and returns are steps of the machine is address arithmetic (`StackSteps`,
`ConstantSteps` and so on, one lemma for each op). What makes them steps of the machine and no more is that the stacks of waiting frames do not
change: they lie in other regions, by `~Recursive` and `Layout`. `MachineInv` says how the
overlay reaches the machine's cache: a key holds what the last of the pairs so far gives it, if any
does. In `LayeredRunsAsStackMachine` ranks fall along `frames`, by induction
on the distance of two frames, so none has the source of another.

*The argument, store.* `Stored`, `Evaluated` and `RunDirectly` are recursions over arrays and
programs. Each has a lemma with its equations (`StoredSteps`), the rest is
induction. For each key `LastPairStays` says what `Stored` leaves (`AsPairsSay`), on the store and on the empty
cache alike, so that the overlay in the cache, laid over a store, is the store with the overlay set
in it (`OverlaidIsStored`). `StoreEvents` compares the last event about a key, by cases of whether the array
has it, with the last pair for it. `StorePersists` rests on two facts: a program leaves behind
in the cache, laid over the store that it read, what it leaves when it writes to the store
directly, once the overlay is set there (`CacheIsOverlay`), and a cache not yet persisted, of an
evaluation in a namespace of its caller's, is the one that an evaluation now would
leave (`PendingIsFresh`): the invariant, which holds since the namespaces of other callers are
different ones.

*Induction.* The theorems of the library about induction take operators, which the provers
cannot instantiate. `Induction` states what is needed with sets and functions: a set
that has 0 and is closed under successor is all of `Nat`, proved from the well-foundedness of
strict inclusion on finite sets; and a function with the equations of a recursion over
`0 .. n` exists.

*The argument, scopes and the list of traces.* `StaysInScope` is what all ops, calls and returns have in
common: they write to the region of the source that runs after the step, and above the
highwater if its activation was there before, since the walk has found the inputs of the op
above it (`OpLeavesHighwater`). Without recursion another activation has another region, and
both action properties follow. Recursion is excluded by their statements, not by the
assumptions: the integrity check accepts it. `TraceInv` says that each trace so far fits and that the first
activation is of the source asked for; that the running one was called by the one
below it, at a call of its source, is `WaitsFor` in `EvalInv`.

*The argument, reading traces.* `ArenaInv` says that of the recorded calls those to the tracer are the traces, in
their order and each written as `stackTrace` writes it. That they are read back is then that bytes are cut at the
places where words were joined. For names the crates have a flat list and look for a parent among what they have
named already, from the last trace to the first. `PathInv` says why the search finds the right one: traces come as activations end, so
that between the trace of a call and the trace of its caller are only traces from below the caller; and a source
of which an activation has ended is not waiting for itself, so the nearest trace of the parent's index is that of the
parent. Where the parent has no trace, as after a revert, a name is the end of the path. `IsTree` is what
`SearchFindsColumn` needs of an evaluation that returned: every path but the first goes on from another one. A search walks down this
tree; it may go astray only where two traces have the same last two sources, which is the condition that the
property has.

*The argument, parser.* `ParserTypeOK` says that counters fit their bytes, and is far from inductive: a counter is
checked against its byte and never against another counter, and whether `endLine` may pop what it pops depends on what the line read long
ago. `ParserInv` says that the counters agree. `Shape` is the types, that all slots but the newest are full, and that every remembered place
lies in what was written. `Ledger` keeps the books with three running counts: `H`, the ops before each item of the line;
`F`, the inputs of the ops up to each position; `G`, the inputs counted for the groups that are open.
`Balance` adds them up: every op that is written is the last of an item or an input of another op, of one that has
its inputs or of one whose group is open. So when a line ends with all groups closed, what its ops push and pop is one item for
each item of the line, never less than nothing in between, and `HeightLedger` follows: the tracker is at the number of LHS items of the
lines so far. At the documented number of items the counters run into one another (run `parser_limits`); the books are kept there
too, with the ops that the LHS count has swallowed, and no such line ends: the parser reverts, or stops with `WildAccess`.
`Builds` is the step relation for `BuiltStays`. Each handler has a lemma about the
state it returns (`EndLineFacts`, `EndLineIsSound`) and one that it keeps `ParserInv` and builds.

The proof has changed the model in one place. A line remembers the head of each item and of one more; an item too many is noticed only after its head has been
kept, and TLC would have failed with a read outside the function `heads`. It has one more place now, and a text
of run `deployer` goes there. `SumSeq`, `EndOps`, the tables of `Traces` and a few more are written as
recursive functions, since about an operator that takes an operator, as the folds of the library do, nothing can be proved.

*The argument, Forker.* `Inv` adds to the types and `RecordsNameForks` what a method
under way knows (`CallIsTyped`: at its creation step the id has no record yet, in a replay
there is an active fork) and `NothingPersists`: no account is persistent between two steps.
From the last follow isolation, since carried accounts are none, and that a rolled fork is a new one. `RecordsNameForks` is what
a new record preserves only because its id is the number of records, and this the number of
forks. `RollsToOriginal` is about the last answer; `AnswerInv` holds for all answers, also
where several records would carry one local id. Replays rest on `ReplaysFresh`: a replay
under way whose id is new to the map is on a fork that nothing ran on yet, at the block
before its transaction.

*The argument, views.* `ViewInv` adds three facts to `Inv`: the record of an id that asks
for a block has that block (`BlocksAsAsked`); the creation step of `add_or_select` has
fetched a block of the chain (`FetchedMined`); and while nothing is lost each fork of the
backend has a record (`Covered`), without which the active fork would be no view. Steps
that select, write or roll each have a lemma that names the step of `ForkViews`
they are. In the end the proof needs `RecordsNameForks` everywhere: two records with
one local id would be one view under two names.

*The argument, deployment.* `NoneNamedInVain` is not inductive: the script looks only
whether there is code at an address. `Placed` says that the factory's address for a
contract never holds another, `HasSuite` that the script has a contract to deploy while
networks are left.

*The argument, fixture and client.* `World` adds to the deployment's invariant that this holds at
every address and on test networks (`AllPlaced`), that no address with code loses it
(`Lasting`), and what each step of a fixture has left behind, in what it remembers or on the chain (`LeftBy`).
Each of the 17 steps needs what an earlier one left; that none undoes another's is
because it only puts a contract at the address that is for it. `Underway` says what the process of a command knows of the
block that it forked: where Rainlang is, which addresses it was told, whether the text has
parsed, and at its end how the status relates to what the text gives there (`Answered`).
The block is fixed with the fork, and `BlocksStay` says that nobody changes a block of a network which a command may
use: `setCode` of a fixture amends blocks, but only before the fixture is ready. `AnswersFromOneBlock` follows with
the forked block as the witness, `ErrorsTellTheCause` with `NoneNamedInVain` or the fixture's
`FixtureServes` at that block, `ClientsAgree` with `Lasting`.

## 5. What is only model-checked, and what is not modelled

Only model-checked: of the parser and the deployer, `EmitsMeaning` and `TakesTheWellFormed`, which compare the parser
with a meaning read off positions of tokens (the proof would be an induction over texts, with a relation between every
intermediate state and a part of the meaning), and `CountsAgree` and `LHSIsTheStack`, which need besides that `endSource` copies each op
once and that the heights of the tracker are those of the walk; of the traces `NamesAreStatic`, which unfolds a recursion
over the call tree of the bytecode beside the one over the evaluation;
and the liveness properties `RecursionReverts`, `EvalEnds` and
`EventuallyWhole`, which are out of the prover's reach.

Abstracted in what is modelled:

- `checkNoOOBPointers` is a library's; that it has run is the typing of
  `Expressions`. The array `io` that `integrityCheck2` returns is the prefixes
  over again and its only caller drops it.
- `evalLoop` dispatches eight ops per word of bytecode and takes the op byte
  modulo the size of the table; after the check the modulus is the identity.
- What is allocated above the stacks (constants, the cache, return data) has
  variables of its own, and the serialized form, which deserialization
  references in place, is `expression`.
- The low level of `MemoryKV` is a map: later values win, keys are unique.
- Gas is a depth; the decimal float library may revert or return any word. Which words are
  false (`Float.isZero`, every word with coefficient 0) is the constant `ZeroWords`, of
  more than one word in the runs.
- A call to the store or an extern returns or reverts (`RevertStore`, `RevertExternCall`);
  what a reverted call says is left out. The store does not change during an evaluation, a
  view call.
- In the store, one store: a caller that evaluates on one contract and persists to another
  has nothing to expect. The keys and values that an expression computes are those of its accesses.
- Words that compute are represented by four kinds, as said above.
- In the parser, memory: pointers are places, so the 16-bit truncation, with
  `checkParseMemoryOverflow` at the end of a parse, is not there, nor are the
  bytes of the bytecode and of the sub parser's header, nor the overflow of a
  16-bit height of constants. Characters are tokens; operands are part of their
  word. A sub parser answers as the functions of `LibSubParse` that build
  answers do; the code allows any op, and leaves it to the integrity check.
- A source may exceed its counters by LHS items alone (its lines of inputs are
  counted as items without a check); the model stops there with `WildAccess`.

- In the Forker, the caller's nonce and balance, the fields of the block environment
  but its number, the override of the environment that a caller may pass (no caller
  does), and what is written while no fork is active. foundry's backend is
  external and modelled from how the code uses it: it numbers forks in order, selects,
  rolls and carries persistent accounts.
- In the traces, values of more than one evaluation in a table, and the overflow panic of a
  debug build where a release build wraps.
- In the deployment, the code hashes that `LibRainDeploy` compares, and the contracts of other
  repositories among the dependencies (log tables, token decimals), which are taken to be there.
- In the client, inputs, state overlay and source index, which pass through, and what a
  namespace converts to (that it may not convert is modelled); empty pieces of a context argument;
  output to stdout. The error `MissingTraces` (`trace.rs:77-80`) is left out: the Forker
  sets the trace mode of every executor it builds (`fork.rs:70`, `fork.rs:143`), so that no
  answer lacks traces. What a sub parser or an extern answers does not depend on the block,
  so that its revert counts as the text's fault.

Not modelled: operand parsing and handlers, the table of all words, the extern's own
dispatch; in the fixture the helpers that send, call and deploy for tests of other
crates, and its tokens. Not to be modelled: literals character by character, generated
pointer tables and ABI bindings, which have no state or only move data.

## 6. Findings

`store_interleaved`: `LibOpGet.run` caches what it reads so that a second read is
free, and `eval4` returns the cache as the writes of the evaluation. A comment
there (`src/src/lib/op/store/LibOpGet.sol:43-47`) and
`src/audit/known-false-positives.md` describe the cost as an unnecessary
`SSTORE`. If a caller sets a key, or persists another evaluation, between an
evaluation that only *read* that key and its persisting, the old value returns.
The behaviour shown by the run: evaluate a program that reads `k`, set `k`
directly, persist the evaluation. In run `store`, where callers persist at once,
no such thing happens. Keys of the state overlay are not counted as read only: they are written,
whether read or not.

`parser_limits`: `ParseState`'s documentation (`LibParseState.sol:110-113`) allows 62
top level items to a source and keeps the last of 64 bytes for the LHS count;
`highwater` enforces 62. At 62 items the offset points at that last byte.
`snapshotSourceHeadToLineTracker` takes its value for a counter in use and does
not remember the end of the item, `endLine` then follows a null pointer, and
`endSource` reads the LHS count as the number of ops of a 63rd item. The largest
source that is read as documented has 61 items (or 62, when no line has an LHS).
The tests stop at the function `highwater` itself, or at more than 62 items.

`forker_lost`: `add_or_select` inserts the record of a fork under the next local id
(`src/crates/eval/src/fork.rs:211`) before the backend creates the fork, and leaves it when that
fails. The next creation gets the id that the record already names. A request for the first
then answers `Ok` with the other fork active, of another chain, though the method "selects it
as active".

`forker_replay`: `replay_transaction` commits what precedes the transaction to a fork that stays
in the map under its block. The next replay from this block selects it again, and commits the
same transactions a second time; a fork asked for at this block by a caller is used, and
changed, just so. The first replay is right (`FirstReplayOnItsState`).

`trace_search`: `search_trace_by_path` checks each step of a path, and then takes the first trace
between its last two sources. With one source reached along two paths that end in the same call,
the name that `flattened_trace_path_names` gives to one finds the value of the other.

Behaviour of the Rust crates met on the way, which no run is about. The environment that
`select_fork` updates is made for the call and dropped (`fork.rs:180`): after a second fork is
selected, evaluations see the block number of the first, while the test at `fork.rs:776` looks at the
first fork only. `roll_fork` sets the executor's block number also when the backend cannot roll. The replay
of a deployment is a plain call to the zero address (`fork.rs:514`). `Parse` is said to write
bytecode (`crates/cli/src/lib.rs:17`) and writes the ABI encoding of it (`commands/parse.rs:61`). The help of
`--context` (`commands/eval.rs:33`) asks for a key, which the code refuses as no number.

A choice of the language that surprises, and which no document contradicts: a
name on an LHS is known on the RHS of its own line, where it denotes an item
that is not there yet; the integrity check finds most such uses, but not one
whose index lies below an intermediate result (`a: add(a 1)`).

Two documentation slips met on the way, which no run is about:
`LibInterpreterState.sol:28-33` says that `stateKV` is flushed to the store
after the evaluation, whereas `eval4` is a view and the caller persists; and the
integrity comment of `LibOpConditions.sol:34` asks for an even number of inputs
where the code also accepts an odd number (a reason follows the pairs).

## 7. Plan

Modelled and checked so far: everything above. What is left, in this order:

1. `CountsAgree`: from `Ledger`, that `endSource` copies each op once, and that the tracker's height at each op is
   `Height` of `Validation`; then `LHSIsTheStack`.
2. `NamesAreStatic`, by induction on the depth of calls, from `NamesArePaths`.
3. Every word with its operand handler and IO; the extern's dispatch and the packing of
   a dispatch into a constant; sub parsers that answer any op.
4. A text, its meaning and its evaluation, composed from `Deployer` and `Eval`.
