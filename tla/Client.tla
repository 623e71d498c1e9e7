------------------------------- MODULE Client -------------------------------
(***************************************************************************)
(* The command line, and the Rust clients of the contracts.  A command     *)
(* forks a network, asks Rainlang at the address it was given for the      *)
(* addresses of the other contracts, has the text parsed and, for Eval,    *)
(* evaluated, each by a call of its own, and writes one output.  The       *)
(* network goes on meanwhile: contracts are deployed, stores are written.  *)
(*                                                                         *)
(* A fork reads from one block; how the Forker gets it is module Forker's  *)
(* matter, and how traces are read that of Traces.  Left out: the inputs,  *)
(* state overlay and source index, which go to eval4 as given, what the    *)
(* namespace converts to, empty pieces of a context argument, and output   *)
(* to stdout, which differs from a file in that it is appended to.         *)
(***************************************************************************)
EXTENDS LocalEvm, AlloyCalls, SequencesExt

CONSTANTS
  None,         (* The Option without a value.                             *)
  Older,        (* What is at the output path before the command runs.     *)
  Torn,         (* What is there when a write has failed.                  *)
  Invocations   (* The commands given: [cmd, network, block, text, decode, *)
                (* namespace, context, encoding], namespace and context    *)
                (* arguments as their characters, a number being one.      *)

(* What of a text matters here, as in Contracts, and what a user may ask. *)
Text ==
  {t \in [pragma : BOOLEAN, parses : BOOLEAN, reads : BOOLEAN, exit : Exits] : t.parses => t.pragma}

Invocation ==
  [cmd : {"parse", "eval"}, network : Supported \cup Local, block : Nat \cup {None}, text : Text,
   decode : BOOLEAN, namespace : Seq(STRING), context : Seq(Seq(STRING)),
   encoding : {"Hex", "Binary"}]

ASSUME InvocationsAssumption == Invocations \subseteq Invocation

VARIABLES
  proc,   (* The command's process.                                        *)
  file    (* The contents at its output path.                              *)

vars == <<chain, script, fixture, proc, file>>

(* Where the user says that Rainlang is. *)
RainlangAt(network) == IF network \in Local THEN Own("rainlang") ELSE Zoltu("rainlang")

Init ==
  /\ ChainInit
  /\ FixtureInit
  /\ proc = [at |-> "idle"]
  /\ file = Older

-----------------------------------------------------------------------------
(* The arguments. *)

Numerals == {"1", "2"}

(* A context argument is split at its commas. *)
Pieces(argument) ==
  FoldLeft(LAMBDA pieces, c : IF c = "," THEN Append(pieces, << >>)
                              ELSE [pieces EXCEPT ![Len(pieces)] = Append(@, c)],
           << << >> >>, argument)

ParseIntOrHex(piece) == IF piece \in {<<n>> : n \in Numerals} THEN piece[1] ELSE None

Column(argument) == [i \in DOMAIN Pieces(argument) |-> ParseIntOrHex(Pieces(argument)[i])]

Converts(run) ==
  /\ ParseIntOrHex(run.namespace) # None
  /\ \A i \in DOMAIN run.context :
       \A j \in DOMAIN Column(run.context[i]) : Column(run.context[i])[j] # None

Matrix(arguments) == [i \in DOMAIN arguments |-> Column(arguments[i])]

-----------------------------------------------------------------------------
(* The process. *)

Network == proc.run.network

(* Mutant of Forked: every call reads from the latest block. *)
ForkedLatest == Latest(Network)

(* The state that the calls of the process see. *)
Forked == chain[Network][proc.fork]

Invoke(run) ==
  /\ proc.at = "idle"
  /\ Ready(run.network)
  /\ proc' = [at |-> "fork", run |-> run, began |-> Len(chain[run.network]), fork |-> 0,
              found |-> << >>, result |-> None, status |-> "running"]
  /\ UNCHANGED <<chain, script, fixture, file>>

Running(at) ==
  /\ proc.at = at
  /\ UNCHANGED <<chain, script, fixture>>

Ends(status) == proc' = [proc EXCEPT !.at = "exit", !.status = status]

(* new_with_fork. *)
Forks ==
  /\ Running("fork")
  /\ \E i \in DOMAIN chain[Network] :
       /\ i = IF proc.run.block = None THEN Len(chain[Network]) ELSE proc.run.block + 1
       /\ proc' = [proc EXCEPT !.at = "convert", !.fork = i]
  /\ UNCHANGED file

(* Only then are the arguments looked at. *)
ConvertArguments ==
  /\ Running("convert")
  /\ IF proc.run.cmd = "eval" => Converts(proc.run) THEN proc' = [proc EXCEPT !.at = "deployer"]
     ELSE Ends("arguments")
  /\ UNCHANGED file

ReplyOf(to, message) == CallAt(Forked, to, message)

(* One alloy_call: type is what its return type decodes, and after the *)
(* process with the answer.                                            *)
Calls(to, message, type, after) ==
  LET reply == ReplyOf(to, message) IN
  \E registry \in BOOLEAN :
    LET outcome == Outcome(reply.exit, proc.run.decode, registry, type \in DOMAIN reply.data) IN
      /\ IF outcome = "ok" THEN proc' = after ELSE Ends(outcome)
      /\ UNCHANGED file

Finds(part, after) ==
  LET to == RainlangAt(Network) IN
    /\ Running(part)
    /\ Calls(to, AddressOf(part), "address",
             [proc EXCEPT !.at = after,
                          !.found = With(@, part, ReplyOf(to, AddressOf(part)).data.address)])

FindDeployer == Finds("deployer", IF proc.run.cmd = "parse" THEN "parse" ELSE "interpreter")
FindInterpreter == Finds("interpreter", "store")
FindStore == Finds("store", "parse")

ParseText ==
  LET to == proc.found["deployer"]
      message == Parse2(proc.run.text) IN
    /\ Running("parse")
    /\ Calls(to, message, "bytecode",
             [proc EXCEPT !.at = IF proc.run.cmd = "parse" THEN "output" ELSE "eval",
                          !.result = ReplyOf(to, message).data])

Evaluate ==
  LET to == proc.found["interpreter"]
      message == Eval4(proc.result.bytecode, proc.found["store"], Matrix(proc.run.context)) IN
    /\ Running("eval")
    /\ Calls(to, message, "read",
             [proc EXCEPT !.at = "output", !.result = ReplyOf(to, message).data])

(* The network does not answer, at any of these. *)
Unanswered ==
  /\ proc.at \in {"fork", "deployer", "interpreter", "store", "parse", "eval"}
  /\ Ends("ExecutorError")
  /\ UNCHANGED <<chain, script, fixture, file>>

(* What Parse writes is the return of parse2 as it came, ABI encoded; Eval *)
(* writes its result for a reader.                                         *)
AbiEncoded(data) == [abi |-> data]
Debug(data) == [debug |-> data]
Encoded(encoding, payload) == [encoding |-> encoding, payload |-> payload]

Output ==
  Encoded(proc.run.encoding,
          IF proc.run.cmd = "parse" THEN AbiEncoded(proc.result) ELSE Debug(proc.result))

Write ==
  /\ Running("output")
  /\ file' = Output
  /\ Ends("ok")

WriteFails ==
  /\ Running("output")
  /\ file' \in {Older, Torn}
  /\ Ends("output")

Process ==
  \/ \E run \in Invocations : Invoke(run)
  \/ Forks \/ ConvertArguments
  \/ FindDeployer \/ FindInterpreter \/ FindStore
  \/ ParseText \/ Evaluate
  \/ Unanswered
  \/ Write \/ WriteFails

(* The rest of the world. *)
Others ==
  /\ \/ ScriptStep /\ UNCHANGED fixture
     \/ \E network \in Supported \cup Local, address \in Address :
          Ready(network) /\ Persist(network, address) /\ UNCHANGED fixture
     \/ \E network \in Local : FixtureStep(network)
  /\ UNCHANGED <<proc, file>>

Next == Process \/ Others

Spec == Init /\ [][Next]_vars

-----------------------------------------------------------------------------
(* The client of the parser, which reads the network as it is. *)

DISPaiR(block, rainlang) ==
  [part \in {"deployer", "interpreter", "store", "parser"} |->
     CallAt(block, rainlang, AddressOf(part)).data.address]

(* Mutant of ParserV2: the parser in the place of the deployer. *)
ParserV2AtParser(dispair) == dispair["parser"]

ParserV2(dispair) == dispair["deployer"]

Parse(block, deployer_address, text) == CallAt(block, deployer_address, Parse2(text))
ParsePragma(block, deployer_address, text) == CallAt(block, deployer_address, ParsePragma1(text))

-----------------------------------------------------------------------------
(* Properties. *)

(* What a text gives at a block, as its users understand it: all contracts *)
(* that it needs are in place, it parses, and its evaluation succeeds.     *)
Needed(run) ==
  {"deployer", "parser"} \cup
  (IF run.cmd = "parse" THEN {} ELSE {"interpreter"} \cup (IF run.text.reads THEN {"store"} ELSE {}))

Serves(block, run) ==
  /\ block.code[RainlangAt(run.network)] = "rainlang"
  /\ \A part \in Needed(run) : block.code[Zoltu(part)] = part
  /\ run.text.parses
  /\ run.cmd = "parse" \/ run.text.exit = "ok"

Promised(block, run) ==
  IF run.cmd = "parse" THEN AbiEncoded([bytecode |-> run.text])
  ELSE Debug([read    |-> IF run.text.reads THEN block.held[Zoltu("store")] ELSE 0,
              context |-> Matrix(run.context)])

Reverted == {"Failed", "AbiDecodedError", "AbiDecodeFailed"}

(* A command makes up to five calls while the network goes on.  What it     *)
(* answers is nevertheless what its text gives at a single block, the one   *)
(* asked for or one that was the latest while it ran: status 0 says that    *)
(* the output is there, whole.  It fails only if the text gives nothing at  *)
(* such a block, the connection or the arguments being no matter here.      *)
AnswersFromOneBlock ==
  proc.at = "exit" /\ proc.status \in {"ok", "TypedError"} \cup Reverted =>
    \E i \in IF proc.run.block = None THEN proc.began .. Len(chain[Network])
             ELSE {proc.run.block + 1} :
      LET block == chain[Network][i] IN
        IF proc.status = "ok"
        THEN Serves(block, proc.run) /\ file = Encoded(proc.run.encoding, Promised(block, proc.run))
        ELSE ~Serves(block, proc.run)

(* The kind of the error tells whose fault it is: a typed error that Rainlang *)
(* is not there, because where it is the other contracts are too, and a       *)
(* reverted call that the text is wrong; the reason is decoded only if asked  *)
(* for, and only of a revert.                                                 *)
ErrorsTellTheCause ==
  proc.at = "exit" =>
    /\ proc.status = "TypedError" => Forked.code[RainlangAt(Network)] = Nothing
    /\ proc.status \in Reverted =>
         ~proc.run.text.parses \/ (proc.run.cmd = "eval" /\ proc.run.text.exit # "ok")
    /\ proc.status \in {"AbiDecodedError", "AbiDecodeFailed"} =>
         proc.run.decode /\ (proc.run.text.parses => proc.run.text.exit = "Revert")

(* The parser's client, built once from what Rainlang said, goes on to give  *)
(* for a text that a command can parse at a later block what the command     *)
(* does, and its pragma what the parser gives.                               *)
ClientsAgree ==
  \A network \in {n \in Supported \cup Local : Ready(n)} :
    \A i \in DOMAIN chain[network] :
      chain[network][i].code[RainlangAt(network)] = "rainlang" =>
        LET client == ParserV2(DISPaiR(chain[network][i], RainlangAt(network)))
            block == Latest(network)
        IN \A run \in {r \in Invocations : r.cmd = "parse"} :
             /\ Serves(block, [run EXCEPT !.network = network]) =>
                  Parse(block, client, run.text).data = [bytecode |-> run.text]
             /\ ParsePragma(block, client, run.text) =
                  CallAt(block, Zoltu("parser"), ParsePragma1(run.text))
=============================================================================
