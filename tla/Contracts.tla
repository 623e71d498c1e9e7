----------------------------- MODULE Contracts -----------------------------
(***************************************************************************)
(* What a call to an address returns at a block, as far as clients of the  *)
(* five contracts can tell.  Of a text only this matters: does its pragma  *)
(* parse, does it parse as a whole, does its evaluation read the store,    *)
(* and how does the evaluation exit.                                       *)
(* The bytecode of a text is the text.                                     *)
(*                                                                         *)
(* A call to an address without code succeeds and returns no bytes; a call *)
(* of a function that a contract does not have reverts, and so does a call *)
(* from Solidity to an address without code.                               *)
(***************************************************************************)
EXTENDS Deployment

(* The messages. *)
AddressOf(part) == [call |-> "addressOf", part |-> part]
Parse2(text) == [call |-> "parse2", text |-> text]
ParsePragma1(text) == [call |-> "parsePragma1", text |-> text]
Eval4(text, store, context) ==
  [call |-> "eval4", text |-> text, store |-> store, context |-> context]

NoBytes == [bytes |-> 0]
Reply(exit, data) == [exit |-> exit, data |-> data]
Reverts == Reply("Revert", NoBytes)

(* Rainlang returns constants. *)
OnRainlang(message) ==
  IF message.call = "addressOf" THEN Reply("ok", [address |-> Zoltu(message.part)]) ELSE Reverts

OnParser(message) ==
  IF message.call = "parsePragma1" /\ message.text.pragma
  THEN Reply("ok", [pragma |-> message.text])
  ELSE Reverts

(* The deployer asks the parser that it knows by its address. *)
OnDeployer(block, message) ==
  IF block.code[Zoltu("parser")] # "parser" THEN Reverts
  ELSE IF message.call = "parsePragma1" THEN OnParser(message)
  ELSE IF message.call = "parse2" /\ message.text.parses
       THEN Reply("ok", [bytecode |-> message.text])
  ELSE Reverts

(* The stack has what the text read from the store, and the context. *)
OnInterpreter(block, message) ==
  IF message.call # "eval4" THEN Reverts
  ELSE IF message.text.reads /\ block.code[message.store] # "store" THEN Reverts
  ELSE IF message.text.exit # "ok" THEN Reply(message.text.exit, NoBytes)
  ELSE Reply("ok", [read    |-> IF message.text.reads THEN block.held[message.store] ELSE 0,
                    context |-> message.context])

CallAt(block, to, message) ==
  LET contract == block.code[to] IN
  CASE contract = Nothing       -> Reply("ok", NoBytes)
    [] contract = "rainlang"    -> OnRainlang(message)
    [] contract = "parser"      -> OnParser(message)
    [] contract = "deployer"    -> OnDeployer(block, message)
    [] contract = "interpreter" -> OnInterpreter(block, message)
    [] contract = "store"       -> Reverts
=============================================================================
