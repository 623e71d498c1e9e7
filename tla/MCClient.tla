------------------------------ MODULE MCClient ------------------------------
(***************************************************************************)
(* A supported network and a local one.  The texts: one that works, one    *)
(* that reads the store, two that do not parse, one of them because of its *)
(* pragma, and two whose evaluation fails.                                 *)
(***************************************************************************)
EXTENDS Client

CONSTANTS mainnet, anvil

TextOf(parses, reads, exit) ==
  [pragma |-> TRUE, parses |-> parses, reads |-> reads, exit |-> exit]

MCPlain == TextOf(TRUE, FALSE, "ok")
MCReader == TextOf(TRUE, TRUE, "ok")
MCBad == TextOf(FALSE, FALSE, "ok")
MCBadPragma == [MCBad EXCEPT !.pragma = FALSE]
MCReverting == TextOf(TRUE, FALSE, "Revert")
MCHalting == TextOf(TRUE, FALSE, "Halt")

ParseOf(network, text, block, decode, encoding) ==
  [cmd |-> "parse", network |-> network, block |-> block, text |-> text, decode |-> decode,
   namespace |-> << >>, context |-> << >>, encoding |-> encoding]

EvalOf(network, text, block, decode, context) ==
  [cmd |-> "eval", network |-> network, block |-> block, text |-> text, decode |-> decode,
   namespace |-> <<"1">>, context |-> context, encoding |-> "Binary"]

MCRows == <<<<"1", ",", "2">>, <<"2">>>>
MCWord == <<<<"1", ",", "k">>>>

AtLatest(network) ==
  {ParseOf(network, MCPlain, None, FALSE, "Hex"), ParseOf(network, MCBad, None, FALSE, "Binary"),
   EvalOf(network, MCReader, None, FALSE, MCRows), EvalOf(network, MCReverting, None, TRUE, << >>),
   EvalOf(network, MCPlain, None, FALSE, MCWord), EvalOf(network, MCHalting, None, TRUE, << >>)}

MCInvocations ==
  AtLatest(mainnet) \cup AtLatest(anvil) \cup
  {ParseOf(mainnet, MCPlain, 5, TRUE, "Binary"), ParseOf(mainnet, MCBadPragma, 4, FALSE, "Hex"),
   EvalOf(mainnet, MCReader, 6, TRUE, << >>),
   [EvalOf(mainnet, MCPlain, None, FALSE, << >>) EXCEPT !.namespace = <<"1", "k">>]}

-----------------------------------------------------------------------------
(* The networks have nothing to do with each other: in a behaviour at most *)
(* one of them is used.                                                    *)
OneNetwork ==
  \/ script = NoScript /\ chain[mainnet] = <<Genesis>>
  \/ fixture[anvil].done = 0
=============================================================================
