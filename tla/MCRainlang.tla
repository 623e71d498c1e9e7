----------------------------- MODULE MCRainlang -----------------------------
(***************************************************************************)
(* The words, addresses and sub parsers of the model-checked instances of  *)
(* the parser, and how their texts are put together from tokens.           *)
(***************************************************************************)
EXTENDS Deployer, MCWords

Parser1 == <<"parser", 1>>
Parser2 == <<"parser", 2>>
MCAddress == {Parser1, Parser2}
MCParserValue == MCValue \cup MCAddress

Known(code, arg) == [code |-> code, arg |-> arg]
MCWordTable ==
  [add |-> Known("add", 0), hash |-> Known("hash", 0), ensure |-> Known("ensure", 0),
   callB |-> Known("call", 2)]

Sub(code, of) == [code |-> code, of |-> of]
MCSubWords ==
  Parser1 :> [ext |-> Sub("extern", V(2)), con |-> Sub("constant", V(2)),
              mal |-> Sub("malformed", 0)] @@
  Parser2 :> [con |-> Sub("constant", V(1)), ctx |-> Sub("context", 256)]
MCSubLiterals == Parser1 :> [one |-> V(1)] @@ Parser2 :> [two |-> V(2)]

(* Names and words of equal bits meet in the filters. *)
MCNameBloom(name) == name \in {"a", "b", "ext"}
MCValueBloom(value) == value \in {V(0), V(1)}

-----------------------------------------------------------------------------
T(kind) == <<Token(kind)>>
W(name) == <<Name(name)>>
N(n) == <<Literal(V(n))>>
A(address) == <<Literal(address)>>
S(name) == <<SubLiteral(name)>>
Space == T("ws")
Paren(tokens) == T("lparen") \o tokens \o T("rparen")
Spaced(items) ==
  FlattenSeq([i \in DOMAIN items |-> IF i = 1 THEN items[i] ELSE Space \o items[i]])
Call(name, args) == W(name) \o Paren(Spaced(args))
Line(lhs, rhs) == Spaced(lhs) \o T("colon") \o Spaced(rhs)
Source1(lines) ==
  FlattenSeq([i \in DOMAIN lines |->
    (IF i = 1 THEN << >> ELSE T("comma") \o Space) \o lines[i]]) \o T("semi")

Anon == T("anon")

Zeros(n) == [i \in 1 .. n |-> N(0)]
Anons(n) == [i \in 1 .. n |-> Anon]
=============================================================================
