------------------------------ MODULE Deployer ------------------------------
(***************************************************************************)
(* RainterpreterExpressionDeployer.parse2: the parser reads a text, the    *)
(* integrity check walks what it wrote, and only what passes both leaves.  *)
(***************************************************************************)
EXTENDS Parser

VARIABLES expression, verdict, source, opIndex, stackIndex, stackMaxIndex, readHighwater,
  profile

Check == INSTANCE IntegrityCheck WITH Expressions <- {}

checkVars ==
  <<expression, verdict, source, opIndex, stackIndex, stackMaxIndex, readHighwater, profile>>
deployerVars == <<parserVars, checkVars>>

DeployerInit ==
  /\ ParserInit
  /\ expression = [constants |-> << >>, sources |-> << >>]
  /\ verdict = "unparsed"
  /\ source = 1
  /\ opIndex = 0
  /\ stackIndex = 0
  /\ stackMaxIndex = 0
  /\ readHighwater = 0
  /\ profile = << >>

Parse2Parse ==
  /\ verdict = "unparsed"
  /\ ParserNext
  /\ UNCHANGED checkVars

Parse2BeginCheck ==
  /\ verdict = "unparsed"
  /\ phase = "parsed"
  /\ expression' = [constants |-> state.constants, sources |-> state.sources]
  /\ verdict' = "source"
  /\ UNCHANGED <<parserVars, source, opIndex, stackIndex, stackMaxIndex, readHighwater, profile>>

Parse2Check ==
  /\ Check!CheckNext
  /\ UNCHANGED parserVars

DeployerNext == Parse2Parse \/ Parse2BeginCheck \/ Parse2Check

DeployerDone ==
  /\ phase = "reverted" \/ verdict \in {"ok"} \cup Check!Reverts
  /\ UNCHANGED deployerVars

DeployerSpec == DeployerInit /\ [][DeployerNext \/ DeployerDone]_deployerVars

-----------------------------------------------------------------------------
(* Properties. *)

ReadOp == [code : Codes \cup {"unknown"}, arg : Nat, ins : 0 .. ByteMax, outs : Nibble]

(* The parser's fields have their types. *)
ParserTypeOK ==
  /\ cursor \in 1 .. (Len(text) + 1)
  /\ phase \in Phases
  /\ Failed(state) <=> phase = "reverted"
  /\ \A k \in DOMAIN state.slots : \A j \in DOMAIN state.slots[k] : state.slots[k][j] \in ReadOp
  /\ \A k \in DOMAIN state.sources : \A j \in DOMAIN state.sources[k].ops :
       state.sources[k].ops[j] \in ReadOp
  /\ state.constants \in Seq(Value)
  /\ \A n \in {state.topLevel.lhs, state.line.lhs, state.stackTracker.current,
               state.stackTracker.inputs, state.stackTracker.max} : n \in 0 .. ByteMax
  /\ state.parens.depth \in 0 .. ParensMax

(* What the slots, the counters, the parens and the list of constants end up *)
(* as is the text's meaning: every op in its place with its own inputs and   *)
(* outputs, every stack operand the named item, every constant the literal's *)
(* value, and the prefix the inputs, final height and peak (endLine,         *)
(* endSource, pushLiteral, subParseWordSlice).                               *)
EmitsMeaning ==
  phase = "parsed" /\ verdict = "unparsed" =>
    Means(text, state.sources, state.constants)

(* Between two lines the parser's count of the stack is the number of LHS    *)
(* items, which is the index the next name gets (endLine, pushStackName).    *)
NamesAreHeights ==
  phase = "interstitial" => state.stackTracker.current = state.topLevel.lhs

(* Once a source is built its ops stay, but for the unknown ones, and a      *)
(* constant never moves: operands written earlier stay right.                *)
BuiltStays ==
  [][/\ IsPrefix(state.constants, state'.constants)
     /\ \A s \in DOMAIN state.sources : \A k \in DOMAIN state.sources[s].ops :
          state.sources[s].ops[k].code # "unknown" =>
            state'.sources[s].ops[k] = state.sources[s].ops[k]]_parserVars

(* No word of the text is one of a sub parser whose IO is not the text's. *)
IOAsWritten ==
  \A k \in RHSWords(text, DOMAIN text) : text[k].kind = "id" /\ text[k].name \notin DOMAIN Words =>
    \A address \in Knowing(SubParsers(text), SubWords, text[k].name) :
      SubWords[address][text[k].name].code = "extern"

(* The parser's stack tracker and the walk of the integrity check count the  *)
(* same heights, though neither sees the other: what the parser writes never *)
(* underflows and its prefixes are right, whatever the arity of its words.   *)
CountsAgree ==
  IOAsWritten =>
    verdict \notin {"StackUnderflow", "StackAllocationMismatch", "StackOutputsMismatch"}

(* An accepted expression has, at the end of each line of words, as many     *)
(* items on its stack as the LHS has named: a name denotes what it was given *)
(* to.                                                                       *)
(* (endLine: "If the LHS is wrong then later integrity checks will need to   *)
(* flag it.")                                                                *)
LHSIsTheStack ==
  verdict = "ok" =>
    LET semis == InOrder(Of(text, {"semi"}), <) IN
      \A s \in DOMAIN semis :
        LET words == RHSWords(text, SourceAt(text, semis[s]))
            names == LHSItems(text, SourceAt(text, semis[s]))
            After(e) == profile[s][Cardinality({k \in words : k < e}) + 1]
        IN  \A e \in SourceAt(text, semis[s]) :
              /\ text[e].kind \in {"comma", "semi"}
              /\ Items(text, LineAt(text, e)) # {}
              => After(e).height = Cardinality({j \in names : j < e})

(* The limits of the parser.  (A source may use all counters of items only   *)
(* if its LHS is empty.)                                                     *)
WithinLimits ==
  /\ Cardinality(Of(text, {"semi"})) <= SourcesMax
  /\ \A k \in Of(text, {"semi"}) :
       LET words == RHSWords(text, SourceAt(text, k))
           names == LHSItems(text, SourceAt(text, k))
           items == Items(text, words) \cup {j \in names : Items(text, LineAt(text, j)) = {}}
           heights == Heights(text, k)
       IN  /\ Cardinality(items) <= TopLevelMax
           /\ Cardinality(items) = TopLevelMax => names = {}
           /\ Cardinality(words) <= ByteMax
           /\ Cardinality(names) <= ByteMax
           /\ \A i \in DOMAIN heights : heights[i] <= ByteMax
           /\ \A j \in words : /\ Inputs(text, j) <= NibbleMax
                               /\ Outputs(text, j) <= NibbleMax
                               /\ Depth(text, j) <= ParensMax
                               /\ Cardinality(Items(text, LineAt(text, j))) <= LineItemsMax
=============================================================================
