------------------------------- MODULE Parser -------------------------------
(***************************************************************************)
(* LibParse.parse: a cursor moves over a text, token by token, and each    *)
(* token changes the ParseState.  When the text is used up the words that  *)
(* the parser does not know are replaced by what its sub parsers answer.   *)
(*                                                                         *)
(* The phase is the loop that the parser is in: before a pragma ("start"), *)
(* among its addresses ("pragma"), between lines ("interstitial"), on the  *)
(* LHS or the RHS of a line, among the unknown words ("subparse").         *)
(***************************************************************************)
EXTENDS ParseState, Rainlang

CONSTANT Texts  (* The texts that the parser is given. *)

ASSUME WordsAssumption ==
  \A name \in DOMAIN Words : Words[name].code \in Codes /\ Words[name].arg \in Nat
ASSUME SubParsersAssumption ==
  \A address \in Address :
    /\ address \in DOMAIN SubWords \cap DOMAIN SubLiterals
    /\ \A name \in DOMAIN SubLiterals[address] : SubLiterals[address][name] \in Value
    /\ \A name \in DOMAIN SubWords[address] :
         LET word == SubWords[address][name] IN
           \/ word.code = "malformed"
           \/ word.code = "context" /\ word.of \in Nat
           \/ word.code \in {"constant", "extern"} /\ word.of \in Value
ASSUME TextsAssumption ==
  \A t \in Texts :
    Len(t) \in Nat /\ \A k \in 1 .. Len(t) : t[k].kind = "lit" => t[k].value \in Value

VARIABLES
  text,    (* The text, as a sequence of tokens. *)
  cursor,  (* The position of the next token.    *)
  phase,   (* The loop that the parser is in.    *)
  state    (* The ParseState.                    *)

parserVars == <<text, cursor, phase, state>>

Between == {"start", "pragma", "interstitial"}
Reading == Between \cup {"lhs", "rhs"}
Phases == Reading \cup {"subparse", "parsed", "reverted"}

ParserInit ==
  /\ text \in Texts
  /\ cursor = 1
  /\ phase = "start"
  /\ state = NewState

AtToken(phases, kinds) ==
  phase \in phases /\ cursor <= Len(text) /\ text[cursor].kind \in kinds

(* The name at the cursor is to be read as the keyword. *)
AtKeyword == phase = "start" /\ text[cursor] = Name(PragmaKeyword)

(* Go on with s in the given phase, past n tokens, unless s is a revert. *)
GoOn(s, next, n) ==
  /\ state' = s
  /\ phase' = IF Failed(s) THEN "reverted" ELSE next
  /\ cursor' = IF Failed(s) THEN cursor ELSE cursor + n
  /\ UNCHANGED text

Set(s, flags) == [s EXCEPT !.fsm = @ \cup flags]
Clear(s, flags) == [s EXCEPT !.fsm = @ \ flags]
Yang == "yang" \in state.fsm
WordEnd == "wordEnd" \in state.fsm

(* The answer of the first sub parser, newest first, that has one. *)
FirstAnswer(answers, name) ==
  LET i == SelectInSeq(state.subParsers, LAMBDA address : name \in DOMAIN answers[address])
  IN  IF i = 0 THEN {} ELSE {answers[state.subParsers[i]][name]}

(* The value of the literal at the cursor, where the parser or a sub parser *)
(* finds one.                                                               *)
ParsedLiteral(token) ==
  IF token.kind = "lit" THEN {token.value} ELSE FirstAnswer(SubLiterals, token.name)

-----------------------------------------------------------------------------
(* Between lines: whitespace, comments and the pragma. *)

SkipWhitespace ==
  /\ AtToken(Between \cup {"lhs"}, {"ws"})
  /\ GoOn(Clear(state, {"yang"}), phase, 1)

SkipComment ==
  /\ AtToken(Between, {"comment"})
  /\ GoOn(Set(state, {"yang"}), phase, 1)

(* One character of the whitespace belongs to the keyword; what there is *)
(* besides, if anything, is skipped as between lines.                    *)
ReadKeyword ==
  /\ AtToken({"start"}, {"id"})
  /\ AtKeyword
  /\ IF cursor < Len(text) /\ text[cursor + 1].kind = "ws"
     THEN \E s \in {state, Clear(state, {"yang"})} : GoOn(s, "pragma", 2)
     ELSE GoOn(Revert(state, "NoWhitespaceAfterUsingWordsFrom"), phase, 0)

PushSubParser(s, value) ==
  IF value \in Address THEN [s EXCEPT !.subParsers = <<value>> \o @]
  ELSE Revert(s, "InvalidSubParser")

(* What the parser makes of the whitespace in a literal in brackets. *)
Literally(s, token) == IF token.kind = "sublit" THEN Clear(s, {"yang"}) ELSE s

ReadAddress ==
  /\ AtToken({"pragma"}, {"lit", "sublit"})
  /\ LET token == text[cursor]
         parsed == ParsedLiteral(token)
     IN  \/ \E value \in parsed : GoOn(PushSubParser(Literally(state, token), value), phase, 1)
         \/ parsed = {} /\ GoOn(Revert(state, "UnsupportedLiteralType"), phase, 0)

-----------------------------------------------------------------------------
(* The LHS. *)

(* Mutant of CountLHSItem: the counters are not checked. *)
CountLHSItemUnchecked(s) ==
  Set([s EXCEPT !.topLevel.lhs = @ + 1, !.line.lhs = @ + 1], {"yang", "activeSource"})

(* Count an item of the LHS, in the source and in the line. *)
CountLHSItem(s) ==
  IF s.topLevel.lhs = ByteMax \/ s.line.lhs = ByteMax THEN Revert(s, "LHSItemCountOverflow")
  ELSE Set([s EXCEPT !.topLevel.lhs = @ + 1, !.line.lhs = @ + 1], {"yang", "activeSource"})

ReadAnonymous ==
  /\ AtToken(Between \cup {"lhs"}, {"anon"})
  /\ GoOn(IF Yang THEN Revert(state, "UnexpectedLHSChar") ELSE CountLHSItem(state), "lhs", 1)

(* Mutant of NameTaken: names may be taken again. *)
NameNeverTaken(name) == FALSE

NameTaken(name) == NameEntries(state, name) # {}

ReadName ==
  /\ AtToken(Between \cup {"lhs"}, {"id"})
  /\ ~AtKeyword
  /\ LET name == text[cursor].name IN
       GoOn(IF Yang THEN Revert(state, "UnexpectedLHSChar")
            ELSE IF NameTaken(name) THEN Revert(state, "DuplicateLHSItem")
            ELSE CountLHSItem(RememberName(state, name)), "lhs", 1)

ReadDelimiter ==
  /\ AtToken(Between \cup {"lhs"}, {"colon"})
  /\ GoOn(Set(Clear(state, {"yang"}), {"activeSource"}), "rhs", 1)

RevertLHS ==
  \/ /\ AtToken({"lhs"}, {"comment"})
     /\ GoOn(Revert(state, "UnexpectedComment"), phase, 0)
  \/ /\ \/ AtToken(Between \cup {"lhs"}, {"comma", "semi", "lparen", "rparen"})
        \/ AtToken({"start", "interstitial", "lhs"}, {"lit", "sublit"})
     /\ GoOn(Revert(state, "UnexpectedLHSChar"), phase, 0)

-----------------------------------------------------------------------------
(* The RHS. *)

(* Looking a name up leaves its bit in the bloom filter. *)
LookedUp(s, name) == [s EXCEPT !.stackNameBloom = @ \cup {NameBloom(name)}]

Unless(s, t) == IF Failed(s) THEN s ELSE t

ReadKnownWord ==
  LET word == Words[text[cursor].name] IN
    GoOn(Set(PushOpToSource(state, word.code, word.arg), {"wordEnd", "yang"}), phase, 1)

ReadStackName ==
  LET name == text[cursor].name
      entry == Max(NameEntries(state, name))
      pushed == PushOpToSource(LookedUp(state, name), "stack", state.stackNames[entry].index)
  IN  GoOn(Unless(pushed, Set(Highwater(pushed), {"yang"})), phase, 1)

(* The operand of an unknown word is a pointer to what was read of it. *)
ReadUnknownWord ==
  LET pushed == PushOpToSource(LookedUp(state, text[cursor].name), "unknown", cursor) IN
    GoOn(Set(pushed, {"wordEnd", "yang"}), phase, 1)

ReadWord ==
  /\ AtToken({"rhs"}, {"id"})
  /\ LET name == text[cursor].name IN
       \/ Yang /\ GoOn(Revert(state, "UnexpectedRHSChar"), phase, 0)
       \/ ~Yang /\ name \in DOMAIN Words /\ ReadKnownWord
       \/ ~Yang /\ name \notin DOMAIN Words /\ NameEntries(state, name) # {} /\ ReadStackName
       \/ ~Yang /\ name \notin DOMAIN Words /\ NameEntries(state, name) = {} /\ ReadUnknownWord

ExpectLeftParen ==
  /\ phase = "rhs" /\ cursor <= Len(text) /\ text[cursor].kind # "id"
  /\ WordEnd
  /\ GoOn(IF text[cursor].kind = "lparen" THEN OpenParen(state)
          ELSE Revert(state, "ExpectedLeftParen"), phase, 1)

ReadRightParen ==
  /\ AtToken({"rhs"}, {"rparen"})
  /\ ~WordEnd
  /\ GoOn(IF state.parens.depth = 0 THEN Revert(state, "UnexpectedRightParen")
          ELSE Highwater(CloseParen(state)), phase, 1)

SkipWhitespaceRHS ==
  /\ AtToken({"rhs"}, {"ws"})
  /\ ~WordEnd
  /\ GoOn(Clear(state, {"yang"}), phase, 1)

ReadLiteral ==
  /\ AtToken({"rhs"}, {"lit", "sublit"})
  /\ ~WordEnd
  /\ LET parsed == ParsedLiteral(text[cursor]) IN
       \/ \E value \in parsed :
            LET pushed == PushLiteral(state, value) IN
              GoOn(Unless(pushed, Set(Highwater(pushed), {"yang"})), phase, 1)
       \/ parsed = {} /\ GoOn(Revert(state, "UnsupportedLiteralType"), phase, 0)

ReadEndOfLine ==
  /\ AtToken({"rhs"}, {"comma"})
  /\ ~WordEnd
  /\ GoOn(EndLine(state), "interstitial", 1)

ReadEndOfSource ==
  /\ AtToken({"rhs"}, {"semi"})
  /\ ~WordEnd
  /\ LET ended == EndLine(state)
         built == EndSource(ended)
     IN  GoOn(Unless(ended, Unless(built, [built EXCEPT !.fsm = DefaultFSM])), "interstitial", 1)

RevertRHS ==
  /\ ~WordEnd
  /\ \/ /\ AtToken({"rhs"}, {"comment"})
        /\ GoOn(Revert(state, "UnexpectedComment"), phase, 0)
     \/ /\ AtToken({"rhs"}, {"anon", "colon", "lparen"})
        /\ GoOn(Revert(state, "UnexpectedRHSChar"), phase, 0)

-----------------------------------------------------------------------------
(* The end of the text, and what is left to the sub parsers. *)

EndOfText ==
  /\ phase \in Reading
  /\ cursor > Len(text)
  /\ GoOn(IF "activeSource" \in state.fsm THEN Revert(state, "MissingFinalSemi")
          ELSE BuildBytecode(state), "subparse", 0)

Unknown ==
  {at \in UNION {{s} \X DOMAIN state.sources[s].ops : s \in DOMAIN state.sources} :
     state.sources[at[1]].ops[at[2]].code = "unknown"}

(* The first unknown op in the order of the bytecode. *)
FirstUnknown ==
  CHOOSE at \in Unknown :
    \A other \in Unknown : at[1] < other[1] \/ (at[1] = other[1] /\ at[2] <= other[2])

(* What a sub parser answers for op, from the height of the constants and the *)
(* op's IO that it is told.  A context or a constant word has no inputs.      *)
SubOp(op, word) ==
  LET next == Len(state.constants) + 1 IN
    IF word.code = "context" THEN [code |-> "context", arg |-> word.of, ins |-> 0, outs |-> 1]
    ELSE IF word.code = "extern" THEN [op EXCEPT !.code = "extern", !.arg = next]
    ELSE [code |-> "constant", arg |-> next, ins |-> 0, outs |-> 1]

SubConstants(s, word) == IF word.code = "context" THEN s ELSE PushConstantValue(s, word.of)

SubParseWord ==
  /\ phase = "subparse"
  /\ Unknown # {}
  /\ LET at == FirstUnknown
         op == state.sources[at[1]].ops[at[2]]
         answers == FirstAnswer(SubWords, text[op.arg].name)
     IN  \/ \E word \in answers :
              GoOn(IF word.code = "malformed" THEN Revert(state, "BadSubParserResult")
                   ELSE SubConstants(
                          [state EXCEPT !.sources[at[1]].ops[at[2]] = SubOp(op, word)], word),
                   phase, 0)
         \/ answers = {} /\ GoOn(Revert(state, "UnknownWord"), phase, 0)

SubParsed ==
  /\ phase = "subparse"
  /\ Unknown = {}
  /\ GoOn(state, "parsed", 0)

ParserNext ==
  \/ SkipWhitespace \/ SkipComment \/ ReadKeyword \/ ReadAddress
  \/ ReadAnonymous \/ ReadName \/ ReadDelimiter \/ RevertLHS
  \/ ReadWord \/ ExpectLeftParen \/ ReadRightParen \/ SkipWhitespaceRHS
  \/ ReadLiteral \/ ReadEndOfLine \/ ReadEndOfSource \/ RevertRHS
  \/ EndOfText \/ SubParseWord \/ SubParsed
=============================================================================
