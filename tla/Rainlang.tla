------------------------------ MODULE Rainlang ------------------------------
(***************************************************************************)
(* What a Rainlang text means, told without a parser.                      *)
(*                                                                         *)
(* A text is a sequence of tokens, where a run of whitespace is a token of *)
(* its own.  Semicolons end sources, commas and semicolons end lines, and  *)
(* a line is its LHS, names for stack items, a colon, and its RHS, items   *)
(* that are literals, names or words with their inputs in parens.  A word  *)
(* stands for the word and its operand.  A literal in brackets ("sublit")  *)
(* and a word that is not in Words are the business of sub parsers, whose  *)
(* addresses the text may name at its head.                                *)
(*                                                                         *)
(* Everything is said by positions in the text: the words of a source are  *)
(* evaluated item by item, and each item from its last word to its first,  *)
(* so that the inputs of a word are on the stack before it.                *)
(***************************************************************************)
EXTENDS Bytecode, SequencesExt, FiniteSetsExt

CONSTANTS
  Words,        (* Known words, each with its op: its code and operand.    *)
  Address,      (* The words that are addresses of sub parsers.            *)
  SubWords,     (* Per address, the words that the sub parser knows.       *)
  SubLiterals   (* Per address, the literals that the sub parser knows.    *)

PragmaKeyword == "using-words-from"

Token(kind) == [kind |-> kind]
Name(name) == [kind |-> "id", name |-> name]
Literal(value) == [kind |-> "lit", value |-> value]
SubLiteral(name) == [kind |-> "sublit", name |-> name]

(* The elements of a set in an order of it. *)
InOrder(S, Before(_, _)) ==
  [i \in 1 .. Cardinality(S) |-> CHOOSE k \in S : Cardinality({j \in S : Before(j, k)}) = i - 1]

Of(text, kinds) == {k \in DOMAIN text : text[k].kind \in kinds}

(* The positions of the part of the text that k is in, of those that end *)
(* with a token of the given kinds.                                       *)
Part(text, kinds, k) ==
  LET ends == Of(text, kinds) IN
    (1 + Max({0} \cup {e \in ends : e < k})) .. Min({Len(text)} \cup {e \in ends : e >= k})

LineAt(text, k) == Part(text, {"comma", "semi"}, k)
SourceAt(text, k) == Part(text, {"semi"}, k)

-----------------------------------------------------------------------------
(* The sub parsers. *)

HasPragma(text) ==
  LET head == DOMAIN text \ Of(text, {"ws", "comment"}) IN
    head # {} /\ text[Min(head)] = Name(PragmaKeyword)

(* The last position of the pragma: its last address, or the keyword. *)
PragmaEnd(text) ==
  LET colons == Of(text, {"colon"}) IN
      IF ~HasPragma(text) THEN 0
      ELSE Max({Min(Of(text, {"id"}))} \cup {k \in Of(text, {"lit"}) : \A c \in colons : k < c})

SubParsers(text) ==
  LET addresses == {k \in Of(text, {"lit"}) : k <= PragmaEnd(text)} IN
    [i \in 1 .. Cardinality(addresses) |-> text[InOrder(addresses, <)[i]].value]

(* The first of the parsers, newest first, that knows the name. *)
Knowing(parsers, names, name) ==
  LET able == {i \in DOMAIN parsers : name \in DOMAIN names[parsers[i]]} IN
    IF able = {} THEN {} ELSE {parsers[Max(able)]}

(* The value of a literal, where it has one. *)
LiteralValue(parsers, token) ==
  IF token.kind = "lit" THEN {token.value}
  ELSE {SubLiterals[address][token.name] : address \in Knowing(parsers, SubLiterals, token.name)}

-----------------------------------------------------------------------------
(* Lines. *)

InRHS(text, k) == \E c \in LineAt(text, k) : c < k /\ text[c].kind = "colon"

(* The items of the LHS and the words of the RHS among positions P. *)
LHSItems(text, P) ==
  {k \in P : k > PragmaEnd(text) /\ text[k].kind \in {"id", "anon"} /\ ~InRHS(text, k)}
RHSWords(text, P) == {k \in P : text[k].kind \in {"id", "lit", "sublit"} /\ InRHS(text, k)}

(* The parens open behind position k. *)
Depth(text, k) ==
  LET before == {j \in LineAt(text, k) : j <= k} IN
    Cardinality({j \in before : text[j].kind = "lparen"})
      - Cardinality({j \in before : text[j].kind = "rparen"})

(* The items among positions P, each by its first word. *)
Items(text, P) == {j \in RHSWords(text, P) : Depth(text, j) = 0}

Inputs(text, k) ==
  Cardinality({j \in RHSWords(text, LineAt(text, k)) :
    /\ j > k
    /\ Depth(text, j) = Depth(text, k) + 1
    /\ \A m \in (k + 1) .. j : Depth(text, m) > Depth(text, k)})

(* A lone item of a line has as many outputs as the LHS has items. *)
Outputs(text, k) ==
  LET line == LineAt(text, k) IN
    IF Items(text, line) = {k} THEN Cardinality(LHSItems(text, line)) ELSE 1

(* The words of the source that ends at k, in the order of their evaluation: *)
(* item by item, each from its last word to its first.                       *)
EvalOrder(text, k) ==
  LET words == RHSWords(text, SourceAt(text, k))
      items == InOrder(Items(text, words), <)
      WordsOf(n) == {j \in words : items[n] <= j /\ (n < Len(items) => j < items[n + 1])}
  IN  FlattenSeq([n \in DOMAIN items |-> InOrder(WordsOf(n), >)])

-----------------------------------------------------------------------------
(* What an op has to be. *)

(* The number of stack items below the LHS item of this name, if there is one *)
(* in the source up to the line of k.                                         *)
NamedItem(text, k) ==
  LET declared == LHSItems(text, SourceAt(text, k))
      named == {j \in declared : j < k /\ text[j] = text[k]}
  IN  {Cardinality({i \in declared : i < j}) : j \in named}

(* An op does what the word at position k says.  Sub parsers may answer with *)
(* inputs and outputs of their own.                                          *)
Says(text, k, op, constants) ==
  LET token == text[k]
      parsers == SubParsers(text)
      asWritten == op.ins = Inputs(text, k) /\ op.outs = Outputs(text, k)
  IN
    \/ /\ token.kind \in {"lit", "sublit"}
       /\ op.code = "constant" /\ asWritten
       /\ {constants[op.arg]} = LiteralValue(parsers, token)
    \/ /\ token.kind = "id" /\ token.name \in DOMAIN Words
       /\ op.code = Words[token.name].code /\ op.arg = Words[token.name].arg /\ asWritten
    \/ /\ token.kind = "id" /\ token.name \notin DOMAIN Words /\ NamedItem(text, k) # {}
       /\ op.code = "stack" /\ {op.arg} = NamedItem(text, k) /\ asWritten
    \/ /\ token.kind = "id" /\ token.name \notin DOMAIN Words /\ NamedItem(text, k) = {}
       /\ \E address \in Knowing(parsers, SubWords, token.name) :
            LET word == SubWords[address][token.name] IN
              /\ op.code = word.code
              /\ op.code = "extern" => asWritten
              /\ op.code # "extern" => op.ins = 0 /\ op.outs = 1
              /\ IF op.code = "context" THEN op.arg = word.of
                 ELSE constants[op.arg] = word.of

(* The heights of the stack before each word of the source that ends at k and *)
(* after the last, as the text declares them.                                 *)
Heights(text, k) ==
  LET order == EvalOrder(text, k)
      inputs == {j \in LHSItems(text, SourceAt(text, k)) : Items(text, LineAt(text, j)) = {}}
      h[i \in 1 .. (Len(order) + 1)] ==
        IF i = 1 THEN Cardinality(inputs)
        ELSE h[i - 1] - Inputs(text, order[i - 1]) + Outputs(text, order[i - 1])
  IN  h

(* The source is what the text says up to its semicolon at k. *)
SourceSays(text, k, source, constants) ==
  LET order == EvalOrder(text, k)
      heights == Heights(text, k)
  IN  /\ Len(source.ops) = Len(order)
      /\ \A i \in DOMAIN order : Says(text, order[i], source.ops[i], constants)
      /\ source.inputs = heights[1]
      /\ source.outputs = Cardinality(LHSItems(text, SourceAt(text, k)))
      /\ source.alloc = Max({heights[i] : i \in DOMAIN heights})

Means(text, sources, constants) ==
  LET semis == InOrder(Of(text, {"semi"}), <) IN
    /\ Len(sources) = Len(semis)
    /\ \A s \in DOMAIN semis : SourceSays(text, semis[s], sources[s], constants)

-----------------------------------------------------------------------------
(* Which texts, of those that are lines of the right tokens, mean anything. *)

(* A name is given once in a source. *)
NamesOnce(text) ==
  \A k \in DOMAIN text : text[k].kind = "id" =>
    \A j \in LHSItems(text, SourceAt(text, k)) : k \in LHSItems(text, {k}) /\ text[j] = text[k] => j = k

(* Lines without an RHS come first. *)
InputsFirst(text) ==
  \A k \in Of(text, {"comma", "semi"}) :
    Items(text, LineAt(text, k)) = {} =>
      \A j \in RHSWords(text, SourceAt(text, k)) : j > k

(* A line of several items names each of them. *)
ItemsNamed(text) ==
  \A k \in Of(text, {"comma", "semi"}) :
    LET line == LineAt(text, k) IN
      Cardinality(Items(text, line)) > 1 =>
        Cardinality(LHSItems(text, line)) = Cardinality(Items(text, line))

(* Parens follow words and nothing else.  (A token follows every word of the *)
(* RHS, if only the semicolon.)                                              *)
ParensFollowWords(text) ==
  \A k \in RHSWords(text, DOMAIN text) :
    text[k + 1].kind = "lparen" <=>
      text[k].kind = "id" /\ (text[k].name \in DOMAIN Words \/ NamedItem(text, k) = {})

(* Somebody knows each word and each literal. *)
WordsKnown(text) ==
  \A k \in RHSWords(text, DOMAIN text) :
    IF text[k].kind = "id"
    THEN \/ text[k].name \in DOMAIN Words
         \/ NamedItem(text, k) # {}
         \/ \E address \in Knowing(SubParsers(text), SubWords, text[k].name) :
              SubWords[address][text[k].name].code # "malformed"
    ELSE LiteralValue(SubParsers(text), text[k]) # {}

WellFormed(text) ==
  /\ \A i \in DOMAIN SubParsers(text) : SubParsers(text)[i] \in Address
  /\ NamesOnce(text)
  /\ InputsFirst(text)
  /\ ItemsNamed(text)
  /\ ParensFollowWords(text)
  /\ WordsKnown(text)
=============================================================================
