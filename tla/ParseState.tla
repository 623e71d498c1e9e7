----------------------------- MODULE ParseState -----------------------------
(***************************************************************************)
(* LibParseState, LibParseStackTracker and LibParseStackName: the record   *)
(* that the parser builds an expression in, and what each of its functions *)
(* makes of it.  An operator takes a state to the state after the call; a  *)
(* revert is a state whose field error is set, and stays.                  *)
(*                                                                         *)
(* Ops are kept in slots of SlotOps ops each, a linked list in the code;   *)
(* slot 1 is its tail.  The ops of a slot are in the order of writing, the *)
(* reverse of their order in memory.  A pointer into a slot is a Place: a  *)
(* slot and the number of ops written to it.  Counters and heights are     *)
(* bytes of packed words; ByteMax is the largest.  Stack items are counted *)
(* from 0, slots, ops and constants from 1.                                *)
(***************************************************************************)
EXTENDS Bytecode, SequencesExt, FiniteSetsExt

CONSTANTS
  SlotOps,        (* Ops in a slot: 7.                                      *)
  ByteMax,        (* The largest number in a byte: 255.                     *)
  TopLevelMax,    (* Counters of top level items in a source: 62.           *)
  LineItemsMax,   (* Pointers to items in the line tracker: 14.             *)
  ParensMax,      (* Groups of parens open at a time: 19.                   *)
  SourcesMax,     (* Sources in an expression: 15.                          *)
  NameBloom(_),   (* The bit of a name in the bloom filter of stack names.  *)
  ValueBloom(_)   (* The bit of a word in the bloom filter of constants.    *)

ASSUME LimitsAssumption ==
  /\ {SlotOps, TopLevelMax, LineItemsMax, ParensMax, SourcesMax, NibbleMax} \subseteq Nat \ {0}
  /\ ByteMax \in Nat

NoPlace == <<0, 0>>

SumSeq(numbers) ==
  LET sum[n \in 0 .. Len(numbers)] == IF n = 0 THEN 0 ELSE sum[n - 1] + numbers[n]
  IN  sum[Len(numbers)]

EmptyTracker == [current |-> 0, inputs |-> 0, max |-> 0]

(* What is reset for each source.  The line keeps a head for each of its       *)
(* items and one more for the item to come; past the last one, what is shifted *)
(* out of the word reads as no place.                                          *)
ResetSource(s) ==
  [s EXCEPT
    !.slots = << << >> >>,
    !.topLevel = [count |-> 0, words |-> [i \in 1 .. TopLevelMax |-> 0], lhs |-> 0],
    !.parens = [depth |-> 0,
                groups |-> [g \in 0 .. (ParensMax + 1) |-> [inputs |-> 0, op |-> NoPlace]]],
    !.line = [lhs |-> 0, start |-> 0, heads |-> [i \in 1 .. (LineItemsMax + 2) |-> NoPlace]],
    !.stackNames = << >>,
    !.stackNameBloom = {},
    !.stackTracker = EmptyTracker]

DefaultFSM == {"acceptingInputs"}

NewState ==
  ResetSource(
    [error |-> "none", slots |-> << >>, topLevel |-> << >>, parens |-> << >>, line |-> << >>,
     subParsers |-> << >>, sources |-> << >>, fsm |-> DefaultFSM, stackNames |-> << >>,
     stackNameBloom |-> {}, constants |-> << >>, constantsBloom |-> {},
     stackTracker |-> EmptyTracker])

Failed(s) == s.error # "none"
Revert(s, error) == [s EXCEPT !.error = error]

(* A read or a write at an address that no pointer of the parser holds. *)
WildAccess(s) == Revert(s, "WildAccess")

-----------------------------------------------------------------------------
(* The stack tracker. *)

Push(s, n) ==
  LET current == s.stackTracker.current + n IN
    IF current > ByteMax THEN Revert(s, "ParseStackOverflow")
    ELSE [s EXCEPT !.stackTracker.current = current,
                   !.stackTracker.max = IF current > @ THEN current ELSE @]

PushInputs(s, n) ==
  LET pushed == Push(s, n) IN
    IF Failed(pushed) THEN pushed
    ELSE IF s.stackTracker.inputs + n > ByteMax THEN Revert(s, "ParseStackOverflow")
    ELSE [pushed EXCEPT !.stackTracker.inputs = @ + n]

Pop(s, n) ==
  IF s.stackTracker.current < n THEN Revert(s, "ParseStackUnderflow")
  ELSE [s EXCEPT !.stackTracker.current = @ - n]

-----------------------------------------------------------------------------
(* Names of stack items. *)

(* The entries of a name, which the bloom filter may spare to look for. *)
NameEntries(s, name) ==
  IF NameBloom(name) \notin s.stackNameBloom THEN {}
  ELSE {k \in DOMAIN s.stackNames : s.stackNames[k].name = name}

RememberName(s, name) ==
  [s EXCEPT !.stackNames = Append(@, [name |-> name, index |-> s.topLevel.lhs]),
            !.stackNameBloom = @ \cup {NameBloom(name)}]

-----------------------------------------------------------------------------
(* Places. *)

SourceHead(s) == <<Len(s.slots), Len(Last(s.slots))>>

(* The place of the j-th op met on the way from head to the tail: in the slot *)
(* of head, and then in the slots before it, all full.                        *)
OpBefore(head, j) ==
  IF j <= head[2] THEN <<head[1], head[2] - j + 1>>
  ELSE LET k == j - head[2] - 1
       IN <<head[1] - 1 - (k \div SlotOps), SlotOps - (k % SlotOps)>>

(* The i-th counter of the top level.  The byte behind the last counter is   *)
(* the number of LHS items.                                                  *)
Counter(s, i) == IF i <= TopLevelMax THEN s.topLevel.words[i] ELSE s.topLevel.lhs

(* Where an item begins, the item before it ends: remember the place, before *)
(* the first op of the item and at the end of a line.                        *)
SnapshotSourceHead(s) ==
  LET item == s.topLevel.count - s.line.start + 1 IN
    IF s.topLevel.count > TopLevelMax THEN WildAccess(s)
    ELSE IF Counter(s, s.topLevel.count + 1) # 0 THEN s
    ELSE IF item > LineItemsMax + 1 THEN Revert(s, "LineRHSItemsOverflow")
    ELSE [s EXCEPT !.line.heads[item] = SourceHead(s)]

-----------------------------------------------------------------------------
(* Ops and constants. *)

(* Count an op of the item that is being read. *)
CountOp(s) ==
  LET i == s.topLevel.count + 1 IN
    IF Counter(s, i) = ByteMax THEN Revert(s, "SourceItemOpsOverflow")
    ELSE IF i <= TopLevelMax THEN [s EXCEPT !.topLevel.words[i] = @ + 1]
    ELSE [s EXCEPT !.topLevel.lhs = @ + 1]

(* Mutant of CountInput: the counter of the op's own group is not zeroed. *)
CountInputOnly(s) ==
  LET d == s.parens.depth
      place == <<Len(s.slots), Len(Last(s.slots)) + 1>>
  IN  [s EXCEPT !.parens.groups[d].inputs = @ + 1, !.parens.groups[d + 1].op = place]

(* The op to be written is an input of the group it is in, and the op of the *)
(* group that may open next, which has no inputs yet.                        *)
CountInput(s) ==
  LET d == s.parens.depth
      place == <<Len(s.slots), Len(Last(s.slots)) + 1>>
  IN  IF s.parens.groups[d].inputs = ByteMax THEN Revert(s, "ParenInputOverflow")
      ELSE [s EXCEPT !.parens.groups[d].inputs = @ + 1,
                     !.parens.groups[d + 1] = [inputs |-> 0, op |-> place]]

(* A full slot gets a successor. *)
WriteOp(s, op) ==
  LET last == Len(s.slots)
      slot == Append(s.slots[last], op)
      slots == [s.slots EXCEPT ![last] = slot]
  IN  [s EXCEPT !.slots = IF Len(slot) = SlotOps THEN Append(slots, << >>) ELSE slots]

PushOpToSource(s, code, arg) ==
  LET snapped == SnapshotSourceHead(s)
      begun == [snapped EXCEPT !.fsm = (@ \ {"acceptingInputs"}) \cup {"activeSource"}]
      counted == CountOp(begun)
      input == CountInput(counted)
  IN  IF Failed(snapped) THEN snapped
      ELSE IF Failed(counted) THEN counted
      ELSE IF Failed(input) THEN input
      ELSE WriteOp(input, [code |-> code, arg |-> arg, ins |-> 0, outs |-> 0])

(* Mutant of PushConstantValue: the list grows at its head. *)
PushConstantValueInFront(s, value) ==
  [s EXCEPT !.constants = <<value>> \o @, !.constantsBloom = @ \cup {ValueBloom(value)}]

PushConstantValue(s, value) ==
  [s EXCEPT !.constants = Append(@, value), !.constantsBloom = @ \cup {ValueBloom(value)}]

KnownConstants(s, value) ==
  IF ValueBloom(value) \notin s.constantsBloom THEN {}
  ELSE {k \in DOMAIN s.constants : s.constants[k] = value}

PushLiteral(s, value) ==
  LET known == KnownConstants(s, value)
      index == IF known = {} THEN Len(s.constants) + 1 ELSE Max(known)
      pushed == PushOpToSource(s, "constant", index)
  IN  IF Failed(pushed) \/ known # {} THEN pushed ELSE PushConstantValue(pushed, value)

(* An item has ended, if all parens are closed. *)
Highwater(s) ==
  LET count == s.topLevel.count + 1 IN
    IF s.parens.depth # 0 THEN s
    ELSE IF count >= TopLevelMax + 1 THEN Revert(s, "ParseStackOverflow")
    ELSE [s EXCEPT !.topLevel.count = count]

OpenParen(s) ==
  IF s.parens.depth = ParensMax THEN Revert(s, "ParenOverflow")
  ELSE [s EXCEPT !.parens.depth = @ + 1, !.fsm = @ \ {"wordEnd", "yang"}]

(* The group's number of inputs goes to the op in front of it. *)
CloseParen(s) ==
  LET group == s.parens.groups[s.parens.depth] IN
    [s EXCEPT !.parens.depth = @ - 1,
              !.slots[group.op[1]][group.op[2]].ins = group.inputs]

-----------------------------------------------------------------------------
(* Ends of lines, of sources and of the expression. *)

LineItems(s) == s.topLevel.count - s.line.start

(* Mutant of LineOps: a lone item has one output. *)
LineOpsOneOut(s) ==
  LET ItemOps(i) ==
        [j \in 1 .. Counter(s, s.line.start + i) |->
           [place |-> OpBefore(s.line.heads[i + 1], j), outs |-> 1]]
  IN  FlattenSeq([i \in 1 .. LineItems(s) |-> ItemOps(i)])

(* The ops of the line in the order of evaluation, each with the number of   *)
(* its outputs.  A lone item has the outputs that the LHS takes.             *)
LineOps(s) ==
  LET n == LineItems(s)
      ItemOps(i) ==
        LET ops == Counter(s, s.line.start + i) IN
          [j \in 1 .. ops |->
             [place |-> OpBefore(s.line.heads[i + 1], j),
              outs |-> IF j = ops /\ n = 1 THEN s.line.lhs ELSE 1]]
  IN  FlattenSeq([i \in 1 .. n |-> ItemOps(i)])

(* Mutant of EndOp: the outputs are pushed before the inputs are popped. *)
EndOpPushFirst(s, op) ==
  LET ins == s.slots[op.place[1]][op.place[2]].ins
      pushed == Push(s, op.outs)
      popped == Pop(pushed, ins)
  IN  IF Failed(s) THEN s
      ELSE IF Failed(pushed) THEN pushed
      ELSE IF Failed(popped) THEN popped
      ELSE IF op.outs > NibbleMax \/ ins > NibbleMax THEN Revert(s, "OpcodeIOOverflow")
      ELSE [popped EXCEPT !.slots[op.place[1]][op.place[2]].outs = op.outs]

EndOp(s, op) ==
  LET ins == s.slots[op.place[1]][op.place[2]].ins
      popped == Pop(s, ins)
      pushed == Push(popped, op.outs)
  IN  IF Failed(s) THEN s
      ELSE IF op.place[1] <= 0 THEN WildAccess(s)
      ELSE IF Failed(popped) THEN popped
      ELSE IF Failed(pushed) THEN pushed
      ELSE IF op.outs > NibbleMax \/ ins > NibbleMax THEN Revert(s, "OpcodeIOOverflow")
      ELSE [pushed EXCEPT !.slots[op.place[1]][op.place[2]].outs = op.outs]

EndOps(s, ops) ==
  LET ended[n \in 0 .. Len(ops)] == IF n = 0 THEN s ELSE EndOp(ended[n - 1], ops[n])
  IN  ended[Len(ops)]

(* A line of LHS items only declares inputs, before the first word of the    *)
(* source; a line of several items names each of them.                       *)
EndInputs(s) ==
  IF "acceptingInputs" \notin s.fsm THEN Revert(s, "NotAcceptingInputs")
  ELSE PushInputs([s EXCEPT !.topLevel.count = @ + s.line.lhs,
                            !.topLevel.words = [i \in 1 .. TopLevelMax |-> 0]], s.line.lhs)

(* Mutant of EndItems: a line may name more items than it has. *)
EndItemsExcessLHS(s) ==
  IF LineItems(s) > 1 /\ s.line.lhs < LineItems(s) THEN Revert(s, "ExcessRHSItems")
  ELSE EndOps(s, LineOps(s))

EndItems(s) ==
  IF LineItems(s) > 1 /\ s.line.lhs < LineItems(s) THEN Revert(s, "ExcessRHSItems")
  ELSE IF LineItems(s) > 1 /\ s.line.lhs > LineItems(s) THEN Revert(s, "ExcessLHSItems")
  ELSE EndOps(s, LineOps(s))

NextLine(s) ==
  [s EXCEPT !.line = [lhs |-> 0, start |-> s.topLevel.count,
                      heads |-> [i \in 1 .. (LineItemsMax + 2) |-> NoPlace]]]

EndLine(s) ==
  LET snapped == SnapshotSourceHead(s)
      begun == [snapped EXCEPT !.fsm = (@ \cap {"acceptingInputs"}) \cup {"activeSource"}]
      ended == IF LineItems(s) = 0 THEN EndInputs(begun) ELSE EndItems(begun)
  IN  IF s.parens.depth > 0 THEN Revert(s, "UnclosedLeftParen")
      ELSE IF Failed(snapped) THEN snapped
      ELSE IF Failed(ended) THEN ended
      ELSE NextLine(ended)

(* The words up to the q-th, in the order of memory: of its slot those before *)
(* it, last written first, and so on to the tail.                             *)
WordsBack(slots, q) ==
  LET slot == 1 + ((q - 1) \div SlotOps)
      used == 1 + ((q - 1) % SlotOps)
  IN  Reverse(SubSeq(slots[slot], 1, used))
        \o FlattenSeq([k \in 1 .. (slot - 1) |-> Reverse(slots[slot - k])])

(* The n ops of an item that p ops lie before: the cursor goes to the slot   *)
(* the item ends in, and n words are copied from there.                      *)
CopyItem(slots, p, n) == IF n = 0 THEN << >> ELSE SubSeq(WordsBack(slots, p + n), 1, n)

(* The counters that the end of a source goes through: one for each item,    *)
(* and one more.                                                             *)
CountersRead(s) == [i \in 1 .. (s.topLevel.count + 1) |-> Counter(s, i)]

OpsWritten(s) == SumSeq([k \in DOMAIN s.slots |-> Len(s.slots[k])])

EndSource(s) ==
  LET counters == CountersRead(s)
      Before(i) == SumSeq(SubSeq(counters, 1, i - 1))
      copied == FlattenSeq([i \in DOMAIN counters |-> CopyItem(s.slots, Before(i), counters[i])])
      source == [inputs  |-> s.stackTracker.inputs,
                 outputs |-> s.stackTracker.current,
                 alloc   |-> s.stackTracker.max,
                 ops     |-> copied]
  IN  IF Len(s.sources) = SourcesMax THEN Revert(s, "MaxSources")
      ELSE IF s.topLevel.count > TopLevelMax \/ SumSeq(counters) > OpsWritten(s)
        THEN WildAccess(s)
      ELSE IF SumSeq(counters) > ByteMax THEN Revert(s, "SourceTotalOpsOverflow")
      ELSE ResetSource([s EXCEPT !.sources = Append(@, source), !.fsm = @ \ {"activeSource"}])

(* A source that is still being built is none of the bytecode's. *)
BuildBytecode(s) == IF s.slots # << << >> >> THEN Revert(s, "DanglingSource") ELSE s
=============================================================================
