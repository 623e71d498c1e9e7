--------------------------- MODULE Deployer_proofs ---------------------------
(***************************************************************************)
(* Proofs about the parser and the deployer, for every text, every limit   *)
(* and every sub parser that the assumptions of Parser admit.              *)
(*                                                                         *)
(* The parser counts in the bytes of packed words: the ops of an item, the *)
(* inputs of a group, the height of the stack. Each can be read as what it *)
(* counts only while all of them agree. ParserInv says that they do, with  *)
(* a ledger of what was written, in three running counts: H, the ops       *)
(* before each item of the line, F, the inputs of the ops up to each       *)
(* position, and G, the inputs of the open groups. Every op that is        *)
(* written is the last of an item or an input of another op (Balance), and *)
(* the stack has an item for each LHS item of the lines before this one    *)
(* (HeightLedger). There is a lemma for each handler of the parser.        *)
(***************************************************************************)
EXTENDS Deployer, Induction

-----------------------------------------------------------------------------
(* Types. *)

Byte == 0 .. ByteMax

Place == Nat \X Nat

TextNames == UNION {{t[k].name : k \in 1 .. Len(t)} : t \in Texts}

Bits == {NameBloom(name) : name \in TextNames} \cup {ValueBloom(value) : value \in Value}

Flags == {"acceptingInputs", "activeSource", "yang", "wordEnd"}

Errors == {"BadSubParserResult", "DanglingSource", "DuplicateLHSItem", "ExcessLHSItems",
  "ExcessRHSItems", "ExpectedLeftParen", "InvalidSubParser", "LHSItemCountOverflow",
  "LineRHSItemsOverflow", "MaxSources", "MissingFinalSemi", "NoWhitespaceAfterUsingWordsFrom",
  "NotAcceptingInputs", "OpcodeIOOverflow", "ParenInputOverflow", "ParenOverflow",
  "ParseStackOverflow", "ParseStackUnderflow", "SourceItemOpsOverflow", "SourceTotalOpsOverflow",
  "UnclosedLeftParen", "UnexpectedComment", "UnexpectedLHSChar", "UnexpectedRHSChar",
  "UnexpectedRightParen", "UnknownWord", "UnsupportedLiteralType", "WildAccess"}

BuiltSource == [inputs : Byte, outputs : Byte, alloc : Byte, ops : Seq(ReadOp)]

TopLevelType == [count : Nat, words : [1 .. TopLevelMax -> Byte], lhs : Byte]

GroupType == [inputs : Byte, op : Place]

ParensType == [depth : 0 .. ParensMax, groups : [0 .. (ParensMax + 1) -> GroupType]]

LineType == [lhs : Byte, start : Nat, heads : [1 .. (LineItemsMax + 2) -> Place]]

TrackerType == [current : Byte, inputs : Byte, max : Byte]

StateType ==
  [error          : Errors \cup {"none"},
   slots          : Seq(Seq(ReadOp)),
   topLevel       : TopLevelType,
   parens         : ParensType,
   line           : LineType,
   subParsers     : Seq(Address),
   sources        : Seq(BuiltSource),
   fsm            : SUBSET Flags,
   stackNames     : Seq([name : TextNames, index : Nat]),
   stackNameBloom : SUBSET Bits,
   constants      : Seq(Value),
   constantsBloom : SUBSET Bits,
   stackTracker   : TrackerType]

LEMMA RevertType == ASSUME NEW s \in StateType, NEW e \in Errors PROVE Revert(s, e) \in StateType
  BY DEF Revert, StateType

LEMMA SetType == ASSUME NEW s \in StateType, NEW f \in SUBSET Flags PROVE Set(s, f) \in StateType
  BY DEF Set, StateType


-----------------------------------------------------------------------------
(* Slots and positions. *)

SlotOf(p) == 1 + ((p - 1) \div SlotOps)
IndexOf(p) == 1 + ((p - 1) % SlotOps)
Position(a, b) == (a - 1) * SlotOps + b
OpAtPosition(slots, p) == slots[SlotOf(p)][IndexOf(p)]
Written(slots) == Position(Len(slots), Len(slots[Len(slots)]))

WellFilled(slots) ==
  /\ slots \in Seq(Seq(ReadOp))
  /\ Len(slots) >= 1
  /\ \A k \in 1 .. (Len(slots) - 1) : Len(slots[k]) = SlotOps
  /\ Len(slots[Len(slots)]) < SlotOps

LEMMA PlacesHavePositions ==
  ASSUME NEW a \in Nat \ {0}, NEW b \in 1 .. SlotOps
  PROVE  Position(a, b) \in Nat \ {0} /\ SlotOf(Position(a, b)) = a /\ IndexOf(Position(a, b)) = b
<1> DEFINE n == a - 1
           q == n * SlotOps
           r == b - 1
<1>1. SlotOps \in Nat \ {0} /\ n \in Nat /\ r \in 0 .. (SlotOps - 1)
  BY LimitsAssumption
<1>2. q \in Nat
  BY <1>1
<1>3. Position(a, b) = q + b /\ Position(a, b) - 1 = q + r
  BY <1>2 DEF Position
<1> DEFINE d == (q + r) \div SlotOps
           m == (q + r) % SlotOps
<1>4. d = n /\ m = r
  <2>1. d \in Nat /\ m \in 0 .. (SlotOps - 1) /\ q + r = d * SlotOps + m
    <3> HIDE DEF q, r, n
    <3> QED BY <1>1, <1>2
  <2>2. \A x, y \in Nat : x < y => x * SlotOps + SlotOps <= y * SlotOps
    <3>1. \A x, y \in Nat : x < y => (x + 1) * SlotOps <= y * SlotOps
      BY <1>1
    <3> QED BY <3>1, <1>1
  <2> HIDE DEF d, m, q, r, n
  <2>3. ~(d < n)
    <3>1. d < n => d * SlotOps + SlotOps <= q
      BY <2>1, <2>2, <1>1 DEF q
    <3> QED BY <3>1, <2>1, <1>1, <1>2
  <2>4. ~(n < d)
    <3>1. n < d => q + SlotOps <= d * SlotOps
      BY <2>1, <2>2, <1>1 DEF q
    <3> QED BY <3>1, <2>1, <1>1, <1>2
  <2>5. d = n
    BY <2>1, <2>3, <2>4, <1>1
  <2> QED BY <2>5, <2>1, <1>1, <1>2 DEF q
<1> HIDE DEF d, m, q
<1> QED BY <1>1, <1>2, <1>3, <1>4 DEF SlotOf, IndexOf, d, m

LEMMA PositionsHavePlaces ==
  ASSUME NEW p \in Nat \ {0}
  PROVE  SlotOf(p) \in Nat \ {0} /\ IndexOf(p) \in 1 .. SlotOps
         /\ p = Position(SlotOf(p), IndexOf(p))
<1> DEFINE q == (p - 1) \div SlotOps
           r == (p - 1) % SlotOps
<1>1. SlotOps \in Nat \ {0}
  BY LimitsAssumption
<1>2. q \in Nat /\ r \in 0 .. (SlotOps - 1) /\ p - 1 = q * SlotOps + r
  BY <1>1
<1>3. SlotOf(p) = q + 1 /\ IndexOf(p) = r + 1
  BY <1>2 DEF SlotOf, IndexOf
<1> HIDE DEF q, r
<1> QED BY <1>1, <1>2, <1>3 DEF Position

(* The larger the slot, the larger the position. *)
LEMMA PositionsGrow ==
  ASSUME NEW a \in Nat, NEW c \in Nat, a < c
  PROVE  (a - 1) * SlotOps + SlotOps <= (c - 1) * SlotOps /\ (c - 1) * SlotOps \in Int
         /\ (a - 1) * SlotOps \in Int
<1>1. SlotOps \in Nat \ {0}
  BY LimitsAssumption
<1>2. a - 1 + 1 <= c - 1 /\ a - 1 \in Int /\ c - 1 \in Int
  OBVIOUS
<1>3. \A x, y \in Int : x + 1 <= y => x * SlotOps + SlotOps <= y * SlotOps
  <2>1. \A x, y \in Int : x + 1 <= y => (x + 1) * SlotOps <= y * SlotOps
    BY <1>1
  <2> QED BY <2>1, <1>1
<1> QED BY <1>1, <1>2, <1>3

LEMMA FilledPlaces ==
  ASSUME NEW slots, WellFilled(slots)
  PROVE  /\ Len(slots) \in Nat \ {0}
         /\ \A k \in 1 .. Len(slots) : slots[k] \in Seq(ReadOp) /\ Len(slots[k]) \in 0 .. SlotOps
         /\ Written(slots) \in Nat
<1>1. Len(slots) \in Nat \ {0}
  BY LenProperties DEF WellFilled
<1>2. ASSUME NEW k \in 1 .. Len(slots)
      PROVE  slots[k] \in Seq(ReadOp) /\ Len(slots[k]) \in 0 .. SlotOps
  <2>1. slots[k] \in Seq(ReadOp)
    BY ElementOfSeq DEF WellFilled
  <2>2. Len(slots[k]) \in Nat
    BY <2>1, LenProperties
  <2>3. k \in 1 .. (Len(slots) - 1) \/ k = Len(slots)
    BY <1>1
  <2> QED BY <2>1, <2>2, <2>3, LimitsAssumption, SMTT(30) DEF WellFilled
<1>3. Written(slots) \in Nat
  <2>1. Len(slots) - 1 \in Nat /\ Len(slots[Len(slots)]) \in Nat /\ SlotOps \in Nat
    BY <1>1, <1>2, LimitsAssumption
  <2>2. \A x, y, z \in Nat : x * y + z \in Nat
    OBVIOUS
  <2> QED BY <2>1, <2>2 DEF Written, Position
<1> QED BY <1>1, <1>2, <1>3

LEMMA FilledPositions ==
  ASSUME NEW slots, WellFilled(slots)
  PROVE  /\ \A p \in 1 .. Written(slots) :
              /\ SlotOf(p) \in 1 .. Len(slots)
              /\ IndexOf(p) \in 1 .. Len(slots[SlotOf(p)])
              /\ OpAtPosition(slots, p) \in ReadOp
         /\ \A a \in 1 .. Len(slots) : \A b \in 1 .. Len(slots[a]) :
              /\ Position(a, b) \in 1 .. Written(slots)
              /\ OpAtPosition(slots, Position(a, b)) = slots[a][b]
<1> DEFINE N == Len(slots)
           L == Len(slots[N])
<1>1. /\ N \in Nat \ {0} /\ Written(slots) \in Nat /\ N \in 1 .. N
      /\ \A k \in 1 .. N : slots[k] \in Seq(ReadOp) /\ Len(slots[k]) \in 0 .. SlotOps
  BY FilledPlaces
<1>2. /\ SlotOps \in Nat \ {0} /\ L \in 0 .. (SlotOps - 1)
      /\ \A k \in 1 .. (N - 1) : Len(slots[k]) = SlotOps
  BY <1>1, LimitsAssumption, SMTT(30) DEF WellFilled
<1>3. Written(slots) = (N - 1) * SlotOps + L
  BY DEF Written, Position
<1> HIDE DEF N, L
<1>4. ASSUME NEW p \in 1 .. Written(slots)
      PROVE  /\ SlotOf(p) \in 1 .. N
             /\ IndexOf(p) \in 1 .. Len(slots[SlotOf(p)])
             /\ OpAtPosition(slots, p) \in ReadOp
  <2> DEFINE a == SlotOf(p)
             b == IndexOf(p)
  <2>0. p \in Nat \ {0}
    BY <1>1
  <2>1. a \in Nat \ {0} /\ b \in 1 .. SlotOps /\ p = (a - 1) * SlotOps + b
    BY <2>0, PositionsHavePlaces DEF Position
  <2> HIDE DEF a, b
  <2>2. a <= N
    <3> SUFFICES ASSUME N < a PROVE FALSE
      BY <2>1, <1>1
    <3>1. (N - 1) * SlotOps + SlotOps <= (a - 1) * SlotOps /\ (a - 1) * SlotOps \in Int
          /\ (N - 1) * SlotOps \in Int
      BY <2>1, <1>1, PositionsGrow
    <3> QED BY <3>1, <2>1, <1>1, <1>2, <1>3
  <2>3. b <= Len(slots[a])
    <3>1. CASE a = N
      <4>1. (N - 1) * SlotOps \in Int
        BY <1>1, <1>2
      <4> QED BY <4>1, <3>1, <2>1, <1>2, <1>3, <1>1 DEF L
    <3>2. CASE a # N
      BY <3>2, <2>1, <2>2, <1>2, <1>1
    <3> QED BY <3>1, <3>2
  <2>4. a \in 1 .. N /\ b \in 1 .. Len(slots[a])
    BY <2>1, <2>2, <2>3, <1>1
  <2>5. slots[a][b] \in ReadOp
    BY <2>4, <1>1, ElementOfSeq
  <2> QED BY <2>4, <2>5 DEF OpAtPosition, a, b
<1>5. ASSUME NEW a \in 1 .. N, NEW b \in 1 .. Len(slots[a])
      PROVE  /\ Position(a, b) \in 1 .. Written(slots)
             /\ OpAtPosition(slots, Position(a, b)) = slots[a][b]
  <2>0. Len(slots[a]) \in Nat /\ Len(slots[a]) <= SlotOps /\ SlotOps \in Nat
    BY <1>1, <1>2
  <2>1. a \in Nat \ {0} /\ b \in 1 .. SlotOps
    BY <1>1, <2>0
  <2>2. Position(a, b) \in Nat \ {0} /\ SlotOf(Position(a, b)) = a /\ IndexOf(Position(a, b)) = b
    BY <2>1, PlacesHavePositions
  <2>3. Position(a, b) <= Written(slots)
    <3>1. CASE a = N
      BY <3>1, <1>1, <1>2, <1>3 DEF Position, L
    <3>2. CASE a # N
      <4>1. a < N /\ a \in Nat /\ N \in Nat
        BY <3>2, <1>1
      <4>2. (a - 1) * SlotOps + SlotOps <= (N - 1) * SlotOps /\ (a - 1) * SlotOps \in Int
            /\ (N - 1) * SlotOps \in Int
        BY <4>1, PositionsGrow
      <4> QED BY <4>2, <2>1, <1>2, <1>3 DEF Position
    <3> QED BY <3>1, <3>2
  <2> QED BY <2>2, <2>3, <1>1 DEF OpAtPosition
<1> QED BY <1>4, <1>5, <1>1 DEF N

(* The slots after another op. *)
Grown(slots, op) ==
  LET last == Len(slots)
      slot == Append(slots[last], op)
      new == [slots EXCEPT ![last] = slot]
  IN  IF Len(slot) = SlotOps THEN Append(new, << >>) ELSE new

LEMMA GrownFacts ==
  ASSUME NEW slots, WellFilled(slots), NEW op \in ReadOp
  PROVE  LET new == Grown(slots, op) IN
           /\ WellFilled(new)
           /\ Written(new) = Written(slots) + 1
           /\ OpAtPosition(new, Written(slots) + 1) = op
           /\ \A p \in 1 .. Written(slots) : OpAtPosition(new, p) = OpAtPosition(slots, p)
           /\ Len(slots) <= Len(new)
           /\ \A a \in 1 .. Len(slots) : Len(slots[a]) <= Len(new[a])
           /\ Len(new[Len(slots)]) = Len(slots[Len(slots)]) + 1
<1> DEFINE N == Len(slots)
           L == Len(slots[N])
           slot == Append(slots[N], op)
           mid == [slots EXCEPT ![N] = slot]
           new == Grown(slots, op)
<1>1. /\ N \in Nat \ {0} /\ N \in 1 .. N
      /\ \A k \in 1 .. N : slots[k] \in Seq(ReadOp) /\ Len(slots[k]) \in 0 .. SlotOps
  BY FilledPlaces
<1>2. /\ SlotOps \in Nat \ {0} /\ L \in 0 .. (SlotOps - 1) /\ slots \in Seq(Seq(ReadOp))
      /\ \A k \in 1 .. (N - 1) : Len(slots[k]) = SlotOps
  BY <1>1, LimitsAssumption, SMTT(30) DEF WellFilled
<1>3. /\ slot \in Seq(ReadOp) /\ Len(slot) = L + 1 /\ slot[L + 1] = op
      /\ \A b \in 1 .. L : slot[b] = slots[N][b]
  BY <1>1, AppendProperties
<1>4. /\ mid \in Seq(Seq(ReadOp)) /\ Len(mid) = N /\ mid[N] = slot
      /\ \A k \in 1 .. N : k # N => mid[k] = slots[k]
  <2> HIDE DEF slot
  <2> QED BY <1>1, <1>2, <1>3, ExceptSeq
<1>5. new = IF Len(slot) = SlotOps THEN Append(mid, << >>) ELSE mid
  BY DEF Grown
<1> HIDE DEF new, mid, slot, N, L
<1>6. << >> \in Seq(ReadOp) /\ Len(<< >>) = 0
  BY EmptySeq
<1> DEFINE Fits == /\ WellFilled(new) /\ Written(new) = Written(slots) + 1
                  /\ N <= Len(new) /\ new[N] = slot
                  /\ \A k \in 1 .. (N - 1) : new[k] = slots[k]
<1>7. Written(slots) = (N - 1) * SlotOps + L
  BY DEF Written, Position, N, L
<1>8. ASSUME L + 1 = SlotOps PROVE Fits
  <2>1. new = Append(mid, << >>)
    BY <1>5, <1>3, <1>8
  <2>2. /\ new \in Seq(Seq(ReadOp)) /\ Len(new) = N + 1 /\ new[N + 1] = << >>
        /\ \A k \in 1 .. N : new[k] = mid[k]
    BY <2>1, <1>4, <1>6, AppendProperties
  <2>3. new[N] = slot /\ \A k \in 1 .. (N - 1) : new[k] = slots[k]
    BY <2>2, <1>4, <1>1, SMTT(30)
  <2>4. WellFilled(new)
    <3>1. ASSUME NEW k \in 1 .. (Len(new) - 1) PROVE Len(new[k]) = SlotOps
      <4>1. k \in 1 .. (N - 1) \/ k = N
        BY <2>2, <1>1
      <4> QED BY <4>1, <2>3, <1>2, <1>3, <1>8
    <3>2. Len(new) >= 1 /\ Len(new[Len(new)]) < SlotOps
      BY <2>2, <1>1, <1>2, <1>6
    <3> QED BY <3>1, <3>2, <2>2 DEF WellFilled
  <2>5. Written(new) = Written(slots) + 1
    <3>1. /\ N - 1 \in Nat /\ ((N + 1) - 1) * SlotOps = (N - 1) * SlotOps + SlotOps
          /\ (N - 1) * SlotOps \in Nat
      <4>1. \A x, y \in Nat : (x + 1) * y = x * y + y /\ x * y \in Nat
        OBVIOUS
      <4>2. N - 1 \in Nat /\ (N - 1) + 1 = (N + 1) - 1 /\ SlotOps \in Nat
        BY <1>1, <1>2
      <4> QED BY <4>1, <4>2
    <3>2. Written(new) = ((N + 1) - 1) * SlotOps + 0
      BY <2>2, <1>6 DEF Written, Position
    <3> DEFINE q == (N - 1) * SlotOps
               r == ((N + 1) - 1) * SlotOps
    <3>3. q \in Nat /\ r = q + SlotOps /\ Written(new) = r + 0 /\ Written(slots) = q + L
      BY <3>1, <3>2, <1>7
    <3> HIDE DEF q, r
    <3> QED BY <3>3, <1>2, <1>8
  <2> QED BY <2>2, <2>3, <2>4, <2>5, <1>1
<1>9. ASSUME L + 1 # SlotOps PROVE Fits
  <2>1. new = mid
    BY <1>5, <1>3, <1>9
  <2>2. \A k \in 1 .. (N - 1) : new[k] = slots[k]
    BY <2>1, <1>4, <1>1
  <2>3. WellFilled(new)
    <3>1. new \in Seq(Seq(ReadOp)) /\ Len(new) = N /\ new[N] = slot
      BY <2>1, <1>4
    <3>2. ASSUME NEW k \in 1 .. (Len(new) - 1) PROVE Len(new[k]) = SlotOps
      <4>1. k \in 1 .. (N - 1)
        BY <3>1
      <4> QED BY <4>1, <2>2, <1>2
    <3>3. Len(new) >= 1
      BY <3>1, <1>1
    <3>4. Len(new[Len(new)]) < SlotOps
      <4>1. L + 1 < SlotOps
        BY <1>2, <1>9
      <4> QED BY <4>1, <3>1, <1>3
    <3> QED BY <3>1, <3>2, <3>3, <3>4 DEF WellFilled
  <2>4. Written(new) = Written(slots) + 1
    <3>1. Written(new) = (N - 1) * SlotOps + (L + 1)
      BY <2>1, <1>3, <1>4 DEF Written, Position
    <3>2. (N - 1) * SlotOps \in Int
      BY <1>1, <1>2
    <3> QED BY <3>1, <3>2, <1>7, <1>2
  <2> QED BY <2>1, <2>2, <2>3, <2>4, <1>1, <1>4
<1>10. Fits
  BY <1>8, <1>9
<1>11. ASSUME NEW p \in 1 .. Written(slots) PROVE OpAtPosition(new, p) = OpAtPosition(slots, p)
  <2> DEFINE a == SlotOf(p)
             b == IndexOf(p)
  <2>1. a \in 1 .. N /\ b \in 1 .. Len(slots[a])
    BY FilledPositions DEF N
  <2> HIDE DEF a, b
  <2>2. CASE a = N
    <3>1. b \in 1 .. L
      BY <2>1, <2>2 DEF L
    <3> QED BY <3>1, <2>2, <1>3, <1>10 DEF OpAtPosition, a, b
  <2>3. CASE a # N
    <3>1. a \in 1 .. (N - 1)
      BY <2>1, <2>3, <1>1
    <3> QED BY <3>1, <1>10 DEF OpAtPosition, a, b
  <2> QED BY <2>2, <2>3
<1>12. OpAtPosition(new, Written(slots) + 1) = op
  <2>1. L + 1 \in 1 .. SlotOps
    BY <1>2
  <2>2. Position(N, L + 1) = Written(slots) + 1
    <3>1. (N - 1) * SlotOps \in Int
      BY <1>1, <1>2
    <3> QED BY <3>1, <1>7, <1>2 DEF Position
  <2>3. SlotOf(Written(slots) + 1) = N /\ IndexOf(Written(slots) + 1) = L + 1
    BY <2>1, <2>2, <1>1, PlacesHavePositions
  <2> QED BY <2>3, <1>3, <1>10 DEF OpAtPosition
<1>13. ASSUME NEW a \in 1 .. N PROVE Len(slots[a]) <= Len(new[a])
  <2>1. CASE a = N
    BY <2>1, <1>2, <1>3, <1>10 DEF L
  <2>2. CASE a # N
    <3>1. a \in 1 .. (N - 1)
      BY <2>2, <1>1
    <3> QED BY <3>1, <1>1, <1>10
  <2> QED BY <2>1, <2>2
<1>14. Len(new[N]) = L + 1
  BY <1>3, <1>10
<1> QED BY <1>10, <1>11, <1>12, <1>13, <1>14 DEF new, N, L

(* The slots with another op in place of one. *)
WithOp(slots, a, b, op) == [slots EXCEPT ![a] = [slots[a] EXCEPT ![b] = op]]

LEMMA ReplacedFacts ==
  ASSUME NEW slots, WellFilled(slots), NEW a \in 1 .. Len(slots), NEW b \in 1 .. Len(slots[a]),
         NEW op \in ReadOp
  PROVE  LET new == WithOp(slots, a, b, op) IN
           /\ WellFilled(new)
           /\ Written(new) = Written(slots)
           /\ OpAtPosition(new, Position(a, b)) = op
           /\ \A p \in 1 .. Written(slots) :
                p # Position(a, b) => OpAtPosition(new, p) = OpAtPosition(slots, p)
           /\ Len(new) = Len(slots)
           /\ \A c \in 1 .. Len(slots) : Len(new[c]) = Len(slots[c])
<1> DEFINE N == Len(slots)
           slot == [slots[a] EXCEPT ![b] = op]
           new == [slots EXCEPT ![a] = slot]
<1>1. /\ N \in Nat \ {0} /\ N \in 1 .. N
      /\ \A k \in 1 .. N : slots[k] \in Seq(ReadOp) /\ Len(slots[k]) \in 0 .. SlotOps
  BY FilledPlaces
<1>2. slot \in Seq(ReadOp) /\ Len(slot) = Len(slots[a]) /\ slot[b] = op
      /\ \A k \in 1 .. Len(slots[a]) : k # b => slot[k] = slots[a][k]
  BY <1>1, ExceptSeq
<1> HIDE DEF slot
<1>3. /\ new \in Seq(Seq(ReadOp)) /\ Len(new) = N /\ new[a] = slot
      /\ \A k \in 1 .. N : k # a => new[k] = slots[k]
  BY <1>1, <1>2, ExceptSeq DEF WellFilled
<1> HIDE DEF new
<1>4. \A c \in 1 .. N : Len(new[c]) = Len(slots[c])
  BY <1>2, <1>3
<1>5. WellFilled(new)
  <2>1. \A k \in 1 .. (N - 1) : k \in 1 .. N
    BY <1>1
  <2> QED BY <2>1, <1>1, <1>3, <1>4 DEF WellFilled
<1>6. Written(new) = Written(slots)
  BY <1>1, <1>3, <1>4 DEF Written
<1>7. ASSUME NEW p \in 1 .. Written(slots), p # Position(a, b)
      PROVE  OpAtPosition(new, p) = OpAtPosition(slots, p)
  <2> DEFINE c == SlotOf(p)
             d == IndexOf(p)
  <2>1. c \in 1 .. N /\ d \in 1 .. Len(slots[c])
    BY FilledPositions
  <2>2. p \in Nat \ {0}
    BY FilledPlaces
  <2>3. p = Position(c, d)
    BY <2>2, PositionsHavePlaces
  <2> HIDE DEF c, d
  <2>4. new[c][d] = slots[c][d]
    BY <2>1, <2>3, <1>2, <1>3, <1>7
  <2> QED BY <2>4 DEF OpAtPosition, c, d
<1>8. OpAtPosition(new, Position(a, b)) = op
  <2>1. SlotOf(Position(a, b)) = a /\ IndexOf(Position(a, b)) = b
    <3>1. Len(slots[a]) \in Nat /\ Len(slots[a]) <= SlotOps /\ SlotOps \in Nat
      BY <1>1, LimitsAssumption
    <3>2. a \in Nat \ {0} /\ b \in 1 .. SlotOps
      BY <3>1, <1>1
    <3> QED BY <3>2, PlacesHavePositions
  <2> QED BY <2>1, <1>2, <1>3 DEF OpAtPosition
<1> QED BY <1>3, <1>4, <1>5, <1>6, <1>7, <1>8 DEF new, slot, WithOp

(* A place is none, or one of a slot: behind the ops of the slot up to it. *)
PlaceIn(slots, place) ==
  /\ place \in Place
  /\ \/ place = NoPlace
     \/ place[1] \in 1 .. Len(slots) /\ place[2] \in 0 .. Len(slots[place[1]])

PositionOf(place) == Position(place[1], place[2])

LEMMA OpBeforeFacts ==
  ASSUME NEW slots, WellFilled(slots), NEW head, PlaceIn(slots, head), NEW j \in Nat \ {0}
  PROVE  LET place == OpBefore(head, j) IN
           /\ place[1] \in Int /\ place[2] \in Nat
           /\ place[1] > 0 => place[1] \in 1 .. Len(slots) /\ place[2] \in 1 .. Len(slots[place[1]])
           /\ head = NoPlace => place[1] <= 0
           /\ head # NoPlace /\ j <= PositionOf(head) =>
                place[1] > 0 /\ PositionOf(place) = PositionOf(head) - j + 1
<1> DEFINE a == head[1]
           b == head[2]
           N == Len(slots)
           place == OpBefore(head, j)
<1>1. /\ N \in Nat \ {0} /\ SlotOps \in Nat \ {0}
      /\ \A k \in 1 .. N : slots[k] \in Seq(ReadOp) /\ Len(slots[k]) \in 0 .. SlotOps
      /\ \A k \in 1 .. (N - 1) : Len(slots[k]) = SlotOps
  BY FilledPlaces, LimitsAssumption DEF WellFilled
<1>2. /\ a \in 0 .. N /\ b \in Nat
      /\ head = NoPlace => a = 0 /\ b = 0
      /\ head # NoPlace => a \in 1 .. N /\ b \in 0 .. Len(slots[a])
  BY <1>1 DEF PlaceIn, Place, NoPlace
<1>3. PositionOf(head) = (a - 1) * SlotOps + b
  BY DEF PositionOf, Position
<1> HIDE DEF a, b, N
<1>4. CASE j <= b
  <2>1. place = <<a, b - j + 1>>
    BY <1>4 DEF OpBefore, a, b
  <2>2. head # NoPlace
    BY <1>2, <1>4
  <2>3. b - j + 1 \in 1 .. b /\ a \in 1 .. N /\ b \in 0 .. Len(slots[a]) /\ Len(slots[a]) \in Nat
    BY <2>2, <1>1, <1>2, <1>4
  <2>4. place[1] = a /\ place[2] = b - j + 1
    BY <2>1
  <2> HIDE DEF place
  <2>5. PositionOf(place) = PositionOf(head) - j + 1
    <3>1. (a - 1) * SlotOps \in Int
      BY <1>1, <1>2
    <3> QED BY <3>1, <2>4, <1>3, <1>2 DEF PositionOf, Position
  <2>6. b - j + 1 \in 1 .. Len(slots[a])
    BY <2>3
  <2> QED BY <2>2, <2>3, <2>4, <2>5, <2>6 DEF N, place
<1>5. CASE ~(j <= b)
  <2> DEFINE k == j - b - 1
             d == k \div SlotOps
             m == k % SlotOps
  <2>1. place = <<a - 1 - d, SlotOps - m>>
    BY <1>5 DEF OpBefore, a, b
  <2>2. k \in Nat
    BY <1>2, <1>5
  <2>3. d \in Nat /\ m \in 0 .. (SlotOps - 1) /\ k = d * SlotOps + m
    <3> HIDE DEF k
    <3> QED BY <2>2, <1>1
  <2>4. place[1] = a - 1 - d /\ place[2] = SlotOps - m
    BY <2>1
  <2> HIDE DEF place, d, m
  <2>5. a - 1 - d \in Int /\ SlotOps - m \in 1 .. SlotOps /\ a - 1 - d <= a - 1
    BY <2>3, <1>1, <1>2
  <2>6. a - 1 - d > 0 => place[1] \in 1 .. N /\ place[2] \in 1 .. Len(slots[place[1]])
    <3> SUFFICES ASSUME a - 1 - d > 0
                 PROVE  place[1] \in 1 .. N /\ place[2] \in 1 .. Len(slots[place[1]])
      OBVIOUS
    <3>1. place[1] \in 1 .. (N - 1)
      BY <2>4, <2>5, <1>1, <1>2
    <3> QED BY <3>1, <2>4, <2>5, <1>1
  <2>7. head = NoPlace => a - 1 - d <= 0
    BY <2>3, <1>2
  <2>8. ASSUME head # NoPlace, j <= PositionOf(head)
        PROVE  a - 1 - d > 0 /\ PositionOf(place) = PositionOf(head) - j + 1
    <3> DEFINE q == (a - 1) * SlotOps
               e == d * SlotOps
    <3>1. q \in Int /\ e \in Int /\ a - 1 \in Int
      BY <1>1, <1>2, <2>3
    <3>2. (a - 1 - d - 1) * SlotOps = q - e - SlotOps
      <4>1. \A x, y, z \in Int : (x - y - 1) * z = x * z - y * z - z
        OBVIOUS
      <4> QED BY <4>1, <1>1, <1>2, <2>3
    <3>3. PositionOf(head) = q + b /\ PositionOf(place) = (a - 1 - d - 1) * SlotOps + (SlotOps - m)
      BY <1>3, <2>4 DEF PositionOf, Position
    <3>4. e < q
      <4> HIDE DEF q, e
      <4> QED BY <3>1, <3>3, <2>3, <2>8, <1>1, <1>2 DEF k, e
    <3>5. a - 1 - d > 0
      <4>1. \A x, y \in Int : \A z \in Nat : x * z < y * z => x < y
        <5>1. \A x, y \in Int : \A z \in Nat : y <= x => y * z <= x * z
          OBVIOUS
        <5>2. \A x, y \in Int : \A z \in Nat : x * z \in Int /\ y * z \in Int
          OBVIOUS
        <5> QED BY <5>1, <5>2
      <4>2. d < a - 1
        BY <4>1, <3>4, <1>1, <1>2, <2>3
      <4> QED BY <4>2, <1>2, <2>3
    <3>6. PositionOf(place) = q - e - SlotOps + (SlotOps - m)
      BY <3>2, <3>3
    <3>7. PositionOf(place) = PositionOf(head) - j + 1
      <4>1. k = e + m
        BY <2>3
      <4> HIDE DEF q, e
      <4> QED BY <4>1, <3>1, <3>3, <3>6, <2>3, <1>1, <1>2 DEF k
    <3> QED BY <3>5, <3>7
  <2> QED BY <2>4, <2>5, <2>6, <2>7, <2>8 DEF N, place
<1> QED BY <1>4, <1>5

-----------------------------------------------------------------------------
(* What the functions of the parse state do to it. *)

(* The fields that only whole lines, sources and names change. *)
KeepsBuilt(s, t) ==
  /\ t.sources = s.sources
  /\ t.constants = s.constants
  /\ t.subParsers = s.subParsers
  /\ t.stackNames = s.stackNames

KeepsBlooms(s, t) ==
  t.stackNameBloom = s.stackNameBloom /\ t.constantsBloom = s.constantsBloom

(* The fields of a state apart from its error. *)
KeepsAll(s, t) ==
  /\ KeepsBuilt(s, t)
  /\ KeepsBlooms(s, t)
  /\ t.slots = s.slots
  /\ t.topLevel = s.topLevel
  /\ t.parens = s.parens
  /\ t.line = s.line
  /\ t.fsm = s.fsm
  /\ t.stackTracker = s.stackTracker

Shape(s) ==
  /\ s \in StateType
  /\ WellFilled(s.slots)
  /\ \A i \in 1 .. (LineItemsMax + 2) : PlaceIn(s.slots, s.line.heads[i])

LEMMA RevertKeeps ==
  ASSUME NEW s \in StateType, NEW e \in Errors
  PROVE  /\ Revert(s, e) \in StateType /\ KeepsAll(s, Revert(s, e))
         /\ Failed(Revert(s, e)) /\ Revert(s, e).error = e
<1>1. e # "none"
  BY DEF Errors
<1> QED BY <1>1 DEF Revert, StateType, KeepsAll, KeepsBuilt, KeepsBlooms, Failed

LEMMA ErrorsFacts ==
  /\ {"LineRHSItemsOverflow", "WildAccess", "SourceItemOpsOverflow", "ParenInputOverflow",
      "ParseStackOverflow", "ParseStackUnderflow", "ParenOverflow", "NotAcceptingInputs",
      "ExcessRHSItems", "ExcessLHSItems", "OpcodeIOOverflow", "UnclosedLeftParen", "MaxSources",
      "SourceTotalOpsOverflow", "DanglingSource"} \subseteq Errors
  /\ "none" \notin Errors
  BY DEF Errors

LEMMA SourceHeadFacts ==
  ASSUME NEW s, Shape(s)
  PROVE  /\ SourceHead(s) = <<Len(s.slots), Len(s.slots[Len(s.slots)])>>
         /\ PlaceIn(s.slots, SourceHead(s)) /\ SourceHead(s) # NoPlace
         /\ PositionOf(SourceHead(s)) = Written(s.slots)
<1>1. SourceHead(s) = <<Len(s.slots), Len(s.slots[Len(s.slots)])>>
  BY DEF SourceHead, Last
<1>2. /\ Len(s.slots) \in Nat \ {0}
      /\ \A k \in 1 .. Len(s.slots) : s.slots[k] \in Seq(ReadOp) /\ Len(s.slots[k]) \in 0 .. SlotOps
  BY FilledPlaces DEF Shape
<1> QED BY <1>1, <1>2, LimitsAssumption, SMTT(30) DEF PlaceIn, Place, NoPlace, PositionOf, Written

LEMMA SnapshotFacts ==
  ASSUME NEW s, Shape(s)
  PROVE  LET t == SnapshotSourceHead(s)
             item == s.topLevel.count - s.line.start + 1
         IN  /\ Shape(t) /\ KeepsBuilt(s, t) /\ KeepsBlooms(s, t)
             /\ t.slots = s.slots /\ t.topLevel = s.topLevel /\ t.parens = s.parens
             /\ t.fsm = s.fsm /\ t.stackTracker = s.stackTracker
             /\ t.line.lhs = s.line.lhs /\ t.line.start = s.line.start
             /\ ~Failed(t) =>
                  /\ s.topLevel.count <= TopLevelMax
                  /\ Counter(s, s.topLevel.count + 1) # 0 => t.line.heads = s.line.heads
                  /\ Counter(s, s.topLevel.count + 1) = 0 =>
                       /\ item <= LineItemsMax + 1
                       /\ t.line.heads = [s.line.heads EXCEPT ![item] = SourceHead(s)]
<1> DEFINE t == SnapshotSourceHead(s)
           item == s.topLevel.count - s.line.start + 1
           taken == [s EXCEPT !.line.heads[item] = SourceHead(s)]
           heads == [s.line.heads EXCEPT ![item] = SourceHead(s)]
<1>1. s \in StateType /\ PlaceIn(s.slots, SourceHead(s)) /\ SourceHead(s) \in Place
  BY SourceHeadFacts DEF Shape, PlaceIn
<1>2. s.line.heads \in [1 .. (LineItemsMax + 2) -> Place] /\ s.topLevel.count \in Nat
  BY <1>1 DEF StateType, LineType, TopLevelType
<1>3. heads \in [1 .. (LineItemsMax + 2) -> Place]
  BY <1>1, <1>2
<1>4. taken = [s EXCEPT !.line = [s.line EXCEPT !.heads = heads]]
  OBVIOUS
<1> HIDE DEF heads, taken
<1>5. /\ taken \in StateType /\ KeepsBuilt(s, taken) /\ KeepsBlooms(s, taken)
      /\ taken.slots = s.slots /\ taken.topLevel = s.topLevel /\ taken.parens = s.parens
      /\ taken.fsm = s.fsm /\ taken.stackTracker = s.stackTracker /\ taken.error = s.error
      /\ taken.line.lhs = s.line.lhs /\ taken.line.start = s.line.start
      /\ taken.line.heads = heads
  BY <1>1, <1>3, <1>4 DEF StateType, LineType, KeepsBuilt, KeepsBlooms
<1>6. Shape(taken)
  <2>1. \A i \in 1 .. (LineItemsMax + 2) : heads[i] = s.line.heads[i] \/ heads[i] = SourceHead(s)
    BY <1>2 DEF heads
  <2> QED BY <2>1, <1>1, <1>5 DEF Shape
<1>7. CASE s.topLevel.count > TopLevelMax
  <2>1. t = Revert(s, "WildAccess")
    BY <1>7 DEF SnapshotSourceHead, WildAccess
  <2>2. t \in StateType /\ KeepsAll(s, t) /\ Failed(t)
    BY <2>1, <1>1, RevertKeeps, ErrorsFacts
  <2> QED BY <2>2 DEF KeepsAll, Shape
<1>8. CASE ~(s.topLevel.count > TopLevelMax) /\ Counter(s, s.topLevel.count + 1) # 0
  <2>1. t = s
    BY <1>8 DEF SnapshotSourceHead
  <2> QED BY <2>1, <1>8, <1>2, LimitsAssumption DEF KeepsBuilt, KeepsBlooms
<1>9. CASE /\ ~(s.topLevel.count > TopLevelMax) /\ Counter(s, s.topLevel.count + 1) = 0
           /\ item > LineItemsMax + 1
  <2>1. t = Revert(s, "LineRHSItemsOverflow")
    BY <1>9 DEF SnapshotSourceHead
  <2>2. t \in StateType /\ KeepsAll(s, t) /\ Failed(t)
    BY <2>1, <1>1, RevertKeeps, ErrorsFacts
  <2> QED BY <2>2 DEF KeepsAll, Shape
<1>10. CASE /\ ~(s.topLevel.count > TopLevelMax) /\ Counter(s, s.topLevel.count + 1) = 0
            /\ ~(item > LineItemsMax + 1)
  <2>1. t = taken
    BY <1>10 DEF SnapshotSourceHead, taken
  <2>2. s.topLevel.count <= TopLevelMax /\ item <= LineItemsMax + 1
    <3>1. s.line.start \in Nat
      BY <1>1 DEF StateType, LineType
    <3> QED BY <3>1, <1>10, <1>2, LimitsAssumption, SMTT(30)
  <2> HIDE DEF t, item
  <2>3. t.line.heads = [s.line.heads EXCEPT ![item] = SourceHead(s)]
    BY <2>1, <1>5 DEF heads, item
  <2> QED BY <2>1, <2>2, <2>3, <1>5, <1>6, <1>10 DEF t, item
<1> QED BY <1>7, <1>8, <1>9, <1>10

LEMMA CountOpFacts ==
  ASSUME NEW s, Shape(s)
  PROVE  LET t == CountOp(s)
             i == s.topLevel.count + 1
         IN  /\ Shape(t) /\ KeepsBuilt(s, t) /\ KeepsBlooms(s, t)
             /\ t.slots = s.slots /\ t.parens = s.parens /\ t.line = s.line
             /\ t.fsm = s.fsm /\ t.stackTracker = s.stackTracker
             /\ t.topLevel.count = s.topLevel.count
             /\ ~Failed(t) =>
                  /\ i <= TopLevelMax =>
                       /\ t.topLevel.words = [s.topLevel.words EXCEPT ![i] = @ + 1]
                       /\ t.topLevel.lhs = s.topLevel.lhs
                  /\ i > TopLevelMax =>
                       /\ t.topLevel.words = s.topLevel.words
                       /\ t.topLevel.lhs = s.topLevel.lhs + 1
<1> DEFINE t == CountOp(s)
           i == s.topLevel.count + 1
           words == [s.topLevel.words EXCEPT ![i] = @ + 1]
           inWords == [s EXCEPT !.topLevel.words[i] = @ + 1]
           inLHS == [s EXCEPT !.topLevel.lhs = @ + 1]
<1>1. s \in StateType /\ TopLevelMax \in Nat /\ ByteMax \in Nat
  BY LimitsAssumption DEF Shape
<1>2. /\ s.topLevel.words \in [1 .. TopLevelMax -> Byte] /\ s.topLevel.count \in Nat
      /\ s.topLevel.lhs \in Byte
  BY <1>1 DEF StateType, TopLevelType
<1>3. i \in Nat /\ i >= 1
  BY <1>2
<1>4. inWords = [s EXCEPT !.topLevel = [s.topLevel EXCEPT !.words = words]]
  OBVIOUS
<1>5. CASE Counter(s, i) = ByteMax
  <2>1. t = Revert(s, "SourceItemOpsOverflow")
    BY <1>5 DEF CountOp
  <2>2. t \in StateType /\ KeepsAll(s, t) /\ Failed(t)
    BY <2>1, <1>1, RevertKeeps, ErrorsFacts
  <2> QED BY <2>2 DEF KeepsAll, Shape
<1>6. CASE Counter(s, i) # ByteMax /\ i <= TopLevelMax
  <2>1. t = inWords
    BY <1>6 DEF CountOp
  <2>2. words \in [1 .. TopLevelMax -> Byte]
    <3>1. i \in 1 .. TopLevelMax /\ s.topLevel.words[i] # ByteMax
      BY <1>3, <1>6 DEF Counter
    <3>2. s.topLevel.words[i] \in Byte
      BY <3>1, <1>2
    <3>3. s.topLevel.words[i] + 1 \in Byte
      BY <3>1, <3>2, <1>1 DEF Byte
    <3> QED BY <3>3, <1>2
  <2> HIDE DEF t, words, inWords
  <2>3. /\ t \in StateType /\ KeepsBuilt(s, t) /\ KeepsBlooms(s, t)
        /\ t.slots = s.slots /\ t.parens = s.parens /\ t.line = s.line
        /\ t.fsm = s.fsm /\ t.stackTracker = s.stackTracker
        /\ t.topLevel.count = s.topLevel.count /\ t.topLevel.lhs = s.topLevel.lhs
        /\ t.topLevel.words = words
    BY <2>1, <2>2, <1>1, <1>4 DEF StateType, TopLevelType, KeepsBuilt, KeepsBlooms
  <2>4. ~(i > TopLevelMax)
    BY <1>6, <1>1, <1>3
  <2> QED BY <2>3, <2>4 DEF Shape, t, words
<1>7. CASE Counter(s, i) # ByteMax /\ ~(i <= TopLevelMax)
  <2>1. t = inLHS
    BY <1>7 DEF CountOp
  <2>2. s.topLevel.lhs + 1 \in Byte
    <3>1. s.topLevel.lhs # ByteMax
      BY <1>7 DEF Counter
    <3> QED BY <3>1, <1>1, <1>2 DEF Byte
  <2> HIDE DEF t
  <2>3. /\ t \in StateType /\ KeepsBuilt(s, t) /\ KeepsBlooms(s, t)
        /\ t.slots = s.slots /\ t.parens = s.parens /\ t.line = s.line
        /\ t.fsm = s.fsm /\ t.stackTracker = s.stackTracker
        /\ t.topLevel.count = s.topLevel.count /\ t.topLevel.lhs = s.topLevel.lhs + 1
        /\ t.topLevel.words = s.topLevel.words
    BY <2>1, <2>2, <1>1 DEF StateType, TopLevelType, KeepsBuilt, KeepsBlooms
  <2> QED BY <2>3, <1>7 DEF Shape, t
<1> QED BY <1>5, <1>6, <1>7

(* The groups after an op at depth d, which is written to the given place. *)
Grouped(groups, d, place) ==
  [groups EXCEPT ![d].inputs = @ + 1, ![d + 1] = [inputs |-> 0, op |-> place]]

NextPlace(s) == <<Len(s.slots), Len(s.slots[Len(s.slots)]) + 1>>

LEMMA CountInputFacts ==
  ASSUME NEW s, Shape(s)
  PROVE  LET t == CountInput(s)
             d == s.parens.depth
         IN  /\ Shape(t) /\ KeepsBuilt(s, t) /\ KeepsBlooms(s, t)
             /\ t.slots = s.slots /\ t.topLevel = s.topLevel /\ t.line = s.line
             /\ t.fsm = s.fsm /\ t.stackTracker = s.stackTracker
             /\ t.parens.depth = d
             /\ ~Failed(t) => t.parens.groups = Grouped(s.parens.groups, d, NextPlace(s))
<1> DEFINE t == CountInput(s)
           d == s.parens.depth
           place == NextPlace(s)
           groups == Grouped(s.parens.groups, d, place)
<1>1. s \in StateType /\ ParensMax \in Nat /\ ByteMax \in Nat
  BY LimitsAssumption DEF Shape
<1>2. s.parens.groups \in [0 .. (ParensMax + 1) -> GroupType] /\ d \in 0 .. ParensMax
  BY <1>1 DEF StateType, ParensType
<1>3. place \in Place
  <2>1. SourceHead(s) = <<Len(s.slots), Len(s.slots[Len(s.slots)])>> /\ SourceHead(s) \in Place
    BY SourceHeadFacts DEF PlaceIn
  <2>2. Len(s.slots) \in Nat /\ Len(s.slots[Len(s.slots)]) \in Nat
    BY <2>1 DEF Place
  <2> QED BY <2>2 DEF NextPlace, Place
<1>4. CASE s.parens.groups[d].inputs = ByteMax
  <2>1. t = Revert(s, "ParenInputOverflow")
    BY <1>4 DEF CountInput
  <2>2. t \in StateType /\ KeepsAll(s, t) /\ Failed(t)
    BY <2>1, <1>1, RevertKeeps, ErrorsFacts
  <2> QED BY <2>2 DEF KeepsAll, Shape
<1>5. CASE s.parens.groups[d].inputs # ByteMax
  <2>1. t = [s EXCEPT !.parens = [s.parens EXCEPT !.groups = groups]]
    BY <1>5 DEF CountInput, Grouped, NextPlace, Last
  <2>2. groups \in [0 .. (ParensMax + 1) -> GroupType]
    <3>1. d \in 0 .. (ParensMax + 1) /\ d + 1 \in 0 .. (ParensMax + 1)
      BY <1>1, <1>2
    <3>2. s.parens.groups[d] \in GroupType /\ s.parens.groups[d].inputs \in Byte
      BY <3>1, <1>2 DEF GroupType
    <3>3. s.parens.groups[d].inputs + 1 \in Byte /\ 0 \in Byte
      BY <3>2, <1>5, <1>1 DEF Byte
    <3>4. [s.parens.groups[d] EXCEPT !.inputs = @ + 1] \in GroupType
      BY <3>2, <3>3 DEF GroupType
    <3>5. [inputs |-> 0, op |-> place] \in GroupType
      BY <3>3, <1>3 DEF GroupType
    <3> HIDE DEF d, place
    <3> QED BY <3>1, <3>4, <3>5, <1>2 DEF Grouped
  <2> HIDE DEF t, groups
  <2>3. /\ t \in StateType /\ KeepsBuilt(s, t) /\ KeepsBlooms(s, t)
        /\ t.slots = s.slots /\ t.topLevel = s.topLevel /\ t.line = s.line
        /\ t.fsm = s.fsm /\ t.stackTracker = s.stackTracker
        /\ t.parens.depth = d /\ t.parens.groups = groups
    BY <2>1, <2>2, <1>1 DEF StateType, ParensType, KeepsBuilt, KeepsBlooms
  <2> QED BY <2>3 DEF Shape, t, groups
<1> QED BY <1>4, <1>5

(* Places stay in slots that grow. *)
LEMMA PlacesStay ==
  ASSUME NEW slots, WellFilled(slots), NEW new, WellFilled(new),
         Len(slots) <= Len(new), \A a \in 1 .. Len(slots) : Len(slots[a]) <= Len(new[a]),
         NEW place, PlaceIn(slots, place)
  PROVE  PlaceIn(new, place)
<1>1. /\ Len(slots) \in Nat /\ Len(new) \in Nat
      /\ \A k \in 1 .. Len(slots) : Len(slots[k]) \in Nat
      /\ \A k \in 1 .. Len(new) : Len(new[k]) \in Nat
  BY FilledPlaces, LimitsAssumption
<1>2. CASE place = NoPlace
  BY <1>2 DEF PlaceIn
<1>3. CASE place # NoPlace
  <2> DEFINE a == place[1]
             b == place[2]
  <2>1. place \in Place /\ a \in 1 .. Len(slots) /\ b \in 0 .. Len(slots[a])
    BY <1>3 DEF PlaceIn
  <2> HIDE DEF a, b
  <2>2. a \in 1 .. Len(new) /\ Len(slots[a]) <= Len(new[a])
    BY <2>1, <1>1
  <2>3. b \in 0 .. Len(new[a])
    BY <2>1, <2>2, <1>1
  <2> QED BY <2>1, <2>2, <2>3 DEF PlaceIn, a, b
<1> QED BY <1>2, <1>3

LEMMA WriteOpFacts ==
  ASSUME NEW s, Shape(s), NEW op \in ReadOp
  PROVE  LET t == WriteOp(s, op) IN
           /\ Shape(t) /\ KeepsBuilt(s, t) /\ KeepsBlooms(s, t)
           /\ t.slots = Grown(s.slots, op) /\ t.topLevel = s.topLevel /\ t.line = s.line
           /\ t.fsm = s.fsm /\ t.stackTracker = s.stackTracker /\ t.parens = s.parens
           /\ t.error = s.error
<1> DEFINE t == WriteOp(s, op)
           new == Grown(s.slots, op)
<1>1. s \in StateType /\ WellFilled(s.slots)
  BY DEF Shape
<1>2. /\ WellFilled(new) /\ Len(s.slots) <= Len(new)
      /\ \A a \in 1 .. Len(s.slots) : Len(s.slots[a]) <= Len(new[a])
  BY <1>1, GrownFacts
<1>3. t = [s EXCEPT !.slots = new]
  BY DEF WriteOp, Grown
<1> HIDE DEF t, new
<1>4. /\ t \in StateType /\ KeepsBuilt(s, t) /\ KeepsBlooms(s, t)
      /\ t.slots = new /\ t.topLevel = s.topLevel /\ t.line = s.line
      /\ t.fsm = s.fsm /\ t.stackTracker = s.stackTracker /\ t.parens = s.parens
      /\ t.error = s.error
  BY <1>1, <1>2, <1>3 DEF StateType, KeepsBuilt, KeepsBlooms, WellFilled
<1>5. \A i \in 1 .. (LineItemsMax + 2) : PlaceIn(new, s.line.heads[i])
  BY <1>1, <1>2, PlacesStay DEF Shape
<1> QED BY <1>2, <1>4, <1>5 DEF Shape, t, new

(* The place of an item that begins is remembered. *)
Remembers(s, t) ==
  LET item == s.topLevel.count - s.line.start + 1 IN
    /\ s.topLevel.count <= TopLevelMax
    /\ Counter(s, s.topLevel.count + 1) # 0 => t.line.heads = s.line.heads
    /\ Counter(s, s.topLevel.count + 1) = 0 =>
         /\ item <= LineItemsMax + 1
         /\ t.line.heads = [s.line.heads EXCEPT ![item] = SourceHead(s)]

(* An op is counted. *)
Counts(s, t) ==
  LET i == s.topLevel.count + 1 IN
    /\ i <= TopLevelMax =>
         /\ t.topLevel.words = [s.topLevel.words EXCEPT ![i] = @ + 1]
         /\ t.topLevel.lhs = s.topLevel.lhs
    /\ i > TopLevelMax =>
         /\ t.topLevel.words = s.topLevel.words
         /\ t.topLevel.lhs = s.topLevel.lhs + 1

NewOp(code, arg) == [code |-> code, arg |-> arg, ins |-> 0, outs |-> 0]

LEMMA FlagsStay ==
  ASSUME NEW s \in StateType, NEW fsm \in SUBSET Flags
  PROVE  LET t == [s EXCEPT !.fsm = fsm] IN
           /\ t \in StateType /\ KeepsBuilt(s, t) /\ KeepsBlooms(s, t)
           /\ t.slots = s.slots /\ t.topLevel = s.topLevel /\ t.parens = s.parens
           /\ t.line = s.line /\ t.stackTracker = s.stackTracker /\ t.error = s.error
           /\ t.fsm = fsm
           /\ Shape(s) => Shape(t)
  BY DEF StateType, KeepsBuilt, KeepsBlooms, Shape

LEMMA PushOpFacts ==
  ASSUME NEW s, Shape(s), NEW code \in Codes \cup {"unknown"}, NEW arg \in Nat
  PROVE  LET t == PushOpToSource(s, code, arg) IN
           /\ Shape(t) /\ KeepsBuilt(s, t) /\ KeepsBlooms(s, t)
           /\ t.stackTracker = s.stackTracker /\ t.topLevel.count = s.topLevel.count
           /\ t.parens.depth = s.parens.depth
           /\ t.line.lhs = s.line.lhs /\ t.line.start = s.line.start
           /\ ~Failed(t) =>
                /\ Remembers(s, t) /\ Counts(s, t)
                /\ t.slots = Grown(s.slots, NewOp(code, arg))
                /\ t.parens.groups = Grouped(s.parens.groups, s.parens.depth, NextPlace(s))
                /\ t.fsm = (s.fsm \ {"acceptingInputs"}) \cup {"activeSource"}
<1> DEFINE t == PushOpToSource(s, code, arg)
           snapped == SnapshotSourceHead(s)
           fsm == (snapped.fsm \ {"acceptingInputs"}) \cup {"activeSource"}
           begun == [snapped EXCEPT !.fsm = fsm]
           counted == CountOp(begun)
           input == CountInput(counted)
           op == NewOp(code, arg)
           written == WriteOp(input, op)
<1>1. /\ Shape(snapped) /\ KeepsBuilt(s, snapped) /\ KeepsBlooms(s, snapped)
      /\ snapped.slots = s.slots /\ snapped.topLevel = s.topLevel /\ snapped.parens = s.parens
      /\ snapped.fsm = s.fsm /\ snapped.stackTracker = s.stackTracker
      /\ snapped.line.lhs = s.line.lhs /\ snapped.line.start = s.line.start
      /\ ~Failed(snapped) => Remembers(s, snapped)
  BY SnapshotFacts DEF Remembers
<1> HIDE DEF snapped
<1>2. fsm \in SUBSET Flags
  BY <1>1 DEF Shape, StateType, Flags
<1> HIDE DEF fsm
<1>3. /\ Shape(begun) /\ KeepsBuilt(snapped, begun) /\ KeepsBlooms(snapped, begun)
      /\ begun.slots = snapped.slots /\ begun.topLevel = snapped.topLevel
      /\ begun.parens = snapped.parens /\ begun.line = snapped.line
      /\ begun.stackTracker = snapped.stackTracker /\ begun.fsm = fsm
  BY <1>1, <1>2, FlagsStay DEF Shape
<1> HIDE DEF begun
<1>4. /\ Shape(counted) /\ KeepsBuilt(begun, counted) /\ KeepsBlooms(begun, counted)
      /\ counted.slots = begun.slots /\ counted.parens = begun.parens
      /\ counted.line = begun.line /\ counted.fsm = begun.fsm
      /\ counted.stackTracker = begun.stackTracker
      /\ counted.topLevel.count = begun.topLevel.count
      /\ ~Failed(counted) => Counts(begun, counted)
  BY <1>3, CountOpFacts DEF Counts
<1> HIDE DEF counted
<1>5. /\ Shape(input) /\ KeepsBuilt(counted, input) /\ KeepsBlooms(counted, input)
      /\ input.slots = counted.slots /\ input.topLevel = counted.topLevel
      /\ input.line = counted.line /\ input.fsm = counted.fsm
      /\ input.stackTracker = counted.stackTracker
      /\ input.parens.depth = counted.parens.depth
      /\ ~Failed(input) =>
           input.parens.groups
             = Grouped(counted.parens.groups, counted.parens.depth, NextPlace(counted))
  BY <1>4, CountInputFacts
<1> HIDE DEF input
<1>6. op \in ReadOp
  BY LimitsAssumption, NibbleAssumption DEF NewOp, ReadOp, Nibble
<1> HIDE DEF op
<1>7. /\ Shape(written) /\ KeepsBuilt(input, written) /\ KeepsBlooms(input, written)
      /\ written.slots = Grown(input.slots, op) /\ written.topLevel = input.topLevel
      /\ written.line = input.line /\ written.fsm = input.fsm
      /\ written.stackTracker = input.stackTracker /\ written.parens = input.parens
  BY <1>5, <1>6, WriteOpFacts
<1> HIDE DEF written
<1>8. t = IF Failed(snapped) THEN snapped
          ELSE IF Failed(counted) THEN counted
          ELSE IF Failed(input) THEN input
          ELSE written
  BY DEF PushOpToSource, snapped, fsm, begun, counted, input, written, op, NewOp
<1>9. CASE Failed(snapped)
  BY <1>1, <1>8, <1>9
<1>10. CASE ~Failed(snapped) /\ Failed(counted)
  BY <1>1, <1>3, <1>4, <1>8, <1>10 DEF KeepsBuilt, KeepsBlooms
<1>11. CASE ~Failed(snapped) /\ ~Failed(counted) /\ Failed(input)
  BY <1>1, <1>3, <1>4, <1>5, <1>8, <1>11 DEF KeepsBuilt, KeepsBlooms
<1>12. CASE ~Failed(snapped) /\ ~Failed(counted) /\ ~Failed(input)
  <2>1. t = written
    BY <1>8, <1>12
  <2>2. Remembers(s, t)
    BY <2>1, <1>1, <1>3, <1>4, <1>5, <1>7, <1>12 DEF Remembers
  <2>3. Counts(s, t)
    BY <2>1, <1>1, <1>3, <1>4, <1>5, <1>7, <1>12 DEF Counts
  <2>4. t.parens.groups = Grouped(s.parens.groups, s.parens.depth, NextPlace(s))
    BY <2>1, <1>1, <1>3, <1>4, <1>5, <1>7, <1>12 DEF NextPlace
  <2>5. t.slots = Grown(s.slots, NewOp(code, arg))
    BY <2>1, <1>1, <1>3, <1>4, <1>5, <1>7 DEF op
  <2>6. t.fsm = (s.fsm \ {"acceptingInputs"}) \cup {"activeSource"}
    BY <2>1, <1>1, <1>3, <1>4, <1>5, <1>7 DEF fsm
  <2>7. Shape(t) /\ KeepsBuilt(s, t) /\ KeepsBlooms(s, t)
    BY <2>1, <1>1, <1>3, <1>4, <1>5, <1>7 DEF KeepsBuilt, KeepsBlooms
  <2>8. /\ t.stackTracker = s.stackTracker /\ t.topLevel.count = s.topLevel.count
        /\ t.parens.depth = s.parens.depth
        /\ t.line.lhs = s.line.lhs /\ t.line.start = s.line.start
    BY <2>1, <1>1, <1>3, <1>4, <1>5, <1>7
  <2> HIDE DEF t
  <2> QED BY <2>2, <2>3, <2>4, <2>5, <2>6, <2>7, <2>8 DEF t
<1> QED BY <1>9, <1>10, <1>11, <1>12

LEMMA HighwaterFacts ==
  ASSUME NEW s, Shape(s)
  PROVE  LET t == Highwater(s) IN
           /\ Shape(t) /\ KeepsBuilt(s, t) /\ KeepsBlooms(s, t)
           /\ t.slots = s.slots /\ t.parens = s.parens /\ t.line = s.line
           /\ t.fsm = s.fsm /\ t.stackTracker = s.stackTracker
           /\ t.topLevel.words = s.topLevel.words /\ t.topLevel.lhs = s.topLevel.lhs
           /\ ~Failed(t) =>
                /\ s.parens.depth # 0 => t.topLevel.count = s.topLevel.count
                /\ s.parens.depth = 0 =>
                     /\ s.topLevel.count + 1 <= TopLevelMax
                     /\ t.topLevel.count = s.topLevel.count + 1
<1> DEFINE t == Highwater(s)
           count == s.topLevel.count + 1
<1>1. s \in StateType /\ TopLevelMax \in Nat /\ s.topLevel.count \in Nat
  BY LimitsAssumption DEF Shape, StateType, TopLevelType
<1>2. CASE s.parens.depth # 0
  <2>1. t = s
    BY <1>2 DEF Highwater
  <2> QED BY <2>1, <1>2 DEF KeepsBuilt, KeepsBlooms
<1>3. CASE s.parens.depth = 0 /\ count >= TopLevelMax + 1
  <2>1. t = Revert(s, "ParseStackOverflow")
    BY <1>3 DEF Highwater
  <2>2. t \in StateType /\ KeepsAll(s, t) /\ Failed(t)
    BY <2>1, <1>1, RevertKeeps, ErrorsFacts
  <2> QED BY <2>2 DEF KeepsAll, Shape
<1>4. CASE s.parens.depth = 0 /\ ~(count >= TopLevelMax + 1)
  <2>1. t = [s EXCEPT !.topLevel.count = count]
    BY <1>4 DEF Highwater
  <2>2. count \in Nat /\ count <= TopLevelMax
    BY <1>1, <1>4
  <2> HIDE DEF t
  <2>3. /\ t \in StateType /\ KeepsBuilt(s, t) /\ KeepsBlooms(s, t)
        /\ t.slots = s.slots /\ t.parens = s.parens /\ t.line = s.line
        /\ t.fsm = s.fsm /\ t.stackTracker = s.stackTracker
        /\ t.topLevel.words = s.topLevel.words /\ t.topLevel.lhs = s.topLevel.lhs
        /\ t.topLevel.count = count
    BY <2>1, <2>2, <1>1 DEF StateType, TopLevelType, KeepsBuilt, KeepsBlooms
  <2> QED BY <2>2, <2>3, <1>4 DEF Shape, t
<1> QED BY <1>2, <1>3, <1>4

LEMMA OpenParenFacts ==
  ASSUME NEW s, Shape(s)
  PROVE  LET t == OpenParen(s) IN
           /\ Shape(t) /\ KeepsBuilt(s, t) /\ KeepsBlooms(s, t)
           /\ t.slots = s.slots /\ t.topLevel = s.topLevel /\ t.line = s.line
           /\ t.stackTracker = s.stackTracker /\ t.parens.groups = s.parens.groups
           /\ ~Failed(t) =>
                t.parens.depth = s.parens.depth + 1 /\ t.fsm = s.fsm \ {"wordEnd", "yang"}
<1> DEFINE t == OpenParen(s)
<1>1. s \in StateType /\ ParensMax \in Nat /\ s.parens.depth \in 0 .. ParensMax
  BY LimitsAssumption DEF Shape, StateType, ParensType
<1>2. CASE s.parens.depth = ParensMax
  <2>1. t = Revert(s, "ParenOverflow")
    BY <1>2 DEF OpenParen
  <2>2. t \in StateType /\ KeepsAll(s, t) /\ Failed(t)
    BY <2>1, <1>1, RevertKeeps, ErrorsFacts
  <2> QED BY <2>2 DEF KeepsAll, Shape
<1>3. CASE s.parens.depth # ParensMax
  <2>1. t = [s EXCEPT !.parens.depth = @ + 1, !.fsm = @ \ {"wordEnd", "yang"}]
    BY <1>3 DEF OpenParen
  <2>2. s.parens.depth + 1 \in 0 .. ParensMax
    BY <1>1, <1>3
  <2> HIDE DEF t
  <2>3. /\ t \in StateType /\ KeepsBuilt(s, t) /\ KeepsBlooms(s, t)
        /\ t.slots = s.slots /\ t.topLevel = s.topLevel /\ t.line = s.line
        /\ t.stackTracker = s.stackTracker /\ t.parens.groups = s.parens.groups
        /\ t.parens.depth = s.parens.depth + 1 /\ t.fsm = s.fsm \ {"wordEnd", "yang"}
    BY <2>1, <2>2, <1>1 DEF StateType, ParensType, KeepsBuilt, KeepsBlooms
  <2> QED BY <2>3 DEF Shape, t
<1> QED BY <1>2, <1>3

(* An op of the slots changes, if there is one at the place. *)
LEMMA ChangedSlots ==
  ASSUME NEW slots, WellFilled(slots), NEW a, NEW b, NEW op,
         a \in 1 .. Len(slots) /\ b \in 1 .. Len(slots[a]) => op \in ReadOp
  PROVE  LET new == WithOp(slots, a, b, op) IN
           /\ WellFilled(new) /\ Len(new) = Len(slots)
           /\ \A c \in 1 .. Len(slots) : Len(new[c]) = Len(slots[c])
<1> DEFINE new == WithOp(slots, a, b, op)
<1>1. CASE a \in 1 .. Len(slots) /\ b \in 1 .. Len(slots[a])
  BY <1>1, ReplacedFacts
<1>2. CASE ~(a \in 1 .. Len(slots) /\ b \in 1 .. Len(slots[a]))
  <2>1. slots \in Seq(Seq(ReadOp)) /\ \A k \in 1 .. Len(slots) : slots[k] \in Seq(ReadOp)
    BY FilledPlaces DEF WellFilled
  <2>2. slots = [k \in 1 .. Len(slots) |-> slots[k]]
    BY <2>1, LenProperties
  <2>3. CASE a \notin 1 .. Len(slots)
    <3>1. new = slots
      BY <2>2, <2>3 DEF WithOp
    <3> QED BY <3>1
  <2>4. CASE a \in 1 .. Len(slots) /\ b \notin 1 .. Len(slots[a])
    <3>1. slots[a] = [k \in 1 .. Len(slots[a]) |-> slots[a][k]]
      BY <2>1, <2>4, LenProperties
    <3>2. [slots[a] EXCEPT ![b] = op] = slots[a]
      BY <3>1, <2>4
    <3>3. new = slots
      BY <2>2, <3>2 DEF WithOp
    <3> QED BY <3>3
  <2> QED BY <1>2, <2>3, <2>4
<1> QED BY <1>1, <1>2

LEMMA CloseParenFacts ==
  ASSUME NEW s, Shape(s), s.parens.depth # 0
  PROVE  LET t == CloseParen(s)
             group == s.parens.groups[s.parens.depth]
             a == group.op[1]
             b == group.op[2]
         IN  /\ Shape(t) /\ KeepsBuilt(s, t) /\ KeepsBlooms(s, t)
             /\ t.topLevel = s.topLevel /\ t.line = s.line /\ t.fsm = s.fsm
             /\ t.stackTracker = s.stackTracker /\ t.parens.groups = s.parens.groups
             /\ t.parens.depth = s.parens.depth - 1 /\ t.error = s.error
             /\ t.slots = WithOp(s.slots, a, b, [s.slots[a][b] EXCEPT !.ins = group.inputs])
<1> DEFINE t == CloseParen(s)
           d == s.parens.depth
           group == s.parens.groups[d]
           a == group.op[1]
           b == group.op[2]
           slots == s.slots
           op == [slots[a][b] EXCEPT !.ins = group.inputs]
           new == WithOp(slots, a, b, op)
<1>1. /\ s \in StateType /\ ParensMax \in Nat /\ d \in 1 .. ParensMax
      /\ d - 1 \in 0 .. ParensMax /\ WellFilled(s.slots)
  BY LimitsAssumption, SMTT(30) DEF Shape, StateType, ParensType
<1>2. group.inputs \in Byte
  <2>1. group \in GroupType
    BY <1>1 DEF StateType, ParensType
  <2> QED BY <2>1 DEF GroupType
<1>3. t = [s EXCEPT !.parens.depth = @ - 1, !.slots = new]
  BY DEF CloseParen, WithOp
<1>4. a \in 1 .. Len(s.slots) /\ b \in 1 .. Len(s.slots[a]) => op \in ReadOp
  <2> SUFFICES ASSUME a \in 1 .. Len(s.slots), b \in 1 .. Len(s.slots[a])
               PROVE  op \in ReadOp
    OBVIOUS
  <2>1. s.slots[a] \in Seq(ReadOp)
    BY <1>1, FilledPlaces
  <2>2. s.slots[a][b] \in ReadOp
    BY <2>1, ElementOfSeq
  <2> HIDE DEF a, b, group
  <2> QED BY <2>2, <1>2 DEF ReadOp, Byte
<1> HIDE DEF op, group, a, b
<1>5. /\ WellFilled(new) /\ Len(new) = Len(s.slots)
      /\ \A c \in 1 .. Len(s.slots) : Len(new[c]) = Len(s.slots[c])
  <2>1. WellFilled(slots) /\ (a \in 1 .. Len(slots) /\ b \in 1 .. Len(slots[a]) => op \in ReadOp)
    BY <1>1, <1>4
  <2> HIDE DEF slots
  <2>2. /\ WellFilled(new) /\ Len(new) = Len(slots)
        /\ \A c \in 1 .. Len(slots) : Len(new[c]) = Len(slots[c])
    BY ONLY <2>1, ChangedSlots
  <2> QED BY <2>2 DEF slots
<1> HIDE DEF new, t
<1>6. /\ t \in StateType /\ KeepsBuilt(s, t) /\ KeepsBlooms(s, t)
      /\ t.topLevel = s.topLevel /\ t.line = s.line /\ t.fsm = s.fsm
      /\ t.stackTracker = s.stackTracker /\ t.parens.groups = s.parens.groups
      /\ t.parens.depth = d - 1 /\ t.error = s.error /\ t.slots = new
  BY <1>1, <1>3, <1>5 DEF StateType, ParensType, KeepsBuilt, KeepsBlooms, WellFilled
<1>7. \A i \in 1 .. (LineItemsMax + 2) : PlaceIn(new, s.line.heads[i])
  <2>1. \A c \in 1 .. Len(s.slots) : Len(s.slots[c]) <= Len(new[c])
    BY <1>1, <1>5, FilledPlaces, LimitsAssumption, SMTT(30)
  <2>2. Len(s.slots) <= Len(new)
    BY <1>1, <1>5, FilledPlaces
  <2> QED BY <2>1, <2>2, <1>1, <1>5, PlacesStay, SMTT(30) DEF Shape
<1> QED BY <1>5, <1>6, <1>7 DEF Shape, t, new, op, group, a, b

-----------------------------------------------------------------------------
(* The stack tracker and the ends of lines. *)

KeepsButTracker(s, t) ==
  /\ KeepsBuilt(s, t)
  /\ KeepsBlooms(s, t)
  /\ t.slots = s.slots
  /\ t.topLevel = s.topLevel
  /\ t.parens = s.parens
  /\ t.line = s.line
  /\ t.fsm = s.fsm

LEMMA PushFacts ==
  ASSUME NEW s \in StateType, NEW n \in Nat
  PROVE  LET t == Push(s, n) IN
           /\ t \in StateType /\ KeepsButTracker(s, t)
           /\ ~Failed(t) => /\ ~Failed(s)
                            /\ t.stackTracker.current = s.stackTracker.current + n
                            /\ t.stackTracker.inputs = s.stackTracker.inputs
<1> DEFINE t == Push(s, n)
           current == s.stackTracker.current + n
           max == IF current > s.stackTracker.max THEN current ELSE s.stackTracker.max
<1>1. ByteMax \in Nat /\ s.stackTracker.current \in Byte /\ s.stackTracker.max \in Byte
  BY LimitsAssumption DEF StateType, TrackerType
<1>2. current \in Nat
  BY <1>1 DEF Byte
<1>3. CASE current > ByteMax
  <2>1. t = Revert(s, "ParseStackOverflow")
    BY <1>3 DEF Push
  <2>2. t \in StateType /\ KeepsAll(s, t) /\ Failed(t)
    BY <2>1, RevertKeeps, ErrorsFacts
  <2> QED BY <2>2 DEF KeepsAll, KeepsButTracker
<1>4. CASE ~(current > ByteMax)
  <2>1. t = [s EXCEPT !.stackTracker.current = current, !.stackTracker.max = max]
    BY <1>4 DEF Push
  <2>2. current \in Byte /\ max \in Byte
    BY <1>1, <1>2, <1>4 DEF Byte
  <2> HIDE DEF t, current, max
  <2>3. /\ t \in StateType /\ KeepsButTracker(s, t) /\ t.error = s.error
        /\ t.stackTracker.current = current /\ t.stackTracker.inputs = s.stackTracker.inputs
    BY <2>1, <2>2 DEF StateType, TrackerType, KeepsButTracker, KeepsBuilt, KeepsBlooms
  <2> QED BY <2>3 DEF t, current, Failed
<1> QED BY <1>3, <1>4

LEMMA PopFacts ==
  ASSUME NEW s \in StateType, NEW n \in Nat
  PROVE  LET t == Pop(s, n) IN
           /\ t \in StateType /\ KeepsButTracker(s, t)
           /\ ~Failed(t) => /\ ~Failed(s) /\ n <= s.stackTracker.current
                            /\ t.stackTracker.current = s.stackTracker.current - n
<1> DEFINE t == Pop(s, n)
           current == s.stackTracker.current - n
<1>1. ByteMax \in Nat /\ s.stackTracker.current \in Byte
  BY LimitsAssumption DEF StateType, TrackerType
<1>2. CASE s.stackTracker.current < n
  <2>1. t = Revert(s, "ParseStackUnderflow")
    BY <1>2 DEF Pop
  <2>2. t \in StateType /\ KeepsAll(s, t) /\ Failed(t)
    BY <2>1, RevertKeeps, ErrorsFacts
  <2> QED BY <2>2 DEF KeepsAll, KeepsButTracker
<1>3. CASE ~(s.stackTracker.current < n)
  <2>1. t = [s EXCEPT !.stackTracker.current = current]
    BY <1>3 DEF Pop
  <2>2. current \in Byte /\ n <= s.stackTracker.current
    BY <1>1, <1>3 DEF Byte
  <2> HIDE DEF t, current
  <2>3. /\ t \in StateType /\ KeepsButTracker(s, t) /\ t.error = s.error
        /\ t.stackTracker.current = current
    BY <2>1, <2>2 DEF StateType, TrackerType, KeepsButTracker, KeepsBuilt, KeepsBlooms
  <2> QED BY <2>2, <2>3 DEF t, current, Failed
<1> QED BY <1>2, <1>3

LEMMA PushInputsFacts ==
  ASSUME NEW s \in StateType, NEW n \in Nat
  PROVE  LET t == PushInputs(s, n) IN
           /\ t \in StateType /\ KeepsButTracker(s, t)
           /\ ~Failed(t) => /\ ~Failed(s)
                            /\ t.stackTracker.current = s.stackTracker.current + n
<1> DEFINE t == PushInputs(s, n)
           pushed == Push(s, n)
           inputs == s.stackTracker.inputs + n
<1>1. /\ pushed \in StateType /\ KeepsButTracker(s, pushed)
      /\ ~Failed(pushed) => /\ ~Failed(s)
                            /\ pushed.stackTracker.current = s.stackTracker.current + n
                            /\ pushed.stackTracker.inputs = s.stackTracker.inputs
  BY PushFacts
<1>2. ByteMax \in Nat /\ s.stackTracker.inputs \in Byte
  BY LimitsAssumption DEF StateType, TrackerType
<1> HIDE DEF pushed
<1>3. CASE Failed(pushed)
  <2>1. t = pushed
    BY <1>3 DEF PushInputs, pushed
  <2> QED BY <2>1, <1>1, <1>3
<1>4. CASE ~Failed(pushed) /\ inputs > ByteMax
  <2>1. t = Revert(s, "ParseStackOverflow")
    BY <1>4 DEF PushInputs, pushed
  <2>2. t \in StateType /\ KeepsAll(s, t) /\ Failed(t)
    BY <2>1, RevertKeeps, ErrorsFacts
  <2> QED BY <2>2 DEF KeepsAll, KeepsButTracker
<1>5. CASE ~Failed(pushed) /\ ~(inputs > ByteMax)
  <2>1. t = [pushed EXCEPT !.stackTracker.inputs = @ + n]
    BY <1>5 DEF PushInputs, pushed
  <2>2. pushed.stackTracker.inputs + n \in Byte
    BY <1>1, <1>2, <1>5 DEF Byte
  <2> HIDE DEF t
  <2>3. /\ t \in StateType /\ KeepsButTracker(pushed, t) /\ t.error = pushed.error
        /\ t.stackTracker.current = pushed.stackTracker.current
    BY <1>1, <2>1, <2>2 DEF StateType, TrackerType, KeepsButTracker, KeepsBuilt, KeepsBlooms
  <2>4. KeepsButTracker(s, t)
    BY <1>1, <2>3 DEF KeepsButTracker, KeepsBuilt, KeepsBlooms
  <2> QED BY <1>1, <2>3, <2>4, <1>5 DEF t, Failed
<1> QED BY <1>3, <1>4, <1>5

(* The same slots but for what is known of the outputs of their ops. *)
Alike(slots, new) ==
  /\ WellFilled(new)
  /\ Written(new) = Written(slots)
  /\ Len(new) = Len(slots)
  /\ \A a \in 1 .. Len(slots) : Len(new[a]) = Len(slots[a])
  /\ \A p \in 1 .. Written(slots) : OpAtPosition(new, p).ins = OpAtPosition(slots, p).ins

(* Where op is to be written, if anywhere, there is an op. *)
MayEnd(slots, op) ==
  /\ op.outs \in Nat
  /\ op.place[1] \in Int /\ op.place[2] \in Nat
  /\ op.place[1] > 0 =>
       op.place[1] \in 1 .. Len(slots) /\ op.place[2] \in 1 .. Len(slots[op.place[1]])

LEMMA PlacesAlike ==
  ASSUME NEW slots, WellFilled(slots), NEW new, Alike(slots, new), NEW place, PlaceIn(slots, place)
  PROVE  PlaceIn(new, place)
<1>1. /\ Len(slots) \in Nat
      /\ \A k \in 1 .. Len(slots) : Len(slots[k]) \in Nat
  BY FilledPlaces, LimitsAssumption
<1>2. Len(slots) <= Len(new) /\ \A a \in 1 .. Len(slots) : Len(slots[a]) <= Len(new[a])
  BY <1>1 DEF Alike
<1> QED BY <1>2, PlacesStay DEF Alike

LEMMA EndOpFacts ==
  ASSUME NEW s, Shape(s), NEW op, MayEnd(s.slots, op)
  PROVE  LET t == EndOp(s, op) IN
           /\ Shape(t) /\ KeepsBuilt(s, t) /\ KeepsBlooms(s, t)
           /\ t.topLevel = s.topLevel /\ t.parens = s.parens /\ t.line = s.line
           /\ t.fsm = s.fsm
           /\ Alike(s.slots, t.slots)
           /\ ~Failed(t) =>
                /\ ~Failed(s) /\ op.place[1] > 0
                /\ t.stackTracker.current
                     = s.stackTracker.current - OpAtPosition(s.slots, PositionOf(op.place)).ins
                         + op.outs
<1> DEFINE t == EndOp(s, op)
           slots == s.slots
           a == op.place[1]
           b == op.place[2]
           ins == slots[a][b].ins
           popped == Pop(s, ins)
           pushed == Push(popped, op.outs)
           ended == [slots[a][b] EXCEPT !.outs = op.outs]
           new == WithOp(slots, a, b, ended)
<1>1. s \in StateType /\ WellFilled(slots) /\ NibbleMax \in Nat
  BY NibbleAssumption DEF Shape
<1>2. Alike(slots, slots)
  BY <1>1 DEF Alike
<1>3. CASE Failed(s)
  <2>1. t = s
    BY <1>3 DEF EndOp
  <2> QED BY <2>1, <1>2, <1>3 DEF KeepsBuilt, KeepsBlooms
<1>4. CASE ~Failed(s) /\ a <= 0
  <2>1. t = Revert(s, "WildAccess")
    BY <1>4 DEF EndOp, WildAccess
  <2>2. t \in StateType /\ KeepsAll(s, t) /\ Failed(t)
    BY <2>1, <1>1, RevertKeeps, ErrorsFacts
  <2> QED BY <2>2, <1>2 DEF KeepsAll, Shape
<1>5. CASE ~Failed(s) /\ ~(a <= 0)
  <2>1. a \in 1 .. Len(slots) /\ b \in 1 .. Len(slots[a]) /\ op.outs \in Nat /\ a > 0
    BY <1>5 DEF MayEnd
  <2>2. slots[a][b] \in ReadOp
    <3>1. slots[a] \in Seq(ReadOp)
      BY <1>1, <2>1, FilledPlaces
    <3> QED BY <3>1, <2>1, ElementOfSeq
  <2>3. ins \in Nat
    BY <2>2, LimitsAssumption DEF ReadOp
  <2>4. OpAtPosition(slots, PositionOf(op.place)) = slots[a][b]
    BY <1>1, <2>1, FilledPositions, SMTT(30) DEF PositionOf
  <2> HIDE DEF ins, a, b
  <2>5. /\ popped \in StateType /\ KeepsButTracker(s, popped)
        /\ ~Failed(popped) => /\ ~Failed(s) /\ ins <= s.stackTracker.current
                              /\ popped.stackTracker.current = s.stackTracker.current - ins
    BY <1>1, <2>3, PopFacts
  <2> HIDE DEF popped
  <2>6. /\ pushed \in StateType /\ KeepsButTracker(popped, pushed)
        /\ ~Failed(pushed) => /\ ~Failed(popped)
                              /\ pushed.stackTracker.current
                                   = popped.stackTracker.current + op.outs
    BY <2>1, <2>5, PushFacts
  <2> HIDE DEF pushed
  <2>7. t = IF Failed(popped) THEN popped
            ELSE IF Failed(pushed) THEN pushed
            ELSE IF op.outs > NibbleMax \/ ins > NibbleMax THEN Revert(s, "OpcodeIOOverflow")
            ELSE [pushed EXCEPT !.slots = WithOp(pushed.slots, a, b,
                     [pushed.slots[a][b] EXCEPT !.outs = op.outs])]
    BY <1>5 DEF EndOp, WithOp, pushed, popped, ins, a, b
  <2>8. KeepsButTracker(s, pushed)
    BY <2>5, <2>6 DEF KeepsButTracker, KeepsBuilt, KeepsBlooms
  <2>9. CASE Failed(popped)
    <3>1. t = popped
      BY <2>7, <2>9
    <3> QED BY <3>1, <2>5, <2>9, <1>2 DEF KeepsButTracker, Shape
  <2>10. CASE ~Failed(popped) /\ Failed(pushed)
    <3>1. t = pushed
      BY <2>7, <2>10
    <3> QED BY <3>1, <2>6, <2>8, <2>10, <1>2 DEF KeepsButTracker, Shape
  <2>11. CASE ~Failed(popped) /\ ~Failed(pushed) /\ (op.outs > NibbleMax \/ ins > NibbleMax)
    <3>1. t = Revert(s, "OpcodeIOOverflow")
      BY <2>7, <2>11
    <3>2. t \in StateType /\ KeepsAll(s, t) /\ Failed(t)
      BY <3>1, <1>1, RevertKeeps, ErrorsFacts
    <3> QED BY <3>2, <1>2 DEF KeepsAll, Shape
  <2>12. CASE ~Failed(popped) /\ ~Failed(pushed) /\ ~(op.outs > NibbleMax \/ ins > NibbleMax)
    <3>1. t = [pushed EXCEPT !.slots = new]
      BY <2>7, <2>8, <2>12 DEF KeepsButTracker
    <3>2. ended \in ReadOp /\ ended.ins = slots[a][b].ins
      <4>1. op.outs \in Nibble
        BY <2>1, <2>12, <1>1 DEF Nibble
      <4> QED BY <4>1, <2>2 DEF ReadOp
    <3> HIDE DEF ended
    <3>3. /\ WellFilled(new) /\ Written(new) = Written(slots)
          /\ OpAtPosition(new, Position(a, b)) = ended
          /\ \A p \in 1 .. Written(slots) :
               p # Position(a, b) => OpAtPosition(new, p) = OpAtPosition(slots, p)
          /\ Len(new) = Len(slots)
          /\ \A c \in 1 .. Len(slots) : Len(new[c]) = Len(slots[c])
      <4> HIDE DEF slots
      <4> QED BY <3>2, <2>1, <1>1, ReplacedFacts
    <3> HIDE DEF new, t
    <3>4. Alike(slots, new)
      <4>1. OpAtPosition(slots, Position(a, b)) = slots[a][b]
        BY <2>4 DEF PositionOf, a, b
      <4>2. \A p \in 1 .. Written(slots) : OpAtPosition(new, p).ins = OpAtPosition(slots, p).ins
        BY <4>1, <3>2, <3>3
      <4> QED BY <4>2, <3>3 DEF Alike
    <3>5. /\ t \in StateType /\ KeepsBuilt(s, t) /\ KeepsBlooms(s, t)
          /\ t.topLevel = s.topLevel /\ t.parens = s.parens /\ t.line = s.line
          /\ t.fsm = s.fsm /\ t.slots = new /\ t.stackTracker = pushed.stackTracker
      BY <3>1, <3>3, <2>6, <2>8
         DEF StateType, KeepsButTracker, KeepsBuilt, KeepsBlooms, WellFilled
    <3>6. Shape(t)
      <4>1. \A i \in 1 .. (LineItemsMax + 2) : PlaceIn(new, s.line.heads[i])
        <5> HIDE DEF slots
        <5> QED BY <3>4, <1>1, PlacesAlike DEF Shape, slots
      <4> QED BY <4>1, <3>3, <3>5 DEF Shape
    <3>7. t.stackTracker.current
            = s.stackTracker.current - OpAtPosition(slots, PositionOf(op.place)).ins + op.outs
      BY <3>5, <2>4, <2>5, <2>6, <2>12 DEF ins
    <3> QED BY <3>4, <3>5, <3>6, <3>7, <1>5, <2>1 DEF t, a
  <2> QED BY <2>9, <2>10, <2>11, <2>12
<1> QED BY <1>3, <1>4, <1>5

-----------------------------------------------------------------------------
(* The ledger of a line. *)

(* H tells how many ops are written before each of the items of the line. *)
ItemsLedger(s, H) ==
  LET n == LineItems(s)
      N == Written(s.slots)
      count == s.topLevel.count
      words == s.topLevel.words
      heads == s.line.heads
  IN  /\ n \in 0 .. (LineItemsMax + 1)
      /\ n > 0 => count <= TopLevelMax
      /\ H \in [0 .. n -> Nat]
      /\ H[0] <= H[n] /\ H[n] <= N
      /\ \A i \in 1 .. n : words[s.line.start + i] >= 1 /\ H[i] = H[i - 1] + words[s.line.start + i]
      /\ H[n] < N /\ count < TopLevelMax => n <= LineItemsMax
      /\ \A i \in 0 .. n : heads[i + 1] = NoPlace \/ PositionOf(heads[i + 1]) = H[i]
      /\ \A i \in (n + 2) .. (LineItemsMax + 2) : heads[i] = NoPlace
      /\ count < TopLevelMax => words[count + 1] = N - H[n]
      /\ \A i \in 1 .. TopLevelMax : i > count + 1 => words[i] = 0
      /\ count > TopLevelMax => N = H[n]

(* The ops of the item that is being read. *)
Begun(s, H) == Written(s.slots) - H[LineItems(s)]

(* The height that the parser counts and the LHS items that it will add are *)
(* the number of LHS items, but for the ops counted in their place.         *)
HeightLedger(s, H) ==
  s.topLevel.lhs = s.stackTracker.current + s.line.lhs
                     + (IF s.topLevel.count = TopLevelMax THEN Begun(s, H) ELSE 0)

(* F tells the inputs of the ops up to each position. *)
InputsLedger(s, F) ==
  LET N == Written(s.slots) IN
    /\ F \in [0 .. N -> Nat]
    /\ F[0] = 0
    /\ \A p \in 1 .. N : F[p] = F[p - 1] + OpAtPosition(s.slots, p).ins

(* Groups up to top are open, the last perhaps only about to be.  G tells the *)
(* inputs that are counted for each group and the ones around it.             *)
GroupsLedger(s, top, H, G) ==
  LET groups == s.parens.groups
  IN  /\ top \in 0 .. (ParensMax + 1)
      /\ G \in [0 .. top -> Nat]
      /\ G[0] = 0 /\ \A g \in 1 .. top : G[g] = G[g - 1] + groups[g].inputs
      /\ \A g \in 1 .. top :
           /\ PlaceIn(s.slots, groups[g].op) /\ groups[g].op # NoPlace /\ groups[g].op[2] >= 1
           /\ PositionOf(groups[g].op) > H[LineItems(s)]
           /\ OpAtPosition(s.slots, PositionOf(groups[g].op)).ins = 0
      /\ \A g \in 1 .. top : \A h \in 1 .. (g - 1) :
           PositionOf(groups[h].op) < PositionOf(groups[g].op)

(* Every op of the line is an input of an op before it, of a group that is *)
(* open, or the last op of an item.                                        *)
Balance(s, top, H, F, G) ==
  LET N == Written(s.slots)
  IN  F[N] + G[top] + LineItems(s) + (IF Begun(s, H) > 0 THEN 1 ELSE 0) + H[0] = N + F[H[0]]

Ledger(s, top, H, F, G) ==
  /\ ItemsLedger(s, H)
  /\ HeightLedger(s, H)
  /\ InputsLedger(s, F)
  /\ GroupsLedger(s, top, H, G)
  /\ Balance(s, top, H, F, G)

(* Ops are ended one by one. *)
EndedOps == [place : Int \X Nat, outs : Nat]

LEMMA EndOpsSteps ==
  ASSUME NEW s, Shape(s), NEW ops \in Seq(EndedOps),
         \A m \in 1 .. Len(ops) : MayEnd(s.slots, ops[m])
  PROVE  \E ended :
           /\ EndOps(s, ops) = ended[Len(ops)] /\ ended[0] = s
           /\ \A m \in 1 .. Len(ops) : ended[m] = EndOp(ended[m - 1], ops[m])
           /\ \A m \in 0 .. Len(ops) :
                LET t == ended[m] IN
                  /\ Shape(t) /\ KeepsBuilt(s, t) /\ KeepsBlooms(s, t)
                  /\ t.topLevel = s.topLevel /\ t.parens = s.parens /\ t.line = s.line
                  /\ t.fsm = s.fsm /\ Alike(s.slots, t.slots)
<1> DEFINE N == Len(ops)
           From(t) == /\ Shape(t) /\ KeepsBuilt(s, t) /\ KeepsBlooms(s, t)
                      /\ t.topLevel = s.topLevel /\ t.parens = s.parens /\ t.line = s.line
                      /\ t.fsm = s.fsm /\ Alike(s.slots, t.slots)
           S == {t \in StateType : From(t)}
           F == [x \in S \X Nat |-> IF x[2] \in 1 .. N THEN EndOp(x[1], ops[x[2]]) ELSE x[1]]
           IsLoop(g) == g = [n \in 0 .. N |-> IF n = 0 THEN s ELSE EndOp(g[n - 1], ops[n])]
<1>1. N \in Nat
  BY LenProperties
<1>2. s \in S
  BY DEF Shape, Alike, KeepsBuilt, KeepsBlooms
<1>3. ASSUME NEW t \in S, NEW m \in 1 .. N PROVE EndOp(t, ops[m]) \in S
  <2>1. From(t)
    BY <1>3
  <2>2. MayEnd(t.slots, ops[m])
    BY <1>3, <2>1 DEF MayEnd, Alike
  <2> DEFINE u == EndOp(t, ops[m])
  <2>3. /\ Shape(u) /\ KeepsBuilt(t, u) /\ KeepsBlooms(t, u)
        /\ u.topLevel = t.topLevel /\ u.parens = t.parens /\ u.line = t.line
        /\ u.fsm = t.fsm /\ Alike(t.slots, u.slots)
    BY <2>1, <2>2, EndOpFacts
  <2> HIDE DEF u
  <2>4. Alike(s.slots, u.slots)
    BY <2>1, <2>3 DEF Alike
  <2>5. From(u)
    BY <2>1, <2>3, <2>4 DEF KeepsBuilt, KeepsBlooms
  <2>6. u \in StateType
    BY <2>3 DEF Shape
  <2> QED BY <2>5, <2>6 DEF u
<1> HIDE DEF S
<1>4. F \in [S \X Nat -> S]
  <2> HIDE DEF N
  <2> QED BY <1>3
<1>5. PICK g : Recurs(g, N, S, s, F)
  <2> HIDE DEF F, N
  <2> QED BY <1>1, <1>2, <1>4, RecursionExists
<1>6. ASSUME NEW n \in 1 .. N PROVE g[n] = EndOp(g[n - 1], ops[n])
  <2>1. n - 1 \in 0 .. N /\ n \in Nat
    BY <1>1
  <2>2. <<g[n - 1], n>> \in S \X Nat
    <3> HIDE DEF F, N
    <3> QED BY <2>1, <1>5 DEF Recurs
  <2> HIDE DEF N
  <2> QED BY <1>5, <1>6, <2>2 DEF Recurs
<1>7. IsLoop(g)
  <2>1. ASSUME NEW n \in 0 .. N
        PROVE  g[n] = IF n = 0 THEN s ELSE EndOp(g[n - 1], ops[n])
    <3>1. CASE n = 0
      <4> HIDE DEF F, N
      <4> QED BY <1>5, <3>1 DEF Recurs
    <3>2. CASE n # 0
      <4>1. n \in 1 .. N
        BY <3>2, <1>1
      <4>2. g[n] = EndOp(g[n - 1], ops[n])
        BY <1>6, <4>1
      <4> QED BY <3>2, <4>2
    <3> QED BY <3>1, <3>2
  <2> HIDE DEF N, F
  <2> QED BY <1>5, <2>1 DEF Recurs
<1> DEFINE ended == CHOOSE h : IsLoop(h)
<1>8. IsLoop(ended)
  <2> HIDE DEF IsLoop
  <2> QED BY <1>7
<1>9. EndOps(s, ops) = ended[N]
  BY DEF EndOps
<1>10. \A n \in 0 .. N : ended[n] = IF n = 0 THEN s ELSE EndOp(ended[n - 1], ops[n])
  <2> HIDE DEF N, ended
  <2>1. ended = [n \in 0 .. N |-> IF n = 0 THEN s ELSE EndOp(ended[n - 1], ops[n])]
    BY <1>8
  <2> QED BY <2>1, Zenon
<1>11. ended[0] = s
  <2> HIDE DEF ended
  <2>1. 0 \in 0 .. N
    BY <1>1
  <2> QED BY <1>10, <2>1
<1>12. ASSUME NEW n \in 1 .. N PROVE ended[n] = EndOp(ended[n - 1], ops[n])
  <2> HIDE DEF ended
  <2>1. n \in 0 .. N /\ n # 0
    BY <1>1
  <2> QED BY <1>10, <2>1
<1>13. \A n \in 0 .. N : ended[n] \in S
  <2> DEFINE T == {n \in 0 .. N : ended[n] \in S}
  <2> HIDE DEF ended
  <2>1. 0 \in T
    BY <1>1, <1>2, <1>11
  <2>2. ASSUME NEW n \in 0 .. (N - 1), n \in T PROVE n + 1 \in T
    <3>1. n + 1 \in 1 .. N /\ n + 1 \in 0 .. N /\ (n + 1) - 1 = n
      BY <1>1
    <3>2. ended[n + 1] = EndOp(ended[n], ops[n + 1])
      BY <3>1, <1>12
    <3> QED BY <2>2, <3>1, <3>2, <1>3
  <2> HIDE DEF T, N
  <2>3. \A n \in 0 .. N : n \in T
    BY <1>1, <2>1, <2>2, BoundedInduction
  <2> QED BY <2>3 DEF T
<1> HIDE DEF ended
<1>14. \A n \in 0 .. N : From(ended[n])
  <2> HIDE DEF From
  <2> QED BY <1>13 DEF S
<1> QED BY <1>9, <1>11, <1>12, <1>14

(* The op of an item that is ended as the j-th. *)
EndedOp(s, i, j) ==
  [place |-> OpBefore(s.line.heads[i + 1], j),
   outs |-> IF j = s.topLevel.words[s.line.start + i] /\ LineItems(s) = 1
            THEN s.line.lhs ELSE 1]

LEMMA LineOpsFacts ==
  ASSUME NEW s, Shape(s), LineItems(s) \in 1 .. (LineItemsMax + 1),
         s.topLevel.count <= TopLevelMax,
         NEW H \in [0 .. LineItems(s) -> Nat],
         \A i \in 1 .. LineItems(s) : H[i] = H[i - 1] + s.topLevel.words[s.line.start + i]
  PROVE  LET n == LineItems(s)
             ops == LineOps(s)
         IN  /\ ops \in Seq(EndedOps)
             /\ Len(ops) = H[n] - H[0] /\ H[0] <= H[n]
             /\ \A m \in 1 .. Len(ops) : MayEnd(s.slots, ops[m])
             /\ \A i \in 1 .. n : \A j \in 1 .. s.topLevel.words[s.line.start + i] :
                  /\ H[i - 1] - H[0] + j \in 1 .. Len(ops)
                  /\ ops[H[i - 1] - H[0] + j] = EndedOp(s, i, j)
<1> DEFINE n == LineItems(s)
           start == s.line.start
           words == s.topLevel.words
           heads == s.line.heads
           ItemOps(i) == [j \in 1 .. Counter(s, start + i) |->
                            [place |-> OpBefore(heads[i + 1], j),
                             outs |-> IF j = Counter(s, start + i) /\ n = 1
                                      THEN s.line.lhs ELSE 1]]
           parts == [i \in 1 .. n |-> ItemOps(i)]
           ops == LineOps(s)
<1>1. /\ n \in Nat \ {0} /\ n <= LineItemsMax + 1 /\ LineItemsMax \in Nat /\ TopLevelMax \in Nat
      /\ start \in Nat /\ s.topLevel.count \in Nat /\ s.topLevel.count = start + n
      /\ words \in [1 .. TopLevelMax -> Byte] /\ s.line.lhs \in Nat /\ Byte \subseteq Nat
      /\ heads \in [1 .. (LineItemsMax + 2) -> Place]
  <2>1. s \in StateType
    BY DEF Shape
  <2>2. /\ start \in Nat /\ s.topLevel.count \in Nat /\ words \in [1 .. TopLevelMax -> Byte]
        /\ s.line.lhs \in Byte /\ heads \in [1 .. (LineItemsMax + 2) -> Place]
    BY <2>1 DEF StateType, TopLevelType, LineType
  <2>3. n = s.topLevel.count - start
    BY DEF LineItems
  <2>4. Byte \subseteq Nat /\ LineItemsMax \in Nat /\ TopLevelMax \in Nat
    BY LimitsAssumption DEF Byte
  <2>5. n \in Nat \ {0} /\ n <= LineItemsMax + 1
    BY <2>4
  <2> HIDE DEF n, start, words, heads
  <2>6. s.topLevel.count = start + n
    BY <2>2, <2>3, <2>5
  <2>7. s.line.lhs \in Nat
    BY <2>2, <2>4
  <2> QED BY ONLY <2>2, <2>4, <2>5, <2>6, <2>7
<1> HIDE DEF n, start, words, heads
<1>2. ASSUME NEW i \in 1 .. n
      PROVE  /\ Counter(s, start + i) = words[start + i] /\ words[start + i] \in Nat
             /\ start + i \in 1 .. TopLevelMax
             /\ PlaceIn(s.slots, heads[i + 1])
  <2>1. start + i \in 1 .. TopLevelMax /\ i + 1 \in 1 .. (LineItemsMax + 2)
    BY <1>1
  <2>2. words[start + i] \in Byte
    BY <2>1, <1>1
  <2>3. PlaceIn(s.slots, heads[i + 1])
    BY <2>1 DEF Shape, heads
  <2>4. start + i <= TopLevelMax
    BY <2>1
  <2>5. Counter(s, start + i) = words[start + i]
    BY <2>4 DEF Counter, words
  <2> QED BY <2>1, <2>2, <2>3, <2>5, <1>1
<1>3. ASSUME NEW i \in 1 .. n, NEW j \in 1 .. words[start + i]
      PROVE  EndedOp(s, i, j) \in EndedOps /\ MayEnd(s.slots, EndedOp(s, i, j))
  <2> DEFINE place == OpBefore(heads[i + 1], j)
             outs == IF j = words[start + i] /\ n = 1 THEN s.line.lhs ELSE 1
  <2>1. j \in Nat \ {0} /\ WellFilled(s.slots)
    BY <1>2 DEF Shape
  <2>2. /\ place[1] \in Int /\ place[2] \in Nat
        /\ place[1] > 0 => place[1] \in 1 .. Len(s.slots) /\ place[2] \in 1 .. Len(s.slots[place[1]])
    BY <2>1, <1>2, OpBeforeFacts
  <2>3. place = <<place[1], place[2]>>
    BY DEF OpBefore
  <2>4. outs \in Nat
    BY <1>1
  <2>5. EndedOp(s, i, j) = [place |-> place, outs |-> outs]
    BY DEF EndedOp, heads, words, start, n
  <2> HIDE DEF place, outs
  <2> QED BY <2>2, <2>3, <2>4, <2>5 DEF EndedOps, MayEnd
<1> DEFINE Endable == {op \in EndedOps : MayEnd(s.slots, op)}
<1>0. ASSUME NEW i \in 1 .. n, NEW j \in 1 .. words[start + i]
      PROVE  EndedOp(s, i, j) \in Endable
  BY <1>3 DEF Endable
<1> HIDE DEF Endable
<1>4. ASSUME NEW i \in 1 .. n
      PROVE  /\ parts[i] \in Seq(Endable) /\ Len(parts[i]) = words[start + i]
             /\ \A j \in 1 .. words[start + i] : parts[i][j] = EndedOp(s, i, j)
  <2>1. parts[i] = [j \in 1 .. words[start + i] |-> EndedOp(s, i, j)]
    BY <1>2 DEF EndedOp, heads, words, start, n
  <2>2. [j \in 1 .. words[start + i] |-> EndedOp(s, i, j)] \in [1 .. words[start + i] -> Endable]
    BY <1>0
  <2>3. parts[i] \in Seq(Endable) /\ Len(parts[i]) = words[start + i]
    <3> DEFINE k == words[start + i]
               f == parts[i]
    <3>1. k \in Nat /\ f \in [1 .. k -> Endable]
      <4> HIDE DEF parts
      <4> QED BY <2>1, <2>2, <1>2
    <3> HIDE DEF k, f
    <3>2. f \in Seq(Endable) /\ Len(f) = k
      BY <3>1, FunctionIsSequence
    <3> QED BY <3>2 DEF k, f
  <2> HIDE DEF parts
  <2> QED BY <2>1, <2>3
<1>5. parts \in Seq(Seq(Endable)) /\ Len(parts) = n
  <2>1. parts = [i \in 1 .. n |-> parts[i]]
    OBVIOUS
  <2> HIDE DEF parts
  <2>2. [i \in 1 .. n |-> parts[i]] \in [1 .. n -> Seq(Endable)]
    BY <1>4
  <2> QED BY <2>1, <2>2, <1>1, FunctionIsSequence
<1>6. ops = FlattenSeq(parts)
  BY DEF LineOps, n, start, heads
<1> HIDE DEF parts, ops
<1>7. PICK o : AreOffsets(o, parts)
  BY <1>5, OffsetsExist
<1>8. /\ o \in [0 .. n -> Nat] /\ o[0] = 0
      /\ \A i \in 1 .. n : o[i] = o[i - 1] + words[start + i]
  BY <1>4, <1>5, <1>7 DEF AreOffsets
<1>9. H \in [0 .. n -> Nat] /\ \A i \in 1 .. n : H[i] = H[i - 1] + words[start + i]
  BY DEF n, words, start
<1>10. \A i \in 0 .. n : H[i] = H[0] + o[i]
  <2> DEFINE T == {i \in 0 .. n : H[i] = H[0] + o[i]}
  <2>1. 0 \in T
    BY <1>1, <1>8, <1>9, SMTT(30)
  <2>2. ASSUME NEW i \in 0 .. (n - 1), i \in T PROVE i + 1 \in T
    <3>1. i + 1 \in 1 .. n /\ (i + 1) - 1 = i /\ i + 1 \in 0 .. n /\ i \in 0 .. n
      BY <1>1
    <3>2. H[i + 1] = H[i] + words[start + (i + 1)] /\ o[i + 1] = o[i] + words[start + (i + 1)]
      BY <3>1, <1>8, <1>9
    <3>3. \A k \in 1 .. n : words[start + k] \in Nat
      BY <1>2
    <3>4. words[start + (i + 1)] \in Nat
      BY <3>1, <3>3
    <3>5. 0 \in 0 .. n
      BY <1>1
    <3>6. H[0] \in Nat /\ o[i] \in Nat
      BY <3>1, <3>5, <1>8, <1>9
    <3>7. H[i] = H[0] + o[i]
      BY <2>2
    <3>8. H[i + 1] = H[0] + o[i + 1]
      BY <3>2, <3>4, <3>6, <3>7
    <3> QED BY <3>1, <3>8
  <2> HIDE DEF T
  <2>3. \A i \in 0 .. n : i \in T
    BY <1>1, <2>1, <2>2, BoundedInduction
  <2> QED BY <2>3 DEF T
<1>11. /\ ops \in Seq(Endable) /\ Len(ops) = o[n]
       /\ \A i \in 1 .. n : \A k \in 1 .. words[start + i] :
            o[i - 1] + k \in 1 .. o[n] /\ ops[o[i - 1] + k] = parts[i][k]
  BY <1>4, <1>5, <1>6, <1>7, FlattenFacts, SMTT(30)
<1>12. Len(ops) = H[n] - H[0] /\ H[0] <= H[n]
  <2>1. 0 \in 0 .. n /\ n \in 0 .. n
    BY <1>1
  <2>2. H[0] \in Nat /\ o[n] \in Nat /\ H[n] = H[0] + o[n]
    BY <2>1, <1>8, <1>9, <1>10
  <2> QED BY <2>2, <1>11
<1>13. ASSUME NEW i \in 1 .. n, NEW j \in 1 .. words[start + i]
       PROVE  /\ H[i - 1] - H[0] + j \in 1 .. Len(ops)
              /\ ops[H[i - 1] - H[0] + j] = EndedOp(s, i, j)
  <2>1. i - 1 \in 0 .. n
    BY <1>1
  <2>2. H[i - 1] - H[0] = o[i - 1]
    <3>1. 0 \in 0 .. n
      BY <1>1
    <3>2. H[0] \in Nat /\ o[i - 1] \in Nat /\ H[i - 1] = H[0] + o[i - 1]
      BY <2>1, <3>1, <1>8, <1>9, <1>10
    <3> QED BY <3>2
  <2> QED BY <2>2, <1>4, <1>11, ZenonT(60)
<1>14. Endable \subseteq EndedOps /\ \A op \in Endable : MayEnd(s.slots, op)
  BY DEF Endable
<1>15. ASSUME NEW m \in 1 .. Len(ops) PROVE ops[m] \in EndedOps /\ MayEnd(s.slots, ops[m])
  <2> HIDE DEF Endable
  <2>1. ops[m] \in Endable
    BY <1>11, ElementOfSeq
  <2> QED BY <2>1, <1>14
<1>16. ops \in Seq(EndedOps)
  <2> HIDE DEF Endable
  <2> QED BY <1>11, <1>14, SeqMonotonic
<1> QED BY <1>11, <1>12, <1>13, <1>15, <1>16 DEF n, start, words, ops

(* The ops of a line are ended one after the other. *)
Endings(s, ops, ended) ==
  /\ ended[0] = s
  /\ \A m \in 1 .. Len(ops) : ended[m] = EndOp(ended[m - 1], ops[m])
  /\ \A m \in 0 .. Len(ops) : Shape(ended[m]) /\ Alike(s.slots, ended[m].slots)

Height(t) == t.stackTracker.current

LEMMA ShapeHeight == ASSUME NEW s, Shape(s) PROVE Height(s) \in Nat /\ s.line.lhs \in Nat
<1>1. s \in StateType /\ Byte \subseteq Nat
  BY LimitsAssumption DEF Shape, Byte
<1>2. s.stackTracker \in TrackerType /\ s.line \in LineType
  BY <1>1 DEF StateType
<1> QED BY <1>1, <1>2 DEF TrackerType, LineType, Height

(* What an item leaves on the stack. *)
LEMMA ItemEnded ==
  ASSUME NEW s, Shape(s), NEW H, ItemsLedger(s, H), NEW F, InputsLedger(s, F),
         LineItems(s) \in 1 .. (LineItemsMax + 1),
         NEW ended, Endings(s, LineOps(s), ended),
         NEW i \in 1 .. LineItems(s),
         ~Failed(ended[H[i] - H[0]])
  PROVE  /\ ~Failed(ended[H[i - 1] - H[0]])
         /\ H[i] - H[0] \in 0 .. Len(LineOps(s)) /\ H[i - 1] - H[0] \in 0 .. Len(LineOps(s))
         /\ Height(ended[H[i] - H[0]])
              = Height(ended[H[i - 1] - H[0]]) - (F[H[i]] - F[H[i - 1]]) + (H[i] - H[i - 1])
                  + (IF LineItems(s) = 1 THEN s.line.lhs - 1 ELSE 0)
<1> DEFINE n == LineItems(s)
           N == Written(s.slots)
           ops == LineOps(s)
           w == s.topLevel.words[s.line.start + i]
           head == s.line.heads[i + 1]
           a == H[i - 1] - H[0]
           At(j) == ended[a + j]
           Extra(j) == IF j = w /\ n = 1 THEN s.line.lhs - 1 ELSE 0
           Claim(j) == ~Failed(At(j)) =>
                         /\ ~Failed(At(0))
                         /\ Height(At(j)) = Height(At(0)) - (F[H[i]] - F[H[i] - j]) + j + Extra(j)
<1>1. /\ n \in Nat \ {0} /\ n <= LineItemsMax + 1 /\ s.topLevel.count <= TopLevelMax
      /\ H \in [0 .. n -> Nat] /\ H[n] <= N
      /\ \A k \in 1 .. n : s.topLevel.words[s.line.start + k] >= 1
           /\ H[k] = H[k - 1] + s.topLevel.words[s.line.start + k]
      /\ \A k \in 0 .. n : s.line.heads[k + 1] = NoPlace \/ PositionOf(s.line.heads[k + 1]) = H[k]
  BY LimitsAssumption DEF ItemsLedger
<1>2. /\ ops \in Seq(EndedOps) /\ Len(ops) = H[n] - H[0] /\ H[0] <= H[n]
      /\ \A k \in 1 .. n : \A j \in 1 .. s.topLevel.words[s.line.start + k] :
           /\ H[k - 1] - H[0] + j \in 1 .. Len(ops)
           /\ ops[H[k - 1] - H[0] + j] = EndedOp(s, k, j)
  <2>1. \A k \in 1 .. n : H[k] = H[k - 1] + s.topLevel.words[s.line.start + k]
    BY <1>1
  <2> QED BY <1>1, <2>1, LineOpsFacts
<1>3. /\ i \in 1 .. n /\ i - 1 \in 0 .. n /\ i \in 0 .. n
      /\ H[i] \in Nat /\ H[i - 1] \in Nat /\ H[0] \in Nat /\ H[n] \in Nat
      /\ w \in Nat \ {0} /\ H[i] = H[i - 1] + w
      /\ s.line.lhs \in Nat /\ N \in Nat
  <2>1. i \in 1 .. n /\ i - 1 \in 0 .. n /\ i \in 0 .. n /\ 0 \in 0 .. n /\ n \in 0 .. n
    BY <1>1
  <2>2. H[i] \in Nat /\ H[i - 1] \in Nat /\ H[0] \in Nat /\ H[n] \in Nat
    BY <1>1, <2>1
  <2>3. w \in Nat
    <3>1. s.topLevel.words \in [1 .. TopLevelMax -> Byte] /\ s.line.start \in Nat /\ s.topLevel.count \in Nat
      BY DEF Shape, StateType, TopLevelType, LineType
    <3>2. n = s.topLevel.count - s.line.start
      BY DEF LineItems
    <3>3. s.topLevel.count <= TopLevelMax /\ n \in Nat /\ i \in 1 .. n /\ TopLevelMax \in Nat
      BY <1>1, <2>1, LimitsAssumption
    <3>4. s.line.start + i \in 1 .. TopLevelMax
      <4> HIDE DEF n
      <4> QED BY <3>1, <3>2, <3>3
    <3>5. Byte \subseteq Nat
      BY LimitsAssumption DEF Byte
    <3> QED BY <3>1, <3>4, <3>5
  <2>4. w >= 1 /\ H[i] = H[i - 1] + w
    BY <1>1
  <2>5. s.line.lhs \in Nat
    BY LimitsAssumption DEF Shape, StateType, LineType, Byte
  <2>6. N \in Nat
    BY FilledPlaces DEF Shape
  <2> HIDE DEF w, n
  <2> QED BY <2>1, <2>2, <2>3, <2>4, <2>5, <2>6
<1>4. \A j \in 1 .. w : a + j \in 1 .. Len(ops) /\ ops[a + j] = EndedOp(s, i, j)
  BY <1>2
<1>5. a \in Nat /\ a + w = H[i] - H[0] /\ a + w <= Len(ops) /\ H[i] <= N /\ Len(ops) \in Nat
  <2>1. 1 \in 1 .. w /\ w \in 1 .. w
    BY <1>3
  <2>2. a + 1 \in 1 .. Len(ops) /\ a + w \in 1 .. Len(ops)
    BY <1>4, <2>1
  <2>3. Len(ops) \in Nat
    BY <1>2, LenProperties
  <2>4. H[i] = H[i - 1] + w /\ H[i - 1] \in Nat /\ H[0] \in Nat /\ w \in Nat \ {0}
    BY <1>3
  <2>5. Len(ops) = H[n] - H[0] /\ H[n] <= N /\ H[n] \in Nat /\ N \in Nat
    BY <1>1, <1>2, <1>3
  <2> DEFINE x == H[i - 1]
             y == H[0]
             z == H[i]
             total == H[n]
             length == Len(ops)
  <2>6. /\ x - y + 1 \in 1 .. length /\ x - y + w \in 1 .. length /\ length \in Nat
        /\ z = x + w /\ x \in Nat /\ y \in Nat /\ w \in Nat \ {0}
        /\ length = total - y /\ total <= N /\ total \in Nat /\ N \in Nat
    BY <2>2, <2>3, <2>4, <2>5
  <2> HIDE DEF w, N, x, y, z, total, length
  <2>7. x - y \in Nat /\ x - y + w = z - y /\ x - y + w <= length /\ z <= N
    BY <2>6
  <2> QED BY <2>6, <2>7 DEF x, y, z, length
<1>6. /\ \A m \in 1 .. Len(ops) : ended[m] = EndOp(ended[m - 1], ops[m])
      /\ \A m \in 0 .. Len(ops) : Shape(ended[m]) /\ Alike(s.slots, ended[m].slots)
  BY DEF Endings
<1>7. /\ F \in [0 .. N -> Nat] /\ \A p \in 1 .. N : F[p] = F[p - 1] + OpAtPosition(s.slots, p).ins
      /\ \A p \in 1 .. N : OpAtPosition(s.slots, p) \in ReadOp
      /\ \A p \in 1 .. N : OpAtPosition(s.slots, p).ins \in Nat
  <2>1. F \in [0 .. N -> Nat] /\ \A p \in 1 .. N : F[p] = F[p - 1] + OpAtPosition(s.slots, p).ins
    BY DEF InputsLedger
  <2>2. \A p \in 1 .. N : OpAtPosition(s.slots, p) \in ReadOp
    BY FilledPositions DEF Shape
  <2>3. \A op \in ReadOp : op.ins \in Nat
    BY LimitsAssumption DEF ReadOp
  <2> HIDE DEF N
  <2> QED BY <2>1, <2>2, <2>3
<1>8. WellFilled(s.slots) /\ PlaceIn(s.slots, head)
  <2>1. i + 1 \in 1 .. (LineItemsMax + 2)
    BY <1>1, <1>3, LimitsAssumption, SMTT(30)
  <2> QED BY <2>1 DEF Shape
<1>9. ASSUME NEW m \in 0 .. Len(ops) PROVE Height(ended[m]) \in Nat
  <2>1. Shape(ended[m])
    BY <1>6
  <2> QED BY <2>1, ShapeHeight
<1>10. ASSUME NEW j \in 0 .. (w - 1), ~Failed(At(j + 1))
       PROVE  /\ ~Failed(At(j))
              /\ Height(At(j + 1)) = Height(At(j)) - OpAtPosition(s.slots, H[i] - j).ins
                                       + 1 + Extra(j + 1)
              /\ H[i] - j \in 1 .. N
  <2> DEFINE op == EndedOp(s, i, j + 1)
             t == At(j)
  <2>1. /\ j + 1 \in 1 .. w /\ j + 1 \in Nat \ {0} /\ j \in Nat
        /\ a + (j + 1) \in 1 .. Len(ops) /\ (a + (j + 1)) - 1 = a + j /\ a + j \in 0 .. Len(ops)
    <3>1. j + 1 \in 1 .. w /\ j + 1 \in Nat \ {0} /\ j \in Nat
      BY <1>3
    <3> HIDE DEF w, a
    <3> QED BY <3>1, <1>4, <1>5
  <2>2. At(j + 1) = EndOp(t, op)
    BY <2>1, <1>4, <1>6
  <2>3. Shape(t) /\ Alike(s.slots, t.slots)
    BY <2>1, <1>6
  <2>4. MayEnd(s.slots, op)
    <3>1. \A m \in 1 .. Len(ops) : MayEnd(s.slots, ops[m])
      <4>1. \A k \in 1 .. n : H[k] = H[k - 1] + s.topLevel.words[s.line.start + k]
        BY <1>1
      <4> QED BY <1>1, <4>1, LineOpsFacts
    <3> QED BY <3>1, <2>1, <1>4
  <2>5. MayEnd(t.slots, op)
    BY <2>3, <2>4 DEF MayEnd, Alike
  <2>6. /\ ~Failed(t) /\ op.place[1] > 0
        /\ Height(At(j + 1)) = Height(t) - OpAtPosition(t.slots, PositionOf(op.place)).ins + op.outs
    <3> HIDE DEF t, op
    <3> QED BY <2>2, <2>3, <2>5, <1>10, EndOpFacts DEF Height
  <2>7. /\ op.place = OpBefore(head, j + 1)
        /\ op.outs = 1 + Extra(j + 1)
    <3>1. op = [place |-> OpBefore(head, j + 1),
                outs |-> IF j + 1 = w /\ n = 1 THEN s.line.lhs ELSE 1]
      BY DEF EndedOp
    <3> HIDE DEF op, w, n, head
    <3> QED BY <3>1, <1>3
  <2>8. head # NoPlace /\ PositionOf(head) = H[i]
    <3>1. head # NoPlace
      <4> HIDE DEF op, head
      <4> QED BY <2>1, <2>6, <2>7, <1>8, OpBeforeFacts
    <3> QED BY <3>1, <1>1, <1>3
  <2>9. j + 1 <= PositionOf(head)
    <3>1. j + 1 \in 1 .. w /\ H[i] = H[i - 1] + w /\ H[i - 1] \in Nat /\ w \in Nat /\ j \in Nat
      BY <2>1, <1>3
    <3> HIDE DEF w, head
    <3> QED BY <3>1, <2>8
  <2>10. PositionOf(op.place) = H[i] - (j + 1) + 1
    <3> HIDE DEF op, head
    <3> QED BY <2>1, <2>7, <2>8, <2>9, <1>8, OpBeforeFacts
  <2>11. H[i] - j \in 1 .. N /\ PositionOf(op.place) = H[i] - j
    <3>1. j + 1 \in 1 .. w /\ H[i] = H[i - 1] + w /\ H[i - 1] \in Nat /\ w \in Nat /\ j \in Nat
          /\ H[i] <= N /\ N \in Nat
      BY <2>1, <1>3, <1>5
    <3> HIDE DEF op, w, N
    <3> QED BY <2>10, <3>1
  <2>12. OpAtPosition(t.slots, H[i] - j).ins = OpAtPosition(s.slots, H[i] - j).ins
    BY <2>11, <2>3 DEF Alike
  <2>13. /\ Height(At(j + 1)) \in Nat /\ Height(t) \in Nat
         /\ OpAtPosition(s.slots, H[i] - j).ins \in Nat
    BY <2>1, <2>11, <1>7, <1>9, SMTT(30)
  <2>14. Extra(j + 1) \in Int
    BY <1>3
  <2> HIDE DEF t, op, Extra
  <2> QED BY <2>6, <2>7, <2>11, <2>12, <2>13, <2>14 DEF t
<1>11. \A j \in 0 .. w : Claim(j)
  <2> DEFINE T == {j \in 0 .. w : Claim(j)}
  <2>1. 0 \in T
    <3>1. Extra(0) = 0
      BY <1>3
    <3>2. H[i] - 0 = H[i] /\ F[H[i]] \in Nat
      BY <1>3, <1>5, <1>7
    <3>3. Height(At(0)) \in Nat
      <4>1. a + 0 \in 0 .. Len(ops)
        <5>1. a \in Nat /\ w \in Nat /\ Len(ops) \in Nat /\ a + w <= Len(ops)
          BY <1>3, <1>5
        <5> HIDE DEF a, w
        <5> QED BY <5>1
      <4> QED BY <4>1, <1>9
    <3> QED BY <3>1, <3>2, <3>3, <1>3
  <2>2. ASSUME NEW j \in 0 .. (w - 1), j \in T PROVE j + 1 \in T
    <3>1. j + 1 \in 0 .. w /\ j \in Nat
      BY <1>3
    <3>2. ASSUME ~Failed(At(j + 1))
          PROVE  /\ ~Failed(At(0))
                 /\ Height(At(j + 1)) = Height(At(0)) - (F[H[i]] - F[H[i] - (j + 1)]) + (j + 1)
                                          + Extra(j + 1)
      <4>1. /\ ~Failed(At(j))
            /\ Height(At(j + 1)) = Height(At(j)) - OpAtPosition(s.slots, H[i] - j).ins
                                     + 1 + Extra(j + 1)
            /\ H[i] - j \in 1 .. N
        BY <1>10, <3>2
      <4>2. /\ ~Failed(At(0))
            /\ Height(At(j)) = Height(At(0)) - (F[H[i]] - F[H[i] - j]) + j + Extra(j)
        BY <2>2, <4>1
      <4>3. Extra(j) = 0
        BY <1>3
      <4>4. Extra(j + 1) \in Int
        BY <1>3
      <4>5. F[H[i] - j] = F[(H[i] - j) - 1] + OpAtPosition(s.slots, H[i] - j).ins
            /\ F[H[i] - j] \in Nat /\ F[(H[i] - j) - 1] \in Nat
            /\ OpAtPosition(s.slots, H[i] - j).ins \in Nat
        <5> DEFINE p == H[i] - j
        <5>1. p \in 1 .. N /\ p \in 0 .. N /\ p - 1 \in 0 .. N
          BY <4>1, <1>3
        <5> HIDE DEF p, N
        <5>2. F[p] = F[p - 1] + OpAtPosition(s.slots, p).ins /\ OpAtPosition(s.slots, p).ins \in Nat
              /\ F[p] \in Nat /\ F[p - 1] \in Nat
          BY <5>1, <1>7
        <5> QED BY <5>2 DEF p
      <4>6. (H[i] - j) - 1 = H[i] - (j + 1)
        <5>1. H[i] \in Nat /\ j \in Nat
          BY <1>3, <3>1
        <5> QED BY <5>1
      <4>7. F[H[i]] \in Nat /\ Height(At(0)) \in Nat /\ Height(At(j)) \in Nat
        <5>1. a + 0 \in 0 .. Len(ops) /\ a + j \in 0 .. Len(ops) /\ H[i] \in 0 .. N
          <6>1. /\ a \in Nat /\ w \in Nat /\ Len(ops) \in Nat /\ a + w <= Len(ops) /\ j \in 0 .. (w - 1)
                /\ H[i] \in Nat /\ H[i] <= N /\ N \in Nat
            BY <1>3, <1>5
          <6> HIDE DEF a, w, N, ops
          <6> QED BY <6>1
        <5> QED BY <5>1, <1>7, <1>9
      <4> DEFINE x == Height(At(0))
                 y == Height(At(j))
                 z == Height(At(j + 1))
                 ins == OpAtPosition(s.slots, H[i] - j).ins
                 e == Extra(j + 1)
                 f == F[H[i]]
                 g == F[H[i] - j]
                 h == F[H[i] - (j + 1)]
      <4>8. /\ z = y - ins + 1 + e /\ y = x - (f - g) + j + 0 /\ g = h + ins
            /\ x \in Nat /\ y \in Nat /\ e \in Int /\ f \in Nat /\ g \in Nat /\ h \in Nat
            /\ ins \in Nat /\ j \in Nat
        BY <4>1, <4>2, <4>3, <4>4, <4>5, <4>6, <4>7, <3>1
      <4> HIDE DEF x, y, z, ins, e, f, g, h
      <4>9. z = x - (f - h) + (j + 1) + e
        BY <4>8
      <4> QED BY <4>2, <4>9 DEF x, z, e, f, h
    <3> QED BY <3>1, <3>2
  <2> HIDE DEF T
  <2>3. \A j \in 0 .. w : j \in T
    BY <1>3, <2>1, <2>2, BoundedInduction
  <2> QED BY <2>3 DEF T
<1>12. Claim(w) /\ At(w) = ended[H[i] - H[0]] /\ At(0) = ended[H[i - 1] - H[0]]
  <2>1. a + 0 = a /\ w \in 0 .. w
    <3>1. a \in Nat /\ w \in Nat
      BY <1>3, <1>5
    <3> HIDE DEF a, w
    <3> QED BY <3>1
  <2> QED BY <2>1, <1>11, <1>5
<1>13. H[i] - w = H[i - 1] /\ w = H[i] - H[i - 1]
  <2>1. H[i] = H[i - 1] + w /\ H[i - 1] \in Nat /\ w \in Nat
    BY <1>3
  <2> HIDE DEF w
  <2> QED BY <2>1
<1>14. Extra(w) = IF n = 1 THEN s.line.lhs - 1 ELSE 0
  OBVIOUS
<1>15. H[i] - H[0] \in 0 .. Len(ops) /\ H[i - 1] - H[0] \in 0 .. Len(ops)
  <2>1. a + w = H[i] - H[0] /\ a \in Nat /\ w \in Nat /\ a + w <= Len(ops) /\ Len(ops) \in Nat
    BY <1>3, <1>5
  <2> HIDE DEF w, ops
  <2>2. a \in 0 .. Len(ops) /\ a + w \in 0 .. Len(ops)
    <3> HIDE DEF a
    <3> QED BY <2>1
  <2> QED BY <2>1, <2>2
<1> HIDE DEF Extra, w
<1> QED BY <1>12, <1>13, <1>14, <1>15

(* A line that ends leaves what its LHS takes: the words of the line are the *)
(* inputs of one another, but for the last of each item.                     *)
LEMMA EndItemsFacts ==
  ASSUME NEW s, Shape(s), NEW H, ItemsLedger(s, H), NEW F, InputsLedger(s, F),
         LineItems(s) # 0, Begun(s, H) = 0,
         F[Written(s.slots)] + LineItems(s) + H[0] = Written(s.slots) + F[H[0]]
  PROVE  LET t == EndItems(s) IN
           /\ Shape(t) /\ KeepsBuilt(s, t) /\ KeepsBlooms(s, t)
           /\ t.topLevel = s.topLevel /\ t.parens = s.parens /\ t.line = s.line
           /\ t.fsm = s.fsm /\ Alike(s.slots, t.slots)
           /\ ~Failed(t) => Height(t) = Height(s) + s.line.lhs
<1> DEFINE n == LineItems(s)
           N == Written(s.slots)
           ops == LineOps(s)
           t == EndOps(s, ops)
           Kept(u) == /\ Shape(u) /\ KeepsBuilt(s, u) /\ KeepsBlooms(s, u)
                      /\ u.topLevel = s.topLevel /\ u.parens = s.parens /\ u.line = s.line
                      /\ u.fsm = s.fsm /\ Alike(s.slots, u.slots)
<1>1. /\ n \in Nat \ {0} /\ n \in 1 .. (LineItemsMax + 1) /\ s.topLevel.count <= TopLevelMax
      /\ H \in [0 .. n -> Nat] /\ H[n] <= N
      /\ \A k \in 1 .. n : s.topLevel.words[s.line.start + k] >= 1
           /\ H[k] = H[k - 1] + s.topLevel.words[s.line.start + k]
  BY LimitsAssumption DEF ItemsLedger
<1>2. /\ ops \in Seq(EndedOps) /\ Len(ops) = H[n] - H[0] /\ H[0] <= H[n]
      /\ \A m \in 1 .. Len(ops) : MayEnd(s.slots, ops[m])
  BY <1>1, LineOpsFacts, ZenonT(60)
<1>3. PICK ended :
        /\ t = ended[Len(ops)] /\ ended[0] = s
        /\ \A m \in 1 .. Len(ops) : ended[m] = EndOp(ended[m - 1], ops[m])
        /\ \A m \in 0 .. Len(ops) :
             LET u == ended[m] IN
               /\ Shape(u) /\ KeepsBuilt(s, u) /\ KeepsBlooms(s, u)
               /\ u.topLevel = s.topLevel /\ u.parens = s.parens /\ u.line = s.line
               /\ u.fsm = s.fsm /\ Alike(s.slots, u.slots)
  <2> HIDE DEF ops
  <2> QED BY <1>2, EndOpsSteps, ZenonT(60)
<1>4. Endings(s, ops, ended)
  BY <1>3 DEF Endings
<1>5. Len(ops) \in Nat
  BY <1>2, LenProperties
<1>6. Kept(t)
  <2>1. Len(ops) \in 0 .. Len(ops)
    BY <1>5
  <2> HIDE DEF ops
  <2> QED BY <2>1, <1>3
<1>7. /\ N \in Nat /\ H[n] = N /\ H[0] \in Nat /\ s.line.lhs \in Nat /\ Height(s) \in Nat
      /\ F \in [0 .. N -> Nat]
  <2>1. N \in Nat
    BY FilledPlaces DEF Shape
  <2>2. 0 \in 0 .. n /\ n \in 0 .. n
    BY <1>1
  <2>3. H[n] \in Nat /\ H[0] \in Nat
    BY <1>1, <2>2
  <2>4. s.line.lhs \in Nat /\ Height(s) \in Nat
    BY ShapeHeight
  <2>5. F \in [0 .. N -> Nat]
    BY DEF InputsLedger
  <2>6. N - H[n] = 0
    BY DEF Begun
  <2> HIDE DEF N, n
  <2> QED BY <2>1, <2>3, <2>4, <2>5, <2>6
<1> DEFINE At(i) == ended[H[i] - H[0]]
           Extra(i) == IF n = 1 /\ i = 1 THEN s.line.lhs - 1 ELSE 0
           Claim(i) == ~Failed(At(i)) =>
                         Height(At(i)) = Height(s) - (F[H[i]] - F[H[0]]) + (H[i] - H[0]) + Extra(i)
<1>8. \A i \in 0 .. n : Claim(i)
  <2> DEFINE T == {i \in 0 .. n : Claim(i)}
  <2>0. F[H[0]] \in Nat
    BY <1>7, <1>2
  <2>1. 0 \in T
    <3>1. H[0] - H[0] = 0 /\ At(0) = s /\ Extra(0) = 0
      BY <1>3, <1>7
    <3>2. 0 \in 0 .. n /\ H[0] \in Nat /\ Height(s) \in Nat
      BY <1>1, <1>7
    <3> HIDE DEF At, Extra, n
    <3> QED BY <3>1, <3>2, <2>0
  <2>2. ASSUME NEW i \in 0 .. (n - 1), i \in T PROVE i + 1 \in T
    <3>1. i + 1 \in 1 .. n /\ i + 1 \in 0 .. n /\ (i + 1) - 1 = i /\ i \in 0 .. n
      BY <1>1
    <3>2. ASSUME ~Failed(At(i + 1))
          PROVE  Height(At(i + 1)) = Height(s) - (F[H[i + 1]] - F[H[0]]) + (H[i + 1] - H[0])
                                       + Extra(i + 1)
      <4>1. /\ ~Failed(ended[H[(i + 1) - 1] - H[0]])
            /\ H[i + 1] - H[0] \in 0 .. Len(ops) /\ H[(i + 1) - 1] - H[0] \in 0 .. Len(ops)
            /\ Height(ended[H[i + 1] - H[0]])
                 = Height(ended[H[(i + 1) - 1] - H[0]]) - (F[H[i + 1]] - F[H[(i + 1) - 1]])
                     + (H[i + 1] - H[(i + 1) - 1]) + (IF n = 1 THEN s.line.lhs - 1 ELSE 0)
        <5> DEFINE k == i + 1
        <5>1. /\ LineItems(s) \in 1 .. (LineItemsMax + 1) /\ Endings(s, LineOps(s), ended)
              /\ k \in 1 .. LineItems(s) /\ ~Failed(ended[H[k] - H[0]])
          BY <1>1, <1>4, <3>1, <3>2
        <5> HIDE DEF k
        <5>2. /\ ~Failed(ended[H[k - 1] - H[0]])
              /\ H[k] - H[0] \in 0 .. Len(LineOps(s)) /\ H[k - 1] - H[0] \in 0 .. Len(LineOps(s))
              /\ Height(ended[H[k] - H[0]])
                   = Height(ended[H[k - 1] - H[0]]) - (F[H[k]] - F[H[k - 1]]) + (H[k] - H[k - 1])
                       + (IF LineItems(s) = 1 THEN s.line.lhs - 1 ELSE 0)
          BY <5>1, ItemEnded
        <5> QED BY <5>2 DEF k
      <4>2. /\ ~Failed(At(i)) /\ H[i + 1] - H[0] \in 0 .. Len(ops) /\ H[i] - H[0] \in 0 .. Len(ops)
            /\ Height(At(i + 1)) = Height(At(i)) - (F[H[i + 1]] - F[H[i]])
                     + (H[i + 1] - H[i]) + (IF n = 1 THEN s.line.lhs - 1 ELSE 0)
        BY <4>1, <3>1
      <4>3. Height(At(i)) = Height(s) - (F[H[i]] - F[H[0]]) + (H[i] - H[0]) + Extra(i)
        BY <4>2, <2>2
      <4>4. Extra(i) + (IF n = 1 THEN s.line.lhs - 1 ELSE 0) = Extra(i + 1) /\ Extra(i) \in Int
            /\ (IF n = 1 THEN s.line.lhs - 1 ELSE 0) \in Int
        <5>1. CASE n = 1
          <6>1. i = 0 /\ i + 1 = 1
            BY <5>1
          <6>2. s.line.lhs \in Nat
            BY <1>7
          <6> HIDE DEF n
          <6> QED BY <6>1, <6>2, <5>1
        <5>2. CASE n # 1
          <6> HIDE DEF n
          <6> QED BY <5>2
        <5> QED BY <5>1, <5>2
      <4>5. H[i] \in Nat /\ H[i + 1] \in Nat /\ H[i] <= N /\ H[i + 1] <= N
        <5>1. H[i] \in Nat /\ H[i + 1] \in Nat
          BY <3>1, <1>1
        <5>2. /\ H[i + 1] - H[0] \in 0 .. Len(ops) /\ H[i] - H[0] \in 0 .. Len(ops)
              /\ Len(ops) = H[n] - H[0] /\ H[n] = N /\ H[0] \in Nat /\ N \in Nat
          BY <4>2, <1>2, <1>7
        <5> HIDE DEF n, N, ops
        <5> QED BY <5>1, <5>2, SMTT(30)
      <4>6. F[H[i]] \in Nat /\ F[H[i + 1]] \in Nat
        BY <4>5, <1>7
      <4>7. Height(At(i)) \in Nat
        <5>1. Shape(At(i))
          BY <4>2, <1>3
        <5> QED BY <5>1, ShapeHeight
      <4> DEFINE e == IF n = 1 THEN s.line.lhs - 1 ELSE 0
      <4>8. /\ Height(At(i + 1)) = Height(At(i)) - (F[H[i + 1]] - F[H[i]]) + (H[i + 1] - H[i]) + e
            /\ Extra(i) + e = Extra(i + 1) /\ Extra(i) \in Int /\ e \in Int
        BY <4>2, <4>4
      <4>9. Height(s) \in Nat /\ H[0] \in Nat
        BY <1>7
      <4> DEFINE x == Height(At(i))
                 y == Height(At(i + 1))
                 z == Height(s)
                 c == Extra(i)
                 d == Extra(i + 1)
      <4>10. /\ x = z - (F[H[i]] - F[H[0]]) + (H[i] - H[0]) + c
             /\ y = x - (F[H[i + 1]] - F[H[i]]) + (H[i + 1] - H[i]) + e
             /\ c + e = d /\ c \in Int /\ e \in Int /\ x \in Nat /\ z \in Nat
        BY <4>3, <4>7, <4>8, <4>9
      <4> HIDE DEF e, x, y, z, c, d
      <4>11. y = z - (F[H[i + 1]] - F[H[0]]) + (H[i + 1] - H[0]) + d
        BY <4>10, <4>5, <4>6, <4>9, <2>0
      <4> QED BY <4>11 DEF y, z, d
    <3> QED BY <3>1, <3>2
  <2> HIDE DEF T
  <2>3. \A i \in 0 .. n : i \in T
    BY <1>1, <2>1, <2>2, BoundedInduction
  <2> QED BY <2>3 DEF T
<1>9. ASSUME ~Failed(t), n > 1 => s.line.lhs = n
      PROVE  Height(t) = Height(s) + s.line.lhs
  <2>1. At(n) = t /\ n \in 0 .. n
    BY <1>1, <1>2, <1>3
  <2>2. Height(t) = Height(s) - (F[H[n]] - F[H[0]]) + (H[n] - H[0]) + Extra(n)
    BY <2>1, <1>8, <1>9
  <2>3. F[N] + n + H[0] = N + F[H[0]]
    OBVIOUS
  <2>4. F[N] \in Nat /\ F[H[0]] \in Nat
    BY <1>7, <1>2
  <2>5. n + Extra(n) = s.line.lhs /\ Extra(n) \in Int
    <3>1. CASE n = 1
      BY <3>1, <1>7, SMTT(30)
    <3>2. CASE n # 1
      BY <3>2, <1>1, <1>9
    <3> QED BY <3>1, <3>2
  <2>6. H[n] = N /\ N \in Nat /\ H[0] \in Nat /\ n \in Nat /\ Height(s) \in Nat /\ s.line.lhs \in Nat
    BY <1>1, <1>7
  <2> HIDE DEF Extra, t, n, N
  <2> QED BY <2>2, <2>3, <2>4, <2>5, <2>6
<1>10. CASE n > 1 /\ s.line.lhs # n
  <2>1. s \in StateType /\ WellFilled(s.slots)
    BY DEF Shape
  <2>2. EndItems(s) = Revert(s, "ExcessRHSItems") \/ EndItems(s) = Revert(s, "ExcessLHSItems")
    BY <1>10, <1>1, <1>7, SMTT(30) DEF EndItems
  <2>3. PICK e \in Errors : EndItems(s) = Revert(s, e)
    BY <2>2, ErrorsFacts
  <2>4. /\ Revert(s, e) \in StateType /\ KeepsAll(s, Revert(s, e)) /\ Failed(Revert(s, e))
    BY <2>1, RevertKeeps
  <2>5. Alike(s.slots, s.slots)
    BY <2>1 DEF Alike
  <2> QED BY <2>3, <2>4, <2>5 DEF KeepsAll, Shape
<1>11. CASE ~(n > 1 /\ s.line.lhs # n)
  <2>1. EndItems(s) = t
    BY <1>11, <1>1, <1>7 DEF EndItems
  <2>2. n > 1 => s.line.lhs = n
    BY <1>11
  <2> HIDE DEF t, n
  <2> QED BY <2>1, <2>2, <1>6, <1>9
<1> QED BY <1>10, <1>11

-----------------------------------------------------------------------------
(* What keeps the ledger. *)

LEMMA LedgerNumbers ==
  ASSUME NEW s, Shape(s), NEW H, ItemsLedger(s, H)
  PROVE  LET n == LineItems(s) IN
           /\ n \in Nat /\ Written(s.slots) \in Nat /\ Begun(s, H) \in Nat
           /\ H[n] \in Nat /\ H[0] \in Nat /\ Written(s.slots) = H[n] + Begun(s, H)
           /\ s.topLevel.count \in Nat /\ s.line.start \in Nat /\ s.topLevel.count = s.line.start + n
           /\ s.topLevel.words \in [1 .. TopLevelMax -> Nat] /\ s.topLevel.lhs \in Nat
           /\ s.line.lhs \in Nat /\ s.line.heads \in [1 .. (LineItemsMax + 2) -> Place]
           /\ TopLevelMax \in Nat \ {0} /\ LineItemsMax \in Nat \ {0} /\ ParensMax \in Nat \ {0}
           /\ s.stackTracker.current \in Nat
           /\ s.parens.depth \in 0 .. ParensMax
           /\ s.parens.groups \in [0 .. (ParensMax + 1) -> GroupType]
<1> DEFINE n == LineItems(s)
           N == Written(s.slots)
<1>1. TopLevelMax \in Nat \ {0} /\ LineItemsMax \in Nat \ {0} /\ ParensMax \in Nat \ {0} /\ Byte \subseteq Nat
  BY LimitsAssumption DEF Byte
<1>2. s \in StateType
  BY DEF Shape
<1>3. /\ s.topLevel.count \in Nat /\ s.line.start \in Nat
      /\ s.topLevel.words \in [1 .. TopLevelMax -> Byte] /\ s.topLevel.lhs \in Byte
      /\ s.line.lhs \in Byte /\ s.line.heads \in [1 .. (LineItemsMax + 2) -> Place]
  BY <1>2 DEF StateType, TopLevelType, LineType
<1>4. /\ s.stackTracker.current \in Byte
      /\ s.parens.depth \in 0 .. ParensMax
      /\ s.parens.groups \in [0 .. (ParensMax + 1) -> GroupType]
  BY <1>2 DEF StateType, TrackerType, ParensType
<1>5. n \in Nat /\ H \in [0 .. n -> Nat] /\ H[n] <= N
  BY <1>1 DEF ItemsLedger
<1>6. N \in Nat
  BY FilledPlaces DEF Shape
<1>7. n = s.topLevel.count - s.line.start /\ Begun(s, H) = N - H[n]
  BY DEF LineItems, Begun
<1>8. s.topLevel.words \in [1 .. TopLevelMax -> Nat]
  BY <1>1, <1>3
<1> HIDE DEF n, N
<1>9. H[n] \in Nat /\ H[0] \in Nat
  BY <1>5
<1>10. s.topLevel.count = s.line.start + n /\ Begun(s, H) \in Nat /\ N = H[n] + Begun(s, H)
  BY <1>3, <1>5, <1>6, <1>7, <1>9
<1> QED BY <1>1, <1>3, <1>4, <1>5, <1>6, <1>8, <1>9, <1>10 DEF n, N

(* It tells of some of the fields only. *)
LEMMA LedgerStays ==
  ASSUME NEW s, NEW t, NEW top, NEW H, NEW F, NEW G, Ledger(s, top, H, F, G),
         t.slots = s.slots, t.topLevel = s.topLevel, t.line = s.line,
         t.parens.groups = s.parens.groups, t.stackTracker.current = s.stackTracker.current
  PROVE  Ledger(t, top, H, F, G) /\ LineItems(t) = LineItems(s) /\ Begun(t, H) = Begun(s, H)
<1>1. LineItems(t) = LineItems(s)
  BY DEF LineItems
<1>2. Begun(t, H) = Begun(s, H)
  BY <1>1 DEF Begun
<1>3. ItemsLedger(t, H)
  BY <1>1 DEF Ledger, ItemsLedger
<1>4. HeightLedger(t, H)
  BY <1>2 DEF Ledger, HeightLedger
<1>5. InputsLedger(t, F)
  BY DEF Ledger, InputsLedger
<1>6. GroupsLedger(t, top, H, G)
  BY <1>1 DEF Ledger, GroupsLedger
<1>7. Balance(t, top, H, F, G)
  BY <1>1, <1>2 DEF Ledger, Balance
<1> QED BY <1>1, <1>2, <1>3, <1>4, <1>5, <1>6, <1>7 DEF Ledger

(* A group without inputs need not be open. *)
LEMMA LedgerShrinks ==
  ASSUME NEW s, NEW top \in Nat, NEW H, NEW F, NEW G, Ledger(s, top + 1, H, F, G),
         s.parens.groups[top + 1].inputs = 0
  PROVE  Ledger(s, top, H, F, [g \in 0 .. top |-> G[g]])
<1> DEFINE R == [g \in 0 .. top |-> G[g]]
<1>1. /\ top + 1 \in 0 .. (ParensMax + 1) /\ G \in [0 .. (top + 1) -> Nat]
      /\ \A g \in 1 .. (top + 1) : G[g] = G[g - 1] + s.parens.groups[g].inputs
  BY DEF Ledger, GroupsLedger
<1>2. top \in 0 .. (ParensMax + 1) /\ R \in [0 .. top -> Nat] /\ R[0] = G[0] /\ R[top] = G[top]
  BY <1>1, LimitsAssumption
<1>3. G[top + 1] = G[top]
  <2>1. top + 1 \in 1 .. (top + 1) /\ (top + 1) - 1 = top /\ G[top] \in Nat
    BY <1>1
  <2>2. G[top + 1] = G[top] + s.parens.groups[top + 1].inputs
    BY <2>1, <1>1
  <2> QED BY <2>1, <2>2
<1>4. \A g \in 1 .. top : R[g] = R[g - 1] + s.parens.groups[g].inputs /\ g \in 1 .. (top + 1)
  BY <1>1
<1> HIDE DEF R
<1>5. GroupsLedger(s, top, H, R)
  BY <1>2, <1>4 DEF Ledger, GroupsLedger
<1>6. Balance(s, top, H, F, R)
  BY <1>2, <1>3 DEF Ledger, Balance
<1> QED BY <1>5, <1>6 DEF Ledger, R

(* An item may begin, or a line end, where the last item has ended. *)
LEMMA SnapshotLedger ==
  ASSUME NEW s, Shape(s), NEW t, NEW top, NEW H, NEW F, NEW G, Ledger(s, top, H, F, G),
         t.slots = s.slots, t.topLevel = s.topLevel, t.parens = s.parens,
         t.stackTracker = s.stackTracker, t.line.lhs = s.line.lhs, t.line.start = s.line.start,
         Remembers(s, t)
  PROVE  /\ Ledger(t, top, H, F, G) /\ LineItems(t) = LineItems(s) /\ Begun(t, H) = Begun(s, H)
         /\ s.topLevel.count < TopLevelMax /\ Begun(s, H) = 0 => LineItems(s) <= LineItemsMax
<1> DEFINE n == LineItems(s)
           c == Counter(s, s.topLevel.count + 1)
<1>0. ItemsLedger(s, H) /\ HeightLedger(s, H)
  BY DEF Ledger
<1>1. LineItems(t) = n
  BY DEF LineItems
<1>2. Begun(t, H) = Begun(s, H)
  BY <1>1 DEF Begun
<1>3. /\ n \in Nat /\ Begun(s, H) \in Nat /\ s.topLevel.count \in Nat /\ H[n] \in Nat
      /\ Written(s.slots) = H[n] + Begun(s, H) /\ s.line.heads \in [1 .. (LineItemsMax + 2) -> Place]
      /\ TopLevelMax \in Nat /\ LineItemsMax \in Nat /\ n \in 0 .. (LineItemsMax + 1)
      /\ s.topLevel.lhs \in Nat /\ s.stackTracker.current \in Nat /\ s.line.lhs \in Nat
      /\ s.topLevel.count - s.line.start = n
  <2>1. n \in 0 .. (LineItemsMax + 1)
    BY <1>0 DEF ItemsLedger
  <2>2. s.topLevel.count - s.line.start = n
    BY DEF LineItems
  <2> HIDE DEF n
  <2> QED BY <2>1, <2>2, <1>0, LedgerNumbers DEF n
<1>4. s.topLevel.count <= TopLevelMax
  BY DEF Remembers
<1>5. c = 0 => Begun(s, H) = 0
  <2>1. CASE s.topLevel.count < TopLevelMax
    <3>1. s.topLevel.words[s.topLevel.count + 1] = Written(s.slots) - H[n]
      BY <2>1, <1>0 DEF ItemsLedger
    <3>2. c = s.topLevel.words[s.topLevel.count + 1]
      BY <2>1, <1>3 DEF Counter
    <3> HIDE DEF c, n
    <3> QED BY <3>1, <3>2, <1>3
  <2>2. CASE s.topLevel.count = TopLevelMax
    <3>1. c = s.topLevel.lhs
      BY <2>2, <1>3 DEF Counter
    <3>2. s.topLevel.lhs = s.stackTracker.current + s.line.lhs + Begun(s, H)
      BY <2>2, <1>0 DEF HeightLedger
    <3> HIDE DEF c, n
    <3> QED BY <3>1, <3>2, <1>3
  <2> QED BY <2>1, <2>2, <1>3, <1>4
<1>6. s.topLevel.count < TopLevelMax /\ Begun(s, H) = 0 => c = 0
  <2> SUFFICES ASSUME s.topLevel.count < TopLevelMax, Begun(s, H) = 0 PROVE c = 0
    OBVIOUS
  <2>1. s.topLevel.words[s.topLevel.count + 1] = Written(s.slots) - H[n]
    BY <1>0 DEF ItemsLedger
  <2>2. c = s.topLevel.words[s.topLevel.count + 1]
    BY <1>3 DEF Counter
  <2> HIDE DEF c, n
  <2> QED BY <2>1, <2>2, <1>3
<1>7. /\ c # 0 => t.line.heads = s.line.heads
      /\ c = 0 => /\ n + 1 <= LineItemsMax + 1
                  /\ t.line.heads = [s.line.heads EXCEPT ![n + 1] = SourceHead(s)]
  BY <1>3 DEF Remembers
<1> HIDE DEF c
<1>8. PositionOf(SourceHead(s)) = Written(s.slots)
  BY SourceHeadFacts
<1>9. /\ \A i \in 0 .. n : t.line.heads[i + 1] = NoPlace \/ PositionOf(t.line.heads[i + 1]) = H[i]
      /\ \A i \in (n + 2) .. (LineItemsMax + 2) : t.line.heads[i] = NoPlace
  <2>1. /\ \A i \in 0 .. n : s.line.heads[i + 1] = NoPlace \/ PositionOf(s.line.heads[i + 1]) = H[i]
        /\ \A i \in (n + 2) .. (LineItemsMax + 2) : s.line.heads[i] = NoPlace
    BY <1>0 DEF ItemsLedger
  <2>2. CASE c # 0
    BY <2>1, <2>2, <1>7
  <2>3. CASE c = 0
    <3>1. PositionOf(SourceHead(s)) = H[n]
      BY <2>3, <1>3, <1>5, <1>8
    <3>2. t.line.heads = [s.line.heads EXCEPT ![n + 1] = SourceHead(s)]
      BY <2>3, <1>7
    <3>3. ASSUME NEW i \in 0 .. n
          PROVE  t.line.heads[i + 1] = NoPlace \/ PositionOf(t.line.heads[i + 1]) = H[i]
      <4>0. i + 1 \in 1 .. (LineItemsMax + 2) /\ n + 1 \in 1 .. (LineItemsMax + 2)
        BY <1>3
      <4>1. CASE i = n
        <5>1. t.line.heads[i + 1] = SourceHead(s)
          BY <4>0, <4>1, <3>2, <1>3
        <5> QED BY <5>1, <4>1, <3>1
      <4>2. CASE i # n
        <5>1. i + 1 # n + 1
          BY <4>2, <1>3
        <5>2. t.line.heads[i + 1] = s.line.heads[i + 1]
          BY <4>0, <5>1, <3>2, <1>3
        <5> QED BY <5>2, <2>1
      <4> QED BY <4>1, <4>2
    <3>4. ASSUME NEW i \in (n + 2) .. (LineItemsMax + 2) PROVE t.line.heads[i] = NoPlace
      <4>1. i \in 1 .. (LineItemsMax + 2) /\ i # n + 1
        BY <1>3
      <4>2. t.line.heads[i] = s.line.heads[i]
        BY <4>1, <3>2, <1>3
      <4> QED BY <4>2, <2>1
    <3> QED BY <3>3, <3>4
  <2> QED BY <2>2, <2>3
<1>10. ItemsLedger(t, H)
  BY <1>0, <1>1, <1>9 DEF ItemsLedger
<1>11. HeightLedger(t, H)
  BY <1>2 DEF Ledger, HeightLedger
<1>12. InputsLedger(t, F)
  BY DEF Ledger, InputsLedger
<1>13. GroupsLedger(t, top, H, G)
  BY <1>1 DEF Ledger, GroupsLedger
<1>14. Balance(t, top, H, F, G)
  BY <1>1, <1>2 DEF Ledger, Balance
<1>15. s.topLevel.count < TopLevelMax /\ Begun(s, H) = 0 => n <= LineItemsMax
  BY <1>3, <1>6, <1>7
<1> QED BY <1>1, <1>2, <1>10, <1>11, <1>12, <1>13, <1>14, <1>15 DEF Ledger

(* The inputs after another op, and those counted for the groups. *)
WithOneMore(F, N) == [p \in 0 .. (N + 1) |-> IF p <= N THEN F[p] ELSE F[N]]
WithInput(G, d) == [g \in 0 .. (d + 1) |-> IF g < d THEN G[g] ELSE IF d = 0 THEN 0 ELSE G[d] + 1]

LEMMA OneMoreFacts ==
  ASSUME NEW N \in Nat, NEW F \in [0 .. N -> Nat]
  PROVE  /\ WithOneMore(F, N) \in [0 .. (N + 1) -> Nat] /\ WithOneMore(F, N)[N + 1] = F[N]
         /\ \A p \in 0 .. N : WithOneMore(F, N)[p] = F[p]
<1>1. N \in 0 .. N /\ N + 1 \in 0 .. (N + 1) /\ ~(N + 1 <= N)
  OBVIOUS
<1>2. F[N] \in Nat
  BY <1>1
<1>3. \A p \in 0 .. (N + 1) : (IF p <= N THEN F[p] ELSE F[N]) \in Nat
  BY <1>2
<1>4. \A p \in 0 .. N : p \in 0 .. (N + 1) /\ p <= N
  OBVIOUS
<1> QED BY <1>1, <1>3, <1>4 DEF WithOneMore

(* An op is one of the item's and an input of the group it is in. *)
LEMMA CountedLedger ==
  ASSUME NEW s, Shape(s), NEW t, NEW H, NEW F, NEW G, NEW op \in ReadOp, op.ins = 0,
         Ledger(s, s.parens.depth, H, F, G),
         s.topLevel.count <= TopLevelMax,
         s.topLevel.count < TopLevelMax /\ Begun(s, H) = 0 => LineItems(s) <= LineItemsMax,
         s.parens.depth = 0 <=> Begun(s, H) = 0,
         t.line = s.line, t.topLevel.count = s.topLevel.count, Counts(s, t),
         t.slots = Grown(s.slots, op), t.stackTracker = s.stackTracker,
         t.parens.groups = Grouped(s.parens.groups, s.parens.depth, NextPlace(s))
  PROVE  LET d == s.parens.depth
             N == Written(s.slots)
         IN  /\ Ledger(t, d + 1, H, WithOneMore(F, N), WithInput(G, d))
             /\ LineItems(t) = LineItems(s) /\ Begun(t, H) = Begun(s, H) + 1
             /\ t.parens.groups[d + 1].inputs = 0
<1> DEFINE d == s.parens.depth
           N == Written(s.slots)
           n == LineItems(s)
           count == s.topLevel.count
           F1 == WithOneMore(F, N)
           G1 == WithInput(G, d)
           old == s.parens.groups
           new == t.parens.groups
           next == NextPlace(s)
<1>0. /\ ItemsLedger(s, H) /\ HeightLedger(s, H) /\ InputsLedger(s, F) /\ GroupsLedger(s, d, H, G)
      /\ Balance(s, d, H, F, G)
  BY DEF Ledger
<1>1. /\ n \in Nat /\ N \in Nat /\ Begun(s, H) \in Nat /\ count \in Nat /\ H[n] \in Nat /\ H[0] \in Nat
      /\ N = H[n] + Begun(s, H) /\ s.line.start \in Nat /\ count = s.line.start + n
      /\ TopLevelMax \in Nat \ {0} /\ LineItemsMax \in Nat \ {0} /\ ParensMax \in Nat \ {0}
      /\ d \in 0 .. ParensMax /\ n \in 0 .. (LineItemsMax + 1)
  <2>1. n \in 0 .. (LineItemsMax + 1)
    BY <1>0 DEF ItemsLedger
  <2> HIDE DEF n, N, d, old, count
  <2>2. ItemsLedger(s, H)
    BY <1>0
  <2> QED BY <2>1, <2>2, LedgerNumbers DEF n, N, d, old, count
<1>words. s.topLevel.words \in [1 .. TopLevelMax -> Nat] /\ s.topLevel.lhs \in Nat
          /\ s.line.lhs \in Nat /\ s.stackTracker.current \in Nat
  BY <1>0, LedgerNumbers
<1>groups. old \in [0 .. (ParensMax + 1) -> GroupType]
  BY <1>0, LedgerNumbers
<1>2. /\ WellFilled(s.slots) /\ WellFilled(t.slots) /\ Written(t.slots) = N + 1
      /\ OpAtPosition(t.slots, N + 1) = op
      /\ \A p \in 1 .. N : OpAtPosition(t.slots, p) = OpAtPosition(s.slots, p)
      /\ Len(s.slots) <= Len(t.slots)
      /\ \A a \in 1 .. Len(s.slots) : Len(s.slots[a]) <= Len(t.slots[a])
      /\ Len(t.slots[Len(s.slots)]) = Len(s.slots[Len(s.slots)]) + 1
  <2>1. WellFilled(s.slots)
    BY DEF Shape
  <2> QED BY <2>1, GrownFacts, SMTT(30)
<1>3. LineItems(t) = n
  BY DEF LineItems
<1>4. Begun(t, H) = Begun(s, H) + 1
  <2>1. Begun(t, H) = (N + 1) - H[n]
    BY <1>2, <1>3 DEF Begun
  <2> HIDE DEF n, N
  <2> QED BY <2>1, <1>1
<1>5. /\ count < TopLevelMax =>
           /\ t.topLevel.words = [s.topLevel.words EXCEPT ![count + 1] = @ + 1]
           /\ t.topLevel.lhs = s.topLevel.lhs
      /\ count = TopLevelMax =>
           /\ t.topLevel.words = s.topLevel.words /\ t.topLevel.lhs = s.topLevel.lhs + 1
  BY <1>1 DEF Counts
<1>6. \A i \in 1 .. TopLevelMax : i # count + 1 => t.topLevel.words[i] = s.topLevel.words[i]
  <2>1. count < TopLevelMax \/ count = TopLevelMax
    BY <1>1
  <2> QED BY <2>1, <1>5, <1>words
<1> HIDE DEF n, N, d, count
<1>7. ItemsLedger(t, H)
  <2>1. /\ n \in 0 .. (LineItemsMax + 1)
        /\ n > 0 => count <= TopLevelMax
        /\ H \in [0 .. n -> Nat]
        /\ H[0] <= H[n] /\ H[n] <= N
        /\ \A i \in 1 .. n : s.topLevel.words[s.line.start + i] >= 1
                               /\ H[i] = H[i - 1] + s.topLevel.words[s.line.start + i]
        /\ H[n] < N /\ count < TopLevelMax => n <= LineItemsMax
        /\ \A i \in 0 .. n : s.line.heads[i + 1] = NoPlace \/ PositionOf(s.line.heads[i + 1]) = H[i]
        /\ \A i \in (n + 2) .. (LineItemsMax + 2) : s.line.heads[i] = NoPlace
        /\ count < TopLevelMax => s.topLevel.words[count + 1] = N - H[n]
        /\ \A i \in 1 .. TopLevelMax : i > count + 1 => s.topLevel.words[i] = 0
        /\ count > TopLevelMax => N = H[n]
    BY <1>0 DEF ItemsLedger, n, N, count
  <2>0. (n > 0 => count <= TopLevelMax) /\ H[n] <= N
    BY <2>1
  <2>2. ASSUME NEW i \in 1 .. n
        PROVE  t.topLevel.words[s.line.start + i] = s.topLevel.words[s.line.start + i]
    <3>1. s.line.start + i \in 1 .. TopLevelMax /\ s.line.start + i # count + 1
      <4>1. n \in Nat /\ s.line.start \in Nat /\ count = s.line.start + n /\ TopLevelMax \in Nat
        BY <1>1
      <4>2. i \in 1 .. n /\ count <= TopLevelMax
        BY <4>1, <2>0
      <4> QED BY <4>1, <4>2
    <3> QED BY <3>1, <1>6
  <2>3. count < TopLevelMax => t.topLevel.words[count + 1] = (N + 1) - H[n]
    <3> SUFFICES ASSUME count < TopLevelMax PROVE t.topLevel.words[count + 1] = (N + 1) - H[n]
      OBVIOUS
    <3>1. count + 1 \in 1 .. TopLevelMax
      BY <1>1
    <3>2. t.topLevel.words[count + 1] = s.topLevel.words[count + 1] + 1
      BY <3>1, <1>words, <1>5
    <3>3. s.topLevel.words[count + 1] = N - H[n]
      BY <2>1
    <3>4. N \in Nat /\ H[n] \in Nat
      BY <1>1
    <3> QED BY <3>2, <3>3, <3>4
  <2>4. \A i \in 1 .. TopLevelMax : i > count + 1 => t.topLevel.words[i] = 0
    <3>1. \A i \in 1 .. TopLevelMax : i > count + 1 => s.topLevel.words[i] = 0
      BY <2>1
    <3>2. count \in Nat /\ TopLevelMax \in Nat
      BY <1>1
    <3> QED BY <3>1, <3>2, <1>6
  <2>5. count < TopLevelMax => n <= LineItemsMax
    <3>1. CASE Begun(s, H) = 0
      BY <3>1 DEF n, count
    <3>2. CASE Begun(s, H) # 0
      BY <3>2, <1>1, <2>1
    <3> QED BY <3>1, <3>2
  <2>6. H[n] <= N + 1 /\ ~(count > TopLevelMax)
    BY <1>1, <2>1 DEF count
  <2>7. t.topLevel.count = count /\ t.line = s.line
    BY DEF count
  <2>8. \A i \in 1 .. n : /\ t.topLevel.words[s.line.start + i] >= 1
                          /\ H[i] = H[i - 1] + t.topLevel.words[s.line.start + i]
    BY <2>1, <2>2
  <2>9. /\ n \in 0 .. (LineItemsMax + 1)
        /\ H \in [0 .. n -> Nat]
        /\ H[0] <= H[n]
        /\ \A i \in 0 .. n : s.line.heads[i + 1] = NoPlace \/ PositionOf(s.line.heads[i + 1]) = H[i]
        /\ \A i \in (n + 2) .. (LineItemsMax + 2) : s.line.heads[i] = NoPlace
    BY <2>1
  <2>10. Written(t.slots) = N + 1
    BY <1>2
  <2> QED BY <1>3, <2>0, <2>3, <2>4, <2>5, <2>6, <2>7, <2>8, <2>9, <2>10 DEF ItemsLedger
<1>8. HeightLedger(t, H)
  <2>1. s.topLevel.lhs = s.stackTracker.current + s.line.lhs
                           + (IF count = TopLevelMax THEN Begun(s, H) ELSE 0)
    BY <1>0 DEF HeightLedger, count
  <2>2. t.topLevel.lhs = t.stackTracker.current + t.line.lhs
                           + (IF count = TopLevelMax THEN Begun(t, H) ELSE 0)
    <3> DEFINE b == Begun(s, H)
    <3>0. b \in Nat /\ Begun(t, H) = b + 1
      BY <1>1, <1>4
    <3> HIDE DEF b
    <3>1. CASE count = TopLevelMax
      <4>1. t.topLevel.lhs = s.topLevel.lhs + 1
        BY <3>1, <1>5
      <4>2. s.topLevel.lhs = s.stackTracker.current + s.line.lhs + b
        BY <3>1, <2>1 DEF b
      <4> QED BY <4>1, <4>2, <3>0, <3>1, <1>words
    <3>2. CASE count # TopLevelMax
      <4>1. count < TopLevelMax
        BY <3>2, <1>1 DEF count
      <4> QED BY <4>1, <3>2, <2>1, <1>5, <1>words
    <3> QED BY <3>1, <3>2
  <2> QED BY <2>2 DEF HeightLedger, count
<1>9. /\ F \in [0 .. N -> Nat] /\ F[0] = 0
      /\ \A p \in 1 .. N : F[p] = F[p - 1] + OpAtPosition(s.slots, p).ins
  BY <1>0 DEF InputsLedger, N
<1>10. /\ F1 \in [0 .. (N + 1) -> Nat] /\ F1[N + 1] = F[N] /\ \A p \in 0 .. N : F1[p] = F[p]
  <2>1. N \in 0 .. N
    BY <1>1
  <2>2. F[N] \in Nat
    BY <2>1, <1>9
  <2>3. N \in Nat /\ F \in [0 .. N -> Nat]
    BY <1>1, <1>9
  <2> QED BY <2>3, OneMoreFacts
<1>11. InputsLedger(t, F1)
  <2>1. ASSUME NEW p \in 1 .. (N + 1)
        PROVE  F1[p] = F1[p - 1] + OpAtPosition(t.slots, p).ins
    <3>1. CASE p = N + 1
      <4>1. F1[p] = F[N] /\ F1[p - 1] = F[N] /\ F[N] \in Nat
        <5>1. p - 1 = N /\ N \in 0 .. N
          BY <3>1, <1>1
        <5> HIDE DEF F1
        <5> QED BY <5>1, <3>1, <1>9, <1>10
      <4>2. OpAtPosition(t.slots, p).ins = 0
        BY <3>1, <1>2
      <4> QED BY <4>1, <4>2
    <3>2. CASE p # N + 1
      <4>1. p \in 1 .. N /\ p \in 0 .. N /\ p - 1 \in 0 .. N
        BY <3>2, <1>1
      <4> HIDE DEF F1
      <4> QED BY <4>1, <1>2, <1>9, <1>10
    <3> QED BY <3>1, <3>2
  <2>2. F1[0] = 0
    <3>1. 0 \in 0 .. N
      BY <1>1
    <3> HIDE DEF F1
    <3> QED BY <3>1, <1>9, <1>10
  <2> HIDE DEF F1
  <2> QED BY <2>1, <2>2, <1>2, <1>10 DEF InputsLedger
<1>12. /\ d + 1 \in 0 .. (ParensMax + 1) /\ d \in 0 .. (ParensMax + 1)
       /\ \A g \in 0 .. (ParensMax + 1) : g \notin {d, d + 1} => new[g] = old[g]
       /\ new[d].op = old[d].op /\ new[d].inputs = old[d].inputs + 1 /\ old[d].inputs \in Nat
       /\ new[d + 1].op = next /\ new[d + 1].inputs = 0
  <2>1. d + 1 \in 0 .. (ParensMax + 1) /\ d \in 0 .. (ParensMax + 1) /\ d # d + 1
    BY <1>1
  <2>2. new = Grouped(old, d, next)
    BY DEF d
  <2>3. \A g \in 0 .. (ParensMax + 1) : old[g] = [inputs |-> old[g].inputs, op |-> old[g].op]
                                          /\ old[g].inputs \in Nat
    <3>1. Byte \subseteq Nat
      BY LimitsAssumption DEF Byte
    <3> HIDE DEF old
    <3> QED BY <3>1, <1>groups DEF GroupType
  <2> HIDE DEF new, old, next
  <2>4. /\ \A g \in 0 .. (ParensMax + 1) : g \notin {d, d + 1} => new[g] = old[g]
        /\ new[d].op = old[d].op /\ new[d].inputs = old[d].inputs + 1
        /\ new[d + 1].op = next /\ new[d + 1].inputs = 0
    <3>1. DOMAIN old = 0 .. (ParensMax + 1)
      BY <1>groups
    <3>2. old[d] = [inputs |-> old[d].inputs, op |-> old[d].op]
      BY <2>1, <2>3
    <3>3. /\ \A g \in 0 .. (ParensMax + 1) : g \notin {d, d + 1} => Grouped(old, d, next)[g] = old[g]
          /\ Grouped(old, d, next)[d].op = old[d].op
          /\ Grouped(old, d, next)[d].inputs = old[d].inputs + 1
          /\ Grouped(old, d, next)[d + 1].op = next /\ Grouped(old, d, next)[d + 1].inputs = 0
      <4> DEFINE mid == [old EXCEPT ![d].inputs = @ + 1]
      <4>1. /\ DOMAIN mid = 0 .. (ParensMax + 1) /\ \A g \in 0 .. (ParensMax + 1) : g # d => mid[g] = old[g]
            /\ mid[d].op = old[d].op /\ mid[d].inputs = old[d].inputs + 1
        BY <2>1, <3>1, <3>2
      <4>2. Grouped(old, d, next) = [mid EXCEPT ![d + 1] = [inputs |-> 0, op |-> next]]
        BY DEF Grouped
      <4> HIDE DEF mid
      <4> QED BY <2>1, <4>1, <4>2
    <3> QED BY <2>2, <3>3
  <2> QED BY <2>1, <2>3, <2>4
<1>13. /\ G \in [0 .. d -> Nat] /\ G[0] = 0 /\ \A g \in 1 .. d : G[g] = G[g - 1] + old[g].inputs
       /\ \A g \in 1 .. d :
            /\ PlaceIn(s.slots, old[g].op) /\ old[g].op # NoPlace /\ old[g].op[2] >= 1
            /\ PositionOf(old[g].op) > H[n]
            /\ OpAtPosition(s.slots, PositionOf(old[g].op)).ins = 0
       /\ \A g \in 1 .. d : \A h \in 1 .. (g - 1) : PositionOf(old[h].op) < PositionOf(old[g].op)
  BY <1>0 DEF GroupsLedger, n, d
<1>14. ASSUME NEW g \in 1 .. d PROVE PositionOf(old[g].op) \in 1 .. N
  <2>1. /\ PlaceIn(s.slots, old[g].op) /\ old[g].op # NoPlace /\ old[g].op[2] >= 1
    BY <1>13
  <2>2. /\ old[g].op[1] \in 1 .. Len(s.slots) /\ old[g].op[2] \in 1 .. Len(s.slots[old[g].op[1]])
    <3>1. /\ old[g].op[1] \in 1 .. Len(s.slots) /\ old[g].op[2] \in 0 .. Len(s.slots[old[g].op[1]])
      BY <2>1 DEF PlaceIn
    <3> QED BY <3>1, <2>1
  <2> QED BY <2>2, <1>2, FilledPositions DEF PositionOf, N
<1>15. /\ PlaceIn(t.slots, next) /\ next # NoPlace /\ next[2] >= 1 /\ PositionOf(next) = N + 1
  <2> DEFINE a == Len(s.slots)
             b == Len(s.slots[a])
  <2>1. a \in Nat \ {0} /\ b \in Nat
    BY <1>2, FilledPlaces
  <2>2. a <= Len(t.slots) /\ Len(t.slots[a]) = b + 1 /\ Len(t.slots) \in Nat
    BY <1>2, FilledPlaces
  <2>3. next = <<a, b + 1>>
    BY DEF NextPlace
  <2>4. N = (a - 1) * SlotOps + b
    BY DEF N, Written, Position
  <2>5. PositionOf(next) = (a - 1) * SlotOps + (b + 1)
    BY <2>3 DEF PositionOf, Position
  <2>6. (a - 1) * SlotOps \in Int
    BY <2>1, LimitsAssumption
  <2> HIDE DEF a, b, next
  <2>7. PositionOf(next) = N + 1
    BY <2>1, <2>4, <2>5, <2>6
  <2> QED BY <2>1, <2>2, <2>3, <2>7 DEF PlaceIn, Place, NoPlace
<1> HIDE DEF new, old, next
<1>16. /\ G1 \in [0 .. (d + 1) -> Nat] /\ G1[0] = 0
       /\ \A g \in 1 .. (d + 1) : G1[g] = G1[g - 1] + new[g].inputs
       /\ G1[d + 1] = IF d = 0 THEN 0 ELSE G[d] + 1
  <2>1. G[d] \in Nat
    BY <1>1, <1>13
  <2>2. /\ G1 \in [0 .. (d + 1) -> Nat]
        /\ \A g \in 0 .. (d + 1) : G1[g] = IF g < d THEN G[g] ELSE IF d = 0 THEN 0 ELSE G[d] + 1
    BY <2>1, <1>1, <1>13, SMTT(30) DEF WithInput
  <2> HIDE DEF G1
  <2>3. G1[0] = 0
    BY <2>2, <1>1, <1>13
  <2>4. G1[d + 1] = IF d = 0 THEN 0 ELSE G[d] + 1
    BY <2>2, <1>1
  <2>5. ASSUME NEW g \in 1 .. (d + 1) PROVE G1[g] = G1[g - 1] + new[g].inputs
    <3>1. CASE g = d + 1
      <4>1. G1[g] = G1[d] /\ new[g].inputs = 0 /\ g - 1 = d /\ G1[d] \in Nat
        <5>1. d \in Nat /\ g - 1 = d /\ d \in 0 .. (d + 1) /\ g \in 0 .. (d + 1)
              /\ ~(g < d) /\ ~(d < d)
          BY <3>1, <1>1
        <5>2. G1[g] = (IF d = 0 THEN 0 ELSE G[d] + 1) /\ G1[d] = (IF d = 0 THEN 0 ELSE G[d] + 1)
              /\ G1[d] \in Nat
          BY <5>1, <2>2
        <5> QED BY <5>1, <5>2, <3>1, <1>12
      <4> QED BY <4>1
    <3>2. CASE g = d
      <4>1. /\ G1[g] = G[d] + 1 /\ G1[g - 1] = G[d - 1] /\ new[g].inputs = old[d].inputs + 1
            /\ d \in 1 .. d /\ G[d - 1] \in Nat
        BY <3>2, <2>2, <1>1, <1>12, <1>13
      <4>2. G[d] = G[d - 1] + old[d].inputs
        BY <4>1, <1>13
      <4> QED BY <4>1, <4>2, <1>12, <3>2
    <3>3. CASE g # d /\ g # d + 1
      <4>1. g \in 1 .. d /\ g < d /\ g - 1 < d /\ g - 1 \in 0 .. (d + 1) /\ g \in 0 .. (ParensMax + 1)
        <5>1. d \in Nat /\ d <= ParensMax /\ ParensMax \in Nat
          BY <1>1
        <5> QED BY <5>1, <3>3
      <4>2. new[g] = old[g]
        BY <4>1, <3>3, <1>12
      <4> QED BY <4>1, <4>2, <2>2, <1>13
    <3> QED BY <3>1, <3>2, <3>3
  <2> QED BY <2>2, <2>3, <2>4, <2>5
<1>17. GroupsLedger(t, d + 1, H, G1)
  <2>1. ASSUME NEW g \in 1 .. d PROVE new[g].op = old[g].op /\ g \in 0 .. (ParensMax + 1)
    <3>1. g \in 0 .. (ParensMax + 1) /\ g # d + 1
      BY <1>1
    <3> QED BY <3>1, <1>12
  <2>2. ASSUME NEW g \in 1 .. (d + 1)
        PROVE  /\ PlaceIn(t.slots, new[g].op) /\ new[g].op # NoPlace /\ new[g].op[2] >= 1
               /\ PositionOf(new[g].op) > H[n]
               /\ OpAtPosition(t.slots, PositionOf(new[g].op)).ins = 0
    <3>1. CASE g = d + 1
      <4>1. new[g].op = next /\ PositionOf(next) = N + 1 /\ N + 1 > H[n]
        BY <3>1, <1>1, <1>12, <1>15
      <4>2. OpAtPosition(t.slots, N + 1).ins = 0
        BY <1>2
      <4> QED BY <4>1, <4>2, <1>15
    <3>2. CASE g # d + 1
      <4>1. g \in 1 .. d
        BY <3>2, <1>1
      <4>2. PlaceIn(t.slots, old[g].op)
        BY <4>1, <1>2, <1>13, PlacesStay
      <4>3. OpAtPosition(t.slots, PositionOf(old[g].op)) = OpAtPosition(s.slots, PositionOf(old[g].op))
        BY <4>1, <1>2, <1>14
      <4> QED BY <4>1, <4>2, <4>3, <2>1, <1>13
    <3> QED BY <3>1, <3>2
  <2>3. ASSUME NEW g \in 1 .. (d + 1), NEW h \in 1 .. (g - 1)
        PROVE  PositionOf(new[h].op) < PositionOf(new[g].op)
    <3>0. h \in 1 .. d /\ new[h].op = old[h].op
      BY <2>1, <1>1
    <3>1. CASE g = d + 1
      <4>1. PositionOf(new[g].op) = N + 1 /\ PositionOf(old[h].op) \in 1 .. N
        BY <3>0, <3>1, <1>12, <1>14, <1>15
      <4> QED BY <4>1, <3>0, <1>1
    <3>2. CASE g # d + 1
      <4>1. g \in 1 .. d
        BY <3>2, <1>1
      <4> QED BY <4>1, <3>0, <2>1, <1>13
    <3> QED BY <3>1, <3>2
  <2> HIDE DEF G1
  <2> QED BY <2>2, <2>3, <1>3, <1>12, <1>16 DEF GroupsLedger, new
<1>18. Balance(t, d + 1, H, F1, G1)
  <2>1. F[N] + G[d] + n + (IF Begun(s, H) > 0 THEN 1 ELSE 0) + H[0] = N + F[H[0]]
    BY <1>0 DEF Balance, n, N, d
  <2>2. /\ H[0] \in 0 .. N /\ F1[H[0]] = F[H[0]] /\ F[H[0]] \in Nat /\ F[N] \in Nat /\ G[d] \in Nat
    <3>1. H[0] <= H[n]
      BY <1>0 DEF ItemsLedger, n
    <3>2. H[0] \in 0 .. N /\ N \in 0 .. N /\ d \in 0 .. d
      BY <3>1, <1>1
    <3> HIDE DEF F1
    <3> QED BY <3>2, <1>9, <1>10, <1>13
  <2>3. (d = 0) <=> (Begun(s, H) = 0)
    BY DEF d
  <2>4. d = 0 => G[d] = 0
    BY <1>13
  <2>5. F[N] + G1[d + 1] + n + 1 + H[0] = (N + 1) + F[H[0]]
    <3>1. CASE d = 0
      BY <3>1, <2>1, <2>2, <2>3, <2>4, <1>1, <1>16
    <3>2. CASE d # 0
      <4> HIDE DEF G1
      <4>1. G1[d + 1] = G[d] + 1 /\ Begun(s, H) > 0
        BY <3>2, <2>3, <1>1, <1>16
      <4> QED BY <4>1, <2>1, <2>2, <1>1
    <3> QED BY <3>1, <3>2
  <2>6. Begun(t, H) > 0
    BY <1>1, <1>4
  <2> HIDE DEF F1, G1
  <2> QED BY <2>2, <2>5, <2>6, <1>2, <1>3, <1>10 DEF Balance
<1>19. Ledger(t, d + 1, H, F1, G1)
  BY <1>7, <1>8, <1>11, <1>17, <1>18 DEF Ledger
<1> QED BY <1>3, <1>4, <1>12, <1>19 DEF d, N, n, new

(* An op that is pushed is a word, or the whole of what is read. *)
LEMMA PushOpLedger ==
  ASSUME NEW s, Shape(s), NEW code \in Codes \cup {"unknown"}, NEW arg \in Nat,
         NEW H, NEW F, NEW G, Ledger(s, s.parens.depth, H, F, G),
         s.parens.depth = 0 <=> Begun(s, H) = 0,
         ~Failed(PushOpToSource(s, code, arg))
  PROVE  LET t == PushOpToSource(s, code, arg)
             d == s.parens.depth
         IN  \E F1, G1, G2 :
               /\ Ledger(t, d, H, F1, G1) /\ Ledger(t, d + 1, H, F1, G2)
               /\ LineItems(t) = LineItems(s) /\ Begun(t, H) = Begun(s, H) + 1
<1> DEFINE t == PushOpToSource(s, code, arg)
           d == s.parens.depth
           u == [s EXCEPT !.line = t.line]
           op == NewOp(code, arg)
<1>1. /\ Shape(t) /\ t.stackTracker = s.stackTracker /\ t.topLevel.count = s.topLevel.count
      /\ t.line.lhs = s.line.lhs /\ t.line.start = s.line.start
      /\ Remembers(s, t) /\ Counts(s, t) /\ t.slots = Grown(s.slots, op)
      /\ t.parens.groups = Grouped(s.parens.groups, d, NextPlace(s))
  BY PushOpFacts
<1>2. op \in ReadOp /\ op.ins = 0
  BY LimitsAssumption DEF NewOp, ReadOp, Nibble
<1>3. s \in StateType /\ d \in Nat
  BY LimitsAssumption DEF Shape, StateType, ParensType
<1> HIDE DEF t, op
<1>4. /\ u.slots = s.slots /\ u.topLevel = s.topLevel /\ u.parens = s.parens
      /\ u.stackTracker = s.stackTracker /\ u.line = t.line /\ u \in StateType
  BY <1>1, <1>3 DEF StateType, Shape
<1> HIDE DEF u
<1>5. Remembers(s, u)
  BY <1>1, <1>4 DEF Remembers
<1>6. /\ Ledger(u, d, H, F, G) /\ LineItems(u) = LineItems(s) /\ Begun(u, H) = Begun(s, H)
      /\ s.topLevel.count < TopLevelMax /\ Begun(s, H) = 0 => LineItems(s) <= LineItemsMax
  <2> HIDE DEF d
  <2>1. Ledger(s, d, H, F, G) BY DEF d
  <2>2. u.line.lhs = s.line.lhs /\ u.line.start = s.line.start
    BY <1>1, <1>4
  <2> QED BY <2>1, <2>2, <1>4, <1>5, SnapshotLedger
<1>7. Shape(u)
  <2>1. \A i \in 1 .. (LineItemsMax + 2) : PlaceIn(u.slots, u.line.heads[i])
    <3> SUFFICES ASSUME NEW i \in 1 .. (LineItemsMax + 2) PROVE PlaceIn(s.slots, t.line.heads[i])
      BY <1>4
    <3>1. PlaceIn(s.slots, s.line.heads[i]) /\ s.line.heads \in [1 .. (LineItemsMax + 2) -> Place]
      BY DEF Shape, StateType, LineType
    <3>2. PlaceIn(s.slots, SourceHead(s))
      BY SourceHeadFacts
    <3>3. t.line.heads[i] = s.line.heads[i] \/ t.line.heads[i] = SourceHead(s)
      BY <1>1, <3>1 DEF Remembers
    <3> QED BY <3>1, <3>2, <3>3
  <2> QED BY <2>1, <1>4 DEF Shape
<1>8. NextPlace(u) = NextPlace(s)
  BY <1>4 DEF NextPlace
<1>9. Counts(u, t)
  BY <1>1, <1>4 DEF Counts
<1> DEFINE F1 == WithOneMore(F, Written(u.slots))
           G2 == WithInput(G, u.parens.depth)
<1>10. /\ Ledger(t, d + 1, H, F1, G2)
       /\ LineItems(t) = LineItems(u) /\ Begun(t, H) = Begun(u, H) + 1
       /\ t.parens.groups[d + 1].inputs = 0
  <2>1. /\ Ledger(u, u.parens.depth, H, F, G)
        /\ u.topLevel.count <= TopLevelMax
        /\ u.topLevel.count < TopLevelMax /\ Begun(u, H) = 0 => LineItems(u) <= LineItemsMax
        /\ u.parens.depth = 0 <=> Begun(u, H) = 0
    BY <1>1, <1>4, <1>5, <1>6 DEF Remembers
  <2>2. /\ t.line = u.line /\ t.topLevel.count = u.topLevel.count
        /\ t.slots = Grown(u.slots, op) /\ t.stackTracker = u.stackTracker
        /\ t.parens.groups = Grouped(u.parens.groups, u.parens.depth, NextPlace(u))
    BY <1>1, <1>4, <1>8
  <2>3. u.parens.depth = d
    BY <1>4
  <2> HIDE DEF d
  <2>4. /\ Ledger(t, u.parens.depth + 1, H, F1, G2)
        /\ LineItems(t) = LineItems(u) /\ Begun(t, H) = Begun(u, H) + 1
        /\ t.parens.groups[u.parens.depth + 1].inputs = 0
    BY ONLY <1>2, <1>7, <1>9, <2>1, <2>2, CountedLedger
  <2> QED BY <2>3, <2>4
<1> HIDE DEF F1, G2
<1>11. Ledger(t, d, H, F1, [g \in 0 .. d |-> G2[g]])
  <2> HIDE DEF d
  <2> QED BY <1>3, <1>10, LedgerShrinks
<1> HIDE DEF d
<1>12. LineItems(t) = LineItems(s) /\ Begun(t, H) = Begun(s, H) + 1
  BY <1>6, <1>10
<1> QED BY <1>10, <1>11, <1>12 DEF d, t

(* A paren closes: its op has the inputs that were counted. *)
LEMMA CloseParenLedger ==
  ASSUME NEW s, Shape(s), s.parens.depth # 0, NEW H, NEW F, NEW G, Ledger(s, s.parens.depth, H, F, G)
  PROVE  LET t == CloseParen(s)
             d == s.parens.depth
         IN  \E F1, G1 :
               /\ Ledger(t, d - 1, H, F1, G1)
               /\ LineItems(t) = LineItems(s) /\ Begun(t, H) = Begun(s, H)
<1> DEFINE t == CloseParen(s)
           d == s.parens.depth
           N == Written(s.slots)
           n == LineItems(s)
           groups == s.parens.groups
           group == groups[d]
           a == group.op[1]
           b == group.op[2]
           q == PositionOf(group.op)
           k == group.inputs
           new == WithOp(s.slots, a, b, [s.slots[a][b] EXCEPT !.ins = k])
           F1 == [p \in 0 .. N |-> IF p < q THEN F[p] ELSE F[p] + k]
           G1 == [g \in 0 .. (d - 1) |-> G[g]]
<1>0. /\ ItemsLedger(s, H) /\ HeightLedger(s, H) /\ InputsLedger(s, F) /\ GroupsLedger(s, d, H, G)
      /\ Balance(s, d, H, F, G)
  BY DEF Ledger
<1>1. /\ n \in Nat /\ N \in Nat /\ Begun(s, H) \in Nat /\ H[n] \in Nat /\ H[0] \in Nat
      /\ N = H[n] + Begun(s, H) /\ H[0] <= H[n]
      /\ ParensMax \in Nat \ {0}
      /\ d \in 1 .. ParensMax /\ groups \in [0 .. (ParensMax + 1) -> GroupType]
      /\ k \in Nat
  <2>1. H[0] <= H[n]
    BY <1>0 DEF ItemsLedger
  <2>2. ItemsLedger(s, H)
    BY <1>0
  <2>3. /\ n \in Nat /\ N \in Nat /\ Begun(s, H) \in Nat /\ H[n] \in Nat /\ H[0] \in Nat
        /\ N = H[n] + Begun(s, H) /\ ParensMax \in Nat \ {0}
        /\ d \in 0 .. ParensMax /\ groups \in [0 .. (ParensMax + 1) -> GroupType]
    <3> HIDE DEF n, N, d, groups
    <3> QED BY <2>2, LedgerNumbers DEF n, N, d, groups
  <2>4. d \in 1 .. ParensMax
    BY <2>3
  <2>5. d \in 0 .. (ParensMax + 1)
    <3>1. ParensMax \in Nat
      BY <2>3
    <3> HIDE DEF d
    <3> QED BY <3>1, <2>4
  <2>6. groups[d] \in GroupType
    BY <2>3, <2>5
  <2>7. k \in Nat
    BY <2>6, LimitsAssumption DEF GroupType, Byte
  <2> QED BY <2>1, <2>3, <2>4, <2>7
<1>2. /\ t.topLevel = s.topLevel /\ t.line = s.line
      /\ t.stackTracker = s.stackTracker /\ t.parens.groups = groups /\ t.slots = new /\ Shape(t)
  BY CloseParenFacts
<1>3. WellFilled(s.slots)
  BY DEF Shape
<1>4. /\ G \in [0 .. d -> Nat] /\ G[0] = 0 /\ \A g \in 1 .. d : G[g] = G[g - 1] + groups[g].inputs
      /\ \A g \in 1 .. d :
           /\ PlaceIn(s.slots, groups[g].op) /\ groups[g].op # NoPlace /\ groups[g].op[2] >= 1
           /\ PositionOf(groups[g].op) > H[n]
           /\ OpAtPosition(s.slots, PositionOf(groups[g].op)).ins = 0
      /\ \A g \in 1 .. d : \A h \in 1 .. (g - 1) : PositionOf(groups[h].op) < PositionOf(groups[g].op)
  BY <1>0 DEF GroupsLedger
<1>5. a \in 1 .. Len(s.slots) /\ b \in 1 .. Len(s.slots[a]) /\ q \in 1 .. N /\ q > H[n]
      /\ OpAtPosition(s.slots, q).ins = 0 /\ OpAtPosition(s.slots, q) = s.slots[a][b]
  <2>1. d \in 1 .. d
    BY <1>1
  <2>2. /\ PlaceIn(s.slots, group.op) /\ group.op # NoPlace /\ group.op[2] >= 1
        /\ q > H[n] /\ OpAtPosition(s.slots, q).ins = 0
    BY <2>1, <1>4
  <2>3. a \in 1 .. Len(s.slots) /\ b \in 1 .. Len(s.slots[a])
    BY <2>2 DEF PlaceIn
  <2>4. q = Position(a, b)
    BY DEF PositionOf
  <2> HIDE DEF q, a, b, N
  <2>5. Position(a, b) \in 1 .. Written(s.slots) /\ OpAtPosition(s.slots, Position(a, b)) = s.slots[a][b]
    BY <2>3, <1>3, FilledPositions
  <2> QED BY <2>2, <2>3, <2>4, <2>5 DEF N
<1>6. /\ Written(new) = N
      /\ \A p \in 1 .. N : p # q => OpAtPosition(new, p) = OpAtPosition(s.slots, p)
      /\ OpAtPosition(new, q).ins = k
      /\ Len(new) = Len(s.slots) /\ \A c \in 1 .. Len(s.slots) : Len(new[c]) = Len(s.slots[c])
  <2> DEFINE op == [s.slots[a][b] EXCEPT !.ins = k]
  <2>1. s.slots[a][b] \in ReadOp /\ k \in Byte
    <3>1. s.slots[a][b] \in ReadOp
      <4>1. a \in 1 .. Len(s.slots) /\ b \in 1 .. Len(s.slots[a])
        BY <1>5
      <4> HIDE DEF a, b
      <4>2. s.slots[a] \in Seq(ReadOp)
        BY <4>1, <1>3, FilledPlaces
      <4> QED BY <4>1, <4>2, ElementOfSeq
    <3>2. k \in Byte
      BY <1>1, SMTT(30) DEF GroupType
    <3> QED BY <3>1, <3>2
  <2>2. op \in ReadOp /\ op.ins = k
    BY <2>1 DEF ReadOp, Byte
  <2>3. q = Position(a, b)
    BY DEF PositionOf
  <2> HIDE DEF op, a, b, k, q, N
  <2>4. new = WithOp(s.slots, a, b, op)
    BY DEF op
  <2> HIDE DEF new
  <2> QED BY <1>3, <1>5, <2>2, <2>3, <2>4, ReplacedFacts, SMTT(30) DEF N
<1> HIDE DEF n, N, d, new, a, b, q, k, group, t
<1>7. LineItems(t) = n
  BY <1>2 DEF LineItems, n
<1>8. Begun(t, H) = Begun(s, H)
  BY <1>2, <1>6, <1>7 DEF Begun, n, N
<1>9. ItemsLedger(t, H) /\ HeightLedger(t, H)
  <2>1. ItemsLedger(t, H)
    BY <1>0, <1>2, <1>6, <1>7 DEF ItemsLedger, n, N
  <2>2. HeightLedger(t, H)
    BY <1>0, <1>2, <1>8 DEF HeightLedger
  <2> QED BY <2>1, <2>2
<1>10. /\ F \in [0 .. N -> Nat] /\ F[0] = 0
       /\ \A p \in 1 .. N : F[p] = F[p - 1] + OpAtPosition(s.slots, p).ins
  BY <1>0 DEF InputsLedger, N
<1>11. /\ F1 \in [0 .. N -> Nat] /\ F1[N] = F[N] + k /\ F1[H[0]] = F[H[0]] /\ H[0] \in 0 .. N
       /\ F[N] \in Nat /\ F[H[0]] \in Nat
  <2>1. H[0] \in 0 .. N /\ N \in 0 .. N /\ H[0] < q /\ ~(N < q)
    BY <1>1, <1>5, SMTT(30)
  <2>2. F1 \in [0 .. N -> Nat]
    BY <1>1, <1>10
  <2> QED BY <2>1, <2>2, <1>10
<1>12. InputsLedger(t, F1)
  <2>1. ASSUME NEW p \in 1 .. N PROVE F1[p] = F1[p - 1] + OpAtPosition(new, p).ins
    <3>0. p \in 0 .. N /\ p - 1 \in 0 .. N /\ F[p] \in Nat /\ F[p - 1] \in Nat
          /\ F[p] = F[p - 1] + OpAtPosition(s.slots, p).ins
      <4>1. p \in 0 .. N /\ p - 1 \in 0 .. N
        BY <1>1
      <4> QED BY <4>1, <1>10
    <3>1. CASE p = q
      <4>1. F1[p] = F[p] + k /\ F1[p - 1] = F[p - 1]
        BY <3>0, <3>1, <1>5
      <4> HIDE DEF F1
      <4>2. OpAtPosition(new, p).ins = k /\ OpAtPosition(s.slots, p).ins = 0
        BY <3>1, <1>5, <1>6
      <4> QED BY <4>1, <4>2, <3>0, <1>1
    <3>2. CASE p < q
      <4>1. F1[p] = F[p] /\ F1[p - 1] = F[p - 1] /\ OpAtPosition(new, p) = OpAtPosition(s.slots, p)
        BY <3>0, <3>2, <1>5, <1>6
      <4> QED BY <4>1, <3>0
    <3>3. CASE p > q
      <4>1. F1[p] = F[p] + k /\ F1[p - 1] = F[p - 1] + k
        BY <3>0, <3>3, <1>5
      <4> HIDE DEF F1
      <4>2. OpAtPosition(new, p) = OpAtPosition(s.slots, p)
        BY <3>3, <1>5, <1>6
      <4>3. OpAtPosition(s.slots, p).ins \in Nat
        <5>1. OpAtPosition(s.slots, p) \in ReadOp
          BY <1>3, FilledPositions DEF N
        <5> QED BY <5>1, LimitsAssumption DEF ReadOp
      <4> QED BY <4>1, <4>2, <4>3, <3>0, <1>1, SMTT(30)
    <3> QED BY <3>1, <3>2, <3>3, <1>5
  <2>2. F1[0] = 0
    BY <1>1, <1>5, <1>10
  <2> HIDE DEF F1
  <2> QED BY <2>1, <2>2, <1>2, <1>6, <1>11 DEF InputsLedger
<1>13. G1 \in [0 .. (d - 1) -> Nat] /\ G1[0] = 0 /\ G[d] = G1[d - 1] + k /\ G1[d - 1] \in Nat
  <2>1. d \in 1 .. d /\ d - 1 \in 0 .. (d - 1) /\ 0 \in 0 .. (d - 1) /\ 0 .. (d - 1) \subseteq 0 .. d
    BY <1>1
  <2>2. G[d] = G[d - 1] + k
    BY <2>1, <1>4 DEF k, group
  <2>3. G1 \in [0 .. (d - 1) -> Nat] /\ G1[0] = G[0] /\ G1[d - 1] = G[d - 1]
    BY <2>1, <1>4
  <2> HIDE DEF G1
  <2> QED BY <2>1, <2>2, <2>3, <1>4
<1>14. GroupsLedger(t, d - 1, H, G1)
  <2>1. ASSUME NEW g \in 1 .. (d - 1)
        PROVE  /\ G1[g] = G1[g - 1] + groups[g].inputs
               /\ PlaceIn(new, groups[g].op) /\ groups[g].op # NoPlace /\ groups[g].op[2] >= 1
               /\ PositionOf(groups[g].op) > H[n]
               /\ OpAtPosition(new, PositionOf(groups[g].op)).ins = 0
    <3>1. g \in 1 .. d /\ g - 1 \in 0 .. (d - 1) /\ g \in 0 .. (d - 1) /\ d \in 1 .. d
      BY <1>1
    <3>2. /\ PlaceIn(s.slots, groups[g].op) /\ groups[g].op # NoPlace /\ groups[g].op[2] >= 1
          /\ PositionOf(groups[g].op) > H[n]
          /\ OpAtPosition(s.slots, PositionOf(groups[g].op)).ins = 0
          /\ G[g] = G[g - 1] + groups[g].inputs
      BY <3>1, <1>4
    <3>3. PositionOf(groups[g].op) < q
      <4>1. \A h \in 1 .. (d - 1) : PositionOf(groups[h].op) < PositionOf(groups[d].op)
        BY <3>1, <1>4
      <4> QED BY <4>1 DEF q, group
    <3>4. PlaceIn(new, groups[g].op)
      BY <3>2, <1>6 DEF PlaceIn
    <3>5. PositionOf(groups[g].op) \in 1 .. N /\ PositionOf(groups[g].op) # q
      <4>1. groups[g].op[1] \in Nat /\ groups[g].op[2] \in Nat
        BY <3>2 DEF PlaceIn, Place
      <4>2. PositionOf(groups[g].op) \in Int
        <5>1. SlotOps \in Nat
          BY LimitsAssumption
        <5>2. \A x, y, z \in Int : (x - 1) * y + z \in Int
          OBVIOUS
        <5> QED BY <4>1, <5>1, <5>2 DEF PositionOf, Position
      <4>3. PositionOf(groups[g].op) > H[n] /\ H[n] \in Nat /\ N \in Nat /\ q \in 1 .. N
        BY <3>2, <1>1, <1>5
      <4> DEFINE p == PositionOf(groups[g].op)
      <4> HIDE DEF p, q, N
      <4>4. p \in 1 .. N /\ p # q
        BY <4>2, <4>3, <3>3 DEF p
      <4> QED BY <4>4 DEF p
    <3>6. OpAtPosition(new, PositionOf(groups[g].op)) = OpAtPosition(s.slots, PositionOf(groups[g].op))
      BY <3>5, <1>6
    <3>7. G1[g] = G[g] /\ G1[g - 1] = G[g - 1]
      BY <3>1
    <3> HIDE DEF G1
    <3> QED BY <3>2, <3>4, <3>6, <3>7
  <2>2. ASSUME NEW g \in 1 .. (d - 1), NEW h \in 1 .. (g - 1)
        PROVE  PositionOf(groups[h].op) < PositionOf(groups[g].op)
    <3>1. g \in 1 .. d
      BY <1>1
    <3> QED BY <3>1, <1>4
  <2>3. d - 1 \in 0 .. (ParensMax + 1)
    BY <1>1
  <2>4. t.parens.groups = groups /\ t.slots = new
    BY <1>2
  <2>5. G1 \in [0 .. (d - 1) -> Nat] /\ G1[0] = 0
    BY <1>13
  <2>6. LineItems(t) = n
    BY <1>7
  <2> HIDE DEF G1, groups, new, d, n
  <2> QED BY <2>1, <2>2, <2>3, <2>4, <2>5, <2>6 DEF GroupsLedger
<1>15. Balance(t, d - 1, H, F1, G1)
  <2>1. F[N] + G[d] + n + (IF Begun(s, H) > 0 THEN 1 ELSE 0) + H[0] = N + F[H[0]]
    BY <1>0 DEF Balance, n, N
  <2> HIDE DEF F1, G1
  <2>2. F1[N] + G1[d - 1] + n + (IF Begun(s, H) > 0 THEN 1 ELSE 0) + H[0] = N + F1[H[0]]
    <3> DEFINE e == IF Begun(s, H) > 0 THEN 1 ELSE 0
    <3>1. e \in Nat /\ n \in Nat /\ N \in Nat /\ H[0] \in Nat /\ k \in Nat
      BY <1>1
    <3>2. F1[N] = F[N] + k /\ F1[H[0]] = F[H[0]] /\ F[N] \in Nat /\ F[H[0]] \in Nat
      BY <1>11
    <3>3. G[d] = G1[d - 1] + k /\ G1[d - 1] \in Nat
      BY <1>13
    <3>4. F[N] + G[d] + n + e + H[0] = N + F[H[0]]
      BY <2>1
    <3> HIDE DEF e
    <3>5. F1[N] + G1[d - 1] + n + e + H[0] = N + F1[H[0]]
      BY <3>1, <3>2, <3>3, <3>4
    <3> QED BY <3>5 DEF e
  <2> QED BY <2>2, <1>2, <1>6, <1>7, <1>8 DEF Balance
<1>16. Ledger(t, d - 1, H, F1, G1)
  BY <1>9, <1>12, <1>14, <1>15 DEF Ledger
<1> HIDE DEF F1, G1
<1> QED BY <1>7, <1>8, <1>16 DEF d, n, t

(* An item has ended. *)
LEMMA HighwaterLedger ==
  ASSUME NEW s, Shape(s), NEW H, NEW F, NEW G, Ledger(s, 0, H, F, G), s.parens.depth = 0,
         Begun(s, H) # 0, ~Failed(Highwater(s))
  PROVE  LET t == Highwater(s) IN \E H1 : Ledger(t, 0, H1, F, G) /\ Begun(t, H1) = 0
<1> DEFINE t == Highwater(s)
           n == LineItems(s)
           N == Written(s.slots)
           count == s.topLevel.count
           words == s.topLevel.words
           start == s.line.start
           heads == s.line.heads
           H1 == [i \in 0 .. (n + 1) |-> IF i = n + 1 THEN N ELSE H[i]]
<1>0. /\ ItemsLedger(s, H) /\ HeightLedger(s, H) /\ InputsLedger(s, F) /\ GroupsLedger(s, 0, H, G)
      /\ Balance(s, 0, H, F, G)
  BY DEF Ledger
<1>1. /\ n \in Nat /\ N \in Nat /\ Begun(s, H) \in Nat /\ H[n] \in Nat /\ H[0] \in Nat
      /\ N = H[n] + Begun(s, H) /\ count \in Nat /\ start \in Nat /\ count = start + n
      /\ TopLevelMax \in Nat \ {0} /\ LineItemsMax \in Nat \ {0}
      /\ s.topLevel.lhs \in Nat /\ s.line.lhs \in Nat /\ s.stackTracker.current \in Nat
  <2> HIDE DEF n, N, count, start
  <2> QED BY <1>0, LedgerNumbers DEF n, N, count, start
<1>2. /\ t.slots = s.slots /\ t.parens = s.parens /\ t.line = s.line
      /\ t.stackTracker = s.stackTracker
      /\ t.topLevel.words = words /\ t.topLevel.lhs = s.topLevel.lhs
      /\ count + 1 <= TopLevelMax /\ t.topLevel.count = count + 1
  BY HighwaterFacts
<1>3. /\ n \in 0 .. (LineItemsMax + 1)
      /\ H \in [0 .. n -> Nat]
      /\ H[0] <= H[n] /\ H[n] <= N
      /\ \A i \in 1 .. n : words[start + i] >= 1 /\ H[i] = H[i - 1] + words[start + i]
      /\ H[n] < N /\ count < TopLevelMax => n <= LineItemsMax
      /\ \A i \in 0 .. n : heads[i + 1] = NoPlace \/ PositionOf(heads[i + 1]) = H[i]
      /\ \A i \in (n + 2) .. (LineItemsMax + 2) : heads[i] = NoPlace
      /\ count < TopLevelMax => words[count + 1] = N - H[n]
      /\ \A i \in 1 .. TopLevelMax : i > count + 1 => words[i] = 0
  BY <1>0 DEF ItemsLedger
<1>4. n <= LineItemsMax /\ count < TopLevelMax
  <2>1. count \in Nat /\ TopLevelMax \in Nat /\ count + 1 <= TopLevelMax
    BY <1>1, <1>2
  <2>2. count < TopLevelMax
    <3> HIDE DEF count
    <3> QED BY <2>1
  <2>3. H[n] < N
    BY <1>1
  <2> QED BY <2>2, <2>3, <1>3
<1>5. LineItems(t) = n + 1
  BY <1>1, <1>2 DEF LineItems
<1>6. /\ H1 \in [0 .. (n + 1) -> Nat] /\ H1[n + 1] = N /\ \A i \in 0 .. n : H1[i] = H[i]
  <2>1. n \in Nat /\ N \in Nat /\ H \in [0 .. n -> Nat]
    BY <1>1, <1>3
  <2> HIDE DEF n, N
  <2>2. \A i \in 0 .. n : i \in 0 .. (n + 1) /\ i # n + 1
    BY <2>1
  <2>3. \A i \in 0 .. (n + 1) : i = n + 1 \/ i \in 0 .. n
    BY <2>1
  <2> QED BY <2>1, <2>2, <2>3
<1> HIDE DEF t, n, N, H1, count, words, start, heads
<1>7. Begun(t, H1) = 0
  BY <1>1, <1>2, <1>5, <1>6 DEF Begun, N
<1>8. H1[0] = H[0]
  BY <1>1, <1>6
<1>9. ItemsLedger(t, H1)
  <2>1. ASSUME NEW i \in 1 .. (n + 1)
        PROVE  words[start + i] >= 1 /\ H1[i] = H1[i - 1] + words[start + i]
    <3>1. CASE i = n + 1
      <4>1. start + i = count + 1 /\ i - 1 = n /\ n \in 0 .. n
        BY <3>1, <1>1
      <4>2. words[count + 1] = N - H[n] /\ H1[i] = N /\ H1[i - 1] = H[n]
        BY <4>1, <3>1, <1>3, <1>4, <1>6
      <4> QED BY <4>1, <4>2, <1>1
    <3>2. CASE i # n + 1
      <4>1. i \in 1 .. n /\ i \in 0 .. n /\ i - 1 \in 0 .. n
        BY <3>2, <1>1
      <4> QED BY <4>1, <1>3, <1>6
    <3> QED BY <3>1, <3>2
  <2>2. ASSUME NEW i \in 0 .. (n + 1)
        PROVE  heads[i + 1] = NoPlace \/ PositionOf(heads[i + 1]) = H1[i]
    <3>1. CASE i = n + 1
      <4>1. i + 1 \in (n + 2) .. (LineItemsMax + 2)
        BY <3>1, <1>1, <1>4
      <4> QED BY <4>1, <1>3
    <3>2. CASE i # n + 1
      <4>1. i \in 0 .. n
        BY <3>2, <1>1
      <4> QED BY <4>1, <1>3, <1>6
    <3> QED BY <3>1, <3>2
  <2>3. \A i \in ((n + 1) + 2) .. (LineItemsMax + 2) : heads[i] = NoPlace
    BY <1>1, <1>3
  <2>4. count + 1 < TopLevelMax => words[(count + 1) + 1] = N - H1[n + 1]
    <3> SUFFICES ASSUME count + 1 < TopLevelMax PROVE words[(count + 1) + 1] = N - H1[n + 1]
      OBVIOUS
    <3>1. (count + 1) + 1 \in 1 .. TopLevelMax /\ (count + 1) + 1 > count + 1
      BY <1>1
    <3>2. words[(count + 1) + 1] = 0
      BY <3>1, <1>3
    <3> QED BY <3>2, <1>1, <1>6
  <2>5. \A i \in 1 .. TopLevelMax : i > (count + 1) + 1 => words[i] = 0
    BY <1>1, <1>3
  <2>6. /\ n + 1 \in 0 .. (LineItemsMax + 1) /\ count + 1 <= TopLevelMax
        /\ H1[0] <= H1[n + 1] /\ H1[n + 1] <= N
        /\ ~(H1[n + 1] < N) /\ N = H1[n + 1]
    BY <1>1, <1>2, <1>3, <1>4, <1>6, <1>8
  <2>7. /\ t.topLevel.words = words /\ t.line.start = start /\ t.line.heads = heads
        /\ t.topLevel.count = count + 1 /\ Written(t.slots) = N
    BY <1>2 DEF words, start, heads, count, N
  <2> QED BY <2>1, <2>2, <2>3, <2>4, <2>5, <2>6, <2>7, <1>5, <1>6 DEF ItemsLedger
<1>10. HeightLedger(t, H1)
  <2>1. s.topLevel.lhs = s.stackTracker.current + s.line.lhs
    BY <1>0, <1>1, <1>4 DEF HeightLedger, count
  <2> QED BY <2>1, <1>1, <1>2, <1>7 DEF HeightLedger
<1>11. InputsLedger(t, F)
  BY <1>0, <1>2 DEF InputsLedger
<1>12. GroupsLedger(t, 0, H1, G)
  <2>1. \A g \in 1 .. 0 : FALSE
    OBVIOUS
  <2> QED BY <2>1, <1>0 DEF GroupsLedger
<1>13. Balance(t, 0, H1, F, G)
  <2>1. F[N] + G[0] + n + 1 + H[0] = N + F[H[0]]
    BY <1>0, <1>1 DEF Balance, n, N
  <2>2. H[0] \in 0 .. N /\ N \in 0 .. N
    BY <1>1, <1>3
  <2>3. F[N] \in Nat /\ F[H[0]] \in Nat /\ G[0] = 0
    BY <2>2, <1>0 DEF InputsLedger, GroupsLedger, N
  <2>4. F[N] + G[0] + (n + 1) + 0 + H1[0] = N + F[H1[0]]
    BY <2>1, <2>3, <1>1, <1>8
  <2> QED BY <2>4, <1>2, <1>5, <1>7 DEF Balance, N
<1> QED BY <1>7, <1>9, <1>10, <1>11, <1>12, <1>13 DEF Ledger, t

(* A new line. *)
NewHeads == [i \in 1 .. (LineItemsMax + 2) |-> NoPlace]

LEMMA NewLedger ==
  ASSUME NEW t \in StateType, WellFilled(t.slots), NEW F, InputsLedger(t, F),
         t.line = [lhs |-> 0, start |-> t.topLevel.count, heads |-> NewHeads],
         t.topLevel.lhs = t.stackTracker.current,
         \A i \in 1 .. TopLevelMax : i > t.topLevel.count => t.topLevel.words[i] = 0
  PROVE  LET N == Written(t.slots)
             H == [i \in 0 .. 0 |-> N]
             G == [i \in 0 .. 0 |-> 0]
         IN  Shape(t) /\ Ledger(t, 0, H, F, G) /\ Begun(t, H) = 0
<1> DEFINE N == Written(t.slots)
           H == [i \in 0 .. 0 |-> N]
           G == [i \in 0 .. 0 |-> 0]
           count == t.topLevel.count
<1>1. /\ LineItemsMax \in Nat \ {0} /\ TopLevelMax \in Nat \ {0} /\ ParensMax \in Nat
      /\ count \in Nat /\ N \in Nat /\ t.stackTracker.current \in Nat
      /\ t.topLevel.words \in [1 .. TopLevelMax -> Nat]
  <2>1. /\ LineItemsMax \in Nat \ {0} /\ TopLevelMax \in Nat \ {0} /\ ParensMax \in Nat /\ Byte \subseteq Nat
    BY LimitsAssumption DEF Byte
  <2>2. count \in Nat /\ t.stackTracker.current \in Byte /\ t.topLevel.words \in [1 .. TopLevelMax -> Byte]
    BY DEF StateType, TopLevelType, TrackerType
  <2>3. N \in Nat
    BY FilledPlaces
  <2> HIDE DEF N, count
  <2> QED BY <2>1, <2>2, <2>3
<1>2. LineItems(t) = 0
  BY <1>1 DEF LineItems
<1>3. H \in [0 .. 0 -> Nat] /\ H[0] = N /\ G \in [0 .. 0 -> Nat] /\ G[0] = 0
  BY <1>1
<1> HIDE DEF N, H, G, count
<1>4. Begun(t, H) = 0
  BY <1>1, <1>2, <1>3 DEF Begun, N
<1>5. \A i \in 1 .. (LineItemsMax + 2) : t.line.heads[i] = NoPlace
  BY DEF NewHeads
<1>6. Shape(t)
  <2>1. ASSUME NEW i \in 1 .. (LineItemsMax + 2) PROVE PlaceIn(t.slots, t.line.heads[i])
    <3>1. PlaceIn(t.slots, NoPlace)
      BY DEF PlaceIn, NoPlace, Place
    <3> QED BY <3>1, <1>5
  <2> QED BY <2>1 DEF Shape
<1>7. ItemsLedger(t, H)
  <2>1. \A i \in 0 .. 0 : t.line.heads[i + 1] = NoPlace
    BY <1>1, <1>5
  <2>2. \A i \in 2 .. (LineItemsMax + 2) : t.line.heads[i] = NoPlace
    BY <1>1, <1>5
  <2>3. count < TopLevelMax => t.topLevel.words[count + 1] = N - N
    <3>1. count \in Nat /\ TopLevelMax \in Nat /\ N \in Nat
      BY <1>1
    <3>2. \A i \in 1 .. TopLevelMax : i > count => t.topLevel.words[i] = 0
      BY DEF count
    <3> QED BY <3>1, <3>2
  <2>4. \A i \in 1 .. TopLevelMax : i > count + 1 => t.topLevel.words[i] = 0
    BY <1>1 DEF count
  <2>5. \A i \in 1 .. 0 : FALSE
    OBVIOUS
  <2>6. 0 \in 0 .. (LineItemsMax + 1) /\ N <= N /\ ~(N < N)
    BY <1>1
  <2> QED BY <2>1, <2>2, <2>3, <2>4, <2>5, <2>6, <1>2, <1>3 DEF ItemsLedger, N, count
<1>8. HeightLedger(t, H)
  BY <1>1, <1>4 DEF HeightLedger
<1>9. GroupsLedger(t, 0, H, G)
  <2>1. \A g \in 1 .. 0 : FALSE
    OBVIOUS
  <2>2. 0 \in 0 .. (ParensMax + 1)
    BY <1>1
  <2> QED BY <2>1, <2>2, <1>3 DEF GroupsLedger
<1>10. Balance(t, 0, H, F, G)
  <2>1. F[N] \in Nat
    <3>1. N \in 0 .. N
      BY <1>1
    <3> QED BY <3>1 DEF InputsLedger, N
  <2>2. F[N] + 0 + 0 + 0 + N = N + F[N]
    BY <2>1, <1>1
  <2> QED BY <2>2, <1>2, <1>3, <1>4 DEF Balance, N
<1> QED BY <1>4, <1>6, <1>7, <1>8, <1>9, <1>10 DEF Ledger, H, G, N

(* A line of inputs. *)
LEMMA EndInputsFacts ==
  ASSUME NEW s, Shape(s)
  PROVE  LET t == EndInputs(s) IN
           /\ Shape(t) /\ KeepsBuilt(s, t) /\ KeepsBlooms(s, t)
           /\ t.slots = s.slots /\ t.parens = s.parens /\ t.line = s.line /\ t.fsm = s.fsm
           /\ t.topLevel.lhs = s.topLevel.lhs
           /\ ~Failed(t) =>
                /\ Height(t) = Height(s) + s.line.lhs
                /\ \A i \in 1 .. TopLevelMax : t.topLevel.words[i] = 0
<1> DEFINE zeros == [i \in 1 .. TopLevelMax |-> 0]
           u == [s EXCEPT !.topLevel.count = @ + s.line.lhs, !.topLevel.words = zeros]
           t == EndInputs(s)
<1>1. s \in StateType /\ Byte \subseteq Nat /\ 0 \in Byte /\ TopLevelMax \in Nat
  BY LimitsAssumption DEF Shape, Byte
<1>2. /\ s.topLevel = [count |-> s.topLevel.count, words |-> s.topLevel.words, lhs |-> s.topLevel.lhs]
      /\ s.topLevel.count \in Nat /\ s.topLevel.lhs \in Byte /\ s.line.lhs \in Byte
  BY <1>1 DEF StateType, TopLevelType, LineType
<1>3. zeros \in [1 .. TopLevelMax -> Byte]
  BY <1>1
<1>4. /\ u = [s EXCEPT !.topLevel = [count |-> s.topLevel.count + s.line.lhs, words |-> zeros,
                                     lhs |-> s.topLevel.lhs]]
  <2> DEFINE top == s.topLevel
             counted == [top EXCEPT !.count = @ + s.line.lhs]
             new == [counted EXCEPT !.words = zeros]
  <2>1. "topLevel" \in DOMAIN s
    BY <1>1 DEF StateType
  <2>2. new = [count |-> s.topLevel.count + s.line.lhs, words |-> zeros, lhs |-> s.topLevel.lhs]
    <3> HIDE DEF zeros
    <3>1. counted = [count |-> s.topLevel.count + s.line.lhs, words |-> s.topLevel.words,
                     lhs |-> s.topLevel.lhs]
      BY <1>2
    <3> HIDE DEF counted
    <3> QED BY <3>1
  <2>3. u = [[s EXCEPT !.topLevel = counted] EXCEPT !.topLevel = new]
    <3> DEFINE v == [s EXCEPT !.topLevel = counted]
    <3>1. v.topLevel = counted
      <4> HIDE DEF counted
      <4> QED BY <2>1
    <3>2. u = [v EXCEPT !.topLevel = [v.topLevel EXCEPT !.words = zeros]]
      BY Zenon
    <3> QED BY <3>1, <3>2, Zenon
  <2> HIDE DEF u, counted, new
  <2>4. u = [s EXCEPT !.topLevel = new]
    BY <2>3
  <2> QED BY <2>2, <2>4
<1>5. [count |-> s.topLevel.count + s.line.lhs, words |-> zeros, lhs |-> s.topLevel.lhs] \in TopLevelType
  <2>1. s.topLevel.count + s.line.lhs \in Nat
    <3>1. s.topLevel.count \in Nat /\ s.line.lhs \in Nat
      BY <1>1, <1>2
    <3> QED BY <3>1
  <2> HIDE DEF zeros
  <2> QED BY <2>1, <1>2, <1>3 DEF TopLevelType
<1> HIDE DEF u
<1>6. /\ u \in StateType /\ KeepsBuilt(s, u) /\ KeepsBlooms(s, u)
      /\ u.slots = s.slots /\ u.parens = s.parens /\ u.line = s.line /\ u.fsm = s.fsm
      /\ u.stackTracker = s.stackTracker
      /\ u.topLevel.lhs = s.topLevel.lhs /\ u.topLevel.words = zeros
  <2> HIDE DEF zeros
  <2> QED BY <1>1, <1>4, <1>5 DEF StateType, KeepsBuilt, KeepsBlooms
<1>7. CASE "acceptingInputs" \notin s.fsm
  <2>1. t = Revert(s, "NotAcceptingInputs")
    BY <1>7 DEF EndInputs
  <2>2. /\ t \in StateType /\ KeepsAll(s, t) /\ Failed(t)
    BY <2>1, <1>1, ErrorsFacts, RevertKeeps
  <2> QED BY <2>2 DEF KeepsAll, Shape
<1>8. CASE "acceptingInputs" \in s.fsm
  <2>1. t = PushInputs(u, s.line.lhs)
    BY <1>8 DEF EndInputs, u
  <2>2. s.line.lhs \in Nat
    BY <1>1, <1>2
  <2>3. /\ t \in StateType /\ KeepsButTracker(u, t)
        /\ ~Failed(t) => t.stackTracker.current = u.stackTracker.current + s.line.lhs
    BY <2>1, <2>2, <1>6, PushInputsFacts
  <2>4. \A i \in 1 .. TopLevelMax : zeros[i] = 0
    OBVIOUS
  <2> HIDE DEF t, zeros
  <2>5. /\ KeepsBuilt(s, t) /\ KeepsBlooms(s, t)
        /\ t.slots = s.slots /\ t.parens = s.parens /\ t.line = s.line /\ t.fsm = s.fsm
        /\ t.topLevel.lhs = s.topLevel.lhs /\ t.topLevel.words = zeros
    BY <2>3, <1>6 DEF KeepsButTracker, KeepsBuilt, KeepsBlooms
  <2>6. Shape(t)
    BY <2>3, <2>5 DEF Shape
  <2> QED BY <2>3, <2>4, <2>5, <2>6, <1>6 DEF t, Height
<1> QED BY <1>7, <1>8

(* The end of a line: what the parser counts on the stack is what is named. *)
LEMMA EndLineFacts ==
  ASSUME NEW s, Shape(s), NEW H, NEW F, NEW G,
         s.parens.depth = 0 => Ledger(s, 0, H, F, G) /\ Begun(s, H) = 0
  PROVE  LET t == EndLine(s) IN
           /\ Shape(t) /\ KeepsBuilt(s, t) /\ KeepsBlooms(s, t)
           /\ ~Failed(t) =>
                /\ t.fsm = (s.fsm \cap {"acceptingInputs"}) \cup {"activeSource"}
                /\ t.parens.depth = 0 /\ t.line.lhs = 0
                /\ \E H1, F1, G1 : Ledger(t, 0, H1, F1, G1) /\ Begun(t, H1) = 0
<1> DEFINE snapped == SnapshotSourceHead(s)
           fsm == (snapped.fsm \cap {"acceptingInputs"}) \cup {"activeSource"}
           begun == [snapped EXCEPT !.fsm = fsm]
           ended == IF LineItems(s) = 0 THEN EndInputs(begun) ELSE EndItems(begun)
           t == EndLine(s)
<1>1. CASE s.parens.depth > 0
  <2>1. t = Revert(s, "UnclosedLeftParen")
    BY <1>1 DEF EndLine
  <2>2. s \in StateType
    BY DEF Shape
  <2>3. /\ t \in StateType /\ KeepsAll(s, t) /\ Failed(t)
    BY <2>1, <2>2, ErrorsFacts, RevertKeeps
  <2> QED BY <2>3 DEF KeepsAll, Shape
<1>2. CASE ~(s.parens.depth > 0)
  <2>1. s.parens.depth = 0
    BY <1>2, LimitsAssumption DEF Shape, StateType, ParensType
  <2>2. Ledger(s, 0, H, F, G) /\ Begun(s, H) = 0
    BY <2>1
  <2>3. t = IF Failed(snapped) THEN snapped ELSE IF Failed(ended) THEN ended ELSE NextLine(ended)
    BY <1>2 DEF EndLine
  <2>4. /\ Shape(snapped) /\ KeepsBuilt(s, snapped) /\ KeepsBlooms(s, snapped)
        /\ snapped.slots = s.slots /\ snapped.topLevel = s.topLevel /\ snapped.parens = s.parens
        /\ snapped.fsm = s.fsm /\ snapped.stackTracker = s.stackTracker
        /\ snapped.line.lhs = s.line.lhs /\ snapped.line.start = s.line.start
        /\ ~Failed(snapped) => Remembers(s, snapped)
    BY SnapshotFacts DEF Remembers
  <2> HIDE DEF snapped
  <2>5. CASE Failed(snapped)
    BY <2>3, <2>4, <2>5
  <2>6. CASE ~Failed(snapped)
    <3>1. /\ Ledger(snapped, 0, H, F, G) /\ LineItems(snapped) = LineItems(s)
          /\ Begun(snapped, H) = Begun(s, H)
      BY <2>2, <2>4, <2>6, SnapshotLedger
    <3>2. /\ begun \in StateType /\ KeepsBuilt(snapped, begun) /\ KeepsBlooms(snapped, begun)
          /\ begun.slots = snapped.slots /\ begun.topLevel = snapped.topLevel
          /\ begun.parens = snapped.parens /\ begun.line = snapped.line
          /\ begun.stackTracker = snapped.stackTracker
          /\ begun.fsm = fsm /\ Shape(begun)
      <4>1. snapped \in StateType /\ fsm \in SUBSET Flags
        BY <2>4 DEF Shape, StateType, Flags
      <4> HIDE DEF fsm
      <4> QED BY <4>1, <2>4, FlagsStay
    <3> HIDE DEF begun
    <3>3. Ledger(begun, 0, H, F, G) /\ LineItems(begun) = LineItems(s) /\ Begun(begun, H) = 0
      <4>1. begun.parens.groups = snapped.parens.groups
            /\ begun.stackTracker.current = snapped.stackTracker.current
        BY <3>2
      <4>2. /\ Ledger(begun, 0, H, F, G) /\ LineItems(begun) = LineItems(snapped)
            /\ Begun(begun, H) = Begun(snapped, H)
        BY <3>1, <3>2, <4>1, LedgerStays
      <4> QED BY <4>2, <3>1, <2>2
    <3>4. /\ begun.line.lhs = s.line.lhs /\ begun.topLevel = s.topLevel /\ Height(begun) = Height(s)
          /\ begun.parens = s.parens /\ begun.fsm = (s.fsm \cap {"acceptingInputs"}) \cup {"activeSource"}
          /\ KeepsBuilt(s, begun) /\ KeepsBlooms(s, begun)
      BY <2>4, <3>2 DEF Height, KeepsBuilt, KeepsBlooms
    <3> DEFINE count == ended.topLevel.count
    <3>5. /\ ItemsLedger(begun, H) /\ HeightLedger(begun, H) /\ InputsLedger(begun, F)
          /\ GroupsLedger(begun, 0, H, G) /\ Balance(begun, 0, H, F, G)
      BY <3>3 DEF Ledger
    <3>6. /\ Shape(ended) /\ KeepsBuilt(begun, ended) /\ KeepsBlooms(begun, ended)
          /\ ended.parens = begun.parens /\ ended.fsm = begun.fsm
          /\ Alike(begun.slots, ended.slots) /\ ended.topLevel.lhs = begun.topLevel.lhs
          /\ ~Failed(ended) =>
               /\ Height(ended) = Height(begun) + begun.line.lhs
               /\ \A i \in 1 .. TopLevelMax : i > count => ended.topLevel.words[i] = 0
      <4>1. CASE LineItems(s) = 0
        <5>1. ended = EndInputs(begun)
          BY <4>1
        <5>2. Alike(begun.slots, begun.slots)
          BY <3>2 DEF Alike, Shape
        <5> HIDE DEF ended
        <5> QED BY <5>1, <5>2, <3>2, EndInputsFacts
      <4>2. CASE LineItems(s) # 0
        <5>1. ended = EndItems(begun)
          BY <4>2
        <5>2. F[Written(begun.slots)] + LineItems(begun) + H[0] = Written(begun.slots) + F[H[0]]
          <6>1. F[Written(begun.slots)] + G[0] + LineItems(begun)
                  + (IF Begun(begun, H) > 0 THEN 1 ELSE 0) + H[0] = Written(begun.slots) + F[H[0]]
            BY <3>5 DEF Balance
          <6>2. G[0] = 0 /\ Begun(begun, H) = 0
            BY <3>3, <3>5 DEF GroupsLedger
          <6>3. F[Written(begun.slots)] \in Nat
            <7>1. Written(begun.slots) \in Nat
              BY <3>2, <3>5, LedgerNumbers
            <7>2. Written(begun.slots) \in 0 .. Written(begun.slots)
              BY <7>1
            <7> QED BY <7>2, <3>5 DEF InputsLedger
          <6>4. LineItems(begun) \in Nat /\ H[0] \in Nat
            BY <3>2, <3>5, LedgerNumbers
          <6> QED BY <6>1, <6>2, <6>3, <6>4
        <5>3. /\ Shape(EndItems(begun)) /\ KeepsBuilt(begun, EndItems(begun))
              /\ KeepsBlooms(begun, EndItems(begun))
              /\ EndItems(begun).topLevel = begun.topLevel /\ EndItems(begun).parens = begun.parens
              /\ EndItems(begun).fsm = begun.fsm /\ Alike(begun.slots, EndItems(begun).slots)
              /\ ~Failed(EndItems(begun)) => Height(EndItems(begun)) = Height(begun) + begun.line.lhs
          BY <5>2, <3>2, <3>3, <3>5, <4>2, EndItemsFacts
        <5>4. \A i \in 1 .. TopLevelMax : i > begun.topLevel.count => begun.topLevel.words[i] = 0
          <6> SUFFICES ASSUME NEW i \in 1 .. TopLevelMax, i > begun.topLevel.count
                       PROVE  begun.topLevel.words[i] = 0
            OBVIOUS
          <6>1. /\ begun.topLevel.count \in Nat /\ TopLevelMax \in Nat /\ H[LineItems(begun)] \in Nat
                /\ Written(begun.slots) = H[LineItems(begun)] + Begun(begun, H)
            BY <3>2, <3>5, LedgerNumbers
          <6>2. CASE i = begun.topLevel.count + 1
            <7>1. begun.topLevel.count < TopLevelMax
              BY <6>1, <6>2
            <7>2. begun.topLevel.words[begun.topLevel.count + 1]
                    = Written(begun.slots) - H[LineItems(begun)]
              BY <7>1, <3>5 DEF ItemsLedger
            <7> QED BY <7>2, <6>1, <6>2, <3>3
          <6>3. CASE i # begun.topLevel.count + 1
            <7>1. i > begun.topLevel.count + 1
              BY <6>1, <6>3
            <7> QED BY <7>1, <3>5 DEF ItemsLedger
          <6> QED BY <6>2, <6>3
        <5> HIDE DEF ended
        <5> QED BY <5>1, <5>3, <5>4
      <4> QED BY <4>1, <4>2
    <3> HIDE DEF ended
    <3>7. KeepsBuilt(s, ended) /\ KeepsBlooms(s, ended)
      BY <3>4, <3>6 DEF KeepsBuilt, KeepsBlooms
    <3>8. CASE Failed(ended)
      <4>1. t = ended
        BY <2>3, <2>6, <3>8
      <4> QED BY <4>1, <3>6, <3>7, <3>8
    <3>9. CASE ~Failed(ended)
      <4> DEFINE next == NextLine(ended)
      <4>1. t = next
        BY <2>3, <2>6, <3>9
      <4>2. ended \in StateType /\ WellFilled(ended.slots)
        BY <3>6 DEF Shape
      <4>3. next = [ended EXCEPT !.line = [lhs |-> 0, start |-> count, heads |-> NewHeads]]
        BY DEF NextLine, NewHeads
      <4>4. [lhs |-> 0, start |-> count, heads |-> NewHeads] \in LineType
        <5>1. count \in Nat /\ 0 \in Byte /\ NoPlace \in Place
          BY <4>2, LimitsAssumption, SMTT(30) DEF StateType, TopLevelType, Byte, NoPlace, Place
        <5>2. NewHeads \in [1 .. (LineItemsMax + 2) -> Place]
          BY <5>1 DEF NewHeads
        <5> HIDE DEF count
        <5> QED BY <5>1, <5>2 DEF LineType
      <4> HIDE DEF count, next
      <4>5. /\ next \in StateType /\ KeepsBuilt(ended, next) /\ KeepsBlooms(ended, next)
            /\ next.slots = ended.slots /\ next.topLevel = ended.topLevel /\ next.parens = ended.parens
            /\ next.fsm = ended.fsm /\ next.stackTracker = ended.stackTracker
            /\ next.line = [lhs |-> 0, start |-> count, heads |-> NewHeads]
        BY <4>2, <4>3, <4>4 DEF StateType, KeepsBuilt, KeepsBlooms
      <4>6. InputsLedger(next, F)
        <5>1. Written(ended.slots) = Written(begun.slots)
          BY <3>6 DEF Alike
        <5>2. \A p \in 1 .. Written(begun.slots) :
                OpAtPosition(ended.slots, p).ins = OpAtPosition(begun.slots, p).ins
          BY <3>6 DEF Alike
        <5> QED BY <5>1, <5>2, <4>5, <3>5 DEF InputsLedger
      <4>7. next.topLevel.lhs = next.stackTracker.current
        <5>1. begun.topLevel.lhs = begun.stackTracker.current + begun.line.lhs + 0
          <6>1. begun.stackTracker.current \in Nat /\ begun.line.lhs \in Nat
            BY <3>2, <3>5, LedgerNumbers
          <6> QED BY <6>1, <3>3, <3>5 DEF HeightLedger
        <5>2. begun.stackTracker.current \in Nat /\ begun.line.lhs \in Nat
          BY <3>2, <3>5, LedgerNumbers
        <5> QED BY <5>1, <5>2, <4>5, <3>6, <3>9 DEF Height
      <4>8. next.topLevel.count = count
        BY <4>5 DEF count
      <4>9. \A i \in 1 .. TopLevelMax : i > next.topLevel.count => next.topLevel.words[i] = 0
        BY <4>5, <4>8, <3>6, <3>9 DEF count
      <4>10. \E H1, F1, G1 : Ledger(next, 0, H1, F1, G1) /\ Begun(next, H1) = 0 /\ Shape(next)
        BY <4>2, <4>5, <4>6, <4>7, <4>8, <4>9, NewLedger
      <4>11. KeepsBuilt(s, next) /\ KeepsBlooms(s, next)
        BY <3>7, <4>5 DEF KeepsBuilt, KeepsBlooms
      <4>12. /\ next.fsm = (s.fsm \cap {"acceptingInputs"}) \cup {"activeSource"}
             /\ next.parens.depth = 0 /\ next.line.lhs = 0
        BY <4>5, <3>4, <3>6, <2>1
      <4> QED BY <4>1, <4>10, <4>11, <4>12
    <3> QED BY <3>8, <3>9
  <2> QED BY <2>5, <2>6
<1> QED BY <1>1, <1>2

-----------------------------------------------------------------------------
(* The end of a source. *)

(* The sums of the first numbers of a sequence. *)
AddsUp(f, numbers) ==
  /\ f \in [0 .. Len(numbers) -> Nat]
  /\ f[0] = 0
  /\ \A n \in 1 .. Len(numbers) : f[n] = f[n - 1] + numbers[n]

LEMMA SumExists ==
  ASSUME NEW numbers \in Seq(Nat)
  PROVE  \E f : AddsUp(f, numbers) /\ SumSeq(numbers) = f[Len(numbers)]
<1> DEFINE N == Len(numbers)
           F == [x \in Nat \X Nat |-> IF x[2] \in 1 .. N THEN x[1] + numbers[x[2]] ELSE 0]
           IsSum(f) == f = [n \in 0 .. N |-> IF n = 0 THEN 0 ELSE f[n - 1] + numbers[n]]
<1>1. N \in Nat /\ \A n \in 1 .. N : numbers[n] \in Nat
  BY LenProperties, ElementOfSeq
<1> HIDE DEF N
<1>2. F \in [Nat \X Nat -> Nat]
  BY <1>1
<1>3. PICK g : Recurs(g, N, Nat, 0, F)
  <2> HIDE DEF F
  <2> QED BY <1>1, <1>2, RecursionExists
<1>4. ASSUME NEW n \in 1 .. N PROVE g[n] = g[n - 1] + numbers[n]
  <2>1. g[n - 1] \in Nat /\ n \in Nat
    <3> HIDE DEF F
    <3>1. n - 1 \in 0 .. N
      BY <1>1
    <3> QED BY <3>1, <1>3 DEF Recurs
  <2>2. <<g[n - 1], n>> \in Nat \X Nat
    BY <2>1
  <2> QED BY <2>2, <1>3 DEF Recurs
<1>5. IsSum(g)
  <2> HIDE DEF F
  <2>1. g \in [0 .. N -> Nat] /\ g[0] = 0
    BY <1>3 DEF Recurs
  <2>2. ASSUME NEW n \in 0 .. N PROVE g[n] = IF n = 0 THEN 0 ELSE g[n - 1] + numbers[n]
    <3>1. CASE n = 0
      BY <2>1, <3>1
    <3>2. CASE n # 0
      <4>1. n \in 1 .. N
        BY <3>2, <1>1
      <4> QED BY <4>1, <3>2, <1>4
    <3> QED BY <3>1, <3>2
  <2> QED BY <2>1, <2>2
<1> DEFINE sum == CHOOSE f : IsSum(f)
<1>6. IsSum(sum)
  <2> HIDE DEF IsSum
  <2> QED BY <1>5
<1>7. SumSeq(numbers) = sum[N]
  BY DEF SumSeq, N
<1> HIDE DEF sum
<1>8. /\ sum = [n \in 0 .. N |-> sum[n]]
      /\ \A n \in 0 .. N : sum[n] = IF n = 0 THEN 0 ELSE sum[n - 1] + numbers[n]
  <2>1. sum = [n \in 0 .. N |-> IF n = 0 THEN 0 ELSE sum[n - 1] + numbers[n]]
    BY <1>6
  <2>2. \A n \in 0 .. N : sum[n] = IF n = 0 THEN 0 ELSE sum[n - 1] + numbers[n]
    BY <2>1, Zenon
  <2> QED BY <2>1, <2>2, Zenon
<1>9. sum[0] = 0 /\ \A n \in 1 .. N : sum[n] = sum[n - 1] + numbers[n]
  <2>1. 0 \in 0 .. N /\ \A n \in 1 .. N : n \in 0 .. N /\ n # 0
    BY <1>1
  <2> QED BY <2>1, <1>8
<1>10. \A n \in 0 .. N : sum[n] \in Nat
  <2> DEFINE T == {n \in 0 .. N : sum[n] \in Nat}
  <2>1. 0 \in T
    BY <1>1, <1>9
  <2>2. ASSUME NEW n \in 0 .. (N - 1), n \in T PROVE n + 1 \in T
    <3>1. n + 1 \in 1 .. N /\ n + 1 \in 0 .. N /\ (n + 1) - 1 = n
      BY <1>1
    <3>2. sum[n + 1] = sum[n] + numbers[n + 1] /\ numbers[n + 1] \in Nat /\ sum[n] \in Nat
      BY <3>1, <1>1, <1>9, <2>2
    <3> QED BY <3>1, <3>2
  <2> HIDE DEF T
  <2>3. \A n \in 0 .. N : n \in T
    BY <1>1, <2>1, <2>2, BoundedInduction
  <2> QED BY <2>3 DEF T
<1>11. sum \in [0 .. N -> Nat]
  <2>1. [n \in 0 .. N |-> sum[n]] \in [0 .. N -> Nat]
    BY <1>10
  <2> QED BY <2>1, <1>8
<1> QED BY <1>7, <1>9, <1>11 DEF AddsUp, N

(* There is no other, and it grows. *)
LEMMA SumFacts ==
  ASSUME NEW numbers \in Seq(Nat), NEW f, AddsUp(f, numbers)
  PROVE  /\ SumSeq(numbers) = f[Len(numbers)]
         /\ \A n \in 0 .. Len(numbers) : f[n] <= f[Len(numbers)]
<1> DEFINE N == Len(numbers)
<1>1. N \in Nat /\ \A n \in 1 .. N : numbers[n] \in Nat
  BY LenProperties, ElementOfSeq
<1>2. PICK g : AddsUp(g, numbers) /\ SumSeq(numbers) = g[N]
  BY SumExists
<1> HIDE DEF N
<1>3. /\ f \in [0 .. N -> Nat] /\ f[0] = 0 /\ \A n \in 1 .. N : f[n] = f[n - 1] + numbers[n]
      /\ g \in [0 .. N -> Nat] /\ g[0] = 0 /\ \A n \in 1 .. N : g[n] = g[n - 1] + numbers[n]
  BY <1>2 DEF AddsUp, N
<1>4. \A n \in 0 .. N : f[n] = g[n]
  <2> DEFINE T == {n \in 0 .. N : f[n] = g[n]}
  <2>1. 0 \in T
    BY <1>1, <1>3
  <2>2. ASSUME NEW n \in 0 .. (N - 1), n \in T PROVE n + 1 \in T
    <3>1. n + 1 \in 1 .. N /\ n + 1 \in 0 .. N /\ (n + 1) - 1 = n
      BY <1>1
    <3>2. f[n + 1] = f[n] + numbers[n + 1] /\ g[n + 1] = g[n] + numbers[n + 1]
      BY <3>1, <1>3
    <3> QED BY <3>1, <3>2, <2>2
  <2> HIDE DEF T
  <2>3. \A n \in 0 .. N : n \in T
    BY <1>1, <2>1, <2>2, BoundedInduction
  <2> QED BY <2>3 DEF T
<1>5. \A n \in 0 .. N : f[N - n] <= f[N]
  <2> DEFINE T == {n \in 0 .. N : f[N - n] <= f[N]}
  <2>1. 0 \in T
    <3>1. N - 0 = N /\ N \in 0 .. N
      BY <1>1
    <3> QED BY <3>1, <1>1, <1>3
  <2>2. ASSUME NEW n \in 0 .. (N - 1), n \in T PROVE n + 1 \in T
    <3>1. N - n \in 1 .. N /\ N - (n + 1) = (N - n) - 1 /\ n + 1 \in 0 .. N /\ (N - n) - 1 \in 0 .. N
          /\ N - n \in 0 .. N /\ N \in 0 .. N
      BY <1>1
    <3>2. f[N - n] = f[(N - n) - 1] + numbers[N - n] /\ numbers[N - n] \in Nat
      BY <3>1, <1>1, <1>3
    <3>3. f[N - n] <= f[N] /\ f[N - n] \in Nat /\ f[N] \in Nat /\ f[(N - n) - 1] \in Nat
      BY <3>1, <2>2, <1>3
    <3>4. f[N - (n + 1)] <= f[N]
      BY <3>1, <3>2, <3>3, SMTT(30)
    <3> QED BY <3>1, <3>4
  <2> HIDE DEF T
  <2>3. \A n \in 0 .. N : n \in T
    BY <1>1, <2>1, <2>2, BoundedInduction
  <2> QED BY <2>3 DEF T
<1>6. ASSUME NEW n \in 0 .. N PROVE f[n] <= f[N]
  <2>1. N - n \in 0 .. N /\ N - (N - n) = n
    BY <1>1
  <2> QED BY <2>1, <1>5
<1>7. N \in 0 .. N
  BY <1>1
<1> QED BY <1>2, <1>4, <1>6, <1>7 DEF N

LEMMA ReverseFacts ==
  ASSUME NEW S, NEW seq \in Seq(S)
  PROVE  Reverse(seq) \in Seq(S) /\ Len(Reverse(seq)) = Len(seq)
<1> DEFINE n == Len(seq)
           f == [i \in 1 .. n |-> seq[(n - i) + 1]]
<1>1. n \in Nat /\ \A i \in 1 .. n : seq[i] \in S
  BY LenProperties, ElementOfSeq
<1> HIDE DEF n
<1>2. f \in [1 .. n -> S]
  BY <1>1
<1>3. Reverse(seq) = f
  BY DEF Reverse, n
<1> HIDE DEF f
<1> QED BY <1>1, <1>2, <1>3, FunctionIsSequence DEF n

(* The words up to a position are as many. *)
LEMMA WordsBackFacts ==
  ASSUME NEW slots, WellFilled(slots), NEW q \in 1 .. Written(slots)
  PROVE  WordsBack(slots, q) \in Seq(ReadOp) /\ Len(WordsBack(slots, q)) = q
<1> DEFINE a == SlotOf(q)
           b == IndexOf(q)
           parts == [k \in 1 .. (a - 1) |-> Reverse(slots[a - k])]
           o == [k \in 0 .. (a - 1) |-> k * SlotOps]
           front == Reverse(SubSeq(slots[a], 1, b))
           back == FlattenSeq(parts)
<1>1. /\ Written(slots) \in Nat /\ Len(slots) \in Nat \ {0}
      /\ \A k \in 1 .. Len(slots) : slots[k] \in Seq(ReadOp) /\ Len(slots[k]) \in 0 .. SlotOps
  BY FilledPlaces
<1>2. a \in 1 .. Len(slots) /\ b \in 1 .. Len(slots[a]) /\ SlotOps \in Nat
  BY FilledPositions, LimitsAssumption
<1>3. q \in Nat \ {0}
  BY <1>1
<1>4. q = (a - 1) * SlotOps + b
  BY <1>3, PositionsHavePlaces DEF Position
<1>5. WordsBack(slots, q) = front \o back
  BY DEF WordsBack, SlotOf, IndexOf
<1> HIDE DEF a, b
<1>6. a \in Nat \ {0} /\ b \in Nat \ {0} /\ slots[a] \in Seq(ReadOp) /\ a - 1 \in Nat
  BY <1>1, <1>2
<1>7. front \in Seq(ReadOp) /\ Len(front) = b
  <2> DEFINE sub == SubSeq(slots[a], 1, b)
  <2>1. \A i \in 1 .. b : slots[a][i] \in ReadOp
    <3>1. \A i \in 1 .. Len(slots[a]) : slots[a][i] \in ReadOp
      BY <1>6, ElementOfSeq
    <3>2. Len(slots[a]) \in Nat
      BY <1>6, LenProperties
    <3> QED BY <3>1, <3>2, <1>2
  <2>2. sub \in Seq(ReadOp) /\ Len(sub) = IF 1 <= b THEN b - 1 + 1 ELSE 0
    <3>1. 1 \in Int /\ b \in Int
      BY <1>6
    <3> QED BY <2>1, <3>1, SubSeqProperties
  <2> HIDE DEF sub
  <2>3. Reverse(sub) \in Seq(ReadOp) /\ Len(Reverse(sub)) = Len(sub)
    BY <2>2, ReverseFacts
  <2> QED BY <2>2, <2>3, <1>6 DEF sub
<1>8. ASSUME NEW k \in 1 .. (a - 1)
      PROVE  Reverse(slots[a - k]) \in Seq(ReadOp) /\ Len(Reverse(slots[a - k])) = SlotOps
  <2>1. a - k \in 1 .. (Len(slots) - 1) /\ a - k \in 1 .. Len(slots)
    BY <1>1, <1>2, <1>6
  <2>2. slots[a - k] \in Seq(ReadOp) /\ Len(slots[a - k]) = SlotOps
    BY <2>1, <1>1 DEF WellFilled
  <2> QED BY <2>2, ReverseFacts
<1>9. parts \in Seq(Seq(ReadOp)) /\ Len(parts) = a - 1
  <2>1. parts \in [1 .. (a - 1) -> Seq(ReadOp)]
    BY <1>8
  <2> HIDE DEF parts
  <2> QED BY <2>1, <1>6, FunctionIsSequence
<1>10. AreOffsets(o, parts)
  <2>1. o \in [0 .. (a - 1) -> Nat]
    <3>1. \A x, y \in Nat : x * y \in Nat
      OBVIOUS
    <3> QED BY <3>1, <1>2, <1>6
  <2>2. o[0] = 0
    <3>1. 0 \in 0 .. (a - 1) /\ 0 * SlotOps = 0
      BY <1>2, <1>6
    <3> QED BY <3>1
  <2>3. ASSUME NEW k \in 1 .. (a - 1) PROVE o[k] = o[k - 1] + Len(parts[k])
    <3>1. Len(parts[k]) = SlotOps
      BY <1>8
    <3>2. k \in 0 .. (a - 1) /\ k - 1 \in 0 .. (a - 1)
      BY <1>6
    <3>3. \A x \in Nat \ {0} : x * SlotOps = (x - 1) * SlotOps + SlotOps
      BY <1>2
    <3>4. o[k] = k * SlotOps /\ o[k - 1] = (k - 1) * SlotOps
      BY <3>2
    <3> HIDE DEF parts, o
    <3> QED BY <3>1, <3>3, <3>4
  <2> HIDE DEF o, parts
  <2> QED BY <2>1, <2>2, <2>3, <1>9 DEF AreOffsets
<1>11. back \in Seq(ReadOp) /\ Len(back) = (a - 1) * SlotOps
  <2>1. o[a - 1] = (a - 1) * SlotOps
    BY <1>6
  <2> HIDE DEF o, parts
  <2> QED BY <2>1, <1>9, <1>10, FlattenFacts
<1> DEFINE k == (a - 1) * SlotOps
<1>12. k \in Nat
  <2>1. \A x, y \in Nat : x * y \in Nat
    OBVIOUS
  <2> QED BY <2>1, <1>2, <1>6
<1> HIDE DEF front, back
<1>13. front \o back \in Seq(ReadOp) /\ Len(front \o back) = Len(front) + Len(back)
  BY <1>7, <1>11, ConcatProperties
<1>14. q = k + b /\ Len(back) = k
  BY <1>4, <1>11
<1> HIDE DEF k
<1> QED BY <1>5, <1>6, <1>7, <1>12, <1>13, <1>14

LEMMA OpsWrittenFacts ==
  ASSUME NEW s, Shape(s)
  PROVE  OpsWritten(s) = Written(s.slots)
<1> DEFINE L == Len(s.slots)
           M == Len(s.slots[L])
           lens == [k \in DOMAIN s.slots |-> Len(s.slots[k])]
           f == [k \in 0 .. L |-> IF k < L THEN k * SlotOps ELSE (L - 1) * SlotOps + M]
<1>1. /\ L \in Nat \ {0} /\ WellFilled(s.slots)
      /\ \A k \in 1 .. L : s.slots[k] \in Seq(ReadOp) /\ Len(s.slots[k]) \in 0 .. SlotOps
  BY FilledPlaces DEF Shape
<1>2. SlotOps \in Nat /\ M \in Nat /\ DOMAIN s.slots = 1 .. L
  <2>1. s.slots \in Seq(Seq(ReadOp))
    BY <1>1 DEF WellFilled
  <2> QED BY <2>1, <1>1, LimitsAssumption, LenProperties
<1>3. \A k \in 1 .. (L - 1) : Len(s.slots[k]) = SlotOps
  BY <1>1 DEF WellFilled
<1>4. Written(s.slots) = (L - 1) * SlotOps + M
  BY DEF Written, Position
<1> HIDE DEF L, M
<1>5. lens \in Seq(Nat) /\ Len(lens) = L /\ \A k \in 1 .. L : lens[k] = Len(s.slots[k])
  <2>1. lens = [k \in 1 .. L |-> Len(s.slots[k])]
    BY <1>2
  <2>2. lens \in [1 .. L -> Nat]
    BY <2>1, <1>1, <1>2
  <2>3. \A k \in 1 .. L : lens[k] = Len(s.slots[k])
    BY <2>1
  <2> HIDE DEF lens
  <2> QED BY <2>2, <2>3, <1>1, FunctionIsSequence
<1>6. \A x, y \in Nat : x * y \in Nat
  OBVIOUS
<1>7. AddsUp(f, lens)
  <2>1. f \in [0 .. L -> Nat]
    <3>1. \A k \in 0 .. L : k * SlotOps \in Nat
      BY <1>1, <1>2, <1>6
    <3>2. (L - 1) * SlotOps + M \in Nat
      <4>1. L - 1 \in Nat
        BY <1>1
      <4>2. (L - 1) * SlotOps \in Nat
        BY <4>1, <1>2, <1>6
      <4> QED BY <4>2, <1>2
    <3> QED BY <3>1, <3>2
  <2>2. f[0] = 0
    <3>1. 0 \in 0 .. L /\ 0 < L /\ 0 * SlotOps = 0
      BY <1>1, <1>2
    <3> QED BY <3>1
  <2>3. ASSUME NEW k \in 1 .. L PROVE f[k] = f[k - 1] + lens[k]
    <3>1. k - 1 \in 0 .. L /\ k - 1 < L /\ k \in 0 .. L
      BY <1>1
    <3>2. f[k - 1] = (k - 1) * SlotOps /\ lens[k] = Len(s.slots[k])
      BY <3>1, <1>5
    <3>3. CASE k = L
      <4>1. f[k] = (L - 1) * SlotOps + M /\ lens[k] = M
        BY <3>1, <3>2, <3>3, <1>1 DEF M
      <4> QED BY <3>2, <3>3, <4>1
    <3>4. CASE k # L
      <4>1. k \in 1 .. (L - 1) /\ k < L
        BY <3>4, <1>1
      <4>2. f[k] = k * SlotOps /\ lens[k] = SlotOps
        BY <3>1, <3>2, <4>1, <1>3
      <4>3. k * SlotOps = (k - 1) * SlotOps + SlotOps
        <5>1. \A x \in Nat \ {0} : x * SlotOps = (x - 1) * SlotOps + SlotOps
          BY <1>2
        <5> QED BY <5>1, <1>1
      <4> HIDE DEF f, lens
      <4> QED BY <3>2, <4>2, <4>3
    <3> QED BY <3>3, <3>4
  <2> HIDE DEF f, lens
  <2> QED BY <2>1, <2>2, <2>3, <1>5 DEF AddsUp
<1>8. f[L] = (L - 1) * SlotOps + M
  BY <1>1
<1>9. OpsWritten(s) = SumSeq(lens)
  BY DEF OpsWritten
<1> HIDE DEF lens, f
<1> QED BY <1>4, <1>5, <1>7, <1>8, <1>9, SumFacts

NewTopLevel == [count |-> 0, words |-> [i \in 1 .. TopLevelMax |-> 0], lhs |-> 0]
NewParens ==
  [depth |-> 0, groups |-> [g \in 0 .. (ParensMax + 1) |-> [inputs |-> 0, op |-> NoPlace]]]
NewLine == [lhs |-> 0, start |-> 0, heads |-> NewHeads]

(* A source of which nothing is read. *)
Fresh(t) ==
  /\ t.slots = << << >> >>
  /\ t.topLevel = NewTopLevel
  /\ t.parens = NewParens
  /\ t.line = NewLine
  /\ t.stackNames = << >>
  /\ t.stackNameBloom = {}
  /\ t.stackTracker = EmptyTracker

LEMMA FreshTypes ==
  /\ << << >> >> \in Seq(Seq(ReadOp)) /\ NewTopLevel \in TopLevelType /\ NewParens \in ParensType
  /\ NewLine \in LineType /\ EmptyTracker \in TrackerType
  /\ << >> \in Seq([name : TextNames, index : Nat])
<1>1. 0 \in Byte /\ NoPlace \in Place /\ {TopLevelMax, ParensMax, LineItemsMax} \subseteq Nat
  BY LimitsAssumption DEF Byte, NoPlace, Place
<1>2. << >> \in Seq(ReadOp)
  BY EmptySeq
<1>3. << << >> >> \in Seq(Seq(ReadOp))
  BY <1>2
<1>4. NewTopLevel \in TopLevelType
  BY <1>1 DEF NewTopLevel, TopLevelType
<1>5. NewParens \in ParensType
  <2>1. [g \in 0 .. (ParensMax + 1) |-> [inputs |-> 0, op |-> NoPlace]]
          \in [0 .. (ParensMax + 1) -> GroupType]
    BY <1>1 DEF GroupType
  <2>2. 0 \in 0 .. ParensMax
    BY <1>1
  <2> QED BY <2>1, <2>2 DEF NewParens, ParensType
<1>6. NewLine \in LineType
  <2>1. NewHeads \in [1 .. (LineItemsMax + 2) -> Place]
    BY <1>1 DEF NewHeads
  <2> QED BY <2>1, <1>1 DEF NewLine, LineType
<1>7. EmptyTracker \in TrackerType
  BY <1>1 DEF EmptyTracker, TrackerType
<1> QED BY <1>3, <1>4, <1>5, <1>6, <1>7, EmptySeq

LEMMA FreshFacts ==
  ASSUME NEW t \in StateType, Fresh(t)
  PROVE  /\ Shape(t) /\ t.line.lhs = 0 /\ t.parens.depth = 0
         /\ \E H, F, G : Ledger(t, 0, H, F, G) /\ Begun(t, H) = 0
<1> DEFINE F == [p \in 0 .. 0 |-> 0]
<1>1. Len(t.slots) = 1 /\ t.slots[1] = << >> /\ Len(<< >>) = 0 /\ SlotOps \in Nat \ {0}
  BY LimitsAssumption, EmptySeq DEF Fresh
<1>2. WellFilled(t.slots)
  <2>1. \A k \in 1 .. (1 - 1) : FALSE
    OBVIOUS
  <2>2. t.slots \in Seq(Seq(ReadOp))
    BY DEF StateType
  <2> QED BY <2>1, <2>2, <1>1 DEF WellFilled
<1>3. Written(t.slots) = 0
  <2>1. Written(t.slots) = (1 - 1) * SlotOps + 0
    BY <1>1 DEF Written, Position
  <2> QED BY <2>1, <1>1
<1>4. InputsLedger(t, F)
  <2>1. \A p \in 1 .. 0 : FALSE
    OBVIOUS
  <2> QED BY <2>1, <1>3 DEF InputsLedger
<1>5. /\ t.line = [lhs |-> 0, start |-> t.topLevel.count, heads |-> NewHeads]
      /\ t.topLevel.lhs = t.stackTracker.current
      /\ \A i \in 1 .. TopLevelMax : i > t.topLevel.count => t.topLevel.words[i] = 0
      /\ t.line.lhs = 0 /\ t.parens.depth = 0
  BY DEF Fresh, NewLine, NewTopLevel, EmptyTracker, NewParens
<1> HIDE DEF F
<1> QED BY <1>2, <1>4, <1>5, NewLedger

LEMMA ResetFacts ==
  ASSUME NEW s \in StateType
  PROVE  LET t == ResetSource(s) IN
           /\ t \in StateType /\ Fresh(t)
           /\ t.error = s.error /\ t.sources = s.sources /\ t.constants = s.constants
           /\ t.subParsers = s.subParsers /\ t.fsm = s.fsm /\ t.constantsBloom = s.constantsBloom
<1> DEFINE t == ResetSource(s)
<1>1. t = [s EXCEPT !.slots = << << >> >>, !.topLevel = NewTopLevel, !.parens = NewParens,
                    !.line = NewLine, !.stackNames = << >>, !.stackNameBloom = {},
                    !.stackTracker = EmptyTracker]
  BY DEF ResetSource, NewTopLevel, NewParens, NewLine, NewHeads
<1> HIDE DEF t
<1>2. /\ t.error = s.error /\ t.sources = s.sources /\ t.constants = s.constants
      /\ t.subParsers = s.subParsers /\ t.fsm = s.fsm /\ t.constantsBloom = s.constantsBloom
      /\ t.slots = << << >> >> /\ t.topLevel = NewTopLevel /\ t.parens = NewParens
      /\ t.line = NewLine /\ t.stackNames = << >> /\ t.stackNameBloom = {}
      /\ t.stackTracker = EmptyTracker
  BY <1>1 DEF StateType
<1>3. t \in StateType
  BY <1>1, FreshTypes DEF StateType
<1> QED BY <1>2, <1>3 DEF Fresh, t

LEMMA NewStateFacts ==
  /\ NewState \in StateType /\ Fresh(NewState) /\ ~Failed(NewState)
  /\ NewState.fsm = {"acceptingInputs"} /\ NewState.sources = << >> /\ NewState.constants = << >>
<1> DEFINE s == [error |-> "none", slots |-> << >>, topLevel |-> << >>, parens |-> << >>,
                 line |-> << >>, subParsers |-> << >>, sources |-> << >>, fsm |-> DefaultFSM,
                 stackNames |-> << >>, stackNameBloom |-> {}, constants |-> << >>,
                 constantsBloom |-> {}, stackTracker |-> EmptyTracker]
<1>1. NewState = [s EXCEPT !.slots = << << >> >>, !.topLevel = NewTopLevel, !.parens = NewParens,
                    !.line = NewLine, !.stackNames = << >>, !.stackNameBloom = {},
                    !.stackTracker = EmptyTracker]
  BY DEF NewState, ResetSource, NewTopLevel, NewParens, NewLine, NewHeads
<1>2. NewState = [error |-> "none", slots |-> << << >> >>, topLevel |-> NewTopLevel,
                  parens |-> NewParens, line |-> NewLine, subParsers |-> << >>, sources |-> << >>,
                  fsm |-> DefaultFSM, stackNames |-> << >>, stackNameBloom |-> {},
                  constants |-> << >>, constantsBloom |-> {}, stackTracker |-> EmptyTracker]
  BY <1>1
<1>3. /\ "none" \in Errors \cup {"none"} /\ << >> \in Seq(Address) /\ << >> \in Seq(BuiltSource)
      /\ DefaultFSM \in SUBSET Flags /\ {} \in SUBSET Bits /\ << >> \in Seq(Value)
  BY EmptySeq DEF DefaultFSM, Flags
<1>4. NewState \in StateType
  BY <1>2, <1>3, FreshTypes DEF StateType
<1> QED BY <1>2, <1>4 DEF Fresh, Failed, DefaultFSM

(* A source that is built is well typed: its ops are copied from the slots. *)
LEMMA EndSourceFacts ==
  ASSUME NEW s, Shape(s)
  PROVE  LET t == EndSource(s) IN
           /\ Shape(t)
           /\ t.constants = s.constants /\ t.subParsers = s.subParsers
           /\ \/ Failed(t) /\ t.sources = s.sources
              \/ /\ Fresh(t) /\ t.error = s.error /\ t.fsm = s.fsm \ {"activeSource"}
                 /\ \E built \in BuiltSource : t.sources = Append(s.sources, built)
<1> DEFINE t == EndSource(s)
           counters == CountersRead(s)
           Before(i) == SumSeq(SubSeq(counters, 1, i - 1))
           parts == [i \in DOMAIN counters |-> CopyItem(s.slots, Before(i), counters[i])]
           copied == FlattenSeq(parts)
           built == [inputs |-> s.stackTracker.inputs, outputs |-> s.stackTracker.current,
                     alloc |-> s.stackTracker.max, ops |-> copied]
           m == s.topLevel.count + 1
           u == [s EXCEPT !.sources = Append(@, built), !.fsm = @ \ {"activeSource"}]
<1>1. s \in StateType /\ WellFilled(s.slots) /\ OpsWritten(s) = Written(s.slots)
  BY OpsWrittenFacts DEF Shape
<1>2. m \in Nat /\ counters = [i \in 1 .. m |-> Counter(s, i)]
  BY <1>1 DEF StateType, TopLevelType, CountersRead
<1>3. ASSUME NEW e \in Errors, t = Revert(s, e)
      PROVE  Shape(t) /\ t.constants = s.constants /\ t.subParsers = s.subParsers
             /\ Failed(t) /\ t.sources = s.sources
  <2>1. /\ t \in StateType /\ KeepsAll(s, t) /\ Failed(t)
    BY <1>1, <1>3, RevertKeeps
  <2> QED BY <2>1 DEF KeepsAll, KeepsBuilt, Shape
<1>4. \/ \E e \in Errors : t = Revert(s, e)
      \/ /\ s.topLevel.count <= TopLevelMax /\ ~(SumSeq(counters) > OpsWritten(s))
         /\ t = ResetSource(u)
  <2>1. {"MaxSources", "WildAccess", "SourceTotalOpsOverflow"} \subseteq Errors
    BY ErrorsFacts
  <2>2. TopLevelMax \in Nat /\ s.topLevel.count \in Nat
    BY <1>1, LimitsAssumption DEF StateType, TopLevelType
  <2>3. CASE Len(s.sources) = SourcesMax
    BY <2>1, <2>3 DEF EndSource
  <2>4. CASE s.topLevel.count > TopLevelMax \/ SumSeq(counters) > OpsWritten(s)
    BY <2>1, <2>4 DEF EndSource, WildAccess
  <2>5. CASE SumSeq(counters) > ByteMax
    BY <2>1, <2>5 DEF EndSource, WildAccess
  <2>6. CASE /\ Len(s.sources) # SourcesMax
             /\ ~(s.topLevel.count > TopLevelMax \/ SumSeq(counters) > OpsWritten(s))
             /\ ~(SumSeq(counters) > ByteMax)
    <3>1. t = ResetSource(u)
      BY <2>6 DEF EndSource
    <3> HIDE DEF t, u, counters
    <3> QED BY <3>1, <2>2, <2>6
  <2> QED BY <2>3, <2>4, <2>5, <2>6
<1>5. ASSUME s.topLevel.count <= TopLevelMax, ~(SumSeq(counters) > OpsWritten(s))
      PROVE  copied \in Seq(ReadOp)
  <2>1. ASSUME NEW i \in 1 .. m PROVE Counter(s, i) \in Nat
    <3>1. /\ s.topLevel.words \in [1 .. TopLevelMax -> Byte] /\ s.topLevel.lhs \in Byte
          /\ Byte \subseteq Nat /\ TopLevelMax \in Nat
      BY <1>1, LimitsAssumption, SMTT(30) DEF StateType, TopLevelType, Byte
    <3>2. i \in Nat \ {0}
      BY <1>2
    <3>3. CASE i <= TopLevelMax
      <4>1. i \in 1 .. TopLevelMax
        BY <3>1, <3>2, <3>3
      <4> QED BY <4>1, <3>1, <3>3 DEF Counter
    <3>4. CASE ~(i <= TopLevelMax)
      BY <3>1, <3>4 DEF Counter
    <3> QED BY <3>3, <3>4
  <2>2. counters \in Seq(Nat) /\ Len(counters) = m /\ \A i \in 1 .. m : counters[i] = Counter(s, i)
    <3>1. counters \in [1 .. m -> Nat] /\ \A i \in 1 .. m : counters[i] = Counter(s, i)
      BY <2>1, <1>2
    <3> HIDE DEF counters, m
    <3> QED BY <3>1, <1>2, FunctionIsSequence
  <2> HIDE DEF counters, m
  <2>3. PICK f : AddsUp(f, counters) /\ SumSeq(counters) = f[Len(counters)]
    BY <2>2, SumExists
  <2>4. /\ f \in [0 .. m -> Nat] /\ f[0] = 0 /\ \A n \in 1 .. m : f[n] = f[n - 1] + counters[n]
        /\ \A n \in 0 .. m : f[n] <= f[m]
    BY <2>2, <2>3, SumFacts DEF AddsUp
  <2>5. \A i \in 1 .. m : counters[i] \in Nat
    BY <2>2, ElementOfSeq
  <2>6. f[m] <= Written(s.slots) /\ Written(s.slots) \in Nat
    <3>1. Written(s.slots) \in Nat
      BY <1>1, FilledPlaces
    <3>2. m \in 0 .. m
      BY <1>2
    <3>3. f[m] \in Nat
      BY <3>2, <2>4
    <3> QED BY <3>1, <3>3, <2>2, <2>3, <1>1, <1>5
  <2>7. ASSUME NEW i \in 1 .. m PROVE Before(i) = f[i - 1]
    <3> DEFINE front == SubSeq(counters, 1, i - 1)
               g == [n \in 0 .. (i - 1) |-> f[n]]
    <3>1. i - 1 \in Nat /\ i - 1 <= m
      BY <1>2
    <3>2. front \in Seq(Nat) /\ Len(front) = i - 1 /\ \A n \in 1 .. (i - 1) : front[n] = counters[n]
      <4>1. \A n \in 1 .. (i - 1) : counters[n] \in Nat
        BY <2>5, <3>1, <1>2
      <4>2. 1 \in Int /\ i - 1 \in Int
        BY <3>1
      <4>3. /\ front \in Seq(Nat)
            /\ Len(front) = IF 1 <= i - 1 THEN (i - 1) - 1 + 1 ELSE 0
            /\ \A n \in 1 .. ((i - 1) - 1 + 1) : front[n] = counters[1 + n - 1]
        BY <4>1, <4>2, SubSeqProperties
      <4> HIDE DEF front
      <4>4. Len(front) = i - 1
        BY <4>3, <3>1
      <4>5. ASSUME NEW n \in 1 .. (i - 1) PROVE front[n] = counters[n]
        <5>1. n \in 1 .. ((i - 1) - 1 + 1) /\ 1 + n - 1 = n
          BY <3>1
        <5> QED BY <5>1, <4>3
      <4> QED BY <4>3, <4>4, <4>5
    <3> HIDE DEF front
    <3>3. AddsUp(g, front)
      <4>1. 0 .. (i - 1) \subseteq 0 .. m /\ 0 \in 0 .. (i - 1)
        BY <3>1, <1>2
      <4>2. g \in [0 .. (i - 1) -> Nat] /\ g[0] = 0
        BY <4>1, <2>4
      <4>3. ASSUME NEW n \in 1 .. (i - 1) PROVE g[n] = g[n - 1] + front[n]
        <5>1. n \in 1 .. m /\ n \in 0 .. (i - 1) /\ n - 1 \in 0 .. (i - 1)
          BY <3>1, <1>2
        <5> QED BY <5>1, <3>2, <2>4
      <4> HIDE DEF g
      <4> QED BY <4>2, <4>3, <3>2 DEF AddsUp
    <3>4. g[i - 1] = f[i - 1]
      BY <3>1
    <3> HIDE DEF g
    <3>5. SumSeq(front) = g[i - 1]
      BY <3>2, <3>3, SumFacts
    <3> QED BY <3>4, <3>5 DEF front
  <2>8. ASSUME NEW i \in 1 .. m PROVE CopyItem(s.slots, Before(i), counters[i]) \in Seq(ReadOp)
    <3> DEFINE p == Before(i)
               n == counters[i]
               q == p + n
               back == WordsBack(s.slots, q)
    <3>1. p = f[i - 1] /\ n \in Nat /\ i - 1 \in 0 .. m /\ i \in 0 .. m
      BY <2>5, <2>7, <1>2
    <3>2. p \in Nat /\ f[i] = p + n /\ f[i] <= f[m] /\ f[m] \in Nat
      <4>1. m \in 0 .. m
        BY <1>2
      <4> QED BY <4>1, <3>1, <2>4
    <3> HIDE DEF p, n
    <3>3. CASE n = 0
      <4>1. CopyItem(s.slots, p, n) = << >>
        BY <3>3 DEF CopyItem
      <4> QED BY <4>1, EmptySeq DEF p, n
    <3>4. CASE n # 0
      <4>1. q \in 1 .. Written(s.slots)
        BY <3>1, <3>2, <3>4, <2>6
      <4>2. back \in Seq(ReadOp) /\ Len(back) = q
        BY <4>1, <1>1, WordsBackFacts
      <4>3. CopyItem(s.slots, p, n) = SubSeq(back, 1, n)
        BY <3>4 DEF CopyItem
      <4> HIDE DEF back
      <4>4. \A k \in 1 .. Len(back) : back[k] \in ReadOp
        BY <4>2, ElementOfSeq
      <4>5. \A k \in 1 .. n : back[k] \in ReadOp
        BY <4>2, <4>4, <3>1, <3>2
      <4>6. 1 \in Int /\ n \in Int
        BY <3>1
      <4>7. SubSeq(back, 1, n) \in Seq(ReadOp)
        BY <4>5, <4>6, SubSeqProperties
      <4> QED BY <4>3, <4>7 DEF p, n
    <3> QED BY <3>3, <3>4
  <2>9. DOMAIN counters = 1 .. m
    BY <2>2, LenProperties
  <2>10. parts \in Seq(Seq(ReadOp))
    <3>1. parts \in [1 .. m -> Seq(ReadOp)]
      BY <2>8, <2>9
    <3> HIDE DEF parts
    <3> QED BY <3>1, <1>2, FunctionIsSequence
  <2> HIDE DEF parts
  <2>11. PICK o : AreOffsets(o, parts)
    BY <2>10, OffsetsExist
  <2> QED BY <2>10, <2>11, FlattenFacts
<1>6. ASSUME s.topLevel.count <= TopLevelMax, ~(SumSeq(counters) > OpsWritten(s)), t = ResetSource(u)
      PROVE  /\ Shape(t)
             /\ t.constants = s.constants /\ t.subParsers = s.subParsers
             /\ Fresh(t) /\ t.error = s.error /\ t.fsm = s.fsm \ {"activeSource"}
             /\ built \in BuiltSource /\ t.sources = Append(s.sources, built)
  <2>1. copied \in Seq(ReadOp)
    BY <1>5, <1>6
  <2> HIDE DEF copied
  <2>2. built \in BuiltSource
    <3>1. s.stackTracker \in TrackerType
      BY <1>1 DEF StateType
    <3> QED BY <2>1, <3>1 DEF BuiltSource, TrackerType
  <2> HIDE DEF built
  <2>3. s.sources \in Seq(BuiltSource) /\ s.fsm \in SUBSET Flags
    BY <1>1 DEF StateType
  <2>4. Append(s.sources, built) \in Seq(BuiltSource)
    BY <2>2, <2>3, AppendProperties
  <2> DEFINE sources == Append(s.sources, built)
             fsm == s.fsm \ {"activeSource"}
  <2>5. u = [s EXCEPT !.sources = sources, !.fsm = fsm]
    BY <1>1 DEF StateType
  <2>6. sources \in Seq(BuiltSource) /\ fsm \in SUBSET Flags
    BY <2>3, <2>4
  <2> HIDE DEF sources, fsm, u
  <2>7. /\ u \in StateType /\ u.sources = sources /\ u.fsm = fsm /\ u.error = s.error
        /\ u.constants = s.constants /\ u.subParsers = s.subParsers
    BY <1>1, <2>5, <2>6 DEF StateType
  <2>8. /\ t \in StateType /\ Fresh(t) /\ t.error = u.error /\ t.sources = u.sources
        /\ t.constants = u.constants /\ t.subParsers = u.subParsers /\ t.fsm = u.fsm
    BY <2>7, <1>6, ResetFacts
  <2>9. Shape(t)
    BY <2>8, FreshFacts
  <2> QED BY <2>2, <2>7, <2>8, <2>9 DEF sources, fsm
<1> HIDE DEF t, u, counters, copied, built
<1> QED BY <1>3, <1>4, <1>6 DEF t

-----------------------------------------------------------------------------
(* A state with a ledger. *)

(* The groups that are open, or about to be: a word is read before its paren. *)
Top(s) == IF "wordEnd" \in s.fsm THEN s.parens.depth + 1 ELSE s.parens.depth

(* An item is being read where a group is open, and nowhere else. *)
Sound(s) == \E H, F, G : Ledger(s, Top(s), H, F, G) /\ (Top(s) = 0 <=> Begun(s, H) = 0)

LEMMA SoundStays ==
  ASSUME NEW s, Sound(s), NEW t, Top(t) = Top(s),
         t.slots = s.slots, t.topLevel = s.topLevel, t.line = s.line,
         t.parens.groups = s.parens.groups, t.stackTracker.current = s.stackTracker.current
  PROVE  Sound(t)
<1>1. PICK H, F, G : Ledger(s, Top(s), H, F, G) /\ (Top(s) = 0 <=> Begun(s, H) = 0)
  BY DEF Sound
<1> DEFINE top == Top(s)
<1>2. Ledger(s, top, H, F, G)
  BY <1>1
<1> HIDE DEF top
<1>3. Ledger(t, top, H, F, G) /\ Begun(t, H) = Begun(s, H)
  BY <1>2, LedgerStays
<1> QED BY <1>1, <1>3 DEF Sound, top

LEMMA FreshIsSound ==
  ASSUME NEW t \in StateType, Fresh(t), "wordEnd" \notin t.fsm
  PROVE  Shape(t) /\ Sound(t) /\ Top(t) = 0 /\ t.line.lhs = 0
<1>1. /\ Shape(t) /\ t.line.lhs = 0 /\ t.parens.depth = 0
      /\ \E H, F, G : Ledger(t, 0, H, F, G) /\ Begun(t, H) = 0
  BY FreshFacts
<1>2. Top(t) = 0
  BY <1>1 DEF Top
<1> QED BY <1>1, <1>2 DEF Sound

(* Other flags than that of the end of a word make no difference. *)
LEMMA FlagsAreSound ==
  ASSUME NEW s, Shape(s), NEW fsm \in SUBSET Flags, "wordEnd" \in fsm <=> "wordEnd" \in s.fsm
  PROVE  LET t == [s EXCEPT !.fsm = fsm] IN
           /\ Shape(t) /\ KeepsBuilt(s, t) /\ t.fsm = fsm /\ t.error = s.error
           /\ t.line = s.line /\ t.parens = s.parens /\ Top(t) = Top(s)
           /\ Sound(s) => Sound(t)
<1> DEFINE t == [s EXCEPT !.fsm = fsm]
<1>1. /\ KeepsBuilt(s, t)
      /\ t.slots = s.slots /\ t.topLevel = s.topLevel /\ t.parens = s.parens
      /\ t.line = s.line /\ t.stackTracker = s.stackTracker /\ t.error = s.error
      /\ t.fsm = fsm /\ Shape(t)
  <2>1. s \in StateType
    BY DEF Shape
  <2> QED BY <2>1, FlagsStay
<1> HIDE DEF t
<1>2. Top(t) = Top(s)
  BY <1>1 DEF Top
<1>3. Sound(s) => Sound(t)
  BY <1>1, <1>2, SoundStays
<1> QED BY <1>1, <1>2, <1>3 DEF t

(* A word or an item has been read, inside the group at the depth. *)
LEMMA HighwaterIsSound ==
  ASSUME NEW s, Shape(s), "wordEnd" \notin s.fsm,
         NEW H, NEW F, NEW G, Ledger(s, s.parens.depth, H, F, G), Begun(s, H) # 0
  PROVE  LET t == Highwater(s) IN
           /\ Shape(t) /\ KeepsBuilt(s, t) /\ t.fsm = s.fsm
           /\ ~Failed(t) => Sound(t)
<1> DEFINE t == Highwater(s)
<1>1. /\ Shape(t) /\ KeepsBuilt(s, t) /\ t.fsm = s.fsm /\ t.parens = s.parens
  BY HighwaterFacts
<1>2. Top(t) = s.parens.depth /\ Top(s) = s.parens.depth
  BY <1>1 DEF Top
<1>3. ASSUME s.parens.depth = 0, ~Failed(t) PROVE Sound(t)
  <2>1. Ledger(s, 0, H, F, G)
    BY <1>3
  <2>2. \E H1 : Ledger(t, 0, H1, F, G) /\ Begun(t, H1) = 0
    BY <2>1, <1>3, HighwaterLedger
  <2>3. Top(t) = 0
    BY <1>2, <1>3
  <2> HIDE DEF t
  <2> QED BY <2>2, <2>3 DEF Sound
<1>4. ASSUME s.parens.depth # 0 PROVE Sound(t)
  <2>1. t = s
    BY <1>4 DEF Highwater
  <2>2. Top(s) # 0
    BY <1>2, <1>4
  <2>3. Ledger(s, Top(s), H, F, G)
    BY <1>2
  <2>4. Sound(s)
    BY <2>2, <2>3 DEF Sound
  <2> QED BY <2>1, <2>4
<1> QED BY <1>1, <1>3, <1>4

(* What follows an op: a paren or, behind a name or a literal, nothing. *)
LEMMA PushIsSound ==
  ASSUME NEW s, Shape(s), Sound(s), "wordEnd" \notin s.fsm,
         NEW code \in Codes \cup {"unknown"}, NEW arg \in Nat
  PROVE  LET t == PushOpToSource(s, code, arg)
             word == Set(t, {"wordEnd", "yang"})
         IN  /\ Shape(t) /\ KeepsBuilt(s, t)
             /\ Shape(word) /\ KeepsBuilt(s, word)
             /\ ~Failed(word) => Sound(word) /\ {"wordEnd", "yang"} \subseteq word.fsm
             /\ ~Failed(t) =>
                  /\ "wordEnd" \notin t.fsm
                  /\ \E H, F, G : Ledger(t, t.parens.depth, H, F, G) /\ Begun(t, H) # 0
<1> DEFINE t == PushOpToSource(s, code, arg)
           d == s.parens.depth
           word == Set(t, {"wordEnd", "yang"})
<1>1. /\ Shape(t) /\ KeepsBuilt(s, t) /\ t.parens.depth = d
      /\ ~Failed(t) => t.fsm = (s.fsm \ {"acceptingInputs"}) \cup {"activeSource"}
  BY PushOpFacts
<1>2. PICK H, F, G : Ledger(s, d, H, F, G) /\ (d = 0 <=> Begun(s, H) = 0)
  BY DEF Sound, Top
<1>3. Begun(s, H) \in Nat
  BY <1>2, LedgerNumbers DEF Ledger
<1>4. ASSUME ~Failed(t)
      PROVE  \E F1, G1, G2 : Ledger(t, d, H, F1, G1) /\ Ledger(t, d + 1, H, F1, G2)
                               /\ Begun(t, H) # 0
  <2>1. Ledger(s, s.parens.depth, H, F, G) /\ (s.parens.depth = 0 <=> Begun(s, H) = 0)
    BY <1>2
  <2> HIDE DEF d
  <2>2. \E F1, G1, G2 :
               /\ Ledger(t, s.parens.depth, H, F1, G1) /\ Ledger(t, s.parens.depth + 1, H, F1, G2)
               /\ LineItems(t) = LineItems(s) /\ Begun(t, H) = Begun(s, H) + 1
    BY <2>1, <1>4, PushOpLedger
  <2> HIDE DEF t
  <2> QED BY <2>2, <1>3 DEF d
<1> HIDE DEF t
<1>5. d \in Nat
  BY LimitsAssumption DEF Shape, StateType, ParensType
<1>6. /\ Shape(word) /\ KeepsBuilt(t, word)
      /\ word.slots = t.slots /\ word.topLevel = t.topLevel /\ word.parens = t.parens
      /\ word.line = t.line /\ word.stackTracker = t.stackTracker /\ word.error = t.error
      /\ word.fsm = t.fsm \cup {"wordEnd", "yang"}
  <2> DEFINE fsm == t.fsm \cup {"wordEnd", "yang"}
  <2>1. t \in StateType
    BY <1>1 DEF Shape
  <2>2. fsm \in SUBSET Flags
    BY <2>1 DEF StateType, Flags
  <2>3. word = [t EXCEPT !.fsm = fsm]
    BY DEF Set
  <2> HIDE DEF fsm, word
  <2> QED BY <2>1, <2>2, <2>3, <1>1, FlagsStay DEF fsm
<1> HIDE DEF word
<1>7. KeepsBuilt(s, word)
  BY <1>1, <1>6 DEF KeepsBuilt
<1>8. ASSUME ~Failed(word) PROVE Sound(word) /\ {"wordEnd", "yang"} \subseteq word.fsm
  <2>1. ~Failed(t)
    BY <1>6, <1>8 DEF Failed
  <2>2. PICK F1, G2 : Ledger(t, d + 1, H, F1, G2) /\ Begun(t, H) # 0
    BY <2>1, <1>4
  <2>3. Ledger(word, d + 1, H, F1, G2) /\ Begun(word, H) = Begun(t, H)
    <3>1. word.parens.groups = t.parens.groups /\ word.stackTracker.current = t.stackTracker.current
      BY <1>6
    <3> HIDE DEF d
    <3>2. Ledger(t, d + 1, H, F1, G2)
      BY <2>2
    <3> QED BY <3>1, <3>2, <1>6, LedgerStays
  <2>4. Top(word) = d + 1 /\ Top(word) # 0
    BY <1>1, <1>5, <1>6 DEF Top
  <2> QED BY <2>2, <2>3, <2>4, <1>6 DEF Sound
<1>9. ASSUME ~Failed(t)
      PROVE  /\ "wordEnd" \notin t.fsm
             /\ \E H1, F1, G1 : Ledger(t, t.parens.depth, H1, F1, G1) /\ Begun(t, H1) # 0
  <2>1. "wordEnd" \notin t.fsm
    BY <1>1, <1>9
  <2> QED BY <2>1, <1>1, <1>4, <1>9
<1> QED BY <1>1, <1>6, <1>7, <1>8, <1>9 DEF t, word

LEMMA CloseParenIsSound ==
  ASSUME NEW s, Shape(s), Sound(s), "wordEnd" \notin s.fsm, s.parens.depth # 0
  PROVE  LET t == Highwater(CloseParen(s)) IN
           Shape(t) /\ KeepsBuilt(s, t) /\ t.fsm = s.fsm /\ (~Failed(t) => Sound(t))
<1> DEFINE u == CloseParen(s)
           t == Highwater(u)
           d == s.parens.depth
<1>1. PICK H, F, G : Ledger(s, d, H, F, G) /\ Begun(s, H) # 0
  BY DEF Sound, Top
<1>2. /\ Shape(u) /\ KeepsBuilt(s, u) /\ u.fsm = s.fsm /\ u.parens.depth = d - 1
  BY CloseParenFacts
<1>3. PICK F1, G1 : Ledger(u, d - 1, H, F1, G1) /\ Begun(u, H) = Begun(s, H)
  BY <1>1, CloseParenLedger
<1> HIDE DEF u
<1>4. /\ Shape(t) /\ KeepsBuilt(u, t) /\ t.fsm = u.fsm
      /\ ~Failed(t) => Sound(t)
  <2>1. Ledger(u, u.parens.depth, H, F1, G1) /\ Begun(u, H) # 0 /\ "wordEnd" \notin u.fsm
    BY <1>1, <1>2, <1>3
  <2> QED BY <2>1, <1>2, HighwaterIsSound
<1>5. KeepsBuilt(s, t)
  BY <1>2, <1>4 DEF KeepsBuilt
<1> QED BY <1>2, <1>4, <1>5 DEF u

LEMMA OpenParenIsSound ==
  ASSUME NEW s, Shape(s), Sound(s), "wordEnd" \in s.fsm
  PROVE  LET t == OpenParen(s) IN
           /\ Shape(t) /\ KeepsBuilt(s, t)
           /\ ~Failed(t) => Sound(t) /\ "wordEnd" \notin t.fsm
<1> DEFINE t == OpenParen(s)
<1>1. /\ Shape(t) /\ KeepsBuilt(s, t)
      /\ t.slots = s.slots /\ t.topLevel = s.topLevel /\ t.line = s.line
      /\ t.stackTracker = s.stackTracker /\ t.parens.groups = s.parens.groups
      /\ ~Failed(t) =>
           t.parens.depth = s.parens.depth + 1 /\ t.fsm = s.fsm \ {"wordEnd", "yang"}
  BY OpenParenFacts
<1> HIDE DEF t
<1>2. ASSUME ~Failed(t) PROVE Sound(t) /\ "wordEnd" \notin t.fsm
  <2>1. "wordEnd" \notin t.fsm
    BY <1>1, <1>2
  <2>2. Top(t) = Top(s)
    BY <2>1, <1>1, <1>2 DEF Top
  <2> QED BY <2>1, <2>2, <1>1, SoundStays
<1> QED BY <1>1, <1>2 DEF t

-----------------------------------------------------------------------------
(* The parser's invariant. *)

(* Between two lines nothing is left open, and nothing of the line is counted. *)
Good(s, next) ==
  /\ Sound(s)
  /\ "wordEnd" \in s.fsm => "yang" \in s.fsm
  /\ Top(s) > 0 => next = "rhs"
  /\ next \in Between => s.line.lhs = 0

ParserInv ==
  /\ text \in Texts
  /\ cursor \in 1 .. (Len(text) + 1)
  /\ phase \in Phases
  /\ Failed(state) <=> phase = "reverted"
  /\ Shape(state)
  /\ phase \in Reading => Good(state, phase)

(* What is built of s stays in t. *)
Builds(s, t) ==
  /\ IsPrefix(s.constants, t.constants)
  /\ \A k \in DOMAIN s.sources : \A j \in DOMAIN s.sources[k].ops :
       s.sources[k].ops[j].code # "unknown" => t.sources[k].ops[j] = s.sources[k].ops[j]

LEMMA PrefixOfItself == \A seq : IsPrefix(seq, seq)
  BY DEF IsPrefix

LEMMA KeptIsBuilt == ASSUME NEW s, NEW t, KeepsBuilt(s, t) PROVE Builds(s, t)
  BY PrefixOfItself DEF KeepsBuilt, Builds

LEMMA GoOnKeeps ==
  ASSUME ParserInv, NEW s, Shape(s), NEW next \in Phases \ {"reverted"}, NEW n \in Nat,
         n = 0 \/ cursor + n <= Len(text) + 1,
         ~Failed(s) /\ next \in Reading => Good(s, next),
         GoOn(s, next, n)
  PROVE  ParserInv' /\ (Builds(state, s) => Builds(state, state'))
<1>1. state' = s /\ text' = text
  BY DEF GoOn
<1>2. text \in Texts /\ Len(text) \in Nat /\ cursor \in 1 .. (Len(text) + 1)
  BY TextsAssumption DEF ParserInv
<1>3. CASE Failed(s)
  <2>1. phase' = "reverted" /\ cursor' = cursor
    BY <1>3 DEF GoOn
  <2> QED BY <2>1, <1>1, <1>2, <1>3 DEF ParserInv, Phases, Reading, Between
<1>4. CASE ~Failed(s)
  <2>1. phase' = next /\ cursor' = cursor + n
    BY <1>4 DEF GoOn
  <2>2. cursor' \in 1 .. (Len(text) + 1)
    BY <2>1, <1>2
  <2> QED BY <2>1, <2>2, <1>1, <1>2, <1>4 DEF ParserInv
<1> QED BY <1>3, <1>4

(* What holds of the token that a step is about. *)
LEMMA TokenFacts ==
  ASSUME ParserInv
  PROVE  /\ Shape(state) /\ state \in StateType /\ phase \in Phases
         /\ text \in Texts /\ Len(text) \in Nat /\ cursor \in Nat
         /\ cursor <= Len(text) => /\ cursor + 1 <= Len(text) + 1
                                   /\ text[cursor].name \in TextNames
                                   /\ text[cursor].kind = "lit" => text[cursor].value \in Value
         /\ phase \in Reading => Good(state, phase) /\ ~Failed(state)
<1>1. text \in Texts /\ Len(text) \in Nat /\ cursor \in 1 .. (Len(text) + 1)
  BY TextsAssumption DEF ParserInv
<1>2. cursor <= Len(text) => cursor \in 1 .. Len(text)
  BY <1>1
<1>3. cursor <= Len(text) => text[cursor].name \in TextNames
  BY <1>1, <1>2 DEF TextNames
<1>4. cursor <= Len(text) => (text[cursor].kind = "lit" => text[cursor].value \in Value)
  BY <1>1, <1>2, TextsAssumption
<1> QED BY <1>1, <1>3, <1>4 DEF ParserInv, Shape, Reading, Between

(* A step to a revert. *)
LEMMA RevertsKeep ==
  ASSUME ParserInv, NEW e \in Errors, NEW next \in Phases \ {"reverted"}, NEW n \in Nat,
         n = 0 \/ cursor + n <= Len(text) + 1,
         GoOn(Revert(state, e), next, n)
  PROVE  ParserInv' /\ Builds(state, state')
<1> DEFINE s == Revert(state, e)
<1>1. s \in StateType /\ KeepsAll(state, s) /\ Failed(s)
  BY TokenFacts, RevertKeeps
<1> HIDE DEF s
<1>2. Shape(s)
  BY <1>1, TokenFacts DEF Shape, KeepsAll
<1>3. Builds(state, s)
  BY <1>1, KeptIsBuilt DEF KeepsAll
<1>4. GoOn(s, next, n)
  BY DEF s
<1> QED BY <1>1, <1>2, <1>3, <1>4, GoOnKeeps

(* A step that changes only flags. *)
LEMMA FlagsKeep ==
  ASSUME ParserInv, phase \in Reading, NEW fsm \in SUBSET Flags,
         "wordEnd" \in fsm <=> "wordEnd" \in state.fsm,
         "wordEnd" \in fsm => "yang" \in fsm,
         NEW next \in Reading, Top(state) > 0 => next = "rhs",
         next \in Between => state.line.lhs = 0,
         NEW n \in Nat, n = 0 \/ cursor + n <= Len(text) + 1,
         GoOn([state EXCEPT !.fsm = fsm], next, n)
  PROVE  ParserInv' /\ Builds(state, state')
<1> DEFINE s == [state EXCEPT !.fsm = fsm]
<1>1. Shape(state) /\ Good(state, phase)
  BY TokenFacts
<1>2. /\ Shape(s) /\ KeepsBuilt(state, s) /\ s.fsm = fsm /\ s.line = state.line
      /\ Top(s) = Top(state) /\ (Sound(state) => Sound(s))
  BY <1>1, FlagsAreSound
<1> HIDE DEF s
<1>3. Good(s, next)
  BY <1>1, <1>2 DEF Good
<1>4. GoOn(s, next, n) /\ next \in Phases \ {"reverted"}
  BY DEF s, Phases, Reading, Between
<1>5. ParserInv' /\ (Builds(state, s) => Builds(state, state'))
  BY <1>2, <1>3, <1>4, GoOnKeeps
<1> QED BY <1>2, <1>5, KeptIsBuilt

(* Outside of the RHS nothing is open. *)
LEMMA LeftFacts ==
  ASSUME ParserInv, phase \in Between \cup {"lhs"}
  PROVE  Top(state) = 0 /\ "wordEnd" \notin state.fsm /\ state.fsm \in SUBSET Flags
         /\ phase \in Reading /\ Sound(state) /\ (phase \in Between => state.line.lhs = 0)
<1>1. phase \in Reading /\ phase # "rhs"
  BY DEF Between, Reading
<1>2. Good(state, phase) /\ state \in StateType
  BY <1>1, TokenFacts
<1>3. state.fsm \in SUBSET Flags /\ state.parens.depth \in 0 .. ParensMax
  BY <1>2 DEF StateType, ParensType
<1>4. Top(state) \in Nat /\ ("wordEnd" \in state.fsm => Top(state) > 0)
  BY <1>3, LimitsAssumption DEF Top
<1>5. ~(Top(state) > 0)
  BY <1>1, <1>2 DEF Good
<1> QED BY <1>1, <1>2, <1>3, <1>4, <1>5 DEF Good

(* On the RHS a paren follows a word. *)
LEMMA RightFacts ==
  ASSUME ParserInv, phase = "rhs"
  PROVE  /\ Shape(state) /\ Sound(state) /\ phase \in Reading /\ state.fsm \in SUBSET Flags
         /\ "wordEnd" \in state.fsm => "yang" \in state.fsm
  BY TokenFacts DEF Good, Reading, StateType

LEMMA SkipWhitespaceKeeps ==
  ASSUME ParserInv, SkipWhitespace PROVE ParserInv' /\ Builds(state, state')
<1>1. phase \in Between \cup {"lhs"} /\ cursor <= Len(text)
  BY DEF SkipWhitespace, AtToken
<1>2. GoOn([state EXCEPT !.fsm = state.fsm \ {"yang"}], phase, 1)
  BY DEF SkipWhitespace, Clear
<1> QED BY <1>1, <1>2, LeftFacts, TokenFacts, FlagsKeep

LEMMA SkipCommentKeeps ==
  ASSUME ParserInv, SkipComment PROVE ParserInv' /\ Builds(state, state')
<1>1. phase \in Between \cup {"lhs"} /\ cursor <= Len(text)
  BY DEF SkipComment, AtToken
<1>2. GoOn([state EXCEPT !.fsm = state.fsm \cup {"yang"}], phase, 1)
  BY DEF SkipComment, Set
<1>3. "yang" \in Flags
  BY DEF Flags
<1> QED BY <1>1, <1>2, <1>3, LeftFacts, TokenFacts, FlagsKeep

LEMMA ReadKeywordKeeps ==
  ASSUME ParserInv, ReadKeyword PROVE ParserInv' /\ Builds(state, state')
<1>1. phase \in Between \cup {"lhs"} /\ cursor <= Len(text)
  BY DEF ReadKeyword, AtToken, Between
<1>2. CASE cursor < Len(text) /\ \E s \in {state, Clear(state, {"yang"})} : GoOn(s, "pragma", 2)
  <2>1. state = [state EXCEPT !.fsm = state.fsm]
    BY TokenFacts DEF StateType
  <2>2. PICK fsm \in {state.fsm, state.fsm \ {"yang"}} : GoOn([state EXCEPT !.fsm = fsm], "pragma", 2)
    BY <1>2, <2>1 DEF Clear
  <2>3. "pragma" \in Reading /\ cursor + 2 <= Len(text) + 1 /\ state.line.lhs = 0
    <3>1. phase \in Between
      BY DEF ReadKeyword, AtToken, Between
    <3> QED BY <3>1, <1>1, <1>2, LeftFacts, TokenFacts DEF Reading, Between
  <2> QED BY <2>2, <2>3, <1>1, LeftFacts, TokenFacts, FlagsKeep
<1>3. CASE GoOn(Revert(state, "NoWhitespaceAfterUsingWordsFrom"), phase, 0)
  <2>1. phase \in Phases \ {"reverted"} /\ "NoWhitespaceAfterUsingWordsFrom" \in Errors
    BY <1>1 DEF Phases, Reading, Between, Errors
  <2> QED BY <2>1, <1>3, RevertsKeep
<1> QED BY <1>2, <1>3 DEF ReadKeyword

LEMMA ReadDelimiterKeeps ==
  ASSUME ParserInv, ReadDelimiter PROVE ParserInv' /\ Builds(state, state')
<1>1. phase \in Between \cup {"lhs"} /\ cursor <= Len(text)
  BY DEF ReadDelimiter, AtToken
<1>2. GoOn([state EXCEPT !.fsm = (state.fsm \ {"yang"}) \cup {"activeSource"}], "rhs", 1)
  <2>1. Set(Clear(state, {"yang"}), {"activeSource"})
          = [state EXCEPT !.fsm = (state.fsm \ {"yang"}) \cup {"activeSource"}]
    BY TokenFacts DEF Set, Clear, StateType
  <2> QED BY <2>1 DEF ReadDelimiter
<1>3. "activeSource" \in Flags /\ "rhs" \in Reading /\ "rhs" \notin Between
  BY DEF Flags, Reading, Between
<1> QED BY <1>1, <1>2, <1>3, LeftFacts, TokenFacts, FlagsKeep

LEMMA RevertLHSKeeps ==
  ASSUME ParserInv, RevertLHS PROVE ParserInv' /\ Builds(state, state')
<1>1. phase \in Between \cup {"lhs"}
  BY DEF RevertLHS, AtToken, Between
<1>2. phase \in Phases \ {"reverted"} /\ {"UnexpectedComment", "UnexpectedLHSChar"} \subseteq Errors
  BY <1>1 DEF Phases, Reading, Between, Errors
<1>3. \/ GoOn(Revert(state, "UnexpectedComment"), phase, 0)
      \/ GoOn(Revert(state, "UnexpectedLHSChar"), phase, 0)
  BY DEF RevertLHS
<1> QED BY <1>2, <1>3, RevertsKeep

LEMMA SkipWhitespaceRHSKeeps ==
  ASSUME ParserInv, SkipWhitespaceRHS PROVE ParserInv' /\ Builds(state, state')
<1>1. phase = "rhs" /\ cursor <= Len(text) /\ "wordEnd" \notin state.fsm
  BY DEF SkipWhitespaceRHS, AtToken, WordEnd
<1>2. GoOn([state EXCEPT !.fsm = state.fsm \ {"yang"}], "rhs", 1)
  BY <1>1 DEF SkipWhitespaceRHS, Clear
<1>3. "rhs" \in Reading /\ "rhs" \notin Between
  BY DEF Reading, Between
<1> QED BY <1>1, <1>2, <1>3, RightFacts, TokenFacts, FlagsKeep

LEMMA RevertRHSKeeps ==
  ASSUME ParserInv, RevertRHS PROVE ParserInv' /\ Builds(state, state')
<1>1. phase = "rhs"
  BY DEF RevertRHS, AtToken
<1>2. phase \in Phases \ {"reverted"} /\ {"UnexpectedComment", "UnexpectedRHSChar"} \subseteq Errors
  BY <1>1 DEF Phases, Reading, Between, Errors
<1>3. \/ GoOn(Revert(state, "UnexpectedComment"), phase, 0)
      \/ GoOn(Revert(state, "UnexpectedRHSChar"), phase, 0)
  BY DEF RevertRHS
<1> QED BY <1>2, <1>3, RevertsKeep

-----------------------------------------------------------------------------
(* The items of the LHS. *)

LEMMA LHSItemFacts ==
  ASSUME NEW s, Shape(s), Sound(s), Top(s) = 0
  PROVE  LET t == CountLHSItem(s) IN
           /\ Shape(t) /\ Builds(s, t)
           /\ ~Failed(t) => Sound(t) /\ Top(t) = 0 /\ "wordEnd" \notin t.fsm
<1> DEFINE e == "LHSItemCountOverflow"
<1>0. /\ s \in StateType /\ s.topLevel.lhs \in Byte /\ s.line.lhs \in Byte /\ ByteMax \in Nat
      /\ s.fsm \in SUBSET Flags /\ "wordEnd" \notin s.fsm /\ s.parens.depth \in Nat
  <2>1. s \in StateType
    BY DEF Shape
  <2>2. s.topLevel \in TopLevelType /\ s.line \in LineType /\ s.parens \in ParensType
        /\ s.fsm \in SUBSET Flags
    BY <2>1 DEF StateType
  <2>3. s.parens.depth \in Nat
    BY <2>2, LimitsAssumption DEF ParensType
  <2>4. "wordEnd" \notin s.fsm
    BY <2>3 DEF Top
  <2> QED BY <2>1, <2>2, <2>3, <2>4, LimitsAssumption DEF TopLevelType, LineType
<1>1. CASE s.topLevel.lhs = ByteMax \/ s.line.lhs = ByteMax
  <2> DEFINE t == Revert(s, e)
  <2>1. CountLHSItem(s) = t
    BY <1>1 DEF CountLHSItem
  <2>2. e \in Errors
    BY DEF Errors
  <2>3. t \in StateType /\ KeepsAll(s, t) /\ Failed(t)
    BY <1>0, <2>2, RevertKeeps
  <2> HIDE DEF t
  <2>4. Shape(t) /\ Builds(s, t)
    BY <2>3, KeptIsBuilt DEF Shape, KeepsAll
  <2> QED BY <2>1, <2>3, <2>4
<1>2. CASE ~(s.topLevel.lhs = ByteMax \/ s.line.lhs = ByteMax)
  <2> DEFINE a == s.topLevel.lhs + 1
             b == s.line.lhs + 1
             fsm == s.fsm \cup {"yang", "activeSource"}
             t == [s EXCEPT !.topLevel = [s.topLevel EXCEPT !.lhs = a],
                            !.line = [s.line EXCEPT !.lhs = b], !.fsm = fsm]
  <2>1. CountLHSItem(s) = t
    BY <1>0, <1>2 DEF CountLHSItem, Set, StateType
  <2>2. a \in Byte /\ b \in Byte /\ fsm \in SUBSET Flags
    BY <1>0, <1>2 DEF Byte, Flags
  <2> HIDE DEF a, b, fsm
  <2>3. s.topLevel \in TopLevelType /\ s.line \in LineType
    BY <1>0 DEF StateType
  <2>4. /\ [s.topLevel EXCEPT !.lhs = a] \in TopLevelType
        /\ [s.line EXCEPT !.lhs = b] \in LineType
    BY <2>2, <2>3 DEF TopLevelType, LineType
  <2>5. t \in StateType
    BY <1>0, <2>2, <2>4 DEF StateType
  <2>6. /\ t.slots = s.slots /\ t.parens = s.parens /\ t.stackTracker = s.stackTracker
        /\ t.fsm = fsm /\ t.sources = s.sources /\ t.constants = s.constants
        /\ t.topLevel = [s.topLevel EXCEPT !.lhs = a] /\ t.line = [s.line EXCEPT !.lhs = b]
    BY <1>0 DEF StateType
  <2>7. /\ t.topLevel.lhs = a /\ t.topLevel.count = s.topLevel.count
        /\ t.topLevel.words = s.topLevel.words
        /\ t.line.lhs = b /\ t.line.start = s.line.start /\ t.line.heads = s.line.heads
    BY <2>3, <2>6 DEF TopLevelType, LineType
  <2> HIDE DEF t
  <2>8. Shape(t)
    BY <2>5, <2>6, <2>7 DEF Shape
  <2>9. Builds(s, t)
    BY <2>6, PrefixOfItself DEF Builds
  <2>10. "wordEnd" \notin t.fsm /\ Top(t) = 0
    BY <1>0, <2>6 DEF Top, fsm
  <2>11. Sound(t)
    <3>1. PICK H, F, G : Ledger(s, 0, H, F, G) /\ Begun(s, H) = 0
      BY DEF Sound
    <3>2. LineItems(t) = LineItems(s)
      BY <2>7 DEF LineItems
    <3>3. Begun(t, H) = Begun(s, H)
      BY <2>6, <3>2 DEF Begun
    <3>4. ItemsLedger(t, H)
      BY <2>6, <2>7, <3>1, <3>2 DEF Ledger, ItemsLedger
    <3>5. HeightLedger(t, H)
      <4>1. s.stackTracker.current \in Int /\ Begun(s, H) \in Int
        BY <3>1, <1>0 DEF StateType, TrackerType, Byte
      <4>2. HeightLedger(s, H)
        BY <3>1 DEF Ledger
      <4>3. /\ t.topLevel.lhs = s.topLevel.lhs + 1 /\ t.line.lhs = s.line.lhs + 1
            /\ s.topLevel.lhs \in Int /\ s.line.lhs \in Int
        BY <1>0, <2>7 DEF a, b, Byte
      <4> QED BY <4>1, <4>2, <4>3, <2>6, <2>7, <3>1, <3>3 DEF HeightLedger
    <3>6. InputsLedger(t, F)
      BY <2>6, <3>1 DEF Ledger, InputsLedger
    <3>7. GroupsLedger(t, 0, H, G)
      BY <2>6, <3>1, <3>2 DEF Ledger, GroupsLedger
    <3>8. Balance(t, 0, H, F, G)
      BY <2>6, <3>1, <3>2, <3>3 DEF Ledger, Balance
    <3> QED BY <3>1, <3>3, <3>4, <3>5, <3>6, <3>7, <3>8, <2>10 DEF Ledger, Sound
  <2> QED BY <2>1, <2>8, <2>9, <2>10, <2>11
<1> QED BY <1>1, <1>2

LEMMA RememberFacts ==
  ASSUME NEW s, Shape(s), Sound(s), Top(s) = 0, NEW name \in TextNames
  PROVE  LET t == RememberName(s, name) IN
           Shape(t) /\ Sound(t) /\ Top(t) = 0 /\ Builds(s, t) /\ t.error = s.error
<1> DEFINE entry == [name |-> name, index |-> s.topLevel.lhs]
           names == Append(s.stackNames, entry)
           bloom == s.stackNameBloom \cup {NameBloom(name)}
           t == [s EXCEPT !.stackNames = names, !.stackNameBloom = bloom]
<1>1. s \in StateType
  BY DEF Shape
<1>2. RememberName(s, name) = t
  BY DEF RememberName
<1>3. names \in Seq([name : TextNames, index : Nat])
  <2>1. entry \in [name : TextNames, index : Nat]
    BY <1>1, LimitsAssumption DEF StateType, TopLevelType, Byte
  <2> HIDE DEF entry
  <2>2. s.stackNames \in Seq([name : TextNames, index : Nat])
    BY <1>1 DEF StateType
  <2> QED BY <2>1, <2>2, AppendProperties
<1>4. bloom \in SUBSET Bits
  BY <1>1 DEF StateType, Bits
<1> HIDE DEF names, bloom
<1>5. /\ t \in StateType
      /\ t.slots = s.slots /\ t.topLevel = s.topLevel /\ t.line = s.line
      /\ t.parens = s.parens /\ t.stackTracker = s.stackTracker /\ t.fsm = s.fsm
      /\ t.sources = s.sources /\ t.constants = s.constants /\ t.error = s.error
  BY <1>1, <1>3, <1>4 DEF StateType
<1> HIDE DEF t
<1>6. Shape(t)
  BY <1>5 DEF Shape
<1>7. Builds(s, t)
  BY <1>5, PrefixOfItself DEF Builds
<1>8. Top(t) = Top(s)
  BY <1>5 DEF Top
<1>9. Sound(t)
  BY <1>5, <1>8, SoundStays
<1> QED BY <1>2, <1>5, <1>6, <1>7, <1>8, <1>9

LEMMA BuildsOn ==
  ASSUME NEW s \in StateType, NEW t \in StateType, NEW u \in StateType,
         Builds(s, t), Builds(t, u), t.sources = s.sources
  PROVE  Builds(s, u)
<1>1. IsPrefix(s.constants, u.constants)
  <2> DEFINE a == s.constants
             b == t.constants
             c == u.constants
  <2>1. a \in Seq(Value) /\ b \in Seq(Value) /\ c \in Seq(Value)
    BY DEF StateType
  <2>2. IsPrefix(a, b) /\ IsPrefix(b, c)
    BY DEF Builds
  <2> HIDE DEF a, b, c
  <2>3. Len(a) \in Nat /\ Len(b) \in Nat /\ Len(c) \in Nat /\ Len(a) <= Len(b) /\ Len(b) <= Len(c)
    BY <2>1, <2>2, LenProperties DEF IsPrefix
  <2>4. SubSeq(a, 1, Len(a)) = SubSeq(b, 1, Len(a)) /\ SubSeq(b, 1, Len(b)) = SubSeq(c, 1, Len(b))
    BY <2>2 DEF IsPrefix
  <2>5. \A i \in 1 .. Len(b) : b[i] = c[i]
    BY <2>1, <2>3, <2>4
  <2>6. SubSeq(b, 1, Len(a)) = SubSeq(c, 1, Len(a))
    BY <2>1, <2>3, <2>5
  <2>7. IsPrefix(a, c)
    BY <2>3, <2>4, <2>6 DEF IsPrefix
  <2> QED BY <2>7 DEF a, c
<1> QED BY <1>1 DEF Builds

LEMMA ReadAnonymousKeeps ==
  ASSUME ParserInv, ReadAnonymous PROVE ParserInv' /\ Builds(state, state')
<1>1. phase \in Between \cup {"lhs"} /\ cursor <= Len(text)
  BY DEF ReadAnonymous, AtToken
<1>2. CASE GoOn(Revert(state, "UnexpectedLHSChar"), "lhs", 1)
  <2>1. "lhs" \in Phases \ {"reverted"} /\ "UnexpectedLHSChar" \in Errors
    BY DEF Phases, Reading, Between, Errors
  <2>2. cursor + 1 <= Len(text) + 1
    BY <1>1, TokenFacts
  <2> QED BY <2>1, <2>2, <1>2, RevertsKeep
<1>3. CASE GoOn(CountLHSItem(state), "lhs", 1)
  <2> DEFINE s == CountLHSItem(state)
  <2>1. /\ Shape(s) /\ Builds(state, s)
        /\ ~Failed(s) => Sound(s) /\ Top(s) = 0 /\ "wordEnd" \notin s.fsm
    BY <1>1, LeftFacts, TokenFacts, LHSItemFacts
  <2> HIDE DEF s
  <2>2. ~Failed(s) => Good(s, "lhs")
    BY <2>1 DEF Good, Between
  <2>3. "lhs" \in Phases \ {"reverted"} /\ cursor + 1 <= Len(text) + 1
    BY <1>1, TokenFacts DEF Phases, Reading, Between
  <2>4. GoOn(s, "lhs", 1)
    BY <1>3 DEF s
  <2> QED BY <2>1, <2>2, <2>3, <2>4, GoOnKeeps
<1> QED BY <1>2, <1>3 DEF ReadAnonymous

LEMMA ReadNameKeeps ==
  ASSUME ParserInv, ReadName PROVE ParserInv' /\ Builds(state, state')
<1> DEFINE name == text[cursor].name
           known == RememberName(state, name)
           s == CountLHSItem(known)
<1>1. phase \in Between \cup {"lhs"} /\ cursor <= Len(text)
  BY DEF ReadName, AtToken
<1>2. "lhs" \in Phases \ {"reverted"} /\ cursor + 1 <= Len(text) + 1
  BY <1>1, TokenFacts DEF Phases, Reading, Between
<1>3. \/ GoOn(Revert(state, "UnexpectedLHSChar"), "lhs", 1)
      \/ GoOn(Revert(state, "DuplicateLHSItem"), "lhs", 1)
      \/ GoOn(s, "lhs", 1)
  BY DEF ReadName
<1>4. CASE GoOn(Revert(state, "UnexpectedLHSChar"), "lhs", 1)
  <2>1. "UnexpectedLHSChar" \in Errors
    BY DEF Errors
  <2> QED BY <2>1, <1>2, <1>4, RevertsKeep
<1>5. CASE GoOn(Revert(state, "DuplicateLHSItem"), "lhs", 1)
  <2>1. "DuplicateLHSItem" \in Errors
    BY DEF Errors
  <2> QED BY <2>1, <1>2, <1>5, RevertsKeep
<1>6. CASE GoOn(s, "lhs", 1)
  <2>1. Shape(known) /\ Sound(known) /\ Top(known) = 0 /\ Builds(state, known)
        /\ known.sources = state.sources
    <3>1. name \in TextNames
      BY <1>1, TokenFacts
    <3>2. known.sources = state.sources
      BY TokenFacts DEF RememberName, StateType
    <3> QED BY <3>1, <3>2, <1>1, LeftFacts, TokenFacts, RememberFacts
  <2> HIDE DEF known
  <2>2. /\ Shape(s) /\ Builds(known, s)
        /\ ~Failed(s) => Sound(s) /\ Top(s) = 0 /\ "wordEnd" \notin s.fsm
    BY <2>1, LHSItemFacts
  <2> HIDE DEF s
  <2>3. Builds(state, s)
    BY <2>1, <2>2, TokenFacts, BuildsOn DEF Shape
  <2>4. ~Failed(s) => Good(s, "lhs")
    BY <2>2 DEF Good, Between
  <2> QED BY <2>2, <2>3, <2>4, <1>2, <1>6, GoOnKeeps
<1> QED BY <1>3, <1>4, <1>5, <1>6

-----------------------------------------------------------------------------
(* The words, names and literals of the RHS. *)

(* What has been pushed is counted as an item, if it is one. *)
LEMMA ItemIsSound ==
  ASSUME NEW s, Shape(s),
         ~Failed(s) =>
           /\ "wordEnd" \notin s.fsm
           /\ \E H, F, G : Ledger(s, s.parens.depth, H, F, G) /\ Begun(s, H) # 0
  PROVE  LET t == Unless(s, Set(Highwater(s), {"yang"})) IN
           Shape(t) /\ Builds(s, t) /\ (~Failed(t) => Good(t, "rhs"))
<1> DEFINE u == Highwater(s)
           t == Unless(s, Set(u, {"yang"}))
<1>1. CASE Failed(s)
  <2>1. t = s
    BY <1>1 DEF Unless
  <2>2. KeepsBuilt(s, s)
    BY DEF KeepsBuilt
  <2>3. Builds(s, s)
    BY <2>2, KeptIsBuilt
  <2> QED BY <1>1, <2>1, <2>3
<1>2. CASE ~Failed(s)
  <2>1. PICK H, F, G : Ledger(s, s.parens.depth, H, F, G) /\ Begun(s, H) # 0
    BY <1>2
  <2>2. Shape(u) /\ KeepsBuilt(s, u) /\ u.fsm = s.fsm /\ (~Failed(u) => Sound(u))
    BY <1>2, <2>1, HighwaterIsSound
  <2> DEFINE fsm == u.fsm \cup {"yang"}
             v == [u EXCEPT !.fsm = fsm]
  <2>3. t = v
    BY <1>2 DEF Unless, Set
  <2> HIDE DEF u
  <2>4. fsm \in SUBSET Flags /\ ("wordEnd" \in fsm <=> "wordEnd" \in u.fsm) /\ "wordEnd" \notin fsm
    BY <1>2, <2>2 DEF Shape, StateType, Flags
  <2> HIDE DEF fsm
  <2>5. /\ Shape(v) /\ KeepsBuilt(u, v) /\ v.fsm = fsm /\ v.error = u.error
        /\ Sound(u) => Sound(v)
    BY <2>2, <2>4, FlagsAreSound
  <2> HIDE DEF v
  <2>6. Builds(s, v)
    <3>1. KeepsBuilt(s, v)
      BY <2>2, <2>5 DEF KeepsBuilt
    <3> QED BY <3>1, KeptIsBuilt
  <2>7. ~Failed(v) => Good(v, "rhs")
    BY <2>2, <2>4, <2>5 DEF Good, Failed, Between
  <2> QED BY <2>3, <2>5, <2>6, <2>7 DEF u
<1> QED BY <1>1, <1>2

LEMMA LookedUpFacts ==
  ASSUME NEW s, Shape(s), Sound(s), NEW name \in TextNames
  PROVE  LET t == LookedUp(s, name) IN
           Shape(t) /\ Sound(t) /\ KeepsBuilt(s, t) /\ t.fsm = s.fsm /\ t.error = s.error
<1> DEFINE bloom == s.stackNameBloom \cup {NameBloom(name)}
           t == [s EXCEPT !.stackNameBloom = bloom]
<1>1. s \in StateType
  BY DEF Shape
<1>2. LookedUp(s, name) = t
  BY DEF LookedUp
<1>3. bloom \in SUBSET Bits
  BY <1>1 DEF StateType, Bits
<1> HIDE DEF bloom
<1>4. /\ t \in StateType
      /\ t.slots = s.slots /\ t.topLevel = s.topLevel /\ t.line = s.line
      /\ t.parens = s.parens /\ t.stackTracker = s.stackTracker /\ t.fsm = s.fsm
      /\ t.error = s.error /\ KeepsBuilt(s, t)
  BY <1>1, <1>3 DEF StateType, KeepsBuilt
<1> HIDE DEF t
<1>5. Shape(t)
  BY <1>4 DEF Shape
<1>6. Top(t) = Top(s)
  BY <1>4 DEF Top
<1>7. Sound(t)
  BY <1>4, <1>6, SoundStays
<1> QED BY <1>2, <1>4, <1>5, <1>7

LEMMA WordKeeps ==
  ASSUME ParserInv, phase = "rhs", cursor <= Len(text), "wordEnd" \notin state.fsm,
         NEW s, Shape(s), Sound(s), KeepsBuilt(state, s), s.fsm = state.fsm,
         NEW code \in Codes \cup {"unknown"}, NEW arg \in Nat,
         GoOn(Set(PushOpToSource(s, code, arg), {"wordEnd", "yang"}), phase, 1)
  PROVE  ParserInv' /\ Builds(state, state')
<1> DEFINE t == Set(PushOpToSource(s, code, arg), {"wordEnd", "yang"})
<1>1. /\ Shape(t) /\ KeepsBuilt(s, t)
      /\ ~Failed(t) => Sound(t) /\ {"wordEnd", "yang"} \subseteq t.fsm
  BY PushIsSound
<1>2. GoOn(t, "rhs", 1)
  OBVIOUS
<1> HIDE DEF t
<1>3. Builds(state, t)
  <2>1. KeepsBuilt(state, t)
    BY <1>1 DEF KeepsBuilt
  <2> QED BY <2>1, KeptIsBuilt
<1>4. ~Failed(t) => Good(t, "rhs")
  BY <1>1 DEF Good, Between
<1>5. "rhs" \in Phases \ {"reverted"} /\ cursor + 1 <= Len(text) + 1
  BY TokenFacts DEF Phases, Reading
<1> QED BY <1>1, <1>2, <1>3, <1>4, <1>5, GoOnKeeps

(* The latest entry of a name is one of the names. *)
LEMMA EntryFacts ==
  ASSUME NEW s \in StateType, NEW name, NameEntries(s, name) # {}
  PROVE  s.stackNames[Max(NameEntries(s, name))].index \in Nat
<1> DEFINE E == NameEntries(s, name)
           names == s.stackNames
<1>1. names \in Seq([name : TextNames, index : Nat])
  BY DEF StateType
<1>2. E \subseteq DOMAIN names
  BY DEF NameEntries
<1> HIDE DEF E, names
<1>3. Len(names) \in Nat /\ DOMAIN names = 1 .. Len(names)
  BY <1>1, LenProperties
<1>4. PICK m \in E : \A k \in E : m >= k
  BY <1>2, <1>3, GreatestNumber DEF E
<1>5. Max(E) \in E
  BY <1>4 DEF Max
<1>6. Max(E) \in 1 .. Len(names)
  BY <1>2, <1>3, <1>5
<1>7. names[Max(E)] \in [name : TextNames, index : Nat]
  BY <1>1, <1>6, ElementOfSeq
<1> QED BY <1>7 DEF E, names

LEMMA ReadWordKeeps ==
  ASSUME ParserInv, ReadWord PROVE ParserInv' /\ Builds(state, state')
<1> DEFINE name == text[cursor].name
<1>1. phase = "rhs" /\ cursor <= Len(text)
  BY DEF ReadWord, AtToken
<1>2. /\ name \in TextNames /\ Shape(state) /\ Sound(state)
      /\ "rhs" \in Phases \ {"reverted"} /\ cursor + 1 <= Len(text) + 1
      /\ cursor \in Nat
  BY <1>1, TokenFacts, RightFacts DEF Phases, Reading
<1>3. ~Yang => "wordEnd" \notin state.fsm
  BY <1>1, RightFacts DEF Yang
<1>4. CASE GoOn(Revert(state, "UnexpectedRHSChar"), phase, 0)
  <2>1. "UnexpectedRHSChar" \in Errors
    BY DEF Errors
  <2> QED BY <2>1, <1>1, <1>2, <1>4, RevertsKeep
<1>5. CASE ~Yang /\ name \in DOMAIN Words /\ ReadKnownWord
  <2>1. Words[name].code \in Codes \cup {"unknown"} /\ Words[name].arg \in Nat
    BY <1>5, WordsAssumption
  <2>2. KeepsBuilt(state, state)
    BY DEF KeepsBuilt
  <2>3. GoOn(Set(PushOpToSource(state, Words[name].code, Words[name].arg), {"wordEnd", "yang"}),
             phase, 1)
    BY <1>5 DEF ReadKnownWord
  <2> QED BY <2>1, <2>2, <2>3, <1>1, <1>2, <1>3, <1>5, WordKeeps
<1>6. CASE ~Yang /\ NameEntries(state, name) # {} /\ ReadStackName
  <2> DEFINE s == LookedUp(state, name)
             index == state.stackNames[Max(NameEntries(state, name))].index
             pushed == PushOpToSource(s, "stack", index)
             t == Unless(pushed, Set(Highwater(pushed), {"yang"}))
  <2>1. Shape(s) /\ Sound(s) /\ KeepsBuilt(state, s) /\ s.fsm = state.fsm
    BY <1>2, LookedUpFacts
  <2>2. index \in Nat
    BY <1>6, TokenFacts, EntryFacts
  <2>3. GoOn(t, "rhs", 1)
    BY <1>1, <1>6 DEF ReadStackName
  <2> HIDE DEF s, index
  <2>4. "stack" \in Codes \cup {"unknown"}
    BY DEF Codes
  <2>5. /\ Shape(pushed) /\ KeepsBuilt(s, pushed)
        /\ ~Failed(pushed) =>
                  /\ "wordEnd" \notin pushed.fsm
                  /\ \E H, F, G : Ledger(pushed, pushed.parens.depth, H, F, G)
                                    /\ Begun(pushed, H) # 0
    BY <2>1, <2>2, <2>4, <1>3, <1>6, PushIsSound
  <2> HIDE DEF pushed
  <2>6. Shape(t) /\ Builds(pushed, t) /\ (~Failed(t) => Good(t, "rhs"))
    BY <2>5, ItemIsSound
  <2> HIDE DEF t
  <2>7. Builds(state, t)
    <3>1. pushed.sources = state.sources /\ pushed.constants = state.constants
      BY <2>1, <2>5 DEF KeepsBuilt
    <3> QED BY <3>1, <2>6 DEF Builds
  <2> QED BY <2>3, <2>6, <2>7, <1>2, GoOnKeeps
<1>7. CASE ~Yang /\ ReadUnknownWord
  <2> DEFINE s == LookedUp(state, name)
  <2>1. Shape(s) /\ Sound(s) /\ KeepsBuilt(state, s) /\ s.fsm = state.fsm
    BY <1>2, LookedUpFacts
  <2>2. GoOn(Set(PushOpToSource(s, "unknown", cursor), {"wordEnd", "yang"}), phase, 1)
    BY <1>7 DEF ReadUnknownWord
  <2> HIDE DEF s
  <2> QED BY <2>1, <2>2, <1>1, <1>2, <1>3, <1>7, WordKeeps
<1> QED BY <1>4, <1>5, <1>6, <1>7 DEF ReadWord

LEMMA ExpectLeftParenKeeps ==
  ASSUME ParserInv, ExpectLeftParen PROVE ParserInv' /\ Builds(state, state')
<1>1. phase = "rhs" /\ cursor <= Len(text) /\ "wordEnd" \in state.fsm
  BY DEF ExpectLeftParen, WordEnd
<1>2. /\ Shape(state) /\ Sound(state)
      /\ "rhs" \in Phases \ {"reverted"} /\ cursor + 1 <= Len(text) + 1
  BY <1>1, TokenFacts, RightFacts DEF Phases, Reading
<1>3. CASE GoOn(OpenParen(state), phase, 1)
  <2> DEFINE s == OpenParen(state)
  <2>1. Shape(s) /\ KeepsBuilt(state, s) /\ (~Failed(s) => Sound(s) /\ "wordEnd" \notin s.fsm)
    BY <1>1, <1>2, OpenParenIsSound
  <2>2. GoOn(s, "rhs", 1)
    BY <1>1, <1>3
  <2> HIDE DEF s
  <2>3. ~Failed(s) => Good(s, "rhs")
    BY <2>1 DEF Good, Between
  <2> QED BY <2>1, <2>2, <2>3, <1>2, KeptIsBuilt, GoOnKeeps
<1>4. CASE GoOn(Revert(state, "ExpectedLeftParen"), phase, 1)
  <2>1. "ExpectedLeftParen" \in Errors
    BY DEF Errors
  <2> QED BY <2>1, <1>1, <1>2, <1>4, RevertsKeep
<1> QED BY <1>3, <1>4 DEF ExpectLeftParen

LEMMA ReadRightParenKeeps ==
  ASSUME ParserInv, ReadRightParen PROVE ParserInv' /\ Builds(state, state')
<1>1. phase = "rhs" /\ cursor <= Len(text) /\ "wordEnd" \notin state.fsm
  BY DEF ReadRightParen, AtToken, WordEnd
<1>2. /\ Shape(state) /\ Sound(state)
      /\ "rhs" \in Phases \ {"reverted"} /\ cursor + 1 <= Len(text) + 1
  BY <1>1, TokenFacts, RightFacts DEF Phases, Reading
<1>3. CASE state.parens.depth # 0 /\ GoOn(Highwater(CloseParen(state)), phase, 1)
  <2> DEFINE s == Highwater(CloseParen(state))
  <2>1. Shape(s) /\ KeepsBuilt(state, s) /\ s.fsm = state.fsm /\ (~Failed(s) => Sound(s))
    BY <1>1, <1>2, <1>3, CloseParenIsSound
  <2>2. GoOn(s, "rhs", 1)
    BY <1>1, <1>3
  <2> HIDE DEF s
  <2>3. ~Failed(s) => Good(s, "rhs")
    BY <2>1, <1>1 DEF Good, Between
  <2> QED BY <2>1, <2>2, <2>3, <1>2, KeptIsBuilt, GoOnKeeps
<1>4. CASE GoOn(Revert(state, "UnexpectedRightParen"), phase, 1)
  <2>1. "UnexpectedRightParen" \in Errors
    BY DEF Errors
  <2> QED BY <2>1, <1>1, <1>2, <1>4, RevertsKeep
<1> QED BY <1>3, <1>4 DEF ReadRightParen

(* An answer is one of a sub parser whose address is known. *)
LEMMA AnswerFacts ==
  ASSUME NEW answers, NEW name, NEW answer \in FirstAnswer(answers, name), state \in StateType
  PROVE  \E address \in Address : name \in DOMAIN answers[address] /\ answer = answers[address][name]
<1> DEFINE subs == state.subParsers
           I == {i \in 1 .. Len(subs) : name \in DOMAIN answers[subs[i]]}
           i == Min(I)
<1>1. subs \in Seq(Address)
  BY DEF StateType
<1>2. SelectInSeq(subs, LAMBDA address : name \in DOMAIN answers[address])
        = IF I # {} THEN i ELSE 0
  BY DEF SelectInSeq
<1>3. /\ SelectInSeq(subs, LAMBDA address : name \in DOMAIN answers[address]) # 0
      /\ answer = answers[subs[SelectInSeq(subs, LAMBDA address : name \in DOMAIN answers[address])]][name]
  BY DEF FirstAnswer
<1>4. I # {} /\ answer = answers[subs[i]][name]
  <2> DEFINE selected == SelectInSeq(subs, LAMBDA address : name \in DOMAIN answers[address])
  <2>1. selected = (IF I # {} THEN i ELSE 0) /\ selected # 0 /\ answer = answers[subs[selected]][name]
    BY <1>2, <1>3
  <2> HIDE DEF selected, I, i, subs
  <2> QED BY <2>1
<1> HIDE DEF subs
<1>5. Len(subs) \in Nat
  BY <1>1, LenProperties
<1>6. I \subseteq 1 .. Len(subs) /\ I \subseteq Nat
  OBVIOUS
<1>7. i \in I
  <2> HIDE DEF I
  <2>1. PICK m \in I : \A k \in I : m <= k
    BY <1>4, <1>6, LeastNatural
  <2> QED BY <2>1 DEF Min
<1>8. i \in 1 .. Len(subs) /\ name \in DOMAIN answers[subs[i]]
  <2> HIDE DEF i
  <2> QED BY <1>7
<1> HIDE DEF I, i
<1>9. subs[i] \in Address
  BY <1>1, <1>8, ElementOfSeq
<1> QED BY <1>4, <1>8, <1>9

LEMMA LiteralFacts ==
  ASSUME ParserInv, cursor <= Len(text), text[cursor].kind \in {"lit", "sublit"},
         NEW value \in ParsedLiteral(text[cursor])
  PROVE  value \in Value
<1>1. CASE text[cursor].kind = "lit"
  BY <1>1, TokenFacts DEF ParsedLiteral
<1>2. CASE text[cursor].kind # "lit"
  <2> DEFINE name == text[cursor].name
  <2>1. value \in FirstAnswer(SubLiterals, name)
    BY <1>2 DEF ParsedLiteral
  <2> HIDE DEF name
  <2>2. PICK address \in Address :
          name \in DOMAIN SubLiterals[address] /\ value = SubLiterals[address][name]
    BY <2>1, TokenFacts, AnswerFacts
  <2> QED BY <2>2, SubParsersAssumption
<1> QED BY <1>1, <1>2

LEMMA PushConstantFacts ==
  ASSUME NEW s, Shape(s), NEW value \in Value
  PROVE  LET t == PushConstantValue(s, value) IN
           /\ Shape(t) /\ Builds(s, t) /\ t.sources = s.sources /\ t.error = s.error
           /\ t.slots = s.slots /\ t.topLevel = s.topLevel /\ t.line = s.line
           /\ t.parens = s.parens /\ t.stackTracker = s.stackTracker /\ t.fsm = s.fsm
           /\ t.subParsers = s.subParsers
<1> DEFINE constants == Append(s.constants, value)
           bloom == s.constantsBloom \cup {ValueBloom(value)}
           t == [s EXCEPT !.constants = constants, !.constantsBloom = bloom]
<1>1. s \in StateType
  BY DEF Shape
<1>2. PushConstantValue(s, value) = t
  BY DEF PushConstantValue
<1>3. s.constants \in Seq(Value)
  BY <1>1 DEF StateType
<1>4. /\ constants \in Seq(Value) /\ IsPrefix(s.constants, constants)
  <2> DEFINE c == s.constants
             d == Append(c, value)
  <2>1. /\ c \in Seq(Value) /\ d \in Seq(Value) /\ Len(d) = Len(c) + 1 /\ Len(c) \in Nat
        /\ \A k \in 1 .. Len(c) : d[k] = c[k]
    BY <1>3, AppendProperties, LenProperties
  <2> HIDE DEF c, d
  <2>2. SubSeq(c, 1, Len(c)) = SubSeq(d, 1, Len(c))
    BY <2>1
  <2>3. IsPrefix(c, d)
    BY <2>1, <2>2 DEF IsPrefix
  <2> QED BY <2>1, <2>3 DEF c, d
<1>5. bloom \in SUBSET Bits
  BY <1>1 DEF StateType, Bits
<1> HIDE DEF constants, bloom
<1>6. /\ t \in StateType
      /\ t.slots = s.slots /\ t.topLevel = s.topLevel /\ t.line = s.line
      /\ t.parens = s.parens /\ t.stackTracker = s.stackTracker /\ t.fsm = s.fsm
      /\ t.error = s.error /\ t.sources = s.sources /\ t.subParsers = s.subParsers
      /\ t.constants = constants
  BY <1>1, <1>4, <1>5 DEF StateType
<1> HIDE DEF t
<1>7. Shape(t)
  BY <1>6 DEF Shape
<1>8. Builds(s, t)
  BY <1>4, <1>6 DEF Builds
<1> QED BY <1>2, <1>6, <1>7, <1>8

LEMMA PushLiteralFacts ==
  ASSUME NEW s, Shape(s), Sound(s), "wordEnd" \notin s.fsm, NEW value \in Value
  PROVE  LET t == PushLiteral(s, value) IN
           /\ Shape(t) /\ Builds(s, t) /\ t.sources = s.sources
           /\ ~Failed(t) =>
                /\ "wordEnd" \notin t.fsm
                /\ \E H, F, G : Ledger(t, t.parens.depth, H, F, G) /\ Begun(t, H) # 0
<1> DEFINE known == KnownConstants(s, value)
           index == IF known = {} THEN Len(s.constants) + 1 ELSE Max(known)
           pushed == PushOpToSource(s, "constant", index)
           t == PushLiteral(s, value)
<1>1. Len(s.constants) \in Nat /\ DOMAIN s.constants = 1 .. Len(s.constants)
  <2>1. s.constants \in Seq(Value)
    BY DEF Shape, StateType
  <2> QED BY <2>1, LenProperties
<1>2. known \subseteq 1 .. Len(s.constants)
  BY <1>1 DEF KnownConstants
<1> HIDE DEF known
<1>3. index \in Nat
  <2>1. ASSUME known # {} PROVE Max(known) \in Nat
    <3>1. PICK m \in known : \A k \in known : m >= k
      BY <1>1, <1>2, <2>1, GreatestNumber
    <3>2. Max(known) \in known
      BY <3>1 DEF Max
    <3>3. Max(known) \in 1 .. Len(s.constants)
      BY <3>2, <1>2
    <3> QED BY <3>3, <1>1
  <2> QED BY <2>1, <1>1
<1>4. t = IF Failed(pushed) \/ known # {} THEN pushed ELSE PushConstantValue(pushed, value)
  BY DEF PushLiteral, known
<1> HIDE DEF index, t
<1>5. "constant" \in Codes \cup {"unknown"}
  BY DEF Codes
<1>6. /\ Shape(pushed) /\ KeepsBuilt(s, pushed)
      /\ ~Failed(pushed) =>
           /\ "wordEnd" \notin pushed.fsm
           /\ \E H, F, G : Ledger(pushed, pushed.parens.depth, H, F, G) /\ Begun(pushed, H) # 0
  BY <1>3, <1>5, PushIsSound
<1> HIDE DEF pushed
<1>7. Builds(s, pushed) /\ pushed.sources = s.sources
  BY <1>6, KeptIsBuilt DEF KeepsBuilt
<1>8. CASE t = pushed
  BY <1>6, <1>7, <1>8 DEF t
<1>9. CASE ~Failed(pushed) /\ t = PushConstantValue(pushed, value)
  <2> DEFINE u == PushConstantValue(pushed, value)
  <2>1. /\ Shape(u) /\ Builds(pushed, u) /\ u.sources = pushed.sources /\ u.error = pushed.error
        /\ u.slots = pushed.slots /\ u.topLevel = pushed.topLevel /\ u.line = pushed.line
        /\ u.parens = pushed.parens /\ u.stackTracker = pushed.stackTracker /\ u.fsm = pushed.fsm
    BY <1>6, PushConstantFacts
  <2>2. t = u
    BY <1>9
  <2> HIDE DEF u
  <2>3. Builds(s, u)
    BY <2>1, <1>6, <1>7, BuildsOn DEF Shape
  <2>4. PICK H, F, G : Ledger(pushed, pushed.parens.depth, H, F, G) /\ Begun(pushed, H) # 0
    BY <1>6, <1>9
  <2>5. Ledger(u, pushed.parens.depth, H, F, G) /\ Begun(u, H) = Begun(pushed, H)
    <3>1. u.parens.groups = pushed.parens.groups
          /\ u.stackTracker.current = pushed.stackTracker.current
      BY <2>1
    <3>2. Ledger(pushed, pushed.parens.depth, H, F, G)
      BY <2>4
    <3> QED BY <3>1, <3>2, <2>1, LedgerStays
  <2>6. "wordEnd" \notin u.fsm /\ Ledger(u, u.parens.depth, H, F, G) /\ Begun(u, H) # 0
    BY <2>1, <2>4, <2>5, <1>6, <1>9
  <2> QED BY <2>1, <2>2, <2>3, <2>6, <1>7 DEF t
<1> QED BY <1>4, <1>8, <1>9

LEMMA ReadLiteralKeeps ==
  ASSUME ParserInv, ReadLiteral PROVE ParserInv' /\ Builds(state, state')
<1>1. /\ phase = "rhs" /\ cursor <= Len(text) /\ "wordEnd" \notin state.fsm
      /\ text[cursor].kind \in {"lit", "sublit"}
  BY DEF ReadLiteral, AtToken, WordEnd
<1>2. /\ Shape(state) /\ Sound(state)
      /\ "rhs" \in Phases \ {"reverted"} /\ cursor + 1 <= Len(text) + 1
  BY <1>1, TokenFacts, RightFacts DEF Phases, Reading
<1>3. ASSUME NEW value \in ParsedLiteral(text[cursor]),
             LET pushed == PushLiteral(state, value) IN
               GoOn(Unless(pushed, Set(Highwater(pushed), {"yang"})), phase, 1)
      PROVE  ParserInv' /\ Builds(state, state')
  <2> DEFINE pushed == PushLiteral(state, value)
             t == Unless(pushed, Set(Highwater(pushed), {"yang"}))
  <2>1. value \in Value
    BY <1>1, LiteralFacts
  <2>2. GoOn(t, "rhs", 1)
    BY <1>1, <1>3
  <2>3. /\ Shape(pushed) /\ Builds(state, pushed) /\ pushed.sources = state.sources
        /\ ~Failed(pushed) =>
             /\ "wordEnd" \notin pushed.fsm
             /\ \E H, F, G : Ledger(pushed, pushed.parens.depth, H, F, G) /\ Begun(pushed, H) # 0
    BY <2>1, <1>1, <1>2, PushLiteralFacts
  <2> HIDE DEF pushed
  <2>4. Shape(t) /\ Builds(pushed, t) /\ (~Failed(t) => Good(t, "rhs"))
    BY <2>3, ItemIsSound
  <2> HIDE DEF t
  <2>5. Builds(state, t)
    BY <2>3, <2>4, <1>2, BuildsOn DEF Shape
  <2> QED BY <2>2, <2>4, <2>5, <1>2, GoOnKeeps
<1>4. CASE GoOn(Revert(state, "UnsupportedLiteralType"), phase, 0)
  <2>1. "UnsupportedLiteralType" \in Errors
    BY DEF Errors
  <2> QED BY <2>1, <1>1, <1>2, <1>4, RevertsKeep
<1> QED BY <1>3, <1>4 DEF ReadLiteral

-----------------------------------------------------------------------------
(* Ends of lines, of sources and of the text. *)

LEMMA EndLineIsSound ==
  ASSUME NEW s, Shape(s), Sound(s), "wordEnd" \notin s.fsm
  PROVE  LET t == EndLine(s) IN
           /\ Shape(t) /\ KeepsBuilt(s, t)
           /\ ~Failed(t) => Good(t, "interstitial") /\ "wordEnd" \notin t.fsm
<1> DEFINE t == EndLine(s)
<1>1. PICK H, F, G : Ledger(s, s.parens.depth, H, F, G) /\ (s.parens.depth = 0 <=> Begun(s, H) = 0)
  BY DEF Sound, Top
<1>2. s.parens.depth = 0 => Ledger(s, 0, H, F, G) /\ Begun(s, H) = 0
  BY <1>1
<1>3. /\ Shape(t) /\ KeepsBuilt(s, t)
      /\ ~Failed(t) =>
           /\ t.fsm = (s.fsm \cap {"acceptingInputs"}) \cup {"activeSource"}
           /\ t.parens.depth = 0 /\ t.line.lhs = 0
           /\ \E H1, F1, G1 : Ledger(t, 0, H1, F1, G1) /\ Begun(t, H1) = 0
  BY <1>2, EndLineFacts
<1> HIDE DEF t
<1>4. ASSUME ~Failed(t) PROVE Good(t, "interstitial") /\ "wordEnd" \notin t.fsm
  <2>1. "wordEnd" \notin t.fsm
    BY <1>3, <1>4
  <2>2. Top(t) = 0
    BY <2>1, <1>3, <1>4 DEF Top
  <2>3. Sound(t)
    BY <2>2, <1>3, <1>4 DEF Sound
  <2> QED BY <2>1, <2>2, <2>3, <1>3, <1>4 DEF Good
<1> QED BY <1>3, <1>4 DEF t

LEMMA ReadEndOfLineKeeps ==
  ASSUME ParserInv, ReadEndOfLine PROVE ParserInv' /\ Builds(state, state')
<1> DEFINE s == EndLine(state)
<1>1. phase = "rhs" /\ cursor <= Len(text) /\ "wordEnd" \notin state.fsm
  BY DEF ReadEndOfLine, AtToken, WordEnd
<1>2. "interstitial" \in Phases \ {"reverted"} /\ cursor + 1 <= Len(text) + 1
  BY <1>1, TokenFacts DEF Phases, Reading, Between
<1>3. Shape(s) /\ KeepsBuilt(state, s) /\ (~Failed(s) => Good(s, "interstitial"))
  BY <1>1, RightFacts, EndLineIsSound
<1>4. GoOn(s, "interstitial", 1)
  BY DEF ReadEndOfLine
<1> HIDE DEF s
<1> QED BY <1>2, <1>3, <1>4, KeptIsBuilt, GoOnKeeps

LEMMA AppendedBuilds ==
  ASSUME NEW s \in StateType, NEW t, t.constants = s.constants, NEW built \in BuiltSource,
         t.sources = Append(s.sources, built)
  PROVE  Builds(s, t)
<1>1. s.sources \in Seq(BuiltSource)
  BY DEF StateType
<1>2. /\ DOMAIN s.sources = 1 .. Len(s.sources)
      /\ \A k \in 1 .. Len(s.sources) : t.sources[k] = s.sources[k]
  BY <1>1, AppendProperties, LenProperties
<1> QED BY <1>2, PrefixOfItself DEF Builds

LEMMA ReadEndOfSourceKeeps ==
  ASSUME ParserInv, ReadEndOfSource PROVE ParserInv' /\ Builds(state, state')
<1> DEFINE ended == EndLine(state)
           built == EndSource(ended)
           reset == [built EXCEPT !.fsm = DefaultFSM]
           s == Unless(ended, Unless(built, reset))
<1>1. phase = "rhs" /\ cursor <= Len(text) /\ "wordEnd" \notin state.fsm
  BY DEF ReadEndOfSource, AtToken, WordEnd
<1>2. "interstitial" \in Phases \ {"reverted"} /\ cursor + 1 <= Len(text) + 1
  BY <1>1, TokenFacts DEF Phases, Reading, Between
<1>3. GoOn(s, "interstitial", 1)
  BY DEF ReadEndOfSource
<1>4. Shape(ended) /\ KeepsBuilt(state, ended) /\ ended \in StateType /\ state \in StateType
      /\ (~Failed(ended) => "wordEnd" \notin ended.fsm)
  BY <1>1, RightFacts, EndLineIsSound DEF Shape
<1>5. /\ Shape(s) /\ Builds(state, s) /\ (~Failed(s) => Good(s, "interstitial"))
  <2> HIDE DEF ended
  <2>1. CASE Failed(ended)
    <3>1. s = ended
      BY <2>1 DEF Unless
    <3> QED BY <3>1, <2>1, <1>4, KeptIsBuilt
  <2>2. ASSUME ~Failed(ended)
        PROVE  Shape(s) /\ Builds(state, s) /\ (~Failed(s) => Good(s, "interstitial"))
    <3>1. /\ Shape(built) /\ built.constants = ended.constants
          /\ \/ Failed(built) /\ built.sources = ended.sources
             \/ /\ Fresh(built) /\ built.error = ended.error
                /\ built.fsm = ended.fsm \ {"activeSource"}
                /\ \E x \in BuiltSource : built.sources = Append(ended.sources, x)
      BY <1>4, EndSourceFacts
    <3>2. s = Unless(built, reset)
      BY <2>2 DEF Unless
    <3> HIDE DEF built, s
    <3>3. CASE Failed(built)
      <4>1. s = built /\ built.sources = ended.sources
        <5>1. ~(built.error = ended.error)
          BY <2>2, <3>3 DEF Failed
        <5> QED BY <3>1, <3>2, <3>3, <5>1 DEF Unless
      <4>2. Builds(state, s)
        BY <4>1, <3>1, <1>4, PrefixOfItself DEF Builds, KeepsBuilt
      <4> QED BY <4>1, <4>2, <3>1, <3>3
    <3>4. CASE ~Failed(built)
      <4>1. s = reset /\ Fresh(built)
        BY <3>1, <3>2, <3>4 DEF Unless
      <4>2. DefaultFSM \in SUBSET Flags /\ built \in StateType /\ "wordEnd" \notin DefaultFSM
        BY <3>1 DEF DefaultFSM, Flags, Shape
      <4>3. /\ reset \in StateType /\ KeepsBuilt(built, reset) /\ KeepsBlooms(built, reset)
            /\ reset.slots = built.slots /\ reset.topLevel = built.topLevel
            /\ reset.parens = built.parens /\ reset.line = built.line
            /\ reset.stackTracker = built.stackTracker /\ reset.error = built.error
            /\ reset.fsm = DefaultFSM
        BY <4>2, FlagsStay
      <4> HIDE DEF reset
      <4>4. Fresh(reset)
        BY <4>1, <4>3 DEF Fresh, KeepsBuilt, KeepsBlooms
      <4>5. Shape(reset) /\ Sound(reset) /\ Top(reset) = 0 /\ reset.line.lhs = 0
        BY <4>2, <4>3, <4>4, FreshIsSound
      <4>6. Good(reset, "interstitial")
        BY <4>2, <4>3, <4>5 DEF Good
      <4>7. PICK x \in BuiltSource : built.sources = Append(ended.sources, x)
        BY <3>1, <3>4
      <4>8. reset.constants = state.constants /\ reset.sources = Append(state.sources, x)
        BY <4>3, <4>7, <3>1, <1>4 DEF KeepsBuilt
      <4>9. Builds(state, reset)
        BY <4>8, <1>4, AppendedBuilds
      <4> QED BY <4>1, <4>5, <4>6, <4>9
    <3> QED BY <3>3, <3>4
  <2> QED BY <2>1, <2>2
<1> HIDE DEF s
<1> QED BY <1>2, <1>3, <1>5, GoOnKeeps

LEMMA PushSubParserFacts ==
  ASSUME NEW s, Shape(s), NEW value
  PROVE  LET t == PushSubParser(s, value) IN
           /\ Shape(t) /\ Builds(s, t)
           /\ ~Failed(t) => /\ t.fsm = s.fsm /\ t.slots = s.slots /\ t.topLevel = s.topLevel
                            /\ t.line = s.line /\ t.parens = s.parens
                            /\ t.stackTracker = s.stackTracker
<1>0. s \in StateType
  BY DEF Shape
<1>1. CASE value \in Address
  <2> DEFINE subs == <<value>> \o s.subParsers
             t == [s EXCEPT !.subParsers = subs]
  <2>1. PushSubParser(s, value) = t
    BY <1>1 DEF PushSubParser
  <2>2. subs \in Seq(Address)
    <3>1. s.subParsers \in Seq(Address)
      BY <1>0 DEF StateType
    <3>2. <<value>> \in Seq(Address)
      BY <1>1
    <3> QED BY <3>1, <3>2, ConcatProperties
  <2> HIDE DEF subs
  <2>3. /\ t \in StateType /\ t.fsm = s.fsm /\ t.slots = s.slots /\ t.topLevel = s.topLevel
        /\ t.line = s.line /\ t.parens = s.parens /\ t.stackTracker = s.stackTracker
        /\ t.sources = s.sources /\ t.constants = s.constants
    BY <1>0, <2>2 DEF StateType
  <2> HIDE DEF t
  <2>4. Shape(t)
    BY <2>3 DEF Shape
  <2>5. Builds(s, t)
    BY <2>3, PrefixOfItself DEF Builds
  <2> QED BY <2>1, <2>3, <2>4, <2>5
<1>2. CASE value \notin Address
  <2> DEFINE t == Revert(s, "InvalidSubParser")
  <2>1. PushSubParser(s, value) = t
    BY <1>2 DEF PushSubParser
  <2>2. "InvalidSubParser" \in Errors
    BY DEF Errors
  <2>3. t \in StateType /\ KeepsAll(s, t) /\ Failed(t)
    BY <1>0, <2>2, RevertKeeps
  <2> HIDE DEF t
  <2>4. Shape(t) /\ Builds(s, t)
    BY <2>3, KeptIsBuilt DEF Shape, KeepsAll
  <2> QED BY <2>1, <2>3, <2>4
<1> QED BY <1>1, <1>2

LEMMA ReadAddressKeeps ==
  ASSUME ParserInv, ReadAddress PROVE ParserInv' /\ Builds(state, state')
<1>1. phase = "pragma" /\ cursor <= Len(text)
  BY DEF ReadAddress, AtToken
<1>2. /\ Shape(state) /\ state \in StateType /\ Good(state, "pragma")
      /\ Top(state) = 0 /\ "wordEnd" \notin state.fsm
      /\ "pragma" \in Phases \ {"reverted"} /\ cursor + 1 <= Len(text) + 1
  BY <1>1, TokenFacts, LeftFacts DEF Phases, Reading, Between
<1>3. ASSUME NEW value, GoOn(PushSubParser(Literally(state, text[cursor]), value), phase, 1)
      PROVE  ParserInv' /\ Builds(state, state')
  <2> DEFINE s == Literally(state, text[cursor])
             t == PushSubParser(s, value)
  <2>1. /\ Shape(s) /\ KeepsBuilt(state, s) /\ Good(s, "pragma") /\ Top(s) = 0
        /\ "wordEnd" \notin s.fsm
    <3>1. CASE s = state
      BY <3>1, <1>2 DEF KeepsBuilt
    <3>2. CASE s = Clear(state, {"yang"})
      <4> DEFINE fsm == state.fsm \ {"yang"}
                 u == [state EXCEPT !.fsm = fsm]
      <4>1. s = u
        BY <3>2 DEF Clear
      <4> HIDE DEF s
      <4>2. /\ fsm \in SUBSET Flags /\ ("wordEnd" \in fsm <=> "wordEnd" \in state.fsm)
            /\ "wordEnd" \notin fsm
        BY <1>2 DEF StateType
      <4> HIDE DEF fsm
      <4>3. /\ Shape(u) /\ KeepsBuilt(state, u) /\ u.fsm = fsm
            /\ u.line = state.line /\ Top(u) = Top(state)
            /\ Sound(state) => Sound(u)
        BY <4>2, <1>2, FlagsAreSound
      <4> HIDE DEF u
      <4>4. Good(u, "pragma")
        BY <4>2, <4>3, <1>2 DEF Good
      <4> QED BY <4>1, <4>2, <4>3, <4>4, <1>2
    <3> QED BY <3>1, <3>2 DEF Literally
  <2>2. GoOn(t, "pragma", 1)
    BY <1>1, <1>3
  <2> HIDE DEF s
  <2>3. /\ Shape(t) /\ Builds(s, t)
        /\ ~Failed(t) => /\ t.fsm = s.fsm /\ t.slots = s.slots /\ t.topLevel = s.topLevel
                         /\ t.line = s.line /\ t.parens = s.parens
                         /\ t.stackTracker = s.stackTracker
    BY <2>1, PushSubParserFacts
  <2> HIDE DEF t
  <2>4. Builds(state, t)
    BY <2>1, <2>3 DEF Builds, KeepsBuilt
  <2>5. ASSUME ~Failed(t) PROVE Good(t, "pragma")
    <3>1. Top(t) = Top(s)
      BY <2>3, <2>5 DEF Top
    <3>2. Sound(t)
      BY <3>1, <2>1, <2>3, <2>5, SoundStays DEF Good
    <3> QED BY <3>1, <3>2, <2>1, <2>3, <2>5 DEF Good
  <2> QED BY <2>2, <2>3, <2>4, <2>5, <1>2, GoOnKeeps
<1>4. CASE GoOn(Revert(state, "UnsupportedLiteralType"), phase, 0)
  <2>1. "UnsupportedLiteralType" \in Errors
    BY DEF Errors
  <2> QED BY <2>1, <1>1, <1>2, <1>4, RevertsKeep
<1> QED BY <1>3, <1>4 DEF ReadAddress

LEMMA EndOfTextKeeps ==
  ASSUME ParserInv, EndOfText PROVE ParserInv' /\ Builds(state, state')
<1>1. "subparse" \in Phases \ {"reverted"} /\ "subparse" \notin Reading
      /\ {"MissingFinalSemi", "DanglingSource"} \subseteq Errors
  BY DEF Phases, Reading, Between, Errors
<1>2. \/ GoOn(Revert(state, "MissingFinalSemi"), "subparse", 0)
      \/ GoOn(Revert(state, "DanglingSource"), "subparse", 0)
      \/ GoOn(state, "subparse", 0)
  BY DEF EndOfText, BuildBytecode
<1>3. CASE GoOn(state, "subparse", 0)
  <2>1. KeepsBuilt(state, state)
    BY DEF KeepsBuilt
  <2>2. Builds(state, state)
    BY <2>1, KeptIsBuilt
  <2> QED BY <2>2, <1>1, <1>3, TokenFacts, GoOnKeeps
<1> QED BY <1>1, <1>2, <1>3, RevertsKeep

LEMMA SubParsedKeeps ==
  ASSUME ParserInv, SubParsed PROVE ParserInv' /\ Builds(state, state')
<1>1. "parsed" \in Phases \ {"reverted"} /\ "parsed" \notin Reading
  BY DEF Phases, Reading, Between
<1>2. GoOn(state, "parsed", 0)
  BY DEF SubParsed
<1>3. KeepsBuilt(state, state)
  BY DEF KeepsBuilt
<1>4. Builds(state, state)
  BY <1>3, KeptIsBuilt
<1> QED BY <1>1, <1>2, <1>4, TokenFacts, GoOnKeeps

-----------------------------------------------------------------------------
(* What is left to the sub parsers. *)

LEMMA FirstUnknownFacts ==
  ASSUME state \in StateType, Unknown # {}
  PROVE  /\ FirstUnknown[1] \in DOMAIN state.sources
         /\ FirstUnknown[2] \in DOMAIN state.sources[FirstUnknown[1]].ops
         /\ state.sources[FirstUnknown[1]].ops[FirstUnknown[2]].code = "unknown"
<1> DEFINE sources == state.sources
           U == Unknown
           A == {at[1] : at \in U}
           IsFirst(at) == \A other \in U : at[1] < other[1] \/ (at[1] = other[1] /\ at[2] <= other[2])
<1>1. sources \in Seq(BuiltSource)
  BY DEF StateType
<1>2. DOMAIN sources = 1 .. Len(sources) /\ Len(sources) \in Nat
  BY <1>1, LenProperties
<1>3. ASSUME NEW s \in DOMAIN sources PROVE DOMAIN sources[s].ops \subseteq Nat
  <2>1. sources[s] \in BuiltSource
    BY <1>1, <1>2, ElementOfSeq
  <2>2. sources[s].ops \in Seq(ReadOp)
    BY <2>1 DEF BuiltSource
  <2> QED BY <2>2, LenProperties
<1>4. ASSUME NEW at \in U
      PROVE  /\ at = <<at[1], at[2]>> /\ at[1] \in DOMAIN sources /\ at[2] \in DOMAIN sources[at[1]].ops
             /\ sources[at[1]].ops[at[2]].code = "unknown"
             /\ at[1] \in Nat /\ at[2] \in Nat
  <2>1. PICK s \in DOMAIN sources : at \in {s} \X DOMAIN sources[s].ops
    BY DEF Unknown
  <2>2. at[1] = s /\ at[2] \in DOMAIN sources[s].ops /\ at = <<at[1], at[2]>>
    BY <2>1
  <2>3. sources[at[1]].ops[at[2]].code = "unknown"
    BY DEF Unknown
  <2> QED BY <2>2, <2>3, <1>2, <1>3
<1> HIDE DEF sources, U
<1>5. A \in SUBSET Nat /\ A # {}
  BY <1>4 DEF U
<1>6. PICK a \in A : \A x \in A : a <= x
  <2> HIDE DEF A
  <2> QED BY <1>5, LeastNatural
<1> DEFINE B == {at[2] : at \in {x \in U : x[1] = a}}
<1>7. B \in SUBSET Nat /\ B # {}
  BY <1>4, <1>6
<1>8. PICK b \in B : \A x \in B : b <= x
  <2> HIDE DEF B
  <2> QED BY <1>7, LeastNatural
<1>9. PICK first \in U : first[1] = a /\ first[2] = b
  BY <1>8
<1>10. IsFirst(first)
  <2> SUFFICES ASSUME NEW other \in U
               PROVE  first[1] < other[1] \/ (first[1] = other[1] /\ first[2] <= other[2])
    OBVIOUS
  <2>1. other[1] \in Nat /\ first[1] \in Nat /\ first[1] <= other[1]
    BY <1>4, <1>6, <1>9
  <2>2. first[1] = other[1] => first[2] <= other[2]
    BY <1>8, <1>9
  <2> QED BY <2>1, <2>2
<1>11. FirstUnknown = CHOOSE at \in U : IsFirst(at)
  BY DEF FirstUnknown, U
<1>12. FirstUnknown \in U
  <2> HIDE DEF IsFirst
  <2> QED BY <1>9, <1>10, <1>11
<1> QED BY <1>4, <1>12 DEF sources

(* The op that a sub parser answers for an unknown one. *)
LEMMA SubOpFacts ==
  ASSUME state \in StateType, NEW op \in ReadOp, NEW name, NEW word \in FirstAnswer(SubWords, name),
         word.code # "malformed"
  PROVE  /\ SubOp(op, word) \in ReadOp
         /\ word.code # "context" => word.of \in Value
<1>1. PICK address \in Address : name \in DOMAIN SubWords[address] /\ word = SubWords[address][name]
  BY AnswerFacts
<1>2. \/ word.code = "context" /\ word.of \in Nat
      \/ word.code \in {"constant", "extern"} /\ word.of \in Value
  BY <1>1, SubParsersAssumption
<1>3. Len(state.constants) + 1 \in Nat
  <2>1. state.constants \in Seq(Value)
    BY DEF StateType
  <2> QED BY <2>1, LenProperties
<1>4. {"context", "extern", "constant"} \subseteq Codes /\ 0 \in 0 .. ByteMax /\ 1 \in Nibble
  BY LimitsAssumption DEF Codes, Nibble
<1> QED BY <1>2, <1>3, <1>4 DEF SubOp, ReadOp

(* The state with another op in a source that is built. *)
WithBuiltOp(s, a, b, op) == [s EXCEPT !.sources[a].ops[b] = op]

LEMMA BuiltOpFacts ==
  ASSUME NEW s, Shape(s), NEW a \in DOMAIN s.sources, NEW b \in DOMAIN s.sources[a].ops,
         s.sources[a].ops[b].code = "unknown", NEW op \in ReadOp
  PROVE  LET t == WithBuiltOp(s, a, b, op) IN
           Shape(t) /\ Builds(s, t) /\ t.constants = s.constants /\ t.error = s.error
<1> DEFINE ops == s.sources[a].ops
           newOps == [ops EXCEPT ![b] = op]
           newSource == [s.sources[a] EXCEPT !.ops = newOps]
           sources == [s.sources EXCEPT ![a] = newSource]
           t == [s EXCEPT !.sources = sources]
<1>1. s \in StateType /\ s.sources \in Seq(BuiltSource)
  BY DEF Shape, StateType
<1>2. s.sources[a] \in BuiltSource /\ a \in 1 .. Len(s.sources)
  BY <1>1, LenProperties, ElementOfSeq
<1>3. ops \in Seq(ReadOp)
  BY <1>2 DEF BuiltSource
<1>4. b \in 1 .. Len(ops)
  BY <1>3, LenProperties
<1>5. WithBuiltOp(s, a, b, op) = t
  BY DEF WithBuiltOp
<1> HIDE DEF ops
<1>6. /\ newOps \in Seq(ReadOp) /\ \A k \in DOMAIN ops : k # b => newOps[k] = ops[k]
  BY <1>3, <1>4, ExceptSeq
<1> HIDE DEF newOps
<1>7. newSource \in BuiltSource /\ newSource.ops = newOps
  BY <1>2, <1>6 DEF BuiltSource
<1> HIDE DEF newSource
<1>8. /\ sources \in Seq(BuiltSource) /\ sources[a] = newSource
      /\ \A k \in DOMAIN s.sources : k # a => sources[k] = s.sources[k]
  BY <1>1, <1>2, <1>7, ExceptSeq
<1> HIDE DEF sources
<1>9. /\ t \in StateType /\ t.sources = sources /\ t.constants = s.constants /\ t.error = s.error
      /\ t.slots = s.slots /\ t.line = s.line
  BY <1>1, <1>8 DEF StateType
<1> HIDE DEF t
<1>10. Shape(t)
  BY <1>9 DEF Shape
<1>11. ASSUME NEW k \in DOMAIN s.sources, NEW j \in DOMAIN s.sources[k].ops,
              s.sources[k].ops[j].code # "unknown"
       PROVE  t.sources[k].ops[j] = s.sources[k].ops[j]
  <2>1. CASE k = a
    <3>1. j # b /\ j \in DOMAIN ops
      BY <2>1, <1>11 DEF ops
    <3> QED BY <3>1, <2>1, <1>6, <1>7, <1>8, <1>9 DEF ops
  <2>2. CASE k # a
    BY <2>2, <1>8, <1>9
  <2> QED BY <2>1, <2>2
<1>12. Builds(s, t)
  BY <1>9, <1>11, PrefixOfItself DEF Builds
<1> QED BY <1>5, <1>9, <1>10, <1>12

LEMMA SubParseWordKeeps ==
  ASSUME ParserInv, SubParseWord PROVE ParserInv' /\ Builds(state, state')
<1> DEFINE at == FirstUnknown
           a == at[1]
           b == at[2]
           op == state.sources[a].ops[b]
           name == text[op.arg].name
<1>1. /\ phase = "subparse" /\ Unknown # {} /\ Shape(state) /\ state \in StateType
      /\ "subparse" \in Phases \ {"reverted"} /\ "subparse" \notin Reading
      /\ {"BadSubParserResult", "UnknownWord"} \subseteq Errors
  BY TokenFacts DEF SubParseWord, Phases, Reading, Between, Errors
<1>2. a \in DOMAIN state.sources /\ b \in DOMAIN state.sources[a].ops /\ op.code = "unknown"
  BY <1>1, FirstUnknownFacts
<1>3. op \in ReadOp
  <2>1. state.sources \in Seq(BuiltSource)
    BY <1>1 DEF StateType
  <2>2. state.sources[a] \in BuiltSource
    BY <2>1, <1>2, LenProperties, ElementOfSeq
  <2>3. state.sources[a].ops \in Seq(ReadOp)
    BY <2>2 DEF BuiltSource
  <2> QED BY <2>3, <1>2, LenProperties, ElementOfSeq
<1>4. CASE GoOn(Revert(state, "UnknownWord"), phase, 0)
  BY <1>1, <1>4, RevertsKeep
<1>5. ASSUME NEW word \in FirstAnswer(SubWords, name),
             GoOn(IF word.code = "malformed" THEN Revert(state, "BadSubParserResult")
                  ELSE SubConstants([state EXCEPT !.sources[a].ops[b] = SubOp(op, word)], word),
                  phase, 0)
      PROVE  ParserInv' /\ Builds(state, state')
  <2>1. CASE word.code = "malformed"
    BY <1>1, <1>5, <2>1, RevertsKeep
  <2>2. CASE word.code # "malformed"
    <3> DEFINE new == SubOp(op, word)
               s == WithBuiltOp(state, a, b, new)
               t == SubConstants(s, word)
    <3>1. new \in ReadOp /\ (word.code # "context" => word.of \in Value)
      <4> HIDE DEF op, name
      <4> QED BY <1>1, <1>3, <2>2, SubOpFacts
    <3>2. GoOn(t, "subparse", 0)
      BY <1>1, <1>5, <2>2 DEF WithBuiltOp
    <3> HIDE DEF new
    <3>3. Shape(s) /\ Builds(state, s) /\ s.constants = state.constants
      <4> HIDE DEF a, b
      <4> QED BY <1>1, <1>2, <3>1, BuiltOpFacts DEF op
    <3> HIDE DEF s
    <3>4. Shape(t) /\ Builds(state, t)
      <4>1. CASE word.code = "context"
        BY <4>1, <3>3 DEF SubConstants
      <4>2. CASE word.code # "context"
        <5>1. t = PushConstantValue(s, word.of)
          BY <4>2 DEF SubConstants
        <5>2. Shape(t) /\ Builds(s, t) /\ t.sources = s.sources
          BY <5>1, <4>2, <3>1, <3>3, PushConstantFacts
        <5> QED BY <5>2, <3>3 DEF Builds
      <4> QED BY <4>1, <4>2
    <3> HIDE DEF t
    <3> QED BY <3>2, <3>4, <1>1, GoOnKeeps
  <2> QED BY <2>1, <2>2
<1> QED BY <1>4, <1>5 DEF SubParseWord

-----------------------------------------------------------------------------
(* The theorems. *)

LEMMA ParserInitKeeps == ASSUME ParserInit PROVE ParserInv
<1>1. text \in Texts /\ cursor = 1 /\ phase = "start" /\ state = NewState
  BY DEF ParserInit
<1>2. Len(text) \in Nat
  BY <1>1, TextsAssumption
<1>3. /\ NewState \in StateType /\ Fresh(NewState) /\ ~Failed(NewState)
      /\ "wordEnd" \notin NewState.fsm
  BY NewStateFacts
<1>4. Shape(NewState) /\ Sound(NewState) /\ Top(NewState) = 0 /\ NewState.line.lhs = 0
  BY <1>3, FreshIsSound
<1>5. Good(NewState, "start")
  BY <1>3, <1>4 DEF Good
<1> QED BY <1>1, <1>2, <1>3, <1>4, <1>5 DEF ParserInv, Phases, Reading, Between

LEMMA ParserNextKeeps ==
  ASSUME ParserInv, ParserNext PROVE ParserInv' /\ Builds(state, state')
<1>1. CASE SkipWhitespace \/ SkipComment \/ ReadKeyword \/ ReadAddress
  BY <1>1, SkipWhitespaceKeeps, SkipCommentKeeps, ReadKeywordKeeps, ReadAddressKeeps
<1>2. CASE ReadAnonymous \/ ReadName \/ ReadDelimiter \/ RevertLHS
  BY <1>2, ReadAnonymousKeeps, ReadNameKeeps, ReadDelimiterKeeps, RevertLHSKeeps
<1>3. CASE ReadWord \/ ExpectLeftParen \/ ReadRightParen \/ SkipWhitespaceRHS
  BY <1>3, ReadWordKeeps, ExpectLeftParenKeeps, ReadRightParenKeeps, SkipWhitespaceRHSKeeps
<1>4. CASE ReadLiteral \/ ReadEndOfLine \/ ReadEndOfSource \/ RevertRHS
  BY <1>4, ReadLiteralKeeps, ReadEndOfLineKeeps, ReadEndOfSourceKeeps, RevertRHSKeeps
<1>5. CASE EndOfText \/ SubParseWord \/ SubParsed
  BY <1>5, EndOfTextKeeps, SubParseWordKeeps, SubParsedKeeps
<1> QED BY <1>1, <1>2, <1>3, <1>4, <1>5 DEF ParserNext

(* A step of the deployer is one of the parser or leaves the parser alone. *)
LEMMA DeployerNextKeeps ==
  ASSUME ParserInv, [DeployerNext \/ DeployerDone]_deployerVars
  PROVE  /\ ParserInv'
         /\ parserVars' = parserVars \/ Builds(state, state')
<1>1. CASE Parse2Parse
  BY <1>1, ParserNextKeeps DEF Parse2Parse
<1>2. CASE UNCHANGED parserVars
  BY <1>2 DEF parserVars, ParserInv
<1>3. Parse2Parse \/ UNCHANGED parserVars
  BY DEF DeployerNext, DeployerDone, Parse2BeginCheck, Parse2Check, deployerVars
<1> QED BY <1>1, <1>2, <1>3

LEMMA ParserInvHolds == DeployerSpec => []ParserInv
<1>1. DeployerInit => ParserInv
  BY ParserInitKeeps DEF DeployerInit
<1>2. ParserInv /\ [DeployerNext \/ DeployerDone]_deployerVars => ParserInv'
  BY DeployerNextKeeps
<1> QED BY <1>1, <1>2, PTL DEF DeployerSpec

(* The parser's fields have their types, for every text: no counter of a     *)
(* packed word leaves its byte, no depth its tracker, and no op of a source  *)
(* is other than one that was read (parse, all its handlers).                *)
THEOREM ParserStaysTyped == DeployerSpec => []ParserTypeOK
<1>1. ParserInv => ParserTypeOK
  <2> SUFFICES ASSUME ParserInv PROVE ParserTypeOK
    OBVIOUS
  <2>1. /\ cursor \in 1 .. (Len(text) + 1) /\ phase \in Phases /\ (Failed(state) <=> phase = "reverted")
        /\ Shape(state) /\ state \in StateType
    BY DEF ParserInv, Shape
  <2>2. ASSUME NEW k \in DOMAIN state.slots, NEW j \in DOMAIN state.slots[k]
        PROVE  state.slots[k][j] \in ReadOp
    <3>1. state.slots \in Seq(Seq(ReadOp))
      BY <2>1 DEF StateType
    <3>2. state.slots[k] \in Seq(ReadOp)
      BY <3>1, LenProperties, ElementOfSeq
    <3> QED BY <3>2, LenProperties, ElementOfSeq
  <2>3. ASSUME NEW k \in DOMAIN state.sources, NEW j \in DOMAIN state.sources[k].ops
        PROVE  state.sources[k].ops[j] \in ReadOp
    <3>1. state.sources \in Seq(BuiltSource)
      BY <2>1 DEF StateType
    <3>2. state.sources[k] \in BuiltSource
      BY <3>1, LenProperties, ElementOfSeq
    <3>3. state.sources[k].ops \in Seq(ReadOp)
      BY <3>2 DEF BuiltSource
    <3> QED BY <3>3, LenProperties, ElementOfSeq
  <2>4. /\ state.constants \in Seq(Value) /\ state.parens.depth \in 0 .. ParensMax
        /\ state.topLevel.lhs \in 0 .. ByteMax /\ state.line.lhs \in 0 .. ByteMax
        /\ state.stackTracker.current \in 0 .. ByteMax /\ state.stackTracker.inputs \in 0 .. ByteMax
        /\ state.stackTracker.max \in 0 .. ByteMax
    BY <2>1 DEF StateType, ParensType, TopLevelType, LineType, TrackerType, Byte
  <2> QED BY <2>1, <2>2, <2>3, <2>4 DEF ParserTypeOK
<1> QED BY <1>1, ParserInvHolds, PTL

(* Between two lines of a text the height that the stack tracker counts is    *)
(* the number of the source's LHS items, whatever was read: the index that a  *)
(* name gets is the item of the stack it is given to (endLine,                *)
(* pushStackName).                                                            *)
THEOREM NamesStayHeights == DeployerSpec => []NamesAreHeights
<1>1. ParserInv => NamesAreHeights
  <2> SUFFICES ASSUME ParserInv, phase = "interstitial"
               PROVE  state.stackTracker.current = state.topLevel.lhs
    BY DEF NamesAreHeights
  <2>1. Shape(state) /\ Sound(state) /\ Top(state) = 0 /\ state.line.lhs = 0
    BY TokenFacts, LeftFacts DEF Between
  <2>2. PICK H, F, G : Ledger(state, 0, H, F, G) /\ Begun(state, H) = 0
    BY <2>1 DEF Sound
  <2>3. state.stackTracker.current \in Nat
    BY <2>1, LimitsAssumption DEF Shape, StateType, TrackerType, Byte
  <2> QED BY <2>1, <2>2, <2>3 DEF Ledger, HeightLedger
<1> QED BY <1>1, ParserInvHolds, PTL

(* What is built stays: no later token, line or sub parser changes an op that *)
(* is known, or moves a constant that an operand refers to.                   *)
THEOREM BuiltIsKept == DeployerSpec => BuiltStays
<1>1. ParserInv /\ [DeployerNext \/ DeployerDone]_deployerVars
        => [Builds(state, state')]_parserVars
  BY DeployerNextKeeps
<1>2. [Builds(state, state')]_parserVars =>
        [/\ IsPrefix(state.constants, state'.constants)
         /\ \A s \in DOMAIN state.sources : \A k \in DOMAIN state.sources[s].ops :
              state.sources[s].ops[k].code # "unknown" =>
                state'.sources[s].ops[k] = state.sources[s].ops[k]]_parserVars
  BY DEF Builds
<1> QED BY <1>1, <1>2, ParserInvHolds, PTL DEF DeployerSpec, BuiltStays
=============================================================================
