------------------------ MODULE IntegrityCheck_proofs ------------------------
(***************************************************************************)
(* Proofs about the integrity check, for every set of expressions, every   *)
(* nibble width and every extern.  The conjunction of the type invariant   *)
(* and CheckedBehindCursor is inductive.                                   *)
(***************************************************************************)
EXTENDS IntegrityCheck, Induction, SequenceTheorems, TLAPS

MarkType == [height : Nat, highwater : Nat]

(* What the walk keeps true at every step. *)
CheckInv == CheckTypeOK /\ CheckedBehindCursor

-----------------------------------------------------------------------------
(* The ops of a typed expression are ops. *)
LEMMA OpOfExpression ==
  ASSUME NEW sources \in Seq(Source), NEW s \in DOMAIN sources
  PROVE  /\ sources[s] \in Source
         /\ sources[s].ops \in Seq(Op)
         /\ Len(sources[s].ops) \in Nat
         /\ \A k \in 1 .. Len(sources[s].ops) : sources[s].ops[k] \in Op
<1>1. sources[s] \in Source
  BY ElementOfSeq, LenProperties
<1>2. sources[s].ops \in Seq(Op)
  BY <1>1 DEF Source
<1> QED
  BY <1>1, <1>2, ElementOfSeq, LenProperties

(* An integrity function answers numbers, where it does not revert. *)
LEMMA CalcIOType ==
  ASSUME NEW e, e.sources \in Seq(Source), NEW op \in Op, NEW h \in Nat,
         op.code # "invalid", OperandRevert(e, op, h) = "none",
         NEW io \in CalcIO(e, op)
  PROVE  io[1] \in Nat /\ io[2] \in Nat
<1>0. op.code \in Codes /\ op.arg \in Nat /\ op.ins \in Nat /\ op.outs \in Nat
  BY NibbleAssumption DEF Op, Nibble
<1>1. CASE op.code = "call"
  <2>1. op.arg \in DOMAIN e.sources
    BY <1>1 DEF OperandRevert, OutOfBoundsRead, OutOfBoundsConstant, SourceOutOfBounds
  <2>2. e.sources[op.arg].inputs \in Nat
    BY <2>1, OpOfExpression DEF Source
  <2> QED
    BY <1>0, <1>1, <2>2 DEF CalcIO
<1>2. CASE op.code = "extern"
  BY <1>2, NibbleAssumption DEF CalcIO, Nibble
<1>3. CASE op.code \in Codes \ {"call", "extern"}
  BY <1>0, <1>3 DEF CalcIO, FixedIO, Codes, PureCodes
<1> QED
  BY <1>0, <1>1, <1>2, <1>3

(* What the highwater and the heights move to are numbers. *)
LEMMA HeightsType ==
  ASSUME NEW op \in Op, NEW io, io[1] \in Nat, io[2] \in Nat,
         CheckTypeOK, ~Underflows(io)
  PROVE  /\ HeightAfter(io) \in Nat
         /\ MaxAfter(io) \in Nat
         /\ HighwaterAfterRead(op, readHighwater) \in Nat
         /\ HighwaterAfter(op, io) \in Nat
<1>1. op.arg \in Nat /\ {stackIndex, stackMaxIndex, readHighwater} \subseteq Nat
  BY DEF Op, CheckTypeOK
<1> QED
  BY <1>1 DEF HeightAfter, MaxAfter, HighwaterAfterRead, HighwaterAfter, Underflows

(* The op under the cursor is an op. *)
LEMMA CursorAtOp ==
  ASSUME CheckInv, AtOp
  PROVE  /\ source \in DOMAIN expression.sources
         /\ source \in Nat /\ opIndex \in Nat
         /\ CurrentSource \in Source
         /\ CurrentSource.ops \in Seq(Op)
         /\ Len(CurrentSource.ops) \in Nat
         /\ opIndex + 1 \in 1 .. Len(CurrentSource.ops)
         /\ CurrentOp = CurrentSource.ops[opIndex + 1]
         /\ CurrentOp \in Op
<1>1. source \in DOMAIN expression.sources
  BY DEF CheckInv, CheckedBehindCursor, CursorMarked, AtOp
<1>2. opIndex \in Nat /\ source \in Nat
  BY DEF CheckInv, CheckTypeOK
<1>3. expression.sources \in Seq(Source)
  BY DEF CheckInv, CheckTypeOK
<1>4. /\ CurrentSource \in Source
      /\ CurrentSource.ops \in Seq(Op)
      /\ Len(CurrentSource.ops) \in Nat
      /\ \A k \in 1 .. Len(CurrentSource.ops) : CurrentSource.ops[k] \in Op
  BY <1>1, <1>3, OpOfExpression, Zenon DEF CurrentSource
<1>5. opIndex < Len(CurrentSource.ops)
  BY DEF AtOp
<1>6. opIndex + 1 \in 1 .. Len(CurrentSource.ops)
  BY <1>2, <1>4, <1>5
<1>7. CurrentOp = CurrentSource.ops[opIndex + 1]
  BY Zenon DEF CurrentOp, CurrentSource, OpAt
<1> QED
  BY <1>1, <1>2, <1>4, <1>6, <1>7, Zenon

-----------------------------------------------------------------------------
(* The invariant, one lemma for each way the walk moves on. *)

LEMMA CheckInvInit == CheckInit => CheckInv
<1> SUFFICES ASSUME CheckInit PROVE CheckInv
  OBVIOUS
<1>1. expression.constants \in Seq(Value) /\ expression.sources \in Seq(Source)
  BY ExpressionsAssumption DEF CheckInit
<1>2. Len(expression.sources) \in Nat
  BY <1>1, LenProperties
<1>3. profile \in Seq(Seq(MarkType)) /\ Len(profile) = 0
  BY EmptySeq DEF CheckInit
<1>4. CheckTypeOK
  BY <1>1, <1>2, <1>3 DEF CheckInit, CheckTypeOK, Verdicts, MarkType
<1>5. CheckedBehindCursor
  BY <1>3 DEF CheckInit, CheckedBehindCursor
<1> QED
  BY <1>4, <1>5 DEF CheckInv

(* Checked sources stay checked while the profile of others changes. *)
LEMMA ChecksKept ==
  ASSUME expression' = expression, NEW s,
         s \in DOMAIN profile, SourceChecked(s), profile'[s] = profile[s],
         s \in DOMAIN profile'
  PROVE  s \in DOMAIN profile' /\ SourceChecked(s)'
BY DEF SourceChecked, OpsChecked

(* A source begins with what is true of no op. *)
LEMMA NewStateInv ==
  ASSUME CheckInv, NewState
  PROVE  CheckInv'
<1> DEFINE inputs == CurrentSource.inputs
           first == <<Mark(inputs, inputs)>>
<1>1. /\ profile \in Seq(Seq(MarkType)) /\ Len(profile) = source - 1
      /\ source \in Nat \ {0} /\ expression.sources \in Seq(Source)
      /\ Len(expression.sources) \in Nat
      /\ source \in 1 .. Len(expression.sources)
  <2>1. /\ profile \in Seq(Seq(MarkType))
        /\ source \in 1 .. (Len(expression.sources) + 1)
        /\ expression.sources \in Seq(Source)
    BY Zenon DEF CheckInv, CheckTypeOK, MarkType
  <2>2. Len(profile) = source - 1 /\ source <= Len(expression.sources)
    BY Zenon DEF CheckInv, CheckedBehindCursor, NewState
  <2>3. Len(expression.sources) \in Nat
    BY <2>1, LenProperties
  <2> QED
    BY <2>1, <2>2, <2>3
<1>2. /\ source \in DOMAIN expression.sources
      /\ CurrentSource \in Source /\ inputs \in Nat
      /\ Len(CurrentSource.ops) \in Nat
  BY <1>1, LenProperties, OpOfExpression DEF CurrentSource, Source
<1>3. first \in Seq(MarkType) /\ Len(first) = 1 /\ first[1] = Mark(inputs, inputs)
  BY <1>2 DEF Mark, MarkType
<1>4. /\ profile' = Append(profile, first)
      /\ UNCHANGED <<expression, source>>
      /\ verdict' = "ops" /\ opIndex' = 0
      /\ stackIndex' = inputs /\ stackMaxIndex' = inputs /\ readHighwater' = inputs
  BY DEF NewState
<1>5. /\ profile' \in Seq(Seq(MarkType)) /\ Len(profile') = source
      /\ DOMAIN profile' = 1 .. source /\ DOMAIN profile = 1 .. (source - 1)
      /\ \A s \in 1 .. (source - 1) : profile'[s] = profile[s]
      /\ profile'[source] = first
  BY <1>1, <1>3, <1>4, AppendProperties, LenProperties
<1>6. CheckTypeOK'
  BY <1>1, <1>2, <1>4, <1>5 DEF CheckInv, CheckTypeOK, Verdicts, MarkType
<1>7. \A s \in 1 .. (source' - 1) : s \in DOMAIN profile' /\ SourceChecked(s)'
  <2> SUFFICES ASSUME NEW s \in 1 .. (source - 1)
               PROVE  s \in DOMAIN profile' /\ SourceChecked(s)'
    BY <1>4
  <2>1. s \in DOMAIN profile /\ SourceChecked(s) /\ s \in DOMAIN profile'
    BY <1>1, <1>5 DEF CheckInv, CheckedBehindCursor
  <2> QED
    BY <2>1, <1>4, <1>5, ChecksKept
<1>8. CurrentSource' = CurrentSource
  BY <1>4 DEF CurrentSource
<1>9. CursorMarked'
  BY <1>1, <1>2, <1>3, <1>4, <1>5, <1>8 DEF CursorMarked, Mark
<1>10. OpsChecked(source, opIndex)'
  BY <1>2, <1>3, <1>4, <1>5 DEF OpsChecked, CurrentSource
<1> QED
  BY <1>4, <1>6, <1>7, <1>9, <1>10 DEF CheckInv, CheckedBehindCursor

(* An op that passes every check extends what is known by itself. *)
LEMMA AcceptOpInv ==
  ASSUME CheckInv, AtOp, NEW io, AcceptOp(CurrentOp, io)
  PROVE  CheckInv'
<1> DEFINE op == CurrentOp
           mark == Mark(HeightAfter(io), HighwaterAfter(op, io))
<1>1. /\ source \in DOMAIN expression.sources
      /\ source \in Nat /\ opIndex \in Nat
      /\ Len(CurrentSource.ops) \in Nat
      /\ opIndex + 1 \in 1 .. Len(CurrentSource.ops)
      /\ op = CurrentSource.ops[opIndex + 1] /\ op \in Op
  BY CursorAtOp
<1>2. /\ {stackIndex, stackMaxIndex, readHighwater} \subseteq Nat
      /\ profile \in Seq(Seq(MarkType))
      /\ expression.sources \in Seq(Source)
  BY DEF CheckInv, CheckTypeOK, MarkType
<1>3. /\ op.code # "invalid" /\ io \in CalcIO(expression, op)
      /\ OperandRevert(expression, op, stackIndex) = "none"
      /\ io[1] = op.ins /\ io[2] = op.outs
      /\ ~Underflows(io) /\ ~UnderflowsHighwater(op, io)
  BY DEF AcceptOp, Answers, Declared
<1>4. /\ stackIndex' = HeightAfter(io) /\ stackMaxIndex' = MaxAfter(io)
      /\ readHighwater' = HighwaterAfter(op, io) /\ opIndex' = opIndex + 1
      /\ profile' = [profile EXCEPT ![source] = Append(profile[source], mark)]
      /\ UNCHANGED <<expression, verdict, source>>
      /\ verdict = "ops"
  BY DEF AcceptOp, AtOp
<1>5. io[1] \in Nat /\ io[2] \in Nat
  BY <1>1, <1>2, <1>3, CalcIOType
<1>6. /\ HeightAfter(io) \in Nat /\ MaxAfter(io) \in Nat
      /\ HighwaterAfterRead(op, readHighwater) \in Nat
      /\ HighwaterAfter(op, io) \in Nat
  BY <1>1, <1>3, <1>5, HeightsType DEF CheckInv
<1>7. /\ mark \in MarkType
      /\ mark.height = HeightAfter(io) /\ mark.highwater = HighwaterAfter(op, io)
  BY <1>6 DEF Mark, MarkType
<1>8. CursorMarked /\ OpsChecked(source, opIndex)
  BY <1>4 DEF CheckInv, CheckedBehindCursor
<1>9. /\ source \in 1 .. Len(profile) /\ Len(profile) = source
      /\ profile[source] \in Seq(MarkType)
      /\ Len(profile[source]) = opIndex + 1
  BY <1>1, <1>2, <1>8, LenProperties, ElementOfSeq DEF CursorMarked, OpsChecked
<1> DEFINE marks == Append(profile[source], mark)
<1>10. /\ marks \in Seq(MarkType) /\ Len(marks) = opIndex + 2
       /\ \A k \in 1 .. (opIndex + 1) : marks[k] = profile[source][k]
       /\ marks[opIndex + 2] = mark
  BY <1>1, <1>7, <1>9, AppendProperties
<1>11. /\ profile' \in Seq(Seq(MarkType)) /\ Len(profile') = source
       /\ profile'[source] = marks
       /\ DOMAIN profile' = DOMAIN profile
       /\ \A s \in DOMAIN profile : s # source => profile'[s] = profile[s]
  <2> HIDE DEF marks
  <2>1. profile' = [profile EXCEPT ![source] = marks]
    BY <1>4 DEF marks
  <2> QED
    BY <2>1, <1>2, <1>9, <1>10, ExceptSeq, LenProperties
<1>12. CheckTypeOK'
  BY <1>1, <1>2, <1>4, <1>6, <1>11 DEF CheckInv, CheckTypeOK, MarkType
<1>13. \A s \in 1 .. (source' - 1) : s \in DOMAIN profile' /\ SourceChecked(s)'
  <2> SUFFICES ASSUME NEW s \in 1 .. (source - 1)
               PROVE  s \in DOMAIN profile' /\ SourceChecked(s)'
    BY <1>4
  <2>1. s \in DOMAIN profile /\ SourceChecked(s) /\ s # source
    BY <1>1 DEF CheckInv, CheckedBehindCursor
  <2> QED
    BY <2>1, <1>4, <1>11, ChecksKept
<1>14. CurrentSource' = CurrentSource
  BY <1>4 DEF CurrentSource
<1>15. CursorMarked'
  <2> HIDE DEF marks
  <2>1. \A k \in 1 .. (opIndex + 1) : profile[source][k].height \in Nat
    <3> SUFFICES ASSUME NEW k \in 1 .. (opIndex + 1)
                 PROVE  profile[source][k].height \in Nat
      OBVIOUS
    <3>1. profile[source][k] \in MarkType
      BY <1>9, ElementOfSeq
    <3> QED
      BY <3>1 DEF MarkType
  <2>2. HeightAfter(io) <= MaxAfter(io) /\ stackMaxIndex <= MaxAfter(io)
    BY <1>2, <1>6 DEF MaxAfter
  <2>3. \A k \in 1 .. (opIndex + 2) : marks[k].height <= MaxAfter(io)
    <3> SUFFICES ASSUME NEW k \in 1 .. (opIndex + 2)
                 PROVE  marks[k].height <= MaxAfter(io)
      OBVIOUS
    <3>1. CASE k = opIndex + 2
      BY <3>1, <1>7, <1>10, <2>2
    <3>2. CASE k \in 1 .. (opIndex + 1)
      <4>1. profile[source][k].height <= stackMaxIndex
        BY <3>2, <1>8 DEF CursorMarked
      <4> QED
        <5>1. marks[k] = profile[source][k]
          BY <3>2, <1>10
        <5>2. profile[source][k].height \in Nat
          BY <3>2, <2>1
        <5>3. profile[source][k].height <= MaxAfter(io)
          <6>1. stackMaxIndex \in Nat /\ MaxAfter(io) \in Nat
            BY <1>2, <1>6
          <6> QED
            BY <4>1, <5>2, <6>1, <2>2
        <5> QED
          BY <5>1, <5>3
    <3> QED
      BY <3>1, <3>2, <1>1
  <2> QED
    BY <1>1, <1>4, <1>10, <1>11, <1>14, <2>3 DEF CursorMarked
<1>16. OpsChecked(source, opIndex)'
  <2> HIDE DEF marks
  <2>1. profile[source][opIndex + 1] = Mark(stackIndex, readHighwater)
    BY <1>8 DEF CursorMarked
  <2>2. OpChecked(expression, op, Mark(stackIndex, readHighwater), mark)
    <3>1. <<op.ins, op.outs>> \in CalcIO(expression, op)
      <4>1. io = <<io[1], io[2]>>
        BY <1>1, <1>3 DEF CalcIO, FixedIO, Codes, PureCodes, Op
      <4> QED
        BY <4>1, <1>3
    <3>2. op.ins <= stackIndex
      BY <1>2, <1>3, <1>5 DEF Underflows
    <3>3. HighwaterAfterRead(op, readHighwater) <= stackIndex - op.ins
      BY <1>2, <1>3, <1>5, <1>6 DEF UnderflowsHighwater
    <3> QED
      BY <1>3, <1>7, <3>1, <3>2, <3>3
      DEF OpChecked, Mark, HeightAfter, HighwaterAfter
  <2>3. \A k \in 1 .. (opIndex + 1) :
          OpChecked(expression, CurrentSource.ops[k], marks[k], marks[k + 1])
    <3> SUFFICES ASSUME NEW k \in 1 .. (opIndex + 1)
                 PROVE  OpChecked(expression, CurrentSource.ops[k], marks[k], marks[k + 1])
      OBVIOUS
    <3>1. CASE k = opIndex + 1
      BY <3>1, <1>1, <1>10, <2>1, <2>2
    <3>2. CASE k \in 1 .. opIndex
      <4>1. marks[k] = profile[source][k] /\ marks[k + 1] = profile[source][k + 1]
        BY <3>2, <1>1, <1>10
      <4> QED
        BY <3>2, <4>1, <1>8 DEF OpsChecked, CurrentSource
    <3> QED
      BY <3>1, <3>2, <1>1
  <2>4. marks[1] = Mark(CurrentSource.inputs, CurrentSource.inputs)
    BY <1>1, <1>8, <1>10 DEF OpsChecked, CurrentSource
  <2>5. /\ expression' = expression /\ source' = source /\ opIndex' = opIndex + 1
        /\ profile'[source] = marks /\ Len(marks) = (opIndex + 1) + 1
    BY <1>1, <1>4, <1>10, <1>11
  <2>6. /\ CurrentSource = expression.sources[source]
        /\ profile'[source'] = marks
    BY <2>5 DEF CurrentSource
  <2> HIDE DEF marks
  <2> QED
    BY <2>3, <2>4, <2>5, <2>6, ZenonT(30) DEF OpsChecked
<1> QED
  BY <1>4, <1>12, <1>13, <1>15, <1>16 DEF CheckInv, CheckedBehindCursor

(* A revert leaves the walk where it is. *)
LEMMA RevertInv ==
  ASSUME CheckInv, NEW error \in Reverts, RevertWith(error)
  PROVE  CheckInv'
<1>1. /\ verdict' = error
      /\ UNCHANGED <<expression, source, opIndex, stackIndex, stackMaxIndex,
                     readHighwater, profile>>
  BY DEF RevertWith, walkVars
<1>2. error \in Verdicts /\ error \notin {"source", "ops", "ok"}
  BY DEF Verdicts, Reverts
<1>3. CheckTypeOK'
  BY <1>1, <1>2 DEF CheckInv, CheckTypeOK
<1>4. \A s \in 1 .. (source - 1) : s \in DOMAIN profile' /\ SourceChecked(s)'
  BY <1>1, ChecksKept DEF CheckInv, CheckedBehindCursor
<1> QED
  BY <1>1, <1>2, <1>3, <1>4 DEF CheckInv, CheckedBehindCursor

(* A source that ends as declared is checked as a whole. *)
LEMMA EndSourceInv ==
  ASSUME CheckInv, EndSource
  PROVE  CheckInv'
<1>1. /\ verdict = "ops" /\ verdict' = "source" /\ source' = source + 1
      /\ opIndex = Len(CurrentSource.ops)
      /\ stackMaxIndex = CurrentSource.alloc /\ stackIndex = CurrentSource.outputs
      /\ UNCHANGED <<expression, opIndex, stackIndex, stackMaxIndex, readHighwater, profile>>
  BY DEF EndSource, AtEnd
<1>2. CursorMarked /\ OpsChecked(source, opIndex)
  BY <1>1 DEF CheckInv, CheckedBehindCursor
<1>3. /\ source \in Nat \ {0} /\ expression.sources \in Seq(Source)
      /\ Len(expression.sources) \in Nat /\ profile \in Seq(Seq(MarkType))
      /\ source \in 1 .. Len(expression.sources)
      /\ Len(profile) = source
  <2>1. expression.sources \in Seq(Source) /\ profile \in Seq(Seq(MarkType))
    BY DEF CheckInv, CheckTypeOK, MarkType
  <2>2. source \in DOMAIN expression.sources /\ Len(profile) = source
    BY <1>2 DEF CursorMarked
  <2> QED
    BY <2>1, <2>2, LenProperties
<1>4. CheckTypeOK'
  BY <1>1, <1>3 DEF CheckInv, CheckTypeOK, Verdicts
<1>5. SourceChecked(source)
  BY <1>1, <1>2 DEF SourceChecked, CursorMarked, CurrentSource, Mark
<1>6. \A s \in 1 .. source : s \in DOMAIN profile' /\ SourceChecked(s)'
  <2> SUFFICES ASSUME NEW s \in 1 .. source
               PROVE  s \in DOMAIN profile' /\ SourceChecked(s)'
    OBVIOUS
  <2>1. s \in DOMAIN profile
    BY <1>3, LenProperties
  <2>2. SourceChecked(s)
    <3>1. CASE s = source
      BY <3>1, <1>5
    <3>2. CASE s \in 1 .. (source - 1)
      BY <3>2 DEF CheckInv, CheckedBehindCursor
    <3> QED
      BY <3>1, <3>2, <1>3
  <2> QED
    BY <2>1, <2>2, <1>1, ChecksKept
<1> QED
  BY <1>1, <1>3, <1>4, <1>6 DEF CheckInv, CheckedBehindCursor

(* An expression is accepted when all its sources are. *)
LEMMA AcceptInv ==
  ASSUME CheckInv, Accept
  PROVE  CheckInv'
<1>1. /\ verdict = "source" /\ verdict' = "ok" /\ source > Len(expression.sources)
      /\ UNCHANGED <<expression, source, opIndex, stackIndex, stackMaxIndex,
                     readHighwater, profile>>
  BY DEF Accept, walkVars
<1>2. Len(expression.sources) \in Nat /\ source \in 1 .. (Len(expression.sources) + 1)
  BY LenProperties DEF CheckInv, CheckTypeOK
<1>3. CheckTypeOK'
  BY <1>1 DEF CheckInv, CheckTypeOK, Verdicts
<1>4. \A s \in 1 .. (source - 1) : s \in DOMAIN profile' /\ SourceChecked(s)'
  BY <1>1, ChecksKept DEF CheckInv, CheckedBehindCursor
<1> QED
  BY <1>1, <1>2, <1>3, <1>4 DEF CheckInv, CheckedBehindCursor

(* Every op is accepted or reverts. *)
LEMMA CheckOpInv ==
  ASSUME CheckInv, AtOp, CheckOp(CurrentOp)
  PROVE  CheckInv'
<1>1. OperandRevert(expression, CurrentOp, stackIndex) # "none" =>
        OperandRevert(expression, CurrentOp, stackIndex) \in Reverts
  BY DEF OperandRevert, Reverts
<1>2. CASE RevertOpcode(CurrentOp)
  BY <1>2, RevertInv DEF RevertOpcode, Reverts
<1>3. CASE RevertOperand(CurrentOp)
  BY <1>1, <1>3, RevertInv DEF RevertOperand
<1>4. CASE RevertExtern(CurrentOp)
  BY <1>4, RevertInv DEF RevertExtern, Reverts
<1>5. CASE \E io : \/ AcceptOp(CurrentOp, io)
                  \/ RevertInputs(CurrentOp, io)
                  \/ RevertOutputs(CurrentOp, io)
                  \/ RevertUnderflow(CurrentOp, io)
                  \/ RevertHighwater(CurrentOp, io)
  <2>1. PICK io : \/ AcceptOp(CurrentOp, io)
                  \/ RevertInputs(CurrentOp, io)
                  \/ RevertOutputs(CurrentOp, io)
                  \/ RevertUnderflow(CurrentOp, io)
                  \/ RevertHighwater(CurrentOp, io)
    BY <1>5
  <2>2. CASE AcceptOp(CurrentOp, io)
    BY <2>2, AcceptOpInv
  <2>3. CASE RevertInputs(CurrentOp, io)
    BY <2>3, RevertInv DEF RevertInputs, Reverts
  <2>4. CASE RevertOutputs(CurrentOp, io)
    BY <2>4, RevertInv DEF RevertOutputs, Reverts
  <2>5. CASE RevertUnderflow(CurrentOp, io)
    BY <2>5, RevertInv DEF RevertUnderflow, Reverts
  <2>6. CASE RevertHighwater(CurrentOp, io)
    BY <2>6, RevertInv DEF RevertHighwater, Reverts
  <2> QED
    BY <2>1, <2>2, <2>3, <2>4, <2>5, <2>6
<1> QED
  BY <1>2, <1>3, <1>4, <1>5 DEF CheckOp

(* The invariant is inductive; the steps of an evaluation leave it alone. *)
LEMMA CheckInvNext ==
  ASSUME CheckInv, CheckNext \/ UNCHANGED checkVars
  PROVE  CheckInv'
<1>1. CASE NewState
  BY <1>1, NewStateInv
<1>2. CASE AtOp /\ CheckOp(CurrentOp)
  BY <1>2, CheckOpInv
<1>3. CASE RevertAllocation
  BY <1>3, RevertInv DEF RevertAllocation, Reverts
<1>4. CASE RevertSourceOutputs
  BY <1>4, RevertInv DEF RevertSourceOutputs, Reverts
<1>5. CASE EndSource
  BY <1>5, EndSourceInv
<1>6. CASE Accept
  BY <1>6, AcceptInv
<1>7. CASE UNCHANGED checkVars
  <2>1. UNCHANGED <<expression, verdict, source, opIndex, stackIndex, stackMaxIndex,
                    readHighwater, profile>>
    BY <1>7 DEF checkVars, walkVars
  <2>2. CheckTypeOK'
    BY <2>1 DEF CheckInv, CheckTypeOK
  <2>3. \A s \in 1 .. (source - 1) : s \in DOMAIN profile' /\ SourceChecked(s)'
    BY <2>1, ChecksKept DEF CheckInv, CheckedBehindCursor
  <2>4. verdict = "ops" => CursorMarked' /\ OpsChecked(source, opIndex)'
    BY <2>1 DEF CheckInv, CheckedBehindCursor, CursorMarked, CurrentSource, OpsChecked
  <2> QED
    BY <2>1, <2>2, <2>3, <2>4 DEF CheckInv, CheckedBehindCursor
<1> QED
  BY <1>1, <1>2, <1>3, <1>4, <1>5, <1>6, <1>7 DEF CheckNext

-----------------------------------------------------------------------------
(* The walk keeps CheckInv, for any expressions. *)
LEMMA CheckInvariant == CheckSpec => []CheckInv
<1>1. CheckInit => CheckInv
  BY CheckInvInit
<1>2. CheckInv /\ [CheckNext \/ CheckDone]_checkVars => CheckInv'
  BY CheckInvNext DEF CheckDone
<1> QED
  BY <1>1, <1>2, PTL DEF CheckSpec

(* The walk of integrityCheck2 keeps the types of its variables, in         *)
(* particular no unsigned height ever goes below zero.                      *)
THEOREM CheckTypeCorrect == CheckSpec => []CheckTypeOK
<1>1. CheckInv => CheckTypeOK
  BY DEF CheckInv
<1> QED
  BY <1>1, CheckInvariant, PTL

(* Whatever bytecode it is given, integrityCheck2 has established for every *)
(* op behind its cursor all that the evaluation relies on.                  *)
THEOREM ChecksEveryOp == CheckSpec => []CheckedBehindCursor
<1>1. CheckInv => CheckedBehindCursor
  BY DEF CheckInv
<1> QED
  BY <1>1, CheckInvariant, PTL

-----------------------------------------------------------------------------
(* The walk and the validation of whole sources.  What the walk keeps in    *)
(* two counters, Validation says of all the ops before: the marks of the    *)
(* first n ops of a source are its heights and what is protected in it.     *)

WalkedTo(e, src, marks, n) ==
  /\ marks[1] = Mark(src.inputs, src.inputs)
  /\ \A k \in 1 .. n : OpChecked(e, src.ops[k], marks[k], marks[k + 1])

LEMMA OpsOfSource ==
  ASSUME NEW src \in Source
  PROVE  /\ src.inputs \in Nat /\ src.outputs \in Nat /\ src.alloc \in Nat
         /\ Len(src.ops) \in Nat
         /\ \A k \in 1 .. Len(src.ops) :
              /\ src.ops[k] \in Op
              /\ src.ops[k].ins \in Nat /\ src.ops[k].outs \in Nat /\ src.ops[k].arg \in Nat
<1>1. src.ops \in Seq(Op)
  BY DEF Source
<1>2. \A k \in 1 .. Len(src.ops) : src.ops[k] \in Op
  BY <1>1, ElementOfSeq
<1> QED
  BY <1>1, <1>2, LenProperties, NibbleAssumption, SMTT(30) DEF Source, Op, Nibble

(* The heights of a source follow from its ops, one by one. *)
LEMMA HeightSteps ==
  ASSUME NEW src \in Source
  PROVE  /\ Abstract!Height(src) \in [0 .. Len(src.ops) -> Int]
         /\ Abstract!Height(src)[0] = src.inputs
         /\ \A k \in 1 .. Len(src.ops) :
              Abstract!Height(src)[k]
                = Abstract!Height(src)[k - 1] - src.ops[k].ins + src.ops[k].outs
<1> DEFINE N == Len(src.ops)
           Turn(h, k) == h - src.ops[k].ins + src.ops[k].outs
           F == [x \in Int \X Nat |-> IF x[2] \in 1 .. N THEN Turn(x[1], x[2]) ELSE x[1]]
           IsHeight(g) == g = [k \in 0 .. N |-> IF k = 0 THEN src.inputs ELSE Turn(g[k - 1], k)]
<1>1. /\ N \in Nat /\ src.inputs \in Int
      /\ \A k \in 1 .. N : src.ops[k].ins \in Nat /\ src.ops[k].outs \in Nat
  BY OpsOfSource
<1> HIDE DEF N
<1>2. F \in [Int \X Nat -> Int]
  BY <1>1
<1>3. PICK g : Recurs(g, N, Int, src.inputs, F)
  <2> HIDE DEF F
  <2> QED BY <1>1, <1>2, RecursionExists
<1>4. ASSUME NEW k \in 1 .. N PROVE g[k] = Turn(g[k - 1], k)
  <2>1. k - 1 \in 0 .. N /\ k \in Nat
    BY <1>1
  <2>2. <<g[k - 1], k>> \in Int \X Nat
    BY <1>3, <2>1 DEF Recurs
  <2> HIDE DEF Turn
  <2> QED BY <1>3, <1>4, <2>2 DEF Recurs
<1>5. IsHeight(g)
  <2> HIDE DEF Turn, F
  <2> QED BY <1>1, <1>3, <1>4 DEF Recurs
<1> DEFINE H == CHOOSE h : IsHeight(h)
<1>6. IsHeight(H)
  <2> HIDE DEF IsHeight
  <2> QED BY <1>5
<1>7. Abstract!Height(src) = H
  BY DEF Abstract!Height, N
<1>8. H[0] = src.inputs /\ \A k \in 1 .. N : H[k] = Turn(H[k - 1], k)
  <2> HIDE DEF Turn, H
  <2>1. \A k \in 0 .. N : H[k] = IF k = 0 THEN src.inputs ELSE Turn(H[k - 1], k)
    BY <1>6
  <2>2. 0 \in 0 .. N /\ \A k \in 1 .. N : k \in 0 .. N /\ k # 0
    BY <1>1
  <2> QED BY <2>1, <2>2
<1>9. \A k \in 0 .. N : H[k] \in Int
  <2> DEFINE T == {k \in 0 .. N : H[k] \in Int}
  <2> HIDE DEF H
  <2>1. 0 \in T
    BY <1>1, <1>8
  <2>2. ASSUME NEW k \in 0 .. (N - 1), k \in T PROVE k + 1 \in T
    <3>1. k + 1 \in 1 .. N /\ (k + 1) - 1 = k
      BY <1>1
    <3>2. H[k + 1] = Turn(H[k], k + 1) /\ H[k] \in Int
      BY <1>8, <2>2, <3>1
    <3> QED BY <1>1, <3>1, <3>2
  <2> HIDE DEF T
  <2>3. \A k \in 0 .. N : k \in T
    BY <1>1, <2>1, <2>2, BoundedInduction
  <2> QED BY <2>3 DEF T
<1>10. H \in [0 .. N -> Int]
  <2> HIDE DEF H, Turn
  <2> QED BY <1>6, <1>9
<1> HIDE DEF H
<1> QED BY <1>7, <1>8, <1>10 DEF N

(* The height that the walk has marked is the height by the ops' IO. *)
LEMMA MarksAreHeights ==
  ASSUME NEW e, NEW src \in Source, NEW n \in 0 .. Len(src.ops), NEW marks,
         WalkedTo(e, src, marks, n)
  PROVE  \A k \in 0 .. n : marks[k + 1].height = Abstract!Height(src)[k]
<1> DEFINE H == Abstract!Height(src)
           T == {k \in 0 .. n : marks[k + 1].height = H[k]}
<1>1. n \in Nat /\ Len(src.ops) \in Nat
  BY OpsOfSource
<1>2. H[0] = src.inputs /\ \A k \in 1 .. Len(src.ops) : H[k] = H[k - 1] - src.ops[k].ins + src.ops[k].outs
  BY HeightSteps
<1> HIDE DEF H
<1>3. 0 \in T
  BY <1>1, <1>2 DEF WalkedTo, Mark
<1>4. ASSUME NEW k \in 0 .. (n - 1), k \in T PROVE k + 1 \in T
  <2>1. k + 1 \in 1 .. n /\ k + 1 \in 1 .. Len(src.ops) /\ (k + 1) - 1 = k
    BY <1>1
  <2>2. marks[(k + 1) + 1].height = marks[k + 1].height - src.ops[k + 1].ins + src.ops[k + 1].outs
    BY <2>1 DEF WalkedTo, OpChecked
  <2> QED BY <1>2, <1>4, <2>1, <2>2
<1> HIDE DEF T
<1>5. \A k \in 0 .. n : k \in T
  BY <1>1, <1>3, <1>4, BoundedInduction
<1> QED BY <1>5 DEF T, H

(* A read is the only op that moves the highwater otherwise than by what it *)
(* writes, and writes one word.                                             *)
LEMMA ReadsWriteOne ==
  ASSUME NEW e, NEW op, op.code = "stack", <<op.ins, op.outs>> \in CalcIO(e, op)
  PROVE  op.ins = 0 /\ op.outs = 1
  BY DEF CalcIO, FixedIO

(* What the walk has marked as the highwater is what is protected.  It is   *)
(* on the stack.                                                            *)
LEMMA HighwaterIsProtected ==
  ASSUME NEW e, NEW src \in Source, NEW n \in 0 .. Len(src.ops), NEW marks,
         WalkedTo(e, src, marks, n)
  PROVE  \A k \in 0 .. n :
           /\ marks[k + 1].height \in Nat /\ marks[k + 1].highwater \in Nat
           /\ marks[k + 1].highwater <= marks[k + 1].height
           /\ \A i \in Int : Abstract!Protected(src, k, i) <=> i < marks[k + 1].highwater
<1> DEFINE H == Abstract!Height(src)
           Right(k) ==
             /\ marks[k + 1].height \in Nat /\ marks[k + 1].highwater \in Nat
             /\ marks[k + 1].highwater <= marks[k + 1].height
             /\ \A i \in Int : Abstract!Protected(src, k, i) <=> i < marks[k + 1].highwater
           T == {k \in 0 .. n : Right(k)}
<1>1. n \in Nat /\ Len(src.ops) \in Nat
  BY OpsOfSource
<1>2. \A k \in 0 .. n : marks[k + 1].height = H[k]
  BY MarksAreHeights
<1>3. 0 \in T
  <2>1. \A i \in Int : Abstract!Protected(src, 0, i) <=> i < src.inputs
    BY DEF Abstract!Protected
  <2>2. src.inputs \in Nat /\ marks[0 + 1] = Mark(src.inputs, src.inputs)
    BY OpsOfSource DEF WalkedTo
  <2> QED BY <1>1, <2>1, <2>2 DEF Mark
<1>4. ASSUME NEW k \in 0 .. (n - 1), Right(k) PROVE Right(k + 1)
  <2> DEFINE op == src.ops[k + 1]
             before == marks[k + 1]
             after == marks[(k + 1) + 1]
  <2>1. k \in Nat /\ k + 1 \in 1 .. n /\ k + 1 \in 0 .. n /\ k + 1 \in 1 .. Len(src.ops)
    BY <1>1
  <2>2. op.ins \in Nat /\ op.outs \in Nat /\ op.arg \in Nat
    BY <2>1, OpsOfSource
  <2>3. /\ op.ins <= before.height
        /\ <<op.ins, op.outs>> \in CalcIO(e, op)
        /\ after.height = before.height - op.ins + op.outs
        /\ HighwaterAfterRead(op, before.highwater) <= before.height - op.ins
        /\ after.highwater = IF op.outs > 1 THEN after.height
                             ELSE HighwaterAfterRead(op, before.highwater)
    BY <2>1 DEF WalkedTo, OpChecked
  <2>4. after.height = H[k + 1]
    BY <1>2, <2>1
  <2>5. /\ before.height \in Nat /\ before.highwater \in Nat /\ before.highwater <= before.height
        /\ \A i \in Int : Abstract!Protected(src, k, i) <=> i < before.highwater
    BY <1>4
  <2>6. \A i \in Int : Abstract!Protected(src, k + 1, i) <=>
          \/ Abstract!Protected(src, k, i)
          \/ op.outs > 1 /\ i < after.height
          \/ op.code = "stack" /\ i < op.arg
    <3> TAKE i \in Int
    <3> DEFINE By(j) == \/ src.ops[j].outs > 1 /\ i < H[j]
                        \/ src.ops[j].code = "stack" /\ i < src.ops[j].arg
    <3>1. \A m \in Nat : Abstract!Protected(src, m, i) <=> i < src.inputs \/ \E j \in 1 .. m : By(j)
      BY DEF Abstract!Protected
    <3>2. By(k + 1) <=> \/ op.outs > 1 /\ i < after.height
                        \/ op.code = "stack" /\ i < op.arg
      BY <2>4
    <3> HIDE DEF By
    <3>3. (\E j \in 1 .. (k + 1) : By(j)) <=> (\E j \in 1 .. k : By(j)) \/ By(k + 1)
      BY <2>1
    <3> QED BY <2>1, <3>1, <3>2, <3>3
  <2> HIDE DEF op, before, after
  <2>7. HighwaterAfterRead(op, before.highwater) \in Nat
        /\ before.highwater <= HighwaterAfterRead(op, before.highwater)
        /\ \A i \in Int : i < HighwaterAfterRead(op, before.highwater) <=>
                            i < before.highwater \/ (op.code = "stack" /\ i < op.arg)
    BY <2>2, <2>5 DEF HighwaterAfterRead
  <2>8. after.height \in Nat /\ after.highwater \in Nat /\ after.highwater <= after.height
    BY <2>2, <2>3, <2>5, <2>7, SMTT(30)
  <2>9. \A i \in Int : Abstract!Protected(src, k + 1, i) <=> i < after.highwater
    <3>1. CASE op.outs > 1
      <4>1. op.code # "stack"
        BY <2>3, <3>1, ReadsWriteOne
      <4>2. before.highwater <= after.height /\ after.highwater = after.height
        BY <2>2, <2>3, <2>5, <2>7, <3>1, SMTT(30)
      <4> QED BY <2>5, <2>6, <2>8, <3>1, <4>1, <4>2
    <3>2. CASE ~(op.outs > 1)
      BY <2>3, <2>5, <2>6, <2>7, <3>2
    <3> QED BY <3>1, <3>2
  <2> QED BY <2>8, <2>9 DEF after
<1>5. ASSUME NEW k \in 0 .. (n - 1), k \in T PROVE k + 1 \in T
  <2>1. k + 1 \in 0 .. n
    BY <1>1
  <2> HIDE DEF Right
  <2> QED BY <1>4, <1>5, <2>1
<1> HIDE DEF T
<1>6. \A k \in 0 .. n : k \in T
  BY <1>1, <1>3, <1>5, BoundedInduction
<1> HIDE DEF Right
<1>7. \A k \in 0 .. n : Right(k)
  BY <1>6 DEF T
<1> QED BY <1>7 DEF Right

(* The validation judges ops by the same integrity functions. *)
LEMMA SameFunctions ==
  ASSUME NEW e, NEW op, NEW h
  PROVE  /\ Abstract!OperandRevert(e, op, h) = OperandRevert(e, op, h)
         /\ Abstract!CalcIO(e, op) = CalcIO(e, op)
<1>1. /\ Abstract!OutOfBoundsRead(op, h) = OutOfBoundsRead(op, h)
      /\ Abstract!OutOfBoundsConstant(e, op) = OutOfBoundsConstant(e, op)
      /\ Abstract!SourceOutOfBounds(e, op) = SourceOutOfBounds(e, op)
      /\ Abstract!OutputsExceedSource(e, op) = OutputsExceedSource(e, op)
  BY Zenon DEF OutOfBoundsRead, Abstract!OutOfBoundsRead, OutOfBoundsConstant,
         Abstract!OutOfBoundsConstant, SourceOutOfBounds, Abstract!SourceOutOfBounds,
         OutputsExceedSource, Abstract!OutputsExceedSource
<1>2. Abstract!OperandRevert(e, op, h) = OperandRevert(e, op, h)
  BY <1>1, Zenon DEF OperandRevert, Abstract!OperandRevert
<1>3. Abstract!CalcIO(e, op) = CalcIO(e, op)
  BY Zenon DEF CalcIO, Abstract!CalcIO, FixedIO, Abstract!FixedIO, Nibble, Abstract!Nibble
<1> QED BY <1>2, <1>3

(* An op that the walk has accepted is well formed. *)
LEMMA WalkedIsWellFormed ==
  ASSUME NEW e, NEW src \in Source, NEW n \in 0 .. Len(src.ops), NEW marks,
         WalkedTo(e, src, marks, n), NEW k \in 0 .. (n - 1)
  PROVE  Abstract!WellFormedOp(e, src, k)
<1> DEFINE op == src.ops[k + 1]
           h == Abstract!Height(src)[k]
           highwater == marks[k + 1].highwater
<1>1. n \in Nat /\ Len(src.ops) \in Nat
  BY OpsOfSource
<1>2. k \in 0 .. n /\ k + 1 \in 1 .. n /\ k + 1 \in 1 .. Len(src.ops)
  BY <1>1
<1>3. op.ins \in Nat /\ op.outs \in Nat /\ op.arg \in Nat
  BY <1>2, OpsOfSource
<1>4. marks[k + 1].height = h
  BY <1>2, MarksAreHeights
<1>5. /\ h \in Nat /\ highwater \in Nat /\ highwater <= h
      /\ \A i \in Int : Abstract!Protected(src, k, i) <=> i < highwater
  BY <1>2, <1>4, HighwaterIsProtected
<1>6. /\ op.code # "invalid"
      /\ OperandRevert(e, op, h) = "none"
      /\ <<op.ins, op.outs>> \in CalcIO(e, op)
      /\ op.ins <= h
      /\ HighwaterAfterRead(op, highwater) <= h - op.ins
  BY <1>2, <1>4 DEF WalkedTo, OpChecked
<1>7. \A i \in (h - op.ins) .. (h - 1) : ~Abstract!Protected(src, k, i)
  <2> HIDE DEF h, op, highwater
  <2>1. highwater <= HighwaterAfterRead(op, highwater) /\ HighwaterAfterRead(op, highwater) \in Nat
    BY <1>3, <1>5 DEF HighwaterAfterRead
  <2> TAKE i \in (h - op.ins) .. (h - 1)
  <2>2. i \in Int /\ h - op.ins <= i
    BY <1>3, <1>5
  <2>3. ~(i < highwater)
    BY <1>3, <1>5, <1>6, <2>1, <2>2
  <2> QED BY <1>5, <2>2, <2>3
<1>8. /\ op.code # "invalid"
      /\ OperandRevert(e, op, h) = "none"
      /\ <<op.ins, op.outs>> \in CalcIO(e, op)
      /\ op.ins <= h
      /\ \A i \in (h - op.ins) .. (h - 1) : ~Abstract!Protected(src, k, i)
  BY <1>6, <1>7
<1> QED BY <1>8, SameFunctions, Zenon DEF Abstract!WellFormedOp

(* A source of an expression whose walk has come to its end is well formed, *)
(* when the peak that was compared to its allocation is a height it has.    *)
LEMMA CheckedIsWellFormed ==
  ASSUME NEW e, NEW src \in Source, NEW marks,
         WalkedTo(e, src, marks, Len(src.ops)),
         marks[Len(src.ops) + 1].height = src.outputs,
         \A k \in 1 .. (Len(src.ops) + 1) : marks[k].height <= src.alloc,
         \E k \in 1 .. (Len(src.ops) + 1) : marks[k].height = src.alloc
  PROVE  Abstract!WellFormedSource(e, src)
<1> DEFINE n == Len(src.ops)
           H == Abstract!Height(src)
<1>1. n \in Nat /\ n \in 0 .. n
  BY OpsOfSource
<1>2. \A k \in 0 .. n : marks[k + 1].height = H[k]
  BY <1>1, MarksAreHeights, ZenonT(60)
<1>3. \A k \in 0 .. (n - 1) : Abstract!WellFormedOp(e, src, k)
  BY <1>1, WalkedIsWellFormed
<1> HIDE DEF H
<1>4. \A k \in 0 .. n : H[k] <= src.alloc
  <2> TAKE k \in 0 .. n
  <2>1. k + 1 \in 1 .. (n + 1)
    BY <1>1
  <2> QED BY <1>2, <2>1
<1>5. \E k \in 0 .. n : H[k] = src.alloc
  <2>1. PICK j \in 1 .. (n + 1) : marks[j].height = src.alloc
    OBVIOUS
  <2>2. j - 1 \in 0 .. n /\ (j - 1) + 1 = j
    BY <1>1
  <2> QED BY <1>2, <2>1, <2>2
<1>6. H[n] = src.outputs
  BY <1>1, <1>2
<1> QED BY <1>3, <1>4, <1>5, <1>6 DEF Abstract!WellFormedSource, H

(* What the walk has compared its peak to: each peak is one of the heights. *)
PeaksReached ==
  /\ verdict = "ops" =>
       \E k \in 1 .. (opIndex + 1) : profile[source][k].height = stackMaxIndex
  /\ \A s \in 1 .. (source - 1) :
       \E k \in 1 .. (Len(expression.sources[s].ops) + 1) :
         profile[s][k].height = expression.sources[s].alloc

WalkInv == CheckInv /\ PeaksReached

(* The walk up to its cursor, in the words of the lemmas above. *)
LEMMA CursorWalked ==
  ASSUME CheckInv, verdict = "ops"
  PROVE  /\ source \in DOMAIN expression.sources
         /\ CurrentSource = expression.sources[source]
         /\ CurrentSource \in Source
         /\ opIndex \in 0 .. Len(CurrentSource.ops)
         /\ WalkedTo(expression, CurrentSource, profile[source], opIndex)
         /\ profile[source][opIndex + 1] = Mark(stackIndex, readHighwater)
         /\ \A k \in 1 .. (opIndex + 1) : profile[source][k].height <= stackMaxIndex
<1>1. CursorMarked /\ OpsChecked(source, opIndex)
  BY DEF CheckInv, CheckedBehindCursor
<1>2. source \in DOMAIN expression.sources /\ CurrentSource = expression.sources[source]
  BY <1>1 DEF CursorMarked, CurrentSource
<1>3. CurrentSource \in Source /\ Len(CurrentSource.ops) \in Nat
  BY <1>2, OpOfExpression DEF CheckInv, CheckTypeOK
<1>4. opIndex \in Nat /\ opIndex <= Len(CurrentSource.ops)
  BY <1>1 DEF CheckInv, CheckTypeOK, CursorMarked
<1>5. WalkedTo(expression, CurrentSource, profile[source], opIndex)
  BY <1>1, <1>2 DEF OpsChecked, WalkedTo
<1>6. /\ profile[source][opIndex + 1] = Mark(stackIndex, readHighwater)
      /\ \A k \in 1 .. (opIndex + 1) : profile[source][k].height <= stackMaxIndex
  BY <1>1 DEF CursorMarked
<1> QED BY <1>2, <1>3, <1>4, <1>5, <1>6

(* The same of a source that is done. *)
LEMMA DoneWalked ==
  ASSUME WalkInv, NEW s \in DOMAIN expression.sources, s < source
  PROVE  Abstract!WellFormedSource(expression, expression.sources[s])
<1> DEFINE src == expression.sources[s]
<1>1. expression.sources \in Seq(Source) /\ s \in 1 .. (source - 1) /\ src \in Source
  BY OpOfExpression, LenProperties DEF WalkInv, CheckInv, CheckTypeOK
<1>2. SourceChecked(s)
  BY <1>1 DEF WalkInv, CheckInv, CheckedBehindCursor
<1>3. WalkedTo(expression, src, profile[s], Len(src.ops))
  BY <1>2 DEF SourceChecked, OpsChecked, WalkedTo
<1>4. /\ profile[s][Len(src.ops) + 1].height = src.outputs
      /\ \A k \in 1 .. (Len(src.ops) + 1) : profile[s][k].height <= src.alloc
  BY <1>2 DEF SourceChecked
<1>5. \E k \in 1 .. (Len(src.ops) + 1) : profile[s][k].height = src.alloc
  BY <1>1 DEF WalkInv, PeaksReached
<1> HIDE DEF src
<1> QED BY <1>1, <1>3, <1>4, <1>5, CheckedIsWellFormed DEF src

(* A source that is done stays as it was. *)
LEMMA PeaksBehindKept ==
  ASSUME PeaksReached, expression' = expression,
         \A s \in 1 .. (source - 1) : profile'[s] = profile[s]
  PROVE  \A s \in 1 .. (source - 1) :
           \E k \in 1 .. (Len(expression'.sources[s].ops) + 1) :
             profile'[s][k].height = expression'.sources[s].alloc
  BY DEF PeaksReached

LEMMA NewStatePeaks ==
  ASSUME WalkInv, NewState
  PROVE  PeaksReached'
<1>1. /\ verdict = "source" /\ verdict' = "ops" /\ opIndex' = 0
      /\ stackIndex' = stackMaxIndex'
      /\ source \in Nat /\ profile \in Seq(Seq(MarkType)) /\ Len(profile) = source - 1
      /\ source' = source /\ expression' = expression
  BY DEF NewState, WalkInv, CheckInv, CheckTypeOK, CheckedBehindCursor, MarkType
<1>2. CursorMarked'
  BY <1>1, NewStateInv DEF WalkInv, CheckInv, CheckedBehindCursor
<1>3. profile'[source'][0 + 1].height = stackMaxIndex'
  BY <1>1, <1>2 DEF CursorMarked, Mark
<1>4. PICK first : profile' = Append(profile, first)
  BY DEF NewState
<1>5. \A s \in 1 .. (source - 1) : profile'[s] = profile[s]
  BY <1>1, <1>4
<1>6. PeaksReached
  BY DEF WalkInv
<1> QED BY <1>1, <1>3, <1>5, <1>6, PeaksBehindKept DEF PeaksReached

LEMMA AcceptOpPeaks ==
  ASSUME WalkInv, AtOp, NEW io, AcceptOp(CurrentOp, io)
  PROVE  PeaksReached'
<1> DEFINE mark == Mark(HeightAfter(io), HighwaterAfter(CurrentOp, io))
<1>1. /\ verdict = "ops" /\ verdict' = "ops" /\ opIndex' = opIndex + 1
      /\ stackMaxIndex' = MaxAfter(io) /\ stackIndex' = HeightAfter(io)
      /\ profile' = [profile EXCEPT ![source] = Append(profile[source], mark)]
      /\ source' = source /\ expression' = expression
  BY DEF AcceptOp, AtOp
<1>2. /\ CursorMarked /\ OpsChecked(source, opIndex) /\ PeaksReached
      /\ opIndex \in Nat /\ profile \in Seq(Seq(MarkType))
  BY <1>1 DEF WalkInv, CheckInv, CheckTypeOK, CheckedBehindCursor, MarkType
<1>3. CursorMarked'
  BY <1>1, AcceptOpInv DEF WalkInv, CheckInv, CheckedBehindCursor
<1>4. /\ source \in 1 .. Len(profile) /\ profile[source] \in Seq(MarkType)
      /\ Len(profile[source]) = opIndex + 1
  <2>1. Len(profile) = source /\ source \in Nat /\ source >= 1
    <3>1. source \in 1 .. (Len(expression.sources) + 1) /\ expression.sources \in Seq(Source)
      BY DEF WalkInv, CheckInv, CheckTypeOK
    <3> QED BY <1>2, <3>1, LenProperties DEF CursorMarked
  <2>2. source \in 1 .. Len(profile)
    BY <2>1
  <2> QED BY <1>2, <2>2, ElementOfSeq DEF OpsChecked
<1> HIDE DEF mark
<1>5. profile'[source] = Append(profile[source], mark)
  BY <1>1, <1>2, <1>4
<1>6. \A k \in 1 .. (opIndex + 1) : profile'[source][k] = profile[source][k]
  BY <1>4, <1>5, <1>2
<1>7. \A s \in 1 .. (source - 1) : profile'[s] = profile[s]
  BY <1>1, <1>2, <1>4
<1>8. \E k \in 1 .. (opIndex' + 1) : profile'[source'][k].height = stackMaxIndex'
  <2>1. CASE HeightAfter(io) > stackMaxIndex
    <3>1. profile'[source'][opIndex' + 1] = Mark(stackIndex', readHighwater')
      BY <1>3, Zenon DEF CursorMarked
    <3>2. profile'[source'][opIndex' + 1].height = stackIndex'
      BY <3>1 DEF Mark
    <3>3. stackIndex' = stackMaxIndex'
      BY <1>1, <2>1 DEF MaxAfter
    <3>4. opIndex' + 1 \in 1 .. (opIndex' + 1)
      BY <1>1, <1>2
    <3> QED BY <3>2, <3>3, <3>4
  <2>2. CASE ~(HeightAfter(io) > stackMaxIndex)
    <3>1. stackMaxIndex' = stackMaxIndex
      BY <1>1, <2>2 DEF MaxAfter
    <3>2. PICK k \in 1 .. (opIndex + 1) : profile[source][k].height = stackMaxIndex
      BY <1>1, <1>2 DEF PeaksReached
    <3>3. k \in 1 .. (opIndex' + 1)
      BY <1>1, <1>2
    <3>4. profile'[source][k] = profile[source][k]
      BY <1>6
    <3>5. profile'[source'][k].height = stackMaxIndex'
      BY <1>1, <3>1, <3>2, <3>4, Zenon
    <3> QED BY <3>3, <3>5
  <2> QED BY <2>1, <2>2
<1> QED BY <1>1, <1>2, <1>7, <1>8, PeaksBehindKept DEF PeaksReached

LEMMA EndSourcePeaks ==
  ASSUME WalkInv, EndSource
  PROVE  PeaksReached'
<1>1. /\ verdict = "ops" /\ verdict' = "source" /\ source' = source + 1
      /\ opIndex = Len(CurrentSource.ops) /\ stackMaxIndex = CurrentSource.alloc
      /\ expression' = expression /\ profile' = profile
      /\ source \in Nat
  BY DEF EndSource, AtEnd, WalkInv, CheckInv, CheckTypeOK
<1>2. PeaksReached
  BY DEF WalkInv
<1>3. \E k \in 1 .. (Len(expression.sources[source].ops) + 1) :
        profile[source][k].height = expression.sources[source].alloc
  BY <1>1, <1>2 DEF PeaksReached, CurrentSource
<1>4. ASSUME NEW s \in 1 .. source
      PROVE  \E k \in 1 .. (Len(expression.sources[s].ops) + 1) :
               profile[s][k].height = expression.sources[s].alloc
  <2>1. CASE s = source
    BY <1>3, <2>1
  <2>2. CASE s # source
    <3>1. s \in 1 .. (source - 1)
      BY <1>1, <2>2
    <3> QED BY <1>2, <3>1, Zenon DEF PeaksReached
  <2> QED BY <2>1, <2>2
<1>5. 1 .. (source' - 1) = 1 .. source /\ verdict' # "ops"
  BY <1>1
<1> QED BY <1>1, <1>4, <1>5 DEF PeaksReached

LEMMA RestPeaks ==
  ASSUME WalkInv, UNCHANGED <<expression, source, profile>>,
         verdict' # "ops" \/ UNCHANGED <<verdict, opIndex, stackMaxIndex>>
  PROVE  PeaksReached'
  BY DEF WalkInv, PeaksReached

(* How a step of the walk moves. *)
LEMMA WalkSteps ==
  ASSUME CheckNext
  PROVE  \/ NewState
         \/ AtOp /\ \E io : AcceptOp(CurrentOp, io)
         \/ EndSource
         \/ Accept
         \/ \E error \in Reverts : RevertWith(error)
<1>1. ASSUME NEW h, NEW op, OperandRevert(expression, op, h) # "none"
      PROVE  OperandRevert(expression, op, h) \in Reverts
  BY <1>1 DEF OperandRevert, Reverts
<1>2. ASSUME CheckOp(CurrentOp)
      PROVE (\E io : AcceptOp(CurrentOp, io)) \/ \E error \in Reverts : RevertWith(error)
  BY <1>1, <1>2
  DEF CheckOp, RevertOpcode, RevertOperand, RevertExtern, RevertInputs, RevertOutputs,
      RevertUnderflow, RevertHighwater, Reverts
<1> QED BY <1>2 DEF CheckNext, RevertAllocation, RevertSourceOutputs, Reverts

LEMMA WalkInvInit == CheckInit => WalkInv
  BY CheckInvInit DEF CheckInit, WalkInv, PeaksReached

LEMMA WalkInvNext ==
  ASSUME WalkInv, CheckNext \/ UNCHANGED checkVars
  PROVE  WalkInv'
<1>1. CheckInv'
  BY CheckInvNext DEF WalkInv
<1>2. CASE NewState
  BY <1>1, <1>2, NewStatePeaks DEF WalkInv
<1>3. CASE AtOp /\ \E io : AcceptOp(CurrentOp, io)
  BY <1>1, <1>3, AcceptOpPeaks DEF WalkInv
<1>4. CASE EndSource
  BY <1>1, <1>4, EndSourcePeaks DEF WalkInv
<1>5. CASE Accept
  BY <1>1, <1>5, RestPeaks DEF WalkInv, Accept, walkVars
<1>6. CASE \E error \in Reverts : RevertWith(error)
  <2>1. verdict' # "ops" /\ UNCHANGED <<expression, source, profile>>
    BY <1>6 DEF RevertWith, Reverts, walkVars
  <2> QED BY <1>1, <2>1, RestPeaks DEF WalkInv
<1>7. CASE UNCHANGED checkVars
  BY <1>1, <1>7, RestPeaks DEF WalkInv, checkVars, walkVars
<1> QED BY <1>2, <1>3, <1>4, <1>5, <1>6, <1>7, WalkSteps

-----------------------------------------------------------------------------
(* Each revert tells of something that is not well formed. *)

LEMMA IllSource ==
  ASSUME NEW e, NEW s \in DOMAIN e.sources, ~Abstract!WellFormedSource(e, e.sources[s])
  PROVE  ~Abstract!WellFormed(e)
  BY DEF Abstract!WellFormed

(* The op under the cursor, as it would be if the expression were well      *)
(* formed: at the height of the walk, and with nothing it consumes below    *)
(* the highwater.                                                           *)
LEMMA OpAtCursor ==
  ASSUME CheckInv, AtOp, Abstract!WellFormed(expression)
  PROVE  /\ CurrentOp.code # "invalid"
         /\ OperandRevert(expression, CurrentOp, stackIndex) = "none"
         /\ <<CurrentOp.ins, CurrentOp.outs>> \in CalcIO(expression, CurrentOp)
         /\ CurrentOp.ins <= stackIndex
         /\ HighwaterAfterRead(CurrentOp, readHighwater) <= stackIndex - CurrentOp.ins
<1> DEFINE src == CurrentSource
           op == CurrentOp
<1>1. /\ source \in DOMAIN expression.sources /\ opIndex \in Nat /\ src \in Source
      /\ opIndex + 1 \in 1 .. Len(src.ops) /\ Len(src.ops) \in Nat
      /\ op = src.ops[opIndex + 1] /\ op \in Op
  BY CursorAtOp
<1>2. /\ src = expression.sources[source] /\ opIndex \in 0 .. Len(src.ops)
      /\ WalkedTo(expression, src, profile[source], opIndex)
      /\ profile[source][opIndex + 1] = Mark(stackIndex, readHighwater)
  BY CursorWalked DEF AtOp
<1>3. op.ins \in Nat /\ op.outs \in Nat /\ op.arg \in Nat
  BY <1>1, OpsOfSource
<1> HIDE DEF src, op
<1>4. opIndex \in 0 .. opIndex /\ opIndex \in 0 .. (Len(src.ops) - 1)
  BY <1>1
<1>5. Abstract!WellFormedOp(expression, src, opIndex)
  BY <1>1, <1>2, <1>4 DEF Abstract!WellFormed, Abstract!WellFormedSource
<1>6. \A k \in 0 .. opIndex : profile[source][k + 1].height = Abstract!Height(src)[k]
  <2> DEFINE marks == profile[source]
  <2>1. /\ src \in Source /\ opIndex \in 0 .. Len(src.ops)
        /\ WalkedTo(expression, src, marks, opIndex)
    BY <1>1, <1>2
  <2> HIDE DEF marks
  <2>2. \A k \in 0 .. opIndex : marks[k + 1].height = Abstract!Height(src)[k]
    BY <2>1, MarksAreHeights
  <2> QED BY <2>2 DEF marks
<1>7. Abstract!Height(src)[opIndex] = stackIndex
  BY <1>2, <1>4, <1>6 DEF Mark
<1>8. /\ stackIndex \in Nat /\ readHighwater \in Nat /\ readHighwater <= stackIndex
      /\ \A i \in Int : Abstract!Protected(src, opIndex, i) <=> i < readHighwater
  BY <1>1, <1>2, <1>4, HighwaterIsProtected DEF Mark
<1>9. /\ op.code # "invalid"
      /\ OperandRevert(expression, op, stackIndex) = "none"
      /\ <<op.ins, op.outs>> \in CalcIO(expression, op)
      /\ op.ins <= stackIndex
      /\ \A i \in (stackIndex - op.ins) .. (stackIndex - 1) : ~Abstract!Protected(src, opIndex, i)
  BY <1>1, <1>5, <1>7, SameFunctions, Zenon DEF Abstract!WellFormedOp
<1>10. readHighwater <= stackIndex - op.ins
  <2>1. CASE op.ins = 0
    BY <1>8, <2>1
  <2>2. CASE op.ins # 0
    <3> DEFINE i == stackIndex - op.ins
    <3>1. i \in (stackIndex - op.ins) .. (stackIndex - 1) /\ i \in Int
      BY <1>3, <1>8, <2>2
    <3>2. ~(i < readHighwater)
      BY <1>8, <1>9, <3>1
    <3> QED BY <1>3, <1>8, <3>2
  <2> QED BY <2>1, <2>2
<1>11. HighwaterAfterRead(op, readHighwater) <= stackIndex - op.ins
  <2>1. CASE op.code = "stack"
    <3>1. op.ins = 0 /\ op.arg < stackIndex
      BY <1>3, <1>8, <1>9, <2>1, ReadsWriteOne DEF OperandRevert, OutOfBoundsRead
    <3> QED BY <1>3, <1>8, <3>1 DEF HighwaterAfterRead
  <2>2. CASE op.code # "stack"
    BY <1>10, <2>2 DEF HighwaterAfterRead
  <2> QED BY <2>1, <2>2
<1> QED BY <1>9, <1>11 DEF op

LEMMA ExternUsed ==
  ASSUME CheckInv, AtOp, CurrentOp.code = "extern"
  PROVE  Abstract!UsesExtern(expression)
<1>1. /\ source \in DOMAIN expression.sources /\ CurrentSource.ops \in Seq(Op)
      /\ opIndex + 1 \in 1 .. Len(CurrentSource.ops)
      /\ CurrentOp = CurrentSource.ops[opIndex + 1]
  BY CursorAtOp
<1>2. opIndex + 1 \in DOMAIN CurrentSource.ops
  BY <1>1, LenProperties
<1> QED BY <1>1, <1>2 DEF Abstract!UsesExtern, CurrentSource

(* An integrity function that is not an extern's answers one thing. *)
LEMMA OneAnswer ==
  ASSUME NEW e, NEW op, op.code # "extern", NEW x \in CalcIO(e, op), NEW y \in CalcIO(e, op)
  PROVE  x = y
  BY DEF CalcIO

LEMMA OpRejected ==
  ASSUME CheckInv, AtOp, CheckOp(CurrentOp),
         ~\E io : AcceptOp(CurrentOp, io)
  PROVE  ~Abstract!WellFormed(expression) \/ Abstract!UsesExtern(expression)
<1> SUFFICES ASSUME Abstract!WellFormed(expression), CurrentOp.code # "extern"
             PROVE  FALSE
  BY ExternUsed
<1> DEFINE op == CurrentOp
<1>1. /\ op.code # "invalid"
      /\ OperandRevert(expression, op, stackIndex) = "none"
      /\ <<op.ins, op.outs>> \in CalcIO(expression, op)
      /\ op.ins <= stackIndex
      /\ HighwaterAfterRead(op, readHighwater) <= stackIndex - op.ins
  BY OpAtCursor
<1>2. op.ins \in Nat /\ op.arg \in Nat /\ stackIndex \in Nat /\ readHighwater \in Nat
  <2>1. op \in Op
    BY CursorAtOp
  <2>2. stackIndex \in Nat /\ readHighwater \in Nat
    BY DEF CheckInv, CheckTypeOK
  <2> HIDE DEF op
  <2> QED BY <2>1, <2>2, NibbleAssumption DEF Op, Nibble
<1>3. HighwaterAfterRead(op, readHighwater) \in Nat
  BY <1>2 DEF HighwaterAfterRead
<1>4. PICK io \in CalcIO(expression, op) :
        \/ RevertInputs(op, io) \/ RevertOutputs(op, io)
        \/ RevertUnderflow(op, io) \/ RevertHighwater(op, io)
  BY <1>1 DEF CheckOp, RevertOpcode, RevertOperand, RevertExtern
<1>5. io[1] = op.ins /\ io[2] = op.outs
  BY <1>1, <1>4, OneAnswer
<1> HIDE DEF op
<1>6. ~Underflows(io) /\ ~UnderflowsHighwater(op, io)
  BY <1>1, <1>2, <1>3, <1>5 DEF Underflows, UnderflowsHighwater
<1> QED
  BY <1>4, <1>5, <1>6 DEF RevertInputs, RevertOutputs, RevertUnderflow, RevertHighwater

(* A source that does not end as it declares is not well formed: its        *)
(* allocation is the highest of its heights and no other number.            *)
LEMMA EndRejected ==
  ASSUME WalkInv, RevertAllocation \/ RevertSourceOutputs
  PROVE  ~Abstract!WellFormed(expression)
<1> SUFFICES ASSUME Abstract!WellFormed(expression) PROVE FALSE
  OBVIOUS
<1> DEFINE src == CurrentSource
           n == Len(src.ops)
           H == Abstract!Height(src)
<1>1. /\ verdict = "ops" /\ opIndex = n
      /\ stackMaxIndex # src.alloc \/ stackIndex # src.outputs
  BY DEF RevertAllocation, RevertSourceOutputs, AtEnd
<1>2. /\ source \in DOMAIN expression.sources /\ src = expression.sources[source]
      /\ src \in Source /\ n \in 0 .. n
      /\ WalkedTo(expression, src, profile[source], n)
      /\ profile[source][n + 1] = Mark(stackIndex, readHighwater)
      /\ \A k \in 1 .. (n + 1) : profile[source][k].height <= stackMaxIndex
  BY <1>1, CursorWalked DEF WalkInv
<1>3. n \in Nat /\ src.alloc \in Nat /\ stackMaxIndex \in Nat
  BY <1>2, OpsOfSource DEF WalkInv, CheckInv, CheckTypeOK
<1>4. \A k \in 0 .. n : profile[source][k + 1].height = H[k]
  <2> DEFINE marks == profile[source]
  <2>1. src \in Source /\ n \in 0 .. Len(src.ops) /\ WalkedTo(expression, src, marks, n)
    BY <1>2
  <2> HIDE DEF src, marks, n
  <2>2. \A k \in 0 .. n : marks[k + 1].height = Abstract!Height(src)[k]
    BY <2>1, MarksAreHeights
  <2> QED BY <2>2 DEF marks
<1>5. /\ \A k \in 0 .. n : H[k] <= src.alloc
      /\ \E k \in 0 .. n : H[k] = src.alloc
      /\ H[n] = src.outputs
  BY <1>2 DEF Abstract!WellFormed, Abstract!WellFormedSource
<1>6. \E k \in 1 .. (n + 1) : profile[source][k].height = stackMaxIndex
  BY <1>1 DEF WalkInv, PeaksReached
<1> HIDE DEF H, src
<1>7. stackIndex = src.outputs
  <2>1. n \in 0 .. n
    BY <1>3
  <2>2. profile[source][n + 1].height = H[n]
    BY <1>4, <2>1, Zenon
  <2>3. profile[source][n + 1].height = stackIndex
    BY <1>2 DEF Mark
  <2> QED BY <1>5, <2>2, <2>3
<1>8. stackMaxIndex <= src.alloc
  <2>1. PICK k \in 1 .. (n + 1) : profile[source][k].height = stackMaxIndex
    BY <1>6
  <2>2. k - 1 \in 0 .. n /\ (k - 1) + 1 = k
    BY <1>3
  <2> QED BY <1>4, <1>5, <2>1, <2>2
<1>9. src.alloc <= stackMaxIndex
  <2>1. PICK k \in 0 .. n : H[k] = src.alloc
    BY <1>5
  <2>2. k + 1 \in 1 .. (n + 1)
    BY <1>3
  <2> QED BY <1>2, <1>4, <2>1, <2>2
<1> QED BY <1>1, <1>3, <1>7, <1>8, <1>9 DEF src

LEMMA AcceptedIsWellFormed ==
  ASSUME WalkInv, Accept
  PROVE  Abstract!WellFormed(expression)
<1>1. source > Len(expression.sources) /\ expression.sources \in Seq(Source) /\ source \in Nat
  BY DEF Accept, WalkInv, CheckInv, CheckTypeOK
<1>2. \A s \in DOMAIN expression.sources : s < source
  BY <1>1, LenProperties
<1> QED BY <1>2, DoneWalked DEF Abstract!WellFormed

LEMMA OutcomeOf ==
  /\ verdict = "ok" => Outcome = "accepted"
  /\ verdict \in Reverts => Outcome = "rejected"
  /\ verdict \in {"source", "ops"} => Outcome = "pending"
  BY DEF Outcome, Reverts

(* Every step of the walk is the one step of the validation or none.        *)
LEMMA WalkValidates ==
  ASSUME WalkInv, CheckNext \/ UNCHANGED checkVars
  PROVE  [Abstract!Next]_<<expression, Outcome>>
<1>1. CASE UNCHANGED checkVars
  BY <1>1 DEF checkVars, Outcome
<1>2. ASSUME verdict \in {"source", "ops"}, verdict' \in {"source", "ops"}, expression' = expression
      PROVE  UNCHANGED <<expression, Outcome>>
  BY <1>2 DEF Outcome, Reverts
<1>3. ASSUME verdict \in {"source", "ops"}, verdict' \in Reverts, expression' = expression,
             ~Abstract!WellFormed(expression) \/ Abstract!UsesExtern(expression)
      PROVE  Abstract!Next
  <2>1. Outcome = "pending" /\ Outcome' = "rejected"
    BY <1>3 DEF Outcome, Reverts
  <2> QED BY <1>3, <2>1 DEF Abstract!Next
<1>4. CASE NewState
  BY <1>2, <1>4 DEF NewState
<1>5. CASE AtOp /\ \E io : AcceptOp(CurrentOp, io)
  BY <1>2, <1>5 DEF AtOp, AcceptOp
<1>6. CASE EndSource
  BY <1>2, <1>6 DEF EndSource, AtEnd
<1>7. CASE Accept
  <2>1. verdict = "source" /\ verdict' = "ok" /\ expression' = expression
    BY <1>7 DEF Accept
  <2>2. Outcome = "pending" /\ Outcome' = "accepted"
    BY <2>1 DEF Outcome, Reverts
  <2> QED BY <1>7, <2>1, <2>2, AcceptedIsWellFormed DEF Abstract!Next
<1>8. CASE \/ RevertAllocation \/ RevertSourceOutputs
           \/ AtOp /\ CheckOp(CurrentOp) /\ ~\E io : AcceptOp(CurrentOp, io)
  <2>1. /\ verdict = "ops"
        /\ ~Abstract!WellFormed(expression) \/ Abstract!UsesExtern(expression)
    BY <1>8, EndRejected, OpRejected DEF WalkInv, RevertAllocation, RevertSourceOutputs, AtEnd, AtOp
  <2>2. \E error \in Reverts : RevertWith(error)
    <3>1. ~NewState /\ ~Accept /\ ~EndSource
      BY <1>8 DEF RevertAllocation, RevertSourceOutputs, AtEnd, AtOp, NewState, EndSource, Accept
    <3>2. CASE AtOp /\ CheckOp(CurrentOp) /\ ~\E io : AcceptOp(CurrentOp, io)
      BY <3>1, <3>2, WalkSteps, Zenon DEF CheckNext
    <3>3. CASE RevertAllocation \/ RevertSourceOutputs
      BY <3>3 DEF RevertAllocation, RevertSourceOutputs, Reverts
    <3> QED BY <1>8, <3>2, <3>3
  <2>3. verdict' \in Reverts /\ expression' = expression
    BY <2>2 DEF RevertWith
  <2> QED BY <1>3, <2>1, <2>3
<1>9. \/ NewState \/ EndSource \/ Accept
      \/ AtOp /\ \E io : AcceptOp(CurrentOp, io)
      \/ \/ RevertAllocation \/ RevertSourceOutputs
         \/ AtOp /\ CheckOp(CurrentOp) /\ ~\E io : AcceptOp(CurrentOp, io)
      \/ UNCHANGED checkVars
  BY Zenon DEF CheckNext
<1> QED
  BY <1>1, <1>4, <1>5, <1>6, <1>7, <1>8, <1>9, Zenon

LEMMA ValidationBegins == CheckInit => Abstract!Init
  BY DEF CheckInit, Abstract!Init, Outcome, Reverts

LEMMA WalkInvariant == CheckSpec => []WalkInv
<1>1. CheckInit => WalkInv
  BY WalkInvInit
<1>2. WalkInv /\ [CheckNext \/ CheckDone]_checkVars => WalkInv'
  BY WalkInvNext DEF CheckDone
<1> QED
  BY <1>1, <1>2, PTL DEF CheckSpec

(* integrityCheck2, which walks and counts, accepts the expressions that    *)
(* are well formed when each source is judged as a whole, and rejects the   *)
(* others; of the well formed it rejects only those that call an extern,    *)
(* by the extern's own word.                                                *)
THEOREM CheckValidates == CheckSpec => ImplementsValidation
<1>1. CheckInit => Abstract!Init
  BY ValidationBegins
<1>2. WalkInv /\ [CheckNext \/ CheckDone]_checkVars => [Abstract!Next]_<<expression, Outcome>>
  BY WalkValidates DEF CheckDone
<1> QED
  BY <1>1, <1>2, WalkInvariant, PTL DEF CheckSpec, ImplementsValidation, Abstract!Spec
=============================================================================
