--------------------------- MODULE IntegrityCheck ---------------------------
(***************************************************************************)
(* LibIntegrityCheck.integrityCheck2: a walk over every op of every source *)
(* of a bytecode that tracks the height the stack will have at run time.   *)
(* The caller of the interpreter evaluates only what this check accepts,   *)
(* and the interpreter itself checks none of it again.                     *)
(*                                                                         *)
(* One action is one turn of a loop of the code: NewState begins a source, *)
(* AcceptOp or one of the Revert actions handles an op, EndSource ends a   *)
(* source.  The variable profile is no state of the code.  It remembers,   *)
(* for each source, the stack height and the read highwater before each of *)
(* its ops and after the last, which is what the evaluation relies on.     *)
(***************************************************************************)
EXTENDS Bytecode

CONSTANT Expressions  (* The expressions the check is given. *)

ASSUME ExpressionsAssumption ==
  \A e \in Expressions :
    /\ e.constants \in Seq(Value)
    /\ e.sources \in Seq(Source)

VARIABLES
  expression,     (* The constants and the bytecode under check.           *)
  verdict,        (* Where the walk is, its success, or its revert.        *)
  source,         (* i, the source under the cursor.                       *)
  opIndex,        (* The number of ops of the source walked so far.        *)
  stackIndex,     (* The height of the stack.                              *)
  stackMaxIndex,  (* The peak height of the stack.                         *)
  readHighwater,  (* The height below which no op may consume.             *)
  profile         (* The height and highwater before each op, per source.  *)

walkVars == <<source, opIndex, stackIndex, stackMaxIndex, readHighwater, profile>>
checkVars == <<expression, verdict, walkVars>>

Reverts == {"OpcodeOutOfRange", "OutOfBoundsStackRead", "OutOfBoundsConstantRead",
  "SourceIndexOutOfBounds", "CallOutputsExceedSource", "NotAnExternContract",
  "BadOpInputsLength", "BadOpOutputsLength", "StackUnderflow",
  "StackUnderflowHighwater", "StackAllocationMismatch", "StackOutputsMismatch"}

Verdicts == {"source", "ops", "ok"} \cup Reverts

CurrentSource == expression.sources[source]
CurrentOp == OpAt(expression, source, opIndex)
AtOp == verdict = "ops" /\ opIndex < Len(CurrentSource.ops)
AtEnd == verdict = "ops" /\ opIndex = Len(CurrentSource.ops)

Mark(height, highwater) == [height |-> height, highwater |-> highwater]

CheckInit ==
  /\ expression \in Expressions
  /\ verdict = "source"
  /\ source = 1
  /\ opIndex = 0
  /\ stackIndex = 0
  /\ stackMaxIndex = 0
  /\ readHighwater = 0
  /\ profile = << >>

-----------------------------------------------------------------------------
(* The inputs of a source are on the stack before its first op and may not *)
(* be consumed.                                                            *)
NewState ==
  /\ verdict = "source"
  /\ source <= Len(expression.sources)
  /\ LET inputs == CurrentSource.inputs IN
       /\ stackIndex' = inputs
       /\ stackMaxIndex' = inputs
       /\ readHighwater' = inputs
       /\ profile' = Append(profile, <<Mark(inputs, inputs)>>)
  /\ opIndex' = 0
  /\ verdict' = "ops"
  /\ UNCHANGED <<expression, source>>

(* The op's integrity function returns the IO that the op declares. *)
Declared(op, io) == io[1] = op.ins /\ io[2] = op.outs

(* The op is in the table and its integrity function answers io. *)
Answers(op, io) ==
  /\ op.code # "invalid"
  /\ OperandRevert(expression, op, stackIndex) = "none"
  /\ io \in CalcIO(expression, op)

HeightAfter(io) == stackIndex - io[1] + io[2]

(* Mutant of MaxAfter: the peak never moves. *)
MaxForgotten(io) == stackMaxIndex

MaxAfter(io) ==
  IF HeightAfter(io) > stackMaxIndex THEN HeightAfter(io) ELSE stackMaxIndex

HighwaterAfter(op, io) ==
  IF io[2] > 1 THEN HeightAfter(io) ELSE HighwaterAfterRead(op, readHighwater)

Underflows(io) == io[1] > stackIndex

(* Mutant of UnderflowsHighwater: looks at the height before the inputs go. *)
HighwaterBeforeInputs(op, io) == stackIndex < HighwaterAfterRead(op, readHighwater)

UnderflowsHighwater(op, io) ==
  stackIndex - io[1] < HighwaterAfterRead(op, readHighwater)

(* An op that passes every check moves the heights. *)
AcceptOp(op, io) ==
  /\ Answers(op, io)
  /\ Declared(op, io)
  /\ ~Underflows(io)
  /\ ~UnderflowsHighwater(op, io)
  /\ stackIndex' = HeightAfter(io)
  /\ stackMaxIndex' = MaxAfter(io)
  /\ readHighwater' = HighwaterAfter(op, io)
  /\ opIndex' = opIndex + 1
  /\ profile' = [profile EXCEPT ![source] =
                   Append(@, Mark(HeightAfter(io), HighwaterAfter(op, io)))]
  /\ UNCHANGED <<expression, verdict, source>>

RevertWith(error) ==
  /\ verdict' = error
  /\ UNCHANGED <<expression, walkVars>>

RevertOpcode(op) == op.code = "invalid" /\ RevertWith("OpcodeOutOfRange")

RevertOperand(op) ==
  /\ op.code # "invalid"
  /\ OperandRevert(expression, op, stackIndex) # "none"
  /\ RevertWith(OperandRevert(expression, op, stackIndex))

(* The address in the constant may not be a contract with extern's         *)
(* interface, or its own integrity function may revert.                    *)
RevertExtern(op) ==
  /\ op.code = "extern"
  /\ OperandRevert(expression, op, stackIndex) = "none"
  /\ RevertWith("NotAnExternContract")

RevertInputs(op, io) ==
  /\ Answers(op, io)
  /\ io[1] # op.ins
  /\ RevertWith("BadOpInputsLength")

RevertOutputs(op, io) ==
  /\ Answers(op, io)
  /\ io[1] = op.ins
  /\ io[2] # op.outs
  /\ RevertWith("BadOpOutputsLength")

RevertUnderflow(op, io) ==
  /\ Answers(op, io)
  /\ Declared(op, io)
  /\ Underflows(io)
  /\ RevertWith("StackUnderflow")

RevertHighwater(op, io) ==
  /\ Answers(op, io)
  /\ Declared(op, io)
  /\ ~Underflows(io)
  /\ UnderflowsHighwater(op, io)
  /\ RevertWith("StackUnderflowHighwater")

CheckOp(op) ==
  \/ RevertOpcode(op)
  \/ RevertOperand(op)
  \/ RevertExtern(op)
  \/ \E io \in IF op.code = "invalid" \/ OperandRevert(expression, op, stackIndex) # "none"
               THEN {} ELSE CalcIO(expression, op) :
       \/ AcceptOp(op, io)
       \/ RevertInputs(op, io)
       \/ RevertOutputs(op, io)
       \/ RevertUnderflow(op, io)
       \/ RevertHighwater(op, io)

-----------------------------------------------------------------------------
(* The declared allocation must be the peak, the declared outputs the final *)
(* height.                                                                  *)
RevertAllocation ==
  /\ AtEnd
  /\ stackMaxIndex # CurrentSource.alloc
  /\ RevertWith("StackAllocationMismatch")

RevertSourceOutputs ==
  /\ AtEnd
  /\ stackMaxIndex = CurrentSource.alloc
  /\ stackIndex # CurrentSource.outputs
  /\ RevertWith("StackOutputsMismatch")

EndSource ==
  /\ AtEnd
  /\ stackMaxIndex = CurrentSource.alloc
  /\ stackIndex = CurrentSource.outputs
  /\ source' = source + 1
  /\ verdict' = "source"
  /\ UNCHANGED <<expression, opIndex, stackIndex, stackMaxIndex, readHighwater, profile>>

Accept ==
  /\ verdict = "source"
  /\ source > Len(expression.sources)
  /\ verdict' = "ok"
  /\ UNCHANGED <<expression, walkVars>>

CheckNext ==
  \/ NewState
  \/ AtOp /\ CheckOp(CurrentOp)
  \/ RevertAllocation
  \/ RevertSourceOutputs
  \/ EndSource
  \/ Accept

CheckDone == verdict \in {"ok"} \cup Reverts /\ UNCHANGED checkVars

CheckSpec == CheckInit /\ [][CheckNext \/ CheckDone]_checkVars

-----------------------------------------------------------------------------
(* Properties. *)

(* Every variable of the walk has its type. *)
CheckTypeOK ==
  /\ expression.constants \in Seq(Value)
  /\ expression.sources \in Seq(Source)
  /\ verdict \in Verdicts
  /\ source \in 1 .. (Len(expression.sources) + 1)
  /\ opIndex \in Nat
  /\ {stackIndex, stackMaxIndex, readHighwater} \subseteq Nat
  /\ profile \in Seq(Seq([height : Nat, highwater : Nat]))

(* What the walk has established of an op, from the marks around it. *)
OpChecked(e, op, before, after) ==
  /\ op.code # "invalid"
  /\ OperandRevert(e, op, before.height) = "none"
  /\ <<op.ins, op.outs>> \in CalcIO(e, op)
  /\ op.ins <= before.height
  /\ after.height = before.height - op.ins + op.outs
  /\ HighwaterAfterRead(op, before.highwater) <= before.height - op.ins
  /\ after.highwater = IF op.outs > 1 THEN after.height
                       ELSE HighwaterAfterRead(op, before.highwater)

(* The first n ops of source s have been checked. *)
OpsChecked(s, n) ==
  LET src == expression.sources[s] IN
    /\ Len(profile[s]) = n + 1
    /\ profile[s][1] = Mark(src.inputs, src.inputs)
    /\ \A k \in 1 .. n :
         OpChecked(expression, src.ops[k], profile[s][k], profile[s][k + 1])

(* All of source s has been checked, and its prefix says what is the case. *)
SourceChecked(s) ==
  LET src == expression.sources[s]
      n == Len(src.ops)
  IN  /\ OpsChecked(s, n)
      /\ profile[s][n + 1].height = src.outputs
      /\ \A k \in 1 .. (n + 1) : profile[s][k].height <= src.alloc

(* The last mark of the source under the cursor is where the walk is. *)
CursorMarked ==
  /\ source \in DOMAIN expression.sources
  /\ opIndex <= Len(CurrentSource.ops)
  /\ Len(profile) = source
  /\ profile[source][opIndex + 1] = Mark(stackIndex, readHighwater)
  /\ \A k \in 1 .. (opIndex + 1) : profile[source][k].height <= stackMaxIndex

(* Behind the cursor everything is checked: each op has the stack items it   *)
(* consumes, consumes none below the highwater, and the heights that follow  *)
(* from the declared IO stay within the declared allocation.  An accepted    *)
(* expression has been checked to its end.                                   *)
CheckedBehindCursor ==
  /\ \A s \in 1 .. (source - 1) : s \in DOMAIN profile /\ SourceChecked(s)
  /\ verdict = "ops" => CursorMarked /\ OpsChecked(source, opIndex)
  /\ verdict \in {"source", "ok"} => Len(profile) = source - 1
  /\ verdict = "ok" => source = Len(expression.sources) + 1

Outcome ==
  CASE verdict = "ok"         -> "accepted"
    [] verdict \in Reverts    -> "rejected"
    [] OTHER                  -> "pending"

Abstract == INSTANCE Validation WITH outcome <- Outcome

(* The walk implements the validation: it accepts exactly the expressions   *)
(* whose every source is well formed, judged as a whole.                    *)
ImplementsValidation == Abstract!Spec
=============================================================================
