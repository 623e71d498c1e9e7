------------------------------ MODULE Bytecode ------------------------------
(***************************************************************************)
(* The data that the parser produces, the integrity check validates and    *)
(* the interpreter runs: an expression is an array of constants and a      *)
(* bytecode, the bytecode a sequence of sources, a source the numbers of   *)
(* its inputs, outputs and stack words (its 4-byte prefix) and its ops.    *)
(* An op is its code, its low 16 operand bits (arg) and the two nibbles of *)
(* its IO byte (ins and outs).                                             *)
(*                                                                         *)
(* Sources and constants are numbered from 1, so that an out of bounds     *)
(* operand is one outside the DOMAIN.  The reads of the op "stack" are     *)
(* numbered from 0, from the bottom of the stack up, as in the code.       *)
(***************************************************************************)
EXTENDS Integers, Sequences

CONSTANTS
  Value,       (* The 256-bit words of the interpreter.                    *)
  ZeroWords,   (* The words with coefficient 0, false to the logic ops.    *)
  NibbleMax,   (* The largest number in a nibble of the IO byte: 15.       *)
  Apply(_, _)  (* The result of an arithmetic op (by code) for its inputs. *)

ASSUME ValueAssumption == ZeroWords \subseteq Value
ASSUME NibbleAssumption == NibbleMax \in Nat

Nibble == 0 .. NibbleMax

(* The ops that write one word computed from their inputs and nothing else: *)
(* "add" stands for the n-ary math words, "hash" for the words that take    *)
(* any number of inputs, "if" for the words of fixed inputs.                *)
PureCodes == {"add", "hash", "if"}

Codes == PureCodes \cup
  {"stack", "constant", "context", "extern", "call", "get", "set", "ensure"}

ASSUME ApplyAssumption ==
  \A code \in {"add", "hash"}, n \in Nibble :
    \A xs \in [1 .. n -> Value] : Apply(code, xs) \in Value

(* "invalid" is any op byte beyond the end of the function pointer table. *)
Op == [code : Codes \cup {"invalid"}, arg : Nat, ins : Nibble, outs : Nibble]

Source == [inputs : Nat, outputs : Nat, alloc : Nat, ops : Seq(Op)]

Expression == [constants : Seq(Value), sources : Seq(Source)]

(* The op under the cursor after k ops, where there is one. *)
OpAt(e, s, k) == e.sources[s].ops[k + 1]

-----------------------------------------------------------------------------
(* The integrity functions of the ops. *)

(* Mutant of OutOfBoundsRead: an op may read the item above the stack. *)
ReadsAboveAllowed(op, h) == op.code = "stack" /\ op.arg > h

(* The op "stack" names an item that the stack does not have. *)
OutOfBoundsRead(op, h) == op.code = "stack" /\ op.arg >= h

OutOfBoundsConstant(e, op) ==
  op.code \in {"constant", "extern"} /\ op.arg \notin DOMAIN e.constants

SourceOutOfBounds(e, op) == op.code = "call" /\ op.arg \notin DOMAIN e.sources

OutputsExceedSource(e, op) ==
  op.code = "call" /\ op.arg \in DOMAIN e.sources /\ e.sources[op.arg].outputs < op.outs

(* Where the integrity function of an op reverts at stack height h.  (An    *)
(* extern without its constant is a panic in the code, named alike here.)   *)
OperandRevert(e, op, h) ==
  IF OutOfBoundsRead(op, h) THEN "OutOfBoundsStackRead"
  ELSE IF OutOfBoundsConstant(e, op) THEN "OutOfBoundsConstantRead"
  ELSE IF SourceOutOfBounds(e, op) THEN "SourceIndexOutOfBounds"
  ELSE IF OutputsExceedSource(e, op) THEN "CallOutputsExceedSource"
  ELSE "none"

(* The inputs and outputs of the words whose operand does not matter. *)
FixedIO ==
  [stack |-> <<0, 1>>, constant |-> <<0, 1>>, context |-> <<0, 1>>, get |-> <<1, 1>>,
   set |-> <<2, 0>>, ensure |-> <<2, 0>>, if |-> <<3, 1>>]

(* The numbers of inputs and outputs an integrity function may return.  The *)
(* contract behind "extern" answers what it likes.                          *)
CalcIO(e, op) ==
  IF op.code = "extern" THEN Nibble \X Nibble
  ELSE IF op.code = "call" THEN {<<e.sources[op.arg].inputs, op.outs>>}
  ELSE IF op.code = "add" THEN {<<IF op.ins > 1 THEN op.ins ELSE 2, 1>>}
  ELSE IF op.code = "hash" THEN {<<op.ins, 1>>}
  ELSE {FixedIO[op.code]}

(* The op "stack" moves the highwater to the item it reads. *)
HighwaterAfterRead(op, highwater) ==
  IF op.code = "stack" /\ op.arg > highwater THEN op.arg ELSE highwater

-----------------------------------------------------------------------------
(* What the run functions of the pure ops compute.  "if" selects one of its *)
(* two branches, both evaluated already.                                    *)
PureResult(code, xs) ==
  IF code = "if" THEN (IF xs[1] \in ZeroWords THEN xs[3] ELSE xs[2]) ELSE Apply(code, xs)
=============================================================================
