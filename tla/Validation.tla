----------------------------- MODULE Validation -----------------------------
(***************************************************************************)
(* What the integrity check promises, without a walk: an expression is     *)
(* accepted in one step when every one of its sources is well formed, and  *)
(* rejected otherwise.  One that uses an extern may be rejected in any     *)
(* case, because the extern has a say.                                     *)
(***************************************************************************)
EXTENDS Bytecode

VARIABLES
  expression,  (* The expression to validate.           *)
  outcome      (* "pending", "accepted" or "rejected".  *)

(* The height after k ops, going by the IO the ops declare. *)
Height(source) ==
  LET h[k \in 0 .. Len(source.ops)] ==
        IF k = 0 THEN source.inputs
        ELSE h[k - 1] - source.ops[k].ins + source.ops[k].outs
  IN h

(* Item i of the stack may not be consumed by an op after the first k: it is *)
(* an input, or an op with several outputs has run above it, or an item      *)
(* above it has been read by name.                                           *)
Protected(source, k, i) ==
  \/ i < source.inputs
  \/ \E j \in 1 .. k :
       \/ source.ops[j].outs > 1 /\ i < Height(source)[j]
       \/ source.ops[j].code = "stack" /\ i < source.ops[j].arg

WellFormedOp(e, source, k) ==
  LET op == source.ops[k + 1]
      h == Height(source)[k]
  IN  /\ op.code # "invalid"
      /\ OperandRevert(e, op, h) = "none"
      /\ <<op.ins, op.outs>> \in CalcIO(e, op)
      /\ op.ins <= h
      /\ \A i \in (h - op.ins) .. (h - 1) : ~Protected(source, k, i)

WellFormedSource(e, source) ==
  /\ \A k \in 0 .. (Len(source.ops) - 1) : WellFormedOp(e, source, k)
  /\ \A k \in 0 .. Len(source.ops) : Height(source)[k] <= source.alloc
  /\ \E k \in 0 .. Len(source.ops) : Height(source)[k] = source.alloc
  /\ Height(source)[Len(source.ops)] = source.outputs

WellFormed(e) == \A s \in DOMAIN e.sources : WellFormedSource(e, e.sources[s])

UsesExtern(e) ==
  \E s \in DOMAIN e.sources : \E k \in DOMAIN e.sources[s].ops :
    e.sources[s].ops[k].code = "extern"

(* It is given any expression. *)
Init == outcome = "pending"

Next ==
  /\ outcome = "pending"
  /\ \/ WellFormed(expression) /\ outcome' = "accepted"
     \/ (~WellFormed(expression) \/ UsesExtern(expression)) /\ outcome' = "rejected"
  /\ UNCHANGED expression

Spec == Init /\ [][Next]_<<expression, outcome>>
=============================================================================
