------------------------------ MODULE MCWords ------------------------------
(***************************************************************************)
(* The small words, ops and sources that the model-checked instances of    *)
(* the integrity check and of the evaluation are built from.               *)
(***************************************************************************)
EXTENDS Integers, Sequences, FiniteSetsExt

V(n) == <<"word", n>>
MCZeroWords == {V(0), V(2)}
MCValue == {V(n) : n \in 0 .. 2}
NumberOf(v) == v[2]

(* Any function into the words does, so long as it tells the order and the *)
(* number of its inputs apart.                                             *)
MCApply(code, xs) ==
  LET weighted == SumSet({10 * k + NumberOf(xs[k]) : k \in DOMAIN xs})
  IN V((weighted + (IF code = "add" THEN 0 ELSE 1)) % 3)

Op4(code, arg, ins, outs) == [code |-> code, arg |-> arg, ins |-> ins, outs |-> outs]

StackOp(i) == Op4("stack", i, 0, 1)
ConstantOp(i) == Op4("constant", i, 0, 1)
ContextOp(j) == Op4("context", 256 * j, 0, 1)
AddOp(n) == Op4("add", 0, n, 1)
HashOp(n) == Op4("hash", 0, n, 1)
IfOp == Op4("if", 0, 3, 1)
GetOp == Op4("get", 0, 1, 1)
SetOp == Op4("set", 0, 2, 0)
EnsureOp == Op4("ensure", 0, 2, 0)
CallOp(s, ins, outs) == Op4("call", s, ins, outs)
ExternOp(ins, outs) == Op4("extern", 1, ins, outs)
InvalidOp == Op4("invalid", 0, 0, 0)

SourceOf(inputs, outputs, alloc, ops) ==
  [inputs |-> inputs, outputs |-> outputs, alloc |-> alloc, ops |-> ops]

(* The height after k ops by what the ops declare. *)
DeclaredHeight(inputs, ops) ==
  LET h[k \in 0 .. Len(ops)] ==
        IF k = 0 THEN inputs ELSE h[k - 1] - ops[k].ins + ops[k].outs
  IN h

(* A source whose prefix says of its ops what is the case. *)
HonestSource(inputs, ops) ==
  LET h == DeclaredHeight(inputs, ops)
  IN SourceOf(inputs, h[Len(ops)], Max({h[k] : k \in DOMAIN h}), ops)

Honest(inputs, ops) ==
  LET h == DeclaredHeight(inputs, ops) IN \A k \in DOMAIN h : h[k] >= 0

OpLists(ops, n) == UNION {[1 .. k -> ops] : k \in 0 .. n}
=============================================================================
