----------------------------- MODULE EvalMachine -----------------------------
(***************************************************************************)
(* What an evaluation promises to whoever wrote the expression: each       *)
(* activation of evalLoop stands for one of StackMachine, with the words   *)
(* between its top and its bottom for a private stack.                     *)
(***************************************************************************)
EXTENDS Eval

(* The private stacks that the frames and the memory stand for. *)
PrivateStacks ==
  [d \in DOMAIN frames |->
     [src |-> frames[d].src, pc |-> frames[d].pc,
      stack |-> [i \in 1 .. (frames[d].bottom - frames[d].top) |->
                   mem[ItemAddress(frames[d], i - 1)]]]]

Begun == status \in {"eval", "ok"} \/ frames # << >>

Phase ==
  CASE status = "ok"          -> "ok"
    [] status = "eval"        -> "eval"
    [] status \in EvalReverts -> "reverted"
    [] status = "unchecked"   -> "idle"
    [] OTHER                  -> "asked"

(* What the machine caches before it begins is nothing. *)
Cache == IF Begun THEN stateKV ELSE [key \in Value |-> Missing]

Returned == IF status = "ok" THEN result.stack ELSE << >>

Machine == INSTANCE StackMachine WITH
  phase       <- Phase,
  activations <- PrivateStacks,
  cache       <- Cache,
  returned    <- Returned

(* No source of an expression calls itself, through others or directly: a *)
(* call goes to a source of lower rank.                                    *)
CallsAreLayered(e) ==
  \E rank \in [DOMAIN e.sources -> 0 .. Len(e.sources)] :
    \A s \in DOMAIN e.sources : \A k \in DOMAIN e.sources[s].ops :
      LET op == e.sources[s].ops[k]
      IN  op.code = "call" /\ op.arg \in DOMAIN e.sources => rank[op.arg] < rank[s]

(* The interpreter's pointer arithmetic on one shared memory computes what a *)
(* machine with a private stack per call computes, step by step.             *)
ImplementsStackMachine == Machine!Spec
=============================================================================
