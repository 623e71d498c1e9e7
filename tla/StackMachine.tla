---------------------------- MODULE StackMachine ----------------------------
(***************************************************************************)
(* What an evaluation computes, for a reader who knows nothing of memory:  *)
(* every activation of a source has a private stack, a sequence with the   *)
(* top last, that starts with its inputs.  A call is a function call by    *)
(* value and an evaluation is a function call on a map from keys to words, *)
(* the overlay in front of the store.                                      *)
(***************************************************************************)
EXTENDS Bytecode, SequencesExt

CONSTANTS
  Requests,       (* The arguments of eval4.                   *)
  ExternAnswers,  (* The arrays an extern contract may return. *)
  MaxOutputs,     (* The most outputs that are returned.       *)
  Missing         (* The absence of a key in the cache.        *)

VARIABLES
  expression,   (* The constants and the bytecode.                          *)
  phase,        (* "idle", "asked", "eval", "ok" or "reverted".             *)
  request,      (* The arguments of eval4.                                  *)
  activations,  (* Source, ops done and stack of each, the running one last. *)
  cache,        (* The keys read or written, and their values.              *)
  returned      (* The outputs, the top of the stack first.                 *)

vars == <<expression, phase, request, activations, cache, returned>>

Activation(src, pc, stack) == [src |-> src, pc |-> pc, stack |-> stack]

(* The last value that a list of keys and values gives each of its keys. *)
Overlay(kvs) ==
  LET writes(key) == {i \in DOMAIN kvs : i % 2 = 1 /\ kvs[i] = key} IN
    [key \in Value |->
       IF writes(key) = {} THEN Missing ELSE kvs[Max(writes(key)) + 1]]

Ask ==
  /\ phase = "idle"
  /\ request' \in Requests
  /\ phase' = "asked"
  /\ UNCHANGED <<expression, activations, cache, returned>>

(* The inputs are given top first. *)
Begin ==
  /\ phase = "asked"
  /\ request.sourceIndex \in DOMAIN expression.sources
  /\ Len(request.inputs) = expression.sources[request.sourceIndex].inputs
  /\ phase' = "eval"
  /\ activations' = <<Activation(request.sourceIndex, 0, Reverse(request.inputs))>>
  /\ cache' = Overlay(request.overlay)
  /\ UNCHANGED <<expression, request, returned>>

Top == Last(activations)
Ops == expression.sources[Top.src].ops
Running == phase = "eval" /\ Top.pc < Len(Ops)
RunningOp == Ops[Top.pc + 1]

(* The top n items, the top first, and the stack below them. *)
Args(n) == [k \in 1 .. n |-> Top.stack[Len(Top.stack) + 1 - k]]
Below(n) == SubSeq(Top.stack, 1, Len(Top.stack) - n)

(* The words an op may push for its arguments, with the cache it leaves. *)
Effect(op, args, pushed, newCache) ==
  CASE op.code = "stack"    -> pushed = <<Top.stack[op.arg + 1]>> /\ newCache = cache
    [] op.code = "constant" -> pushed = <<expression.constants[op.arg]>> /\ newCache = cache
    [] op.code = "context"  ->
         /\ (op.arg % 256) + 1 \in DOMAIN request.context
         /\ LET row == request.context[(op.arg % 256) + 1]
                column == ((op.arg \div 256) % 256) + 1
            IN column \in DOMAIN row /\ pushed = <<row[column]>>
         /\ newCache = cache
    [] op.code \in PureCodes -> pushed = <<PureResult(op.code, args)>> /\ newCache = cache
    [] op.code = "ensure"   -> args[1] \notin ZeroWords /\ pushed = << >> /\ newCache = cache
    [] op.code = "set"      ->
         pushed = << >> /\ newCache = [cache EXCEPT ![args[1]] = args[2]]
    [] op.code = "get"      ->
         LET value == IF cache[args[1]] = Missing THEN request.store[args[1]]
                      ELSE cache[args[1]]
         IN pushed = <<value>> /\ newCache = [cache EXCEPT ![args[1]] = value]
    [] op.code = "extern"   ->
         pushed \in ExternAnswers /\ Len(pushed) = op.outs /\ newCache = cache
    [] OTHER                -> FALSE

Step ==
  /\ Running
  /\ LET op == RunningOp
         stack == activations'[Len(activations)].stack
         pushed == SubSeq(stack, Len(Top.stack) - op.ins + 1, Len(stack))
     IN  /\ Len(activations') = Len(activations)
         /\ Effect(op, Args(op.ins), pushed, cache')
         /\ activations' = Append(Front(activations),
                             Activation(Top.src, Top.pc + 1, Below(op.ins) \o pushed))
  /\ UNCHANGED <<expression, phase, request, returned>>

(* The first argument is the bottom of the callee's stack. *)
Call ==
  /\ Running
  /\ RunningOp.code = "call"
  /\ activations' = Front(activations) \o
       <<Activation(Top.src, Top.pc, Below(RunningOp.ins)),
         Activation(RunningOp.arg, 0, Args(RunningOp.ins))>>
  /\ UNCHANGED <<expression, phase, request, cache, returned>>

(* The top of the callee's stack is the top of what the caller gets. *)
Return ==
  /\ phase = "eval"
  /\ Top.pc = Len(Ops)
  /\ Len(activations) > 1
  /\ LET caller == activations[Len(activations) - 1]
         outs == expression.sources[caller.src].ops[caller.pc + 1].outs
         outputs == SubSeq(Top.stack, Len(Top.stack) - outs + 1, Len(Top.stack))
     IN activations' = Append(Front(Front(activations)),
          Activation(caller.src, caller.pc + 1, caller.stack \o outputs))
  /\ UNCHANGED <<expression, phase, request, cache, returned>>

Finish ==
  /\ phase = "eval"
  /\ Top.pc = Len(Ops)
  /\ Len(activations) = 1
  /\ phase' = "ok"
  /\ returned' = Args(Min({MaxOutputs, Len(Top.stack)}))
  /\ UNCHANGED <<expression, request, activations, cache>>

(* An evaluation may be refused, and these ops may revert; no other does,  *)
(* and get only for a key that is not cached.                              *)
Fail ==
  /\ \/ phase = "asked"
     \/ Running /\ RunningOp.code \in {"context", "add", "ensure", "extern", "call"}
     \/ Running /\ RunningOp.code = "get" /\ cache[Args(1)[1]] = Missing
  /\ phase' = "reverted"
  /\ UNCHANGED <<expression, request, activations, cache, returned>>

Init ==
  /\ phase = "idle"
  /\ activations = << >>
  /\ cache = [key \in Value |-> Missing]
  /\ returned = << >>

Next == Ask \/ Begin \/ Step \/ Call \/ Return \/ Finish \/ Fail

Spec == Init /\ [][Next]_vars
=============================================================================
