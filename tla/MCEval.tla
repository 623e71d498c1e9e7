------------------------------- MODULE MCEval -------------------------------
(***************************************************************************)
(* Small instances of the integrity check and the evaluation.  The entry   *)
(* source is any list of up to three ops with an honest prefix, the        *)
(* sources it may call are drawn from a few that read their inputs, call   *)
(* on, use an extern or the store.  Next to these, any small prefix with   *)
(* up to two ops that also fail each of the checks.                        *)
(***************************************************************************)
EXTENDS EvalMachine, MCWords

MCOps ==
  {StackOp(0), StackOp(1), ConstantOp(1), ConstantOp(2), ContextOp(0), ContextOp(1),
   AddOp(2), IfOp, GetOp, SetOp, EnsureOp, ExternOp(1, 2), ExternOp(0, 1),
   CallOp(2, 1, 1), CallOp(2, 1, 2), CallOp(2, 2, 3)}

(* Below the deepest call, a source that reads its input and the store. *)
Leaf == HonestSource(1, <<StackOp(0), GetOp>>)

Callees ==
  {HonestSource(1, <<ConstantOp(2)>>),
   HonestSource(1, <<ExternOp(0, 2), StackOp(0), CallOp(3, 1, 2)>>),
   HonestSource(2, <<StackOp(0), StackOp(1), AddOp(2), CallOp(3, 1, 1)>>)}

HonestExpressions ==
  [constants : {<<V(1), V(0)>>},
   sources   : {<<HonestSource(io[1], io[2]), callee, Leaf>> :
                  io \in {x \in (0 .. 2) \X OpLists(MCOps, 3) : Honest(x[1], x[2])},
                  callee \in Callees}]

OpsToCheck ==
  {StackOp(0), StackOp(1), ConstantOp(1), ConstantOp(2), AddOp(2), AddOp(1),
   HashOp(1), SetOp, CallOp(2, 1, 2), CallOp(2, 1, 3), CallOp(3, 0, 0),
   ExternOp(1, 1), ExternOp(0, 2), InvalidOp}

AnyPrefix ==
  [constants : {<<V(1)>>},
   sources   : {<<SourceOf(inputs, outputs, alloc, ops), HonestSource(1, <<ConstantOp(1)>>)>> :
                  inputs \in 0 .. 1, outputs \in 0 .. 2, alloc \in 0 .. 2,
                  ops \in OpLists(OpsToCheck, 2)}]

MCExpressions == HonestExpressions \cup AnyPrefix

Store == [key \in MCValue |-> V((NumberOf(key) + 1) % 3)]

Request(s, inputs, overlay) ==
  [sourceIndex |-> s, inputs |-> inputs, overlay |-> overlay,
   context |-> <<<<V(2)>>>>, store |-> Store]

MCRequests ==
  {Request(1, << >>, << >>), Request(1, <<V(2)>>, << >>), Request(1, <<V(2), V(1)>>, << >>),
   Request(1, << >>, <<V(1), V(0), V(1), V(2)>>), Request(2, <<V(0)>>, <<V(2)>>),
   Request(3, <<V(1)>>, << >>), Request(4, << >>, << >>)}

MCExternAnswers == {<<V(1)>>, <<V(2), V(0)>>}
=============================================================================
