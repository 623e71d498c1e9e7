------------------------------ MODULE MCTraces ------------------------------
(***************************************************************************)
(* Expressions of five sources in which one source is reached along two    *)
(* paths, called twice, or not returned to; and expressions whose sources  *)
(* call themselves, each other, or sources that do, all of which the       *)
(* integrity check accepts.                                                *)
(***************************************************************************)
EXTENDS TracedEval, MCWords

EntryOps ==
  {<<ConstantOp(1), CallOp(2, 1, 1), ConstantOp(2), CallOp(3, 1, 2)>>,
   <<ContextOp(0), CallOp(3, 1, 1), StackOp(0), CallOp(3, 1, 1)>>,
   <<ConstantOp(2), CallOp(2, 1, 1), StackOp(0), ConstantOp(1), EnsureOp, CallOp(3, 1, 1)>>}

SecondOps ==
  {<<StackOp(0), CallOp(4, 1, 1)>>,
   <<StackOp(0), ConstantOp(1), CallOp(4, 1, 1), ExternOp(0, 1), CallOp(5, 1, 1)>>,
   <<ConstantOp(2), ContextOp(0), EnsureOp>>,
   <<StackOp(0), CallOp(2, 1, 1)>>}

ThirdOps ==
  {<<StackOp(0), StackOp(0), AddOp(2), CallOp(4, 1, 1)>>,
   <<StackOp(0), CallOp(5, 1, 1), StackOp(0), CallOp(4, 1, 1)>>}

Fourth == HonestSource(1, <<StackOp(0), GetOp, CallOp(5, 1, 1)>>)
Fifth == HonestSource(1, <<StackOp(0), ContextOp(0), AddOp(2)>>)

CallTrees ==
  {<<HonestSource(0, first), HonestSource(1, second), HonestSource(1, third), Fourth, Fifth>> :
     first \in EntryOps, second \in SecondOps, third \in ThirdOps}

-----------------------------------------------------------------------------
RecursiveOps ==
  {CallOp(1, 1, 1), CallOp(2, 1, 1), CallOp(2, 2, 2),
   StackOp(0), ConstantOp(1), ConstantOp(2), EnsureOp, ExternOp(0, 1)}

Callees ==
  {HonestSource(inputs, ops) :
     inputs \in {1, 2}, ops \in {<<StackOp(0), StackOp(0), CallOp(2, 2, 2)>>,
                                 <<StackOp(0), CallOp(1, 1, 1)>>,
                                 <<ConstantOp(1), StackOp(0)>>}}

Recursions ==
  {<<HonestSource(1, ops), callee>> :
     ops \in {x \in OpLists(RecursiveOps, 3) : Honest(1, x)}, callee \in Callees}

MCExpressions ==
  {[constants |-> <<V(1), V(0)>>, sources |-> sources] : sources \in CallTrees \cup Recursions}

-----------------------------------------------------------------------------
Store == [key \in MCValue |-> V((NumberOf(key) + 1) % 3)]

Request(s, inputs, word) ==
  [sourceIndex |-> s, inputs |-> inputs, overlay |-> << >>, context |-> <<<<word>>>>,
   store |-> Store]

MCRequests ==
  {Request(1, << >>, V(0)), Request(1, << >>, V(1)), Request(1, <<V(2)>>, V(0)),
   Request(4, <<V(2)>>, V(1)), Request(2, <<V(1), V(2)>>, V(0))}

MCExternAnswers == {<<V(1)>>, <<V(2)>>, << >>}

MCEncoded(word) == <<0, NumberOf(word)>>
=============================================================================
