-------------------------- MODULE TracedEval_proofs --------------------------
(***************************************************************************)
(* Proofs about the traces of an evaluation and what is read from them.    *)
(*                                                                         *)
(* Each trace is that of a call that the bytecode makes (TraceInv).  The   *)
(* arena holds the traces, the words of their stacks cut into bytes, among *)
(* other calls (ArenaInv).  And traces are in the order in which the       *)
(* activations end (PathInv): between the trace of a call and that of its  *)
(* caller are only traces of what the caller called, and a source of which *)
(* an activation has ended never waits for itself.  So the nearest trace   *)
(* of the parent's index is that of the parent.                            *)
(***************************************************************************)
EXTENDS TracedEval, Eval_proofs, Induction

-----------------------------------------------------------------------------
(* Traces. *)

TraceType == [parent : Nat, source : Nat, stack : Seq(Value)]

(* A trace of an evaluation of e: of a call that e makes, with all outputs. *)
TraceFits(e, trace) ==
  /\ trace.source \in DOMAIN e.sources /\ trace.parent \in DOMAIN e.sources
  /\ Len(trace.stack) = e.sources[trace.source].outputs
  /\ \/ trace.parent = trace.source
     \/ \E op \in {e.sources[trace.parent].ops[k] : k \in DOMAIN e.sources[trace.parent].ops} :
          op.code = "call" /\ op.arg = trace.source

(* The last of the traces ts is of source i and starts with the stack. *)
LastTraceIs(ts, i, stack) ==
  /\ Len(ts) >= 1 /\ Len(stack) <= Len(ts[Len(ts)].stack)
  /\ ts[Len(ts)].source = i
  /\ ts[Len(ts)].parent = i
  /\ SubSeq(ts[Len(ts)].stack, 1, Len(stack)) = stack

(* The first activation is of the source that was asked for. *)
RootIs(i) == frames[1].src = i /\ frames[1].parent = i

TraceInv ==
  /\ expression \in Expressions
  /\ traces \in Seq(TraceType)
  /\ \A t \in 1 .. Len(traces) : TraceFits(expression, traces[t])
  /\ status = "overlay" => sourceIndex = request.sourceIndex
  /\ status = "eval" => RootIs(request.sourceIndex)
  /\ status = "ok" => LastTraceIs(traces, request.sourceIndex, result.stack)

(* What is added to the traces at a return. *)
ReturnTrace ==
  [parent |-> Running.parent, source |-> Running.src,
   stack |-> Items(Running.bottom - Running.top)]

(* The stack in a trace is a sequence of as many words as the source has outputs. *)
LEMMA TracedStack ==
  ASSUME EvalInv, AtReturn
  PROVE  /\ Items(Running.bottom - Running.top) \in Seq(Value)
         /\ Len(Items(Running.bottom - Running.top)) = Sources[Running.src].outputs
<1> DEFINE n == Sources[Running.src].outputs
<1>1. /\ n \in Nat /\ Running.bottom - Running.top = n
      /\ \A k \in 1 .. n : Item(k) \in Value
  BY AtReturnFacts
<1>2. Items(n) \in [1 .. n -> Value]
  BY <1>1 DEF Items
<1> HIDE DEF n
<1>3. Items(n) \in Seq(Value)
  BY <1>1, <1>2, SeqDef
<1>4. Len(Items(n)) = n
  BY <1>1 DEF Items
<1> QED
  BY <1>1, <1>3, <1>4 DEF n

(* The trace of a return fits: an activation has either been called by the   *)
(* one below it, or is the first and its own parent.                         *)
LEMMA ReturnTraceFits ==
  ASSUME EvalInv, TraceInv, AtReturn
  PROVE  ReturnTrace \in TraceType /\ TraceFits(expression, ReturnTrace)
<1>1. status = "eval"
  BY DEF AtReturn
<1>2. /\ Len(frames) \in Nat /\ Len(frames) >= 1 /\ frames[Len(frames)] = Running
      /\ Running.src \in Nat /\ Running.parent \in Nat /\ Running.src \in DOMAIN Sources
  BY <1>1, RunningFacts DEF Running
<1>3. ReturnTrace \in TraceType
  BY <1>2, TracedStack DEF ReturnTrace, TraceType
<1>4. Len(ReturnTrace.stack) = expression.sources[ReturnTrace.source].outputs
  BY TracedStack DEF ReturnTrace, Sources
<1>5. CASE Len(frames) = 1
  BY <1>1, <1>2, <1>4, <1>3, <1>5 DEF TraceInv, RootIs, TraceFits, ReturnTrace, Sources
<1>6. CASE Len(frames) > 1
  <2> DEFINE f == frames[Len(frames) - 1]
  <2>1. /\ Len(frames) - 1 \in 1 .. (Len(frames) - 1)
        /\ (Len(frames) - 1) + 1 = Len(frames)
    BY <1>2, <1>6
  <2>2. WaitsFor(expression, f, Running)
    BY <1>1, <1>2, <2>1, SuspendedFacts
  <2>3. f.pc \in Nat /\ f.src \in DOMAIN Sources
    BY <1>1, <2>1, SuspendedFacts DEF FrameFits, FrameType, Sources
  <2>4. Sources[f.src].ops \in Seq(Op)
    BY <1>1, <2>3, SourceFacts DEF EvalInv, Source
  <2>5. /\ f.pc < Len(Sources[f.src].ops) /\ OpAt(expression, f.src, f.pc).code = "call"
        /\ OpAt(expression, f.src, f.pc).arg = Running.src /\ Running.parent = f.src
    BY <2>2 DEF WaitsFor, Sources
  <2>6. f.pc + 1 \in DOMAIN Sources[f.src].ops
    <3> HIDE DEF f
    <3> QED
      BY <2>3, <2>4, <2>5, LenProperties
  <2> HIDE DEF f
  <2>7. \E op \in {Sources[Running.parent].ops[k] : k \in DOMAIN Sources[Running.parent].ops} :
          op.code = "call" /\ op.arg = Running.src
    BY <2>5, <2>6 DEF OpAt, Sources
  <2> QED
    BY <1>2, <1>3, <1>4, <2>3, <2>5, <2>7 DEF TraceFits, ReturnTrace, Sources
<1>7. Len(frames) = 1 \/ Len(frames) > 1
  <2>1. Len(frames) \in Nat /\ Len(frames) >= 1
    BY <1>2
  <2>2. \A n \in Nat : n >= 1 => n = 1 \/ n > 1
    OBVIOUS
  <2> QED
    BY <2>1, <2>2
<1> QED
  BY <1>5, <1>6, <1>7

(* A return adds a trace that fits to the traces. *)
LEMMA TraceAdded ==
  ASSUME EvalInv, TraceInv, AtReturn, StackTrace, expression' = expression
  PROVE  /\ traces' \in Seq(TraceType)
         /\ \A t \in 1 .. Len(traces') : TraceFits(expression', traces'[t])
         /\ traces'[Len(traces')] = ReturnTrace /\ Len(traces') >= 1
<1>1. traces' = Append(traces, ReturnTrace) /\ traces \in Seq(TraceType)
  BY DEF StackTrace, ReturnTrace, TraceInv
<1>2. ReturnTrace \in TraceType /\ TraceFits(expression, ReturnTrace)
  BY ReturnTraceFits
<1>3. Len(traces) \in Nat
  BY <1>1, LenProperties
<1>4. /\ traces' \in Seq(TraceType) /\ Len(traces') = Len(traces) + 1
      /\ \A t \in 1 .. Len(traces) : traces'[t] = traces[t]
      /\ traces'[Len(traces) + 1] = ReturnTrace
  BY <1>1, <1>2, AppendProperties
<1>5. ASSUME NEW t \in 1 .. Len(traces')
      PROVE  TraceFits(expression, traces'[t])
  <2>1. CASE t = Len(traces) + 1
    BY <1>2, <1>4, <2>1
  <2>2. CASE t \in 1 .. Len(traces)
    BY <1>4, <2>2 DEF TraceInv
  <2> QED
    BY <1>3, <1>4, <2>1, <2>2
<1>6. Len(traces') >= 1
  BY <1>3, <1>4
<1> QED
  BY <1>4, <1>5, <1>6

(* eval4 returns the first of the items that the last trace has. *)
LEMMA LastTraceOnReturn ==
  ASSUME EvalInv, TraceInv, ReturnFromEval, expression' = expression
  PROVE  LastTraceIs(traces', request.sourceIndex, result'.stack)
<1> DEFINE declared == Sources[sourceIndex].outputs
           outputs == IF MaxOutputs < declared THEN MaxOutputs ELSE declared
           all == Items(Running.bottom - Running.top)
<1>1. /\ AtReturn /\ StackTrace /\ Len(frames) = 1 /\ status = "eval"
      /\ result'.stack = Items(outputs)
  BY DEF ReturnFromEval, AtReturn
<1>2. /\ Running = frames[1] /\ sourceIndex = Running.src
  BY <1>1, RunningFacts DEF Running
<1>3. Running.src = request.sourceIndex /\ Running.parent = request.sourceIndex
  BY <1>1, <1>2 DEF TraceInv, RootIs
<1>4. traces'[Len(traces')] = ReturnTrace /\ Len(traces') >= 1
  BY <1>1, TraceAdded
<1>5. /\ declared \in Nat /\ Running.bottom - Running.top = declared
      /\ \A k \in 1 .. declared : Item(k) \in Value
  BY <1>1, <1>2, AtReturnFacts
<1>6. outputs \in Nat /\ outputs <= declared
  BY <1>5, MaxOutputsAssumption
<1> HIDE DEF declared, outputs
<1>7. /\ Items(outputs) \in Seq(Value) /\ Len(Items(outputs)) = outputs
      /\ \A k \in 1 .. outputs : Items(outputs)[k] = Item(k)
  <2>1. Items(outputs) \in [1 .. outputs -> Value]
    BY <1>5, <1>6 DEF Items
  <2>2. Items(outputs) \in Seq(Value)
    BY <2>1, <1>6, SeqDef
  <2>3. Len(Items(outputs)) = outputs
    BY <1>6 DEF Items
  <2> QED
    BY <2>2, <2>3 DEF Items
<1>8. \A k \in 1 .. outputs : all[k] = Item(k) /\ all[k] \in Value
  BY <1>5, <1>6 DEF Items
<1> HIDE DEF all
<1>9. /\ SubSeq(all, 1, outputs) \in Seq(Value)
      /\ Len(SubSeq(all, 1, outputs)) = outputs
      /\ \A k \in 1 .. outputs : SubSeq(all, 1, outputs)[k] = all[k]
  <2>1. /\ SubSeq(all, 1, outputs) \in Seq(Value)
        /\ Len(SubSeq(all, 1, outputs)) = (IF 1 <= outputs THEN outputs - 1 + 1 ELSE 0)
        /\ \A k \in 1 .. (outputs - 1 + 1) : SubSeq(all, 1, outputs)[k] = all[1 + k - 1]
    BY <1>6, <1>8, SubSeqProperties
  <2>2. /\ outputs - 1 + 1 = outputs /\ \A k \in 1 .. outputs : 1 + k - 1 = k
        /\ ~(1 <= outputs) => outputs = 0
    BY <1>6
  <2> QED
    BY <2>1, <2>2
<1>10. SubSeq(all, 1, outputs) = Items(outputs)
  BY <1>7, <1>8, <1>9, SeqEqual
<1>11. /\ ReturnTrace.source = Running.src /\ ReturnTrace.parent = Running.parent
       /\ ReturnTrace.stack = all
  BY DEF ReturnTrace, all
<1>12. Len(Items(outputs)) <= Len(all)
  <2>1. Len(all) = Sources[Running.src].outputs
    BY <1>1, TracedStack DEF all
  <2>2. Sources[Running.src].outputs = declared
    BY <1>2 DEF declared
  <2> QED BY <1>6, <1>7, <2>1, <2>2
<1> QED
  BY <1>1, <1>3, <1>4, <1>7, <1>10, <1>11, <1>12 DEF LastTraceIs

(* Within the evaluation the first activation stays what it is. *)
LEMMA RootStays ==
  ASSUME EvalInv, [Next]_vars, status = "eval", status' = "eval"
  PROVE  RootIs(request.sourceIndex) => RootIs(request.sourceIndex)'
<1>1. request' = request
  BY DEF Next, Stopped, vars, evalVars, evalFixed, EvalNext, RunOp, CallEval4, AllocateStack,
     Deserialized, RejectOverlay, ApplyOverlay, RejectSourceIndex, RejectInputs, EnterEval,
     Overlaid, Revert, RunStack, RunConstant, RunContext, RunPure, RunEnsure, RunGet, RunSet,
     RunExtern, RunCall, RevertContext, RevertArithmetic, RevertEnsure, RevertStore,
     RevertExternCall, RevertExternOutputs, RevertGas, ReturnFromCall, ReturnFromEval, PopPush
<1>2. CASE frames' = frames
  BY <1>1, <1>2 DEF RootIs
<1>3. CASE \E n \in Nat : StaysInScope(n)
  <2>1. PICK n \in Nat : StaysInScope(n)
    BY <1>3
  <2>2. 1 \in DOMAIN frames
    BY RunningFacts, LenProperties
  <2>3. 1 \in DOMAIN frames'
    BY <2>1 DEF StaysInScope
  <2>4. frames'[1].src = frames[1].src /\ frames'[1].parent = frames[1].parent
    BY <2>1, <2>2, <2>3 DEF StaysInScope
  <2> QED
    BY <1>1, <2>4 DEF RootIs
<1> QED
  BY <1>2, <1>3, StepInScope

(* A step that adds no trace and does not end the evaluation. *)
LEMMA TracesStay ==
  ASSUME EvalInv, TraceInv, [Next]_vars, traces' = traces, status' # "ok",
         expression' = expression
  PROVE  TraceInv'
<1>1. \A t \in 1 .. Len(traces') : TraceFits(expression', traces'[t])
  BY DEF TraceInv
<1>2. ASSUME status' = "overlay" PROVE sourceIndex' = request'.sourceIndex
  <2>1. CASE UNCHANGED evalVars
    BY <1>2, <2>1 DEF TraceInv, evalVars
  <2>2. CASE Deserialized
    BY <2>2 DEF Deserialized
  <2>3. CASE ApplyOverlay
    BY <2>3 DEF ApplyOverlay, TraceInv
  <2>4. CASE EvalNext /\ ~Deserialized /\ ~ApplyOverlay
    BY <1>2, <2>4 DEF EvalNext, EvalReverts, RunOp, CallEval4, AllocateStack,
     RejectOverlay, RejectSourceIndex, RejectInputs, EnterEval,
     Overlaid, Revert, RunStack, RunConstant, RunContext, RunPure, RunEnsure, RunGet, RunSet,
     RunExtern, RunCall, RevertContext, RevertArithmetic, RevertEnsure, RevertStore,
     RevertExternCall, RevertExternOutputs, RevertGas, ReturnFromCall, ReturnFromEval, PopPush, AtRun, AtReturn, evalFixed
  <2> QED
    BY <2>1, <2>2, <2>3, <2>4 DEF Next, Stopped, vars
<1>3. ASSUME status' = "eval" PROVE RootIs(request.sourceIndex)'
  <2>1. CASE status = "eval"
    BY <1>3, <2>1, RootStays DEF TraceInv
  <2>2. CASE EnterEval
    <3>1. sourceIndex = request.sourceIndex /\ request' = request
      BY <2>2 DEF EnterEval, Overlaid, TraceInv
    <3>2. frames'[1].src = sourceIndex /\ frames'[1].parent = sourceIndex
      BY <2>2 DEF EnterEval, Frame
    <3> QED
      BY <3>1, <3>2 DEF RootIs
  <2>3. CASE UNCHANGED evalVars
    BY <1>3, <2>1, <2>3 DEF evalVars
  <2>4. CASE EvalNext /\ ~EnterEval
    BY <1>3, <2>1, <2>4 DEF EvalNext, EvalReverts, RunOp, CallEval4, AllocateStack, Deserialized,
     RejectOverlay, ApplyOverlay, RejectSourceIndex, RejectInputs,
     Overlaid, Revert, RunStack, RunConstant, RunContext, RunPure, RunEnsure, RunGet, RunSet,
     RunExtern, RunCall, RevertContext, RevertArithmetic, RevertEnsure, RevertStore,
     RevertExternCall, RevertExternOutputs, RevertGas, ReturnFromCall, ReturnFromEval, AtRun, AtReturn
  <2> QED
    BY <2>2, <2>3, <2>4 DEF Next, Stopped, vars
<1> QED
  BY <1>1, <1>2, <1>3 DEF TraceInv

(* TraceInv is kept, given EvalInv: a trace is only added at a return. *)
LEMMA TraceInvNext == EvalInv /\ TraceInv /\ [Next]_vars => TraceInv'
<1> SUFFICES ASSUME EvalInv, TraceInv, [Next]_vars
             PROVE  TraceInv'
  OBVIOUS
<1>1. expression' = expression
  BY ExpressionStays
<1>2. CASE ReturnFromCall
  <2>1. AtReturn /\ StackTrace /\ status = "eval" /\ status' = "eval"
    BY <1>2 DEF ReturnFromCall, AtReturn
  <2>2. RootIs(request.sourceIndex)'
    BY <2>1, RootStays DEF TraceInv
  <2> QED
    BY <1>1, <2>1, <2>2, TraceAdded DEF TraceInv
<1>3. CASE ReturnFromEval
  <2>1. AtReturn /\ StackTrace /\ status' = "ok" /\ request' = request
    BY <1>3 DEF ReturnFromEval
  <2>2. LastTraceIs(traces', request'.sourceIndex, result'.stack)
    BY <1>1, <1>3, <2>1, LastTraceOnReturn
  <2>3. LastTraceIs(traces, request.sourceIndex, result.stack)'
    BY <2>2 DEF LastTraceIs
  <2> QED
    BY <1>1, <2>1, <2>3, TraceAdded DEF TraceInv
<1>4. CASE UNCHANGED evalVars
  BY <1>1, <1>4 DEF TraceInv, evalVars, RootIs, LastTraceIs
<1>5. CASE EvalNext /\ ~ReturnFromCall /\ ~ReturnFromEval
  <2>1. traces' = traces /\ status' # "ok"
    BY <1>5 DEF EvalNext, EvalReverts, evalFixed, RunOp, CallEval4, AllocateStack, Deserialized,
     RejectOverlay, ApplyOverlay, RejectSourceIndex, RejectInputs, EnterEval,
     Overlaid, Revert, RunStack, RunConstant, RunContext, RunPure, RunEnsure, RunGet, RunSet,
     RunExtern, RunCall, RevertContext, RevertArithmetic, RevertEnsure, RevertStore,
     RevertExternCall, RevertExternOutputs, RevertGas, PopPush, AtRun
  <2> QED
    BY <1>1, <2>1, TracesStay
<1> QED
  BY <1>2, <1>3, <1>4, <1>5 DEF Next, Stopped, vars

(* Every trace that the tracer receives names a call of the bytecode and has *)
(* the whole stack that the source returns; the last is the evaluation's.    *)
THEOREM TracesStayFaithful == Spec => []TracesAreFaithful
<1>1. Init => TraceInv
  <2> SUFFICES ASSUME Init PROVE TraceInv
    OBVIOUS
  <2>1. traces = << >> /\ status = "unchecked" /\ expression \in Expressions
    BY DEF Init, EvalInit, CheckInit
  <2>2. traces \in Seq(TraceType) /\ Len(traces) = 0
    BY <2>1, EmptySeq
  <2> QED
    BY <2>1, <2>2 DEF TraceInv
<1>2. TraceInv => TracesAreFaithful
  BY DEF TraceInv, TracesAreFaithful, TraceFits, LastTraceIs, Sources
<1> QED
  BY <1>1, <1>2, TraceInvNext, EvalInvariant, PTL DEF Spec

-----------------------------------------------------------------------------
(* What is read from the calldata of one trace. *)

(* Two bytes keep a source index. *)
LEMMA IndexBytesFacts ==
  ASSUME NEW n \in 0 .. (IndexMod - 1)
  PROVE  /\ IndexBytes(n) \in Seq(Nat) /\ Len(IndexBytes(n)) = 2
         /\ U16(IndexBytes(n)[1], IndexBytes(n)[2]) = n
<1> DEFINE high == (n \div 256) % 256
           low == n % 256
<1>1. high \in Nat /\ low \in Nat /\ 256 * high + low = n
  <2>1. n \in Nat /\ n < 65536
    BY SMTT(30) DEF IndexMod
  <2>2. n \div 256 \in Nat /\ n \div 256 < 256 /\ 256 * (n \div 256) + (n % 256) = n
        /\ n % 256 \in Nat
    BY <2>1
  <2>3. (n \div 256) % 256 = n \div 256
    BY <2>2
  <2> QED BY <2>2, <2>3
<1> HIDE DEF high, low
<1>2. <<high, low>> \in Seq(Nat) /\ Len(<<high, low>>) = 2
  BY <1>1
<1>3. IndexBytes(n) = <<high, low>>
  BY DEF IndexBytes, high, low
<1> QED BY <1>1, <1>2, <1>3 DEF U16

(* The bytes of the words of a stack. *)
LEMMA StackBytes ==
  ASSUME NEW stack \in Seq(Value)
  PROVE  LET bytes == FlattenSeq([k \in DOMAIN stack |-> Encoded(stack[k])]) IN
           /\ bytes \in Seq(Nat) /\ Len(bytes) = Len(stack) * WordBytes
           /\ \A k \in 1 .. Len(stack) : \A i \in 1 .. WordBytes :
                bytes[(k - 1) * WordBytes + i] = Encoded(stack[k])[i]
<1> DEFINE N == Len(stack)
           parts == [k \in DOMAIN stack |-> Encoded(stack[k])]
           o == [t \in 0 .. N |-> t * WordBytes]
<1>1. N \in Nat /\ DOMAIN stack = 1 .. N /\ \A k \in 1 .. N : stack[k] \in Value
  BY LenProperties, ElementOfSeq
<1>2. \A k \in 1 .. N : Encoded(stack[k]) \in Seq(Nat) /\ Len(Encoded(stack[k])) = WordBytes
  BY <1>1, EncodedAssumption
<1>3. parts \in Seq(Seq(Nat)) /\ Len(parts) = N
  <2>1. parts \in [1 .. N -> Seq(Nat)]
    BY <1>1, <1>2
  <2> HIDE DEF parts, N
  <2> QED BY <1>1, <2>1, FunctionIsSequence
<1>4. \A k \in 1 .. N : parts[k] = Encoded(stack[k]) /\ Len(parts[k]) = WordBytes
  BY <1>1, <1>2
<1> HIDE DEF parts, N
<1>5. WordBytes \in Nat \ {0}
  BY WordBytesAssumption
<1>6. \A t \in 0 .. N : t * WordBytes \in Nat
  <2>1. \A t \in Nat : t * WordBytes \in Nat
    BY <1>5, MultipleFacts
  <2> QED BY <2>1
<1>7. o \in [0 .. N -> Nat] /\ o[0] = 0
  BY <1>1, <1>5, <1>6
<1>8. ASSUME NEW t \in 1 .. N PROVE o[t] = o[t - 1] + Len(parts[t])
  <2>1. t * WordBytes = (t - 1) * WordBytes + WordBytes
    BY <1>1, <1>5, MultipleFacts
  <2>2. o[t] = t * WordBytes /\ o[t - 1] = (t - 1) * WordBytes
    BY <1>1
  <2> QED BY <1>4, <2>1, <2>2
<1>9. AreOffsets(o, parts)
  <2> HIDE DEF o
  <2> QED BY <1>3, <1>7, <1>8 DEF AreOffsets
<1>10. \A k \in 1 .. N : o[k - 1] = (k - 1) * WordBytes
  BY <1>1
<1>11. o[N] = N * WordBytes
  BY <1>1
<1> HIDE DEF o
<1>12. /\ FlattenSeq(parts) \in Seq(Nat) /\ Len(FlattenSeq(parts)) = o[Len(parts)]
       /\ \A t \in 1 .. Len(parts) : \A k \in 1 .. Len(parts[t]) :
            FlattenSeq(parts)[o[t - 1] + k] = parts[t][k]
  <2> SUFFICES ASSUME NEW p \in Seq(Seq(Nat)), NEW q, AreOffsets(q, p)
               PROVE  /\ FlattenSeq(p) \in Seq(Nat) /\ Len(FlattenSeq(p)) = q[Len(p)]
                      /\ \A t \in 1 .. Len(p) : \A k \in 1 .. Len(p[t]) :
                           FlattenSeq(p)[q[t - 1] + k] = p[t][k]
    BY <1>3, <1>9
  <2> QED BY FlattenFacts
<1>13. \A k \in 1 .. N : \A i \in 1 .. WordBytes :
         FlattenSeq(parts)[(k - 1) * WordBytes + i] = Encoded(stack[k])[i]
  BY <1>3, <1>4, <1>10, <1>12, ZenonT(60)
<1> QED BY <1>3, <1>11, <1>12, <1>13 DEF parts, N

(* A trace that indices and calldata can hold. *)
IsWritable(trace) ==
  /\ trace.parent \in 1 .. IndexMod /\ trace.source \in 1 .. IndexMod
  /\ trace.stack \in Seq(Value)

(* What is read back. *)
ReadBack(trace) ==
  [parent |-> trace.parent - 1, source |-> trace.source - 1,
   stack |-> [k \in 1 .. Len(trace.stack) |-> Encoded(trace.stack[k])]]

LEMMA CalldataReadBack ==
  ASSUME NEW trace, IsWritable(trace)
  PROVE  /\ TracerCalldata(trace) \in Seq(Nat) /\ Len(TracerCalldata(trace)) >= 4
         /\ FromData(TracerCalldata(trace)) = ReadBack(trace)
<1> DEFINE a == IndexBytes(trace.parent - 1)
           b == IndexBytes(trace.source - 1)
           bytes == FlattenSeq([k \in DOMAIN trace.stack |-> Encoded(trace.stack[k])])
           data == (a \o b) \o bytes
           stack == trace.stack
           W == WordBytes
<1>1. TracerCalldata(trace) = data
  BY DEF TracerCalldata
<1>2. trace.parent - 1 \in 0 .. (IndexMod - 1) /\ trace.source - 1 \in 0 .. (IndexMod - 1)
  <2>1. IndexMod \in Nat
    BY DEF IndexMod
  <2> QED BY <2>1 DEF IsWritable
<1>3. /\ a \in Seq(Nat) /\ Len(a) = 2 /\ U16(a[1], a[2]) = trace.parent - 1
      /\ b \in Seq(Nat) /\ Len(b) = 2 /\ U16(b[1], b[2]) = trace.source - 1
  BY <1>2, IndexBytesFacts
<1>4. stack \in Seq(Value) /\ Len(stack) \in Nat /\ W \in Nat \ {0}
  BY LenProperties, WordBytesAssumption DEF IsWritable
<1>5. /\ bytes \in Seq(Nat) /\ Len(bytes) = Len(stack) * W
      /\ \A k \in 1 .. Len(stack) : \A i \in 1 .. W :
           bytes[(k - 1) * W + i] = Encoded(stack[k])[i]
  BY <1>4, StackBytes
<1> HIDE DEF a, b, bytes, W, stack
<1>6. /\ a \o b \in Seq(Nat) /\ Len(a \o b) = 4
      /\ (a \o b)[1] = a[1] /\ (a \o b)[2] = a[2] /\ (a \o b)[3] = b[1] /\ (a \o b)[4] = b[2]
  <2>1. /\ a \o b \in Seq(Nat) /\ Len(a \o b) = Len(a) + Len(b)
        /\ \A i \in 1 .. (Len(a) + Len(b)) :
             (a \o b)[i] = IF i <= Len(a) THEN a[i] ELSE b[i - Len(a)]
    BY <1>3, ConcatProperties
  <2> QED BY <1>3, <2>1
<1>7. /\ data \in Seq(Nat) /\ Len(data) = 4 + Len(bytes)
      /\ \A i \in 1 .. (4 + Len(bytes)) :
           data[i] = IF i <= 4 THEN (a \o b)[i] ELSE bytes[i - 4]
  <2> DEFINE c == a \o b
  <2> HIDE DEF c
  <2>1. c \in Seq(Nat) /\ Len(c) = 4 /\ data = c \o bytes
    BY <1>6 DEF c
  <2>2. /\ c \o bytes \in Seq(Nat) /\ Len(c \o bytes) = Len(c) + Len(bytes)
        /\ \A i \in 1 .. (Len(c) + Len(bytes)) :
             (c \o bytes)[i] = IF i <= Len(c) THEN c[i] ELSE bytes[i - Len(c)]
    BY <1>5, <2>1, ConcatProperties
  <2> HIDE DEF data
  <2>3. data \in Seq(Nat) /\ Len(data) = 4 + Len(bytes)
    BY <2>1, <2>2
  <2>4. \A i \in 1 .. (4 + Len(bytes)) : data[i] = IF i <= 4 THEN c[i] ELSE bytes[i - 4]
    BY <2>1, <2>2
  <2> QED BY <2>3, <2>4 DEF c
<1>8. Len(bytes) \in Nat
  BY <1>5, LenProperties
<1>9. data[1] = a[1] /\ data[2] = a[2] /\ data[3] = b[1] /\ data[4] = b[2]
  <2> HIDE DEF data
  <2>1. ASSUME NEW i \in 1 .. 4 PROVE data[i] = (a \o b)[i]
    <3>1. i \in 1 .. (4 + Len(bytes)) /\ i <= 4
      BY <1>8
    <3> QED BY <1>7, <3>1
  <2>2. 1 \in 1 .. 4 /\ 2 \in 1 .. 4 /\ 3 \in 1 .. 4 /\ 4 \in 1 .. 4
    OBVIOUS
  <2>3. data[1] = (a \o b)[1] /\ data[2] = (a \o b)[2] /\ data[3] = (a \o b)[3]
        /\ data[4] = (a \o b)[4]
    BY <2>1, <2>2
  <2> QED BY <1>6, <2>3
<1>10. (Len(data) - 4) \div W = Len(stack)
  <2>1. Len(data) - 4 = Len(stack) * W
    BY <1>5, <1>7, <1>8
  <2> QED BY <1>4, <2>1, MultipleFacts
<1>11. ASSUME NEW k \in 1 .. Len(stack)
       PROVE  WordAt(data, k) = Encoded(stack[k])
  <2> DEFINE word == Encoded(stack[k])
             p == (k - 1) * W
             q == k * W
  <2>1. word \in Seq(Nat) /\ Len(word) = W
    <3>1. stack[k] \in Value
      BY <1>4, ElementOfSeq
    <3> QED BY <3>1, EncodedAssumption DEF W
  <2>2. /\ q = p + W /\ p \in Nat /\ q <= Len(bytes)
    <3>1. /\ k * W = (k - 1) * W + W /\ (k - 1) * W \in Nat /\ k * W <= Len(stack) * W
      BY <1>4, MultipleFacts
    <3> QED BY <3>1, <1>5
  <2>3. \A i \in 1 .. W : bytes[p + i] = word[i]
    BY <1>5
  <2>4. WordAt(data, k) = SubSeq(data, 4 + p + 1, 4 + q)
    BY DEF WordAt, W
  <2> HIDE DEF data, word, p, q
  <2> DEFINE m == 4 + p + 1
             n == 4 + q
             cut == SubSeq(data, m, n)
  <2>5. m \in Int /\ n \in Int /\ n - m + 1 = W /\ m <= n
    BY <1>4, <2>2
  <2>6. \A i \in m .. n : data[i] \in Nat
    <3>1. \A i \in m .. n : i \in 1 .. Len(data)
      BY <1>4, <1>7, <1>8, <2>2
    <3> HIDE DEF m, n
    <3> QED BY <3>1, <1>7, ElementOfSeq
  <2>7. /\ cut \in Seq(Nat) /\ Len(cut) = W
        /\ \A i \in 1 .. W : cut[i] = data[m + i - 1]
    <3> HIDE DEF m, n
    <3>1. /\ cut \in Seq(Nat)
          /\ Len(cut) = IF m <= n THEN n - m + 1 ELSE 0
          /\ \A i \in 1 .. (n - m + 1) : cut[i] = data[m + i - 1]
      BY <2>5, <2>6, SubSeqProperties
    <3> QED BY <2>5, <3>1
  <2>8. ASSUME NEW i \in 1 .. W PROVE cut[i] = word[i]
    <3>1. /\ m + i - 1 = 4 + (p + i) /\ 4 + (p + i) \in 1 .. (4 + Len(bytes))
          /\ ~(4 + (p + i) <= 4) /\ (4 + (p + i)) - 4 = p + i
      BY <1>4, <1>8, <2>2
    <3>2. data[4 + (p + i)] = bytes[p + i]
      BY <1>7, <3>1
    <3> HIDE DEF m, n, cut
    <3> QED BY <2>3, <2>7, <3>1, <3>2
  <2>9. cut = word
    <3> HIDE DEF cut
    <3> QED BY <2>1, <2>7, <2>8, SeqEqual
  <2> QED BY <2>4, <2>9 DEF word
<1>12. FromData(data) = ReadBack(trace)
  <2> HIDE DEF data
  <2>1. [k \in 1 .. ((Len(data) - 4) \div WordBytes) |-> WordAt(data, k)]
          = [k \in 1 .. Len(stack) |-> Encoded(stack[k])]
    BY <1>10, <1>11 DEF W
  <2>2. U16(data[1], data[2]) = trace.parent - 1 /\ U16(data[3], data[4]) = trace.source - 1
    BY <1>3, <1>9
  <2> QED BY <2>1, <2>2 DEF FromData, ReadBack, stack
<1> QED
  <2> HIDE DEF data
  <2> QED BY <1>1, <1>7, <1>8, <1>12

-----------------------------------------------------------------------------
(* What is read from the arena. *)

(* The turns of the loop over the nodes. *)
LEMMA RainTracesSteps ==
  ASSUME NEW nodes, Len(nodes) \in Nat
  PROVE  \E read :
           /\ RainTraces(nodes) = Reverse(read[Len(nodes)])
           /\ read[0] = << >>
           /\ \A n \in 1 .. Len(nodes) :
                read[n] = IF IsTrace(nodes[n]) THEN Append(read[n - 1], FromData(nodes[n].data))
                          ELSE read[n - 1]
<1> DEFINE N == Len(nodes)
           D == {FromData(nodes[n].data) : n \in 1 .. N}
           S == Seq(D)
           Turn(before, n) == IF IsTrace(nodes[n]) THEN Append(before, FromData(nodes[n].data))
                              ELSE before
           F == [x \in S \X Nat |-> IF x[2] \in 1 .. N THEN Turn(x[1], x[2]) ELSE x[1]]
           IsLoop(g) == g = [n \in 0 .. N |->
                               IF n = 0 THEN << >>
                               ELSE IF IsTrace(nodes[n])
                               THEN Append(g[n - 1], FromData(nodes[n].data))
                               ELSE g[n - 1]]
<1>1. ASSUME NEW before \in S, NEW n \in 1 .. N PROVE Turn(before, n) \in S
  <2> HIDE DEF N
  <2>1. FromData(nodes[n].data) \in D
    OBVIOUS
  <2> HIDE DEF D
  <2>2. Append(before, FromData(nodes[n].data)) \in S
    BY <2>1, AppendProperties
  <2> QED BY <2>2
<1>2. F \in [S \X Nat -> S]
  <2> HIDE DEF Turn, N, S
  <2> QED BY <1>1
<1>3. << >> \in S
  BY EmptySeq
<1>4. PICK g : Recurs(g, N, S, << >>, F)
  <2>1. N \in Nat
    OBVIOUS
  <2> HIDE DEF N, F, S
  <2> QED BY <2>1, <1>2, <1>3, RecursionExists
<1>5. ASSUME NEW n \in 1 .. N PROVE g[n] = Turn(g[n - 1], n)
  <2>1. n - 1 \in 0 .. N /\ n \in Nat
    OBVIOUS
  <2>2. <<g[n - 1], n>> \in S \X Nat
    BY <2>1, <1>4 DEF Recurs
  <2> HIDE DEF Turn, N, S
  <2> QED BY <1>4, <1>5, <2>2 DEF Recurs
<1>6. IsLoop(g)
  <2>1. ASSUME NEW n \in 0 .. N
        PROVE  g[n] = IF n = 0 THEN << >>
                      ELSE IF IsTrace(nodes[n])
                      THEN Append(g[n - 1], FromData(nodes[n].data))
                      ELSE g[n - 1]
    <3>1. CASE n = 0
      BY <1>4, <3>1 DEF Recurs
    <3>2. CASE n # 0
      <4>1. n \in 1 .. N
        BY <3>2
      <4>2. g[n] = Turn(g[n - 1], n)
        BY <1>5, <4>1
      <4> QED BY <3>2, <4>2
    <3> QED BY <3>1, <3>2
  <2> HIDE DEF N, F, S
  <2> QED BY <1>4, <2>1 DEF Recurs
<1> DEFINE read == CHOOSE h : IsLoop(h)
<1>7. IsLoop(read)
  <2> HIDE DEF IsLoop
  <2> QED BY <1>6
<1>8. RainTraces(nodes) = Reverse(read[N])
  BY DEF RainTraces
<1>9. \A n \in 0 .. N : read[n] = IF n = 0 THEN << >>
                                  ELSE IF IsTrace(nodes[n])
                                  THEN Append(read[n - 1], FromData(nodes[n].data))
                                  ELSE read[n - 1]
  <2> HIDE DEF N, read
  <2>1. read = [n \in 0 .. N |-> IF n = 0 THEN << >>
                                 ELSE IF IsTrace(nodes[n])
                                 THEN Append(read[n - 1], FromData(nodes[n].data))
                                 ELSE read[n - 1]]
    BY <1>7
  <2> QED BY <2>1, Zenon
<1>10. read[0] = << >>
  <2> HIDE DEF read
  <2>1. 0 \in 0 .. N
    OBVIOUS
  <2> QED BY <1>9, <2>1
<1>11. ASSUME NEW n \in 1 .. N
       PROVE  read[n] = IF IsTrace(nodes[n]) THEN Append(read[n - 1], FromData(nodes[n].data))
                        ELSE read[n - 1]
  <2> HIDE DEF read
  <2>1. n \in 0 .. N /\ n # 0
    OBVIOUS
  <2> QED BY <1>9, <2>1
<1> HIDE DEF read
<1> QED BY <1>8, <1>10, <1>11

(* Of the nodes, the first n hold the first c[n] of the traces ts, and no more. *)
ArenaCounts(nodes, ts, c) ==
  /\ c \in [0 .. Len(nodes) -> 0 .. Len(ts)]
  /\ c[0] = 0 /\ c[Len(nodes)] = Len(ts)
  /\ \A n \in 1 .. Len(nodes) :
       IF IsTrace(nodes[n])
       THEN c[n] = c[n - 1] + 1 /\ nodes[n].data = TracerCalldata(ts[c[n]])
       ELSE c[n] = c[n - 1]

(* Then the traces are read, the last one first. *)
LEMMA ArenaReadBack ==
  ASSUME NEW nodes, Len(nodes) \in Nat, NEW ts, Len(ts) \in Nat,
         \A t \in 1 .. Len(ts) : IsWritable(ts[t]),
         NEW c, ArenaCounts(nodes, ts, c)
  PROVE  /\ Len(RainTraces(nodes)) = Len(ts)
         /\ DOMAIN RainTraces(nodes) = 1 .. Len(ts)
         /\ \A t \in 1 .. Len(ts) : RainTraces(nodes)[t] = ReadBack(ts[Len(ts) - t + 1])
<1> DEFINE N == Len(nodes)
           M == Len(ts)
           f == [t \in 1 .. M |-> ReadBack(ts[t])]
           S == {ReadBack(ts[t]) : t \in 1 .. M}
<1>1. PICK read : /\ RainTraces(nodes) = Reverse(read[N])
                  /\ read[0] = << >>
                  /\ \A n \in 1 .. N :
                       read[n] = IF IsTrace(nodes[n])
                                 THEN Append(read[n - 1], FromData(nodes[n].data))
                                 ELSE read[n - 1]
  BY RainTracesSteps
<1>2. f \in [1 .. M -> S] /\ M \in Nat /\ N \in Nat
  OBVIOUS
<1>3. /\ c \in [0 .. N -> 0 .. M] /\ c[0] = 0 /\ c[N] = M
      /\ \A n \in 1 .. N : IF IsTrace(nodes[n])
                           THEN c[n] = c[n - 1] + 1 /\ nodes[n].data = TracerCalldata(ts[c[n]])
                           ELSE c[n] = c[n - 1]
  BY DEF ArenaCounts
<1>4. \A t \in 1 .. M : FromData(TracerCalldata(ts[t])) = f[t]
  BY CalldataReadBack
<1> HIDE DEF N, f, S
<1> DEFINE First(m) == [k \in 1 .. m |-> f[k]]
           T == {n \in 0 .. N : read[n] = First(c[n])}
<1>5. 0 \in T
  <2>1. First(0) \in [1 .. 0 -> S]
    BY <1>2
  <2>2. First(0) = << >>
    <3> HIDE DEF First
    <3>1. First(0) \in Seq(S) /\ Len(First(0)) = 0
      BY <2>1, FunctionIsSequence
    <3> QED BY <3>1, EmptySeq
  <2> HIDE DEF First
  <2> QED BY <1>1, <1>2, <1>3, <2>2
<1>6. ASSUME NEW n \in 0 .. (N - 1), n \in T PROVE n + 1 \in T
  <2>1. n + 1 \in 1 .. N /\ n + 1 \in 0 .. N /\ n \in 0 .. N /\ (n + 1) - 1 = n
    BY <1>2
  <2>2. read[n] = First(c[n]) /\ c[n] \in 0 .. M /\ c[n + 1] \in 0 .. M
    BY <1>3, <1>6, <2>1
  <2> HIDE DEF M
  <2>3. CASE IsTrace(nodes[n + 1])
    <3>1. c[n + 1] = c[n] + 1 /\ nodes[n + 1].data = TracerCalldata(ts[c[n] + 1])
      BY <1>3, <2>1, <2>3
    <3>2. c[n] \in 0 .. (M - 1) /\ c[n] + 1 \in 1 .. M
      BY <1>2, <2>2, <3>1
    <3>3. FromData(nodes[n + 1].data) = f[c[n] + 1]
      BY <1>4, <3>1, <3>2
    <3>4. read[n + 1] = Append(First(c[n]), f[c[n] + 1])
      <4> HIDE DEF First
      <4> QED BY <1>1, <2>1, <2>2, <2>3, <3>3
    <3>5. Append(First(c[n]), f[c[n] + 1]) = First(c[n] + 1)
      <4> SUFFICES ASSUME NEW m \in 0 .. (M - 1)
                   PROVE  Append(First(m), f[m + 1]) = First(m + 1)
        <5> HIDE DEF First
        <5> QED BY <3>2
      <4> QED BY <1>2, AppendNext
    <3> HIDE DEF First
    <3> QED BY <2>1, <3>1, <3>4, <3>5
  <2>4. CASE ~IsTrace(nodes[n + 1])
    <3>1. c[n + 1] = c[n] /\ read[n + 1] = read[n]
      BY <1>1, <1>3, <2>1, <2>4
    <3> HIDE DEF First
    <3> QED BY <2>1, <2>2, <3>1
  <2> QED BY <2>3, <2>4
<1>7. read[N] = First(M)
  <2> HIDE DEF T
  <2>1. \A n \in 0 .. N : n \in T
    BY <1>2, <1>5, <1>6, BoundedInduction
  <2>2. N \in 0 .. N
    BY <1>2
  <2> HIDE DEF First, M
  <2> QED BY <1>3, <2>1, <2>2 DEF T
<1>8. First(M) \in Seq(S) /\ Len(First(M)) = M
  <2>1. First(M) \in [1 .. M -> S]
    BY <1>2
  <2> HIDE DEF First, M
  <2> QED BY <1>2, <2>1, FunctionIsSequence
<1>9. RainTraces(nodes) = [t \in 1 .. M |-> First(M)[(M - t) + 1]]
  <2> HIDE DEF First, M
  <2> QED BY <1>1, <1>7, <1>8 DEF Reverse
<1>10. RainTraces(nodes) \in [1 .. M -> S]
  <2>1. \A t \in 1 .. M : (M - t) + 1 \in 1 .. M
    BY <1>2
  <2>2. \A t \in 1 .. M : First(M)[t] \in S
    BY <1>2
  <2> HIDE DEF First, M
  <2> QED BY <1>9, <2>1, <2>2
<1>11. ASSUME NEW t \in 1 .. M PROVE RainTraces(nodes)[t] = ReadBack(ts[M - t + 1])
  <2>1. (M - t) + 1 \in 1 .. M /\ M - t + 1 = (M - t) + 1
    BY <1>2
  <2>2. First(M)[(M - t) + 1] = ReadBack(ts[(M - t) + 1])
    BY <2>1 DEF f
  <2> HIDE DEF First, M
  <2> QED BY <1>9, <2>1, <2>2
<1>12. Len(RainTraces(nodes)) = M
  <2> HIDE DEF First, M
  <2> QED BY <1>2, <1>10, FunctionIsSequence
<1> QED BY <1>10, <1>11, <1>12

NodeType ==
  [address : {Interpreter, StoreContract, ExternContract, TracerAddress}, data : Seq(Nat)]

ArenaInv ==
  /\ arena \in Seq(NodeType)
  /\ \E c : ArenaCounts(arena, traces, c)

(* The numbers in a trace of a checked expression fit in two bytes. *)
LEMMA FittingIsWritable ==
  ASSUME NEW e \in Expressions, NEW trace \in TraceType, TraceFits(e, trace)
  PROVE  IsWritable(trace)
<1>1. e.sources \in Seq(Source)
  BY ExpressionsAssumption
<1>2. DOMAIN e.sources = 1 .. Len(e.sources) /\ Len(e.sources) \in Nat
  BY <1>1, LenProperties
<1>3. Len(e.sources) <= IndexMod
  BY CountsAssumption
<1>4. IndexMod \in Nat
  BY DEF IndexMod
<1>5. trace.source \in 1 .. Len(e.sources) /\ trace.parent \in 1 .. Len(e.sources)
  BY <1>2 DEF TraceFits
<1>6. trace.source \in 1 .. IndexMod /\ trace.parent \in 1 .. IndexMod
  BY <1>2, <1>3, <1>4, <1>5
<1>7. trace.stack \in Seq(Value)
  BY DEF TraceType
<1> QED BY <1>6, <1>7 DEF IsWritable

(* A step adds no trace and makes no call that looks like one, or returns *)
(* and tells the tracer of it.                                            *)
LEMMA RecordedFacts ==
  ASSUME EvalInv, TraceInv, [Next]_vars
  PROVE  \/ /\ traces' = traces
            /\ RecordedCalls \in Seq(NodeType)
            /\ \A k \in 1 .. Len(RecordedCalls) : ~IsTrace(RecordedCalls[k])
         \/ /\ status = "eval" /\ AtReturn /\ (ReturnFromCall \/ ReturnFromEval)
            /\ traces' = Append(traces, ReturnTrace)
            /\ RecordedCalls = <<Node(TracerAddress, TracerCalldata(ReturnTrace))>>
            /\ IsWritable(ReturnTrace)
<1>1. CASE ReturnFromCall \/ ReturnFromEval
  <2>1. AtReturn /\ StackTrace /\ status = "eval"
    BY <1>1 DEF ReturnFromCall, ReturnFromEval, AtReturn
  <2>2. traces' = Append(traces, ReturnTrace) /\ traces \in Seq(TraceType)
    BY <2>1 DEF StackTrace, ReturnTrace, TraceInv
  <2>3. ReturnTrace \in TraceType /\ TraceFits(expression, ReturnTrace)
    BY <2>1, ReturnTraceFits
  <2>4. IsWritable(ReturnTrace)
    BY <2>3, FittingIsWritable DEF TraceInv
  <2>5. Len(traces') - Len(traces) = 1 /\ traces'[Len(traces) + 1] = ReturnTrace
    <3>1. /\ Len(traces') = Len(traces) + 1 /\ Len(traces) \in Nat
          /\ traces'[Len(traces) + 1] = ReturnTrace
      BY <2>2, <2>3, AppendProperties, LenProperties
    <3> QED BY <3>1
  <2>6. TracerCalls = <<Node(TracerAddress, TracerCalldata(ReturnTrace))>>
    <3> DEFINE node == Node(TracerAddress, TracerCalldata(ReturnTrace))
    <3>1. TracerCalls = [k \in 1 .. 1 |-> Node(TracerAddress, TracerCalldata(traces'[Len(traces) + k]))]
      BY <2>5 DEF TracerCalls
    <3>2. \A k \in 1 .. 1 : Node(TracerAddress, TracerCalldata(traces'[Len(traces) + k])) = node
      BY <2>5
    <3> HIDE DEF node
    <3>3. TracerCalls = [k \in 1 .. 1 |-> node]
      BY <3>1, <3>2
    <3>4. [k \in 1 .. 1 |-> node] = <<node>>
      OBVIOUS
    <3> QED BY <3>3, <3>4 DEF node
  <2>7. ~AtRun("extern") /\ ~AtRun("get")
    <3>1. Running.pc = Len(Sources[Running.src].ops) /\ Running.pc \in Nat
      BY <2>1, RunningFacts DEF AtReturn
    <3>2. ~(Running.pc < Len(Sources[Running.src].ops))
      BY <3>1
    <3> QED BY <3>2 DEF AtRun
  <2>8. RecordedCalls = TracerCalls
    BY <2>1, <2>7 DEF RecordedCalls, ReadsStore
  <2> QED BY <1>1, <2>1, <2>2, <2>4, <2>6, <2>8
<1>2. CASE ~ReturnFromCall /\ ~ReturnFromEval
  <2>1. traces' = traces
    BY <1>2 DEF Next, Stopped, vars, evalVars, EvalNext, EvalReverts, evalFixed, RunOp, CallEval4,
     AllocateStack, Deserialized, RejectOverlay, ApplyOverlay, RejectSourceIndex, RejectInputs,
     EnterEval, Overlaid, Revert, RunStack, RunConstant, RunContext, RunPure, RunEnsure, RunGet,
     RunSet, RunExtern, RunCall, RevertContext, RevertArithmetic, RevertEnsure,
     RevertStore, RevertExternCall, RevertExternOutputs, RevertGas, PopPush, AtRun
  <2>2. ASSUME NEW address \in {Interpreter, StoreContract, ExternContract, TracerAddress}
        PROVE  /\ <<Node(address, << >>)>> \in Seq(NodeType)
               /\ \A k \in 1 .. Len(<<Node(address, << >>)>>) :
                    ~IsTrace(<<Node(address, << >>)>>[k])
    <3> DEFINE node == Node(address, << >>)
    <3>1. node \in NodeType /\ node.data = << >>
      BY EmptySeq DEF Node, NodeType
    <3>2. ~IsTrace(node)
      <4>1. Len(node.data) = 0
        BY <3>1, EmptySeq
      <4> QED BY <4>1 DEF IsTrace
    <3> HIDE DEF node
    <3>3. <<node>> \in Seq(NodeType) /\ Len(<<node>>) = 1 /\ <<node>>[1] = node
      BY <3>1
    <3>4. \A k \in 1 .. Len(<<node>>) : ~IsTrace(<<node>>[k])
      <4>1. ASSUME NEW k \in 1 .. Len(<<node>>) PROVE ~IsTrace(<<node>>[k])
        <5>1. k = 1
          BY <3>3
        <5> QED BY <5>1, <3>2, <3>3
      <4> QED BY <4>1
    <3> QED BY <3>3, <3>4 DEF node
  <2>3. TracerCalls \in Seq(NodeType) /\ Len(TracerCalls) = 0
    <3>1. Len(traces') - Len(traces) = 0
      <4>1. Len(traces) \in Nat
        BY LenProperties DEF TraceInv
      <4> QED BY <2>1, <4>1
    <3>2. TracerCalls = [k \in 1 .. 0 |-> Node(TracerAddress, TracerCalldata(traces'[Len(traces) + k]))]
      BY <3>1 DEF TracerCalls
    <3>3. TracerCalls \in [1 .. 0 -> NodeType]
      BY <3>2
    <3> QED BY <3>3, FunctionIsSequence
  <2>4. \A k \in 1 .. Len(TracerCalls) : ~IsTrace(TracerCalls[k])
    BY <2>3
  <2>5. /\ RecordedCalls \in Seq(NodeType)
        /\ \A k \in 1 .. Len(RecordedCalls) : ~IsTrace(RecordedCalls[k])
    <3> DEFINE Harmless(calls) == /\ calls \in Seq(NodeType)
                                  /\ \A k \in 1 .. Len(calls) : ~IsTrace(calls[k])
    <3>1. /\ Harmless(<<Node(Interpreter, << >>)>>) /\ Harmless(<<Node(ExternContract, << >>)>>)
          /\ Harmless(<<Node(StoreContract, << >>)>>) /\ Harmless(TracerCalls)
      BY <2>2, <2>3, <2>4
    <3> HIDE DEF Harmless
    <3>2. Harmless(RecordedCalls)
      BY <3>1 DEF RecordedCalls
    <3> QED BY <3>2 DEF Harmless
  <2> QED BY <2>1, <2>5
<1> QED BY <1>1, <1>2

(* The counts go on over the calls that are recorded. *)
LEMMA CountsGoOn ==
  ASSUME NEW S, NEW nodes \in Seq(S), NEW calls \in Seq(S), NEW ts \in Seq(TraceType),
         NEW c, ArenaCounts(nodes, ts, c),
         \A k \in 1 .. Len(calls) : ~IsTrace(calls[k])
  PROVE  \E d : ArenaCounts(nodes \o calls, ts, d)
<1> DEFINE N == Len(nodes)
           K == Len(calls)
           all == nodes \o calls
           d == [n \in 0 .. (N + K) |-> IF n <= N THEN c[n] ELSE Len(ts)]
<1>1. N \in Nat /\ K \in Nat /\ Len(ts) \in Nat
  BY LenProperties
<1>2. /\ Len(all) = N + K
      /\ \A i \in 1 .. (N + K) : all[i] = IF i <= N THEN nodes[i] ELSE calls[i - N]
  BY ConcatProperties
<1>3. /\ c \in [0 .. N -> 0 .. Len(ts)] /\ c[0] = 0 /\ c[N] = Len(ts)
      /\ \A n \in 1 .. N : IF IsTrace(nodes[n])
                           THEN c[n] = c[n - 1] + 1 /\ nodes[n].data = TracerCalldata(ts[c[n]])
                           ELSE c[n] = c[n - 1]
  BY DEF ArenaCounts
<1> HIDE DEF N, K, all
<1>4. d \in [0 .. (N + K) -> 0 .. Len(ts)] /\ d[0] = 0 /\ d[N + K] = Len(ts)
  <2>1. \A n \in 0 .. (N + K) : n <= N => n \in 0 .. N
    BY <1>1
  <2>2. \A n \in 0 .. (N + K) : d[n] \in 0 .. Len(ts)
    BY <1>1, <1>3, <2>1
  <2>3. N + K \in 0 .. (N + K) /\ (N + K <= N => N + K = N) /\ 0 \in 0 .. (N + K) /\ 0 <= N
    BY <1>1
  <2> QED BY <1>3, <2>2, <2>3
<1>5. ASSUME NEW n \in 1 .. (N + K)
      PROVE  IF IsTrace(all[n])
             THEN d[n] = d[n - 1] + 1 /\ all[n].data = TracerCalldata(ts[d[n]])
             ELSE d[n] = d[n - 1]
  <2>1. n \in 0 .. (N + K) /\ n - 1 \in 0 .. (N + K)
    BY <1>1
  <2>2. CASE n <= N
    <3>1. n \in 1 .. N /\ n - 1 <= N
      BY <1>1, <2>2
    <3>2. all[n] = nodes[n] /\ d[n] = c[n] /\ d[n - 1] = c[n - 1]
      BY <1>2, <2>1, <2>2, <3>1
    <3> HIDE DEF d
    <3> QED BY <1>3, <3>1, <3>2
  <2>3. CASE ~(n <= N)
    <3>1. n - N \in 1 .. K /\ (n - 1 <= N => n - 1 = N)
      BY <1>1, <2>3
    <3>2. ~IsTrace(all[n])
      BY <1>2, <2>3, <3>1 DEF K
    <3>3. d[n] = Len(ts) /\ d[n - 1] = Len(ts)
      BY <1>3, <2>1, <2>3, <3>1
    <3> HIDE DEF d
    <3> QED BY <3>2, <3>3
  <2> QED BY <2>2, <2>3
<1>6. ArenaCounts(all, ts, d)
  <2> HIDE DEF d
  <2> QED BY <1>2, <1>4, <1>5 DEF ArenaCounts
<1> HIDE DEF d
<1> QED BY <1>6 DEF all

(* And over a call to the tracer, with the trace that it tells of. *)
LEMMA CountsGoOnWithTrace ==
  ASSUME NEW S, NEW nodes \in Seq(S), NEW node \in S, NEW ts \in Seq(TraceType),
         NEW trace \in TraceType, NEW c, ArenaCounts(nodes, ts, c),
         IsTrace(node), node.data = TracerCalldata(trace)
  PROVE  \E d : ArenaCounts(Append(nodes, node), Append(ts, trace), d)
<1> DEFINE N == Len(nodes)
           M == Len(ts)
           all == Append(nodes, node)
           us == Append(ts, trace)
           d == [n \in 0 .. (N + 1) |-> IF n <= N THEN c[n] ELSE M + 1]
<1>1. N \in Nat /\ M \in Nat
  BY LenProperties
<1>2. /\ Len(all) = N + 1 /\ all[N + 1] = node
      /\ \A n \in 1 .. N : all[n] = nodes[n]
  BY AppendProperties
<1>3. /\ Len(us) = M + 1 /\ us[M + 1] = trace
      /\ \A t \in 1 .. M : us[t] = ts[t]
  BY AppendProperties
<1>4. /\ c \in [0 .. N -> 0 .. M] /\ c[0] = 0 /\ c[N] = M
      /\ \A n \in 1 .. N : IF IsTrace(nodes[n])
                           THEN c[n] = c[n - 1] + 1 /\ nodes[n].data = TracerCalldata(ts[c[n]])
                           ELSE c[n] = c[n - 1]
  BY DEF ArenaCounts
<1> HIDE DEF N, M, all, us
<1>5. d \in [0 .. (N + 1) -> 0 .. (M + 1)] /\ d[0] = 0 /\ d[N + 1] = M + 1
  <2>1. \A n \in 0 .. (N + 1) : n <= N => n \in 0 .. N
    BY <1>1
  <2>2. \A n \in 0 .. (N + 1) : d[n] \in 0 .. (M + 1)
    BY <1>1, <1>4, <2>1
  <2>3. N + 1 \in 0 .. (N + 1) /\ ~(N + 1 <= N) /\ 0 \in 0 .. (N + 1) /\ 0 <= N
    BY <1>1
  <2> QED BY <1>4, <2>2, <2>3
<1>6. ASSUME NEW n \in 1 .. (N + 1)
      PROVE  IF IsTrace(all[n])
             THEN d[n] = d[n - 1] + 1 /\ all[n].data = TracerCalldata(us[d[n]])
             ELSE d[n] = d[n - 1]
  <2>1. n \in 0 .. (N + 1) /\ n - 1 \in 0 .. (N + 1)
    BY <1>1
  <2>2. CASE n <= N
    <3>1. n \in 1 .. N /\ n - 1 <= N /\ n - 1 \in 0 .. N
      BY <1>1, <2>2
    <3>2. all[n] = nodes[n] /\ d[n] = c[n] /\ d[n - 1] = c[n - 1]
      BY <1>2, <2>1, <2>2, <3>1
    <3>3. CASE IsTrace(nodes[n])
      <4>1. c[n] = c[n - 1] + 1 /\ nodes[n].data = TracerCalldata(ts[c[n]])
        BY <1>4, <3>1, <3>3
      <4>2. c[n] \in 1 .. M
        <5>1. c[n] \in 0 .. M /\ c[n - 1] \in 0 .. M
          BY <1>4, <3>1
        <5> QED BY <1>1, <4>1, <5>1
      <4>3. us[c[n]] = ts[c[n]]
        BY <1>3, <4>2
      <4> HIDE DEF d
      <4> QED BY <3>2, <3>3, <4>1, <4>3
    <3>4. CASE ~IsTrace(nodes[n])
      <4>1. c[n] = c[n - 1]
        BY <1>4, <3>1, <3>4
      <4> HIDE DEF d
      <4> QED BY <3>2, <3>4, <4>1
    <3> QED BY <3>3, <3>4
  <2>3. CASE ~(n <= N)
    <3>1. n = N + 1 /\ n - 1 = N /\ N <= N
      BY <1>1, <2>3
    <3>2. d[n] = M + 1 /\ d[n - 1] = M /\ all[n] = node /\ us[M + 1] = trace
      BY <1>2, <1>3, <1>4, <2>1, <2>3, <3>1
    <3> HIDE DEF d
    <3> QED BY <3>2
  <2> QED BY <2>2, <2>3
<1>7. ArenaCounts(all, us, d)
  <2> HIDE DEF d
  <2> QED BY <1>2, <1>3, <1>5, <1>6 DEF ArenaCounts
<1> HIDE DEF d
<1> QED BY <1>7 DEF all, us

TracedInv == EvalInv /\ TraceInv /\ ArenaInv

LEMMA ArenaInvNext == TracedInv /\ [TracedNext]_tracedVars => ArenaInv'
<1> SUFFICES ASSUME EvalInv, TraceInv, ArenaInv, [TracedNext]_tracedVars
             PROVE  ArenaInv'
  BY DEF TracedInv
<1>1. PICK c : ArenaCounts(arena, traces, c)
  BY DEF ArenaInv
<1>2. arena \in Seq(NodeType) /\ traces \in Seq(TraceType)
  BY DEF ArenaInv, TraceInv
<1>3. CASE UNCHANGED tracedVars
  <2>1. arena' = arena /\ traces' = traces
    BY <1>3 DEF tracedVars, vars, evalVars
  <2> QED BY <1>1, <1>2, <2>1 DEF ArenaInv
<1>4. CASE TracedNext
  <2> DEFINE calls == RecordedCalls
  <2>1. [Next]_vars /\ arena' = arena \o calls
    BY <1>4 DEF TracedNext
  <2>2. CASE /\ traces' = traces /\ calls \in Seq(NodeType)
             /\ \A k \in 1 .. Len(calls) : ~IsTrace(calls[k])
    <3> HIDE DEF calls
    <3>1. \E d : ArenaCounts(arena \o calls, traces, d)
      BY <1>1, <1>2, <2>2, CountsGoOn
    <3>2. arena \o calls \in Seq(NodeType)
      BY <1>2, <2>2, ConcatProperties
    <3> QED BY <2>1, <2>2, <3>1, <3>2 DEF ArenaInv
  <2>3. CASE /\ AtReturn /\ traces' = Append(traces, ReturnTrace)
             /\ calls = <<Node(TracerAddress, TracerCalldata(ReturnTrace))>>
             /\ IsWritable(ReturnTrace)
    <3> DEFINE node == Node(TracerAddress, TracerCalldata(ReturnTrace))
    <3>1. ReturnTrace \in TraceType
      BY <2>3, ReturnTraceFits
    <3>2. TracerCalldata(ReturnTrace) \in Seq(Nat) /\ Len(TracerCalldata(ReturnTrace)) >= 4
      BY <2>3, CalldataReadBack
    <3>3. node \in NodeType /\ IsTrace(node) /\ node.data = TracerCalldata(ReturnTrace)
      BY <3>2 DEF Node, NodeType, IsTrace
    <3>4. calls = <<node>>
      BY <2>3
    <3> HIDE DEF node, calls
    <3>5. \E d : ArenaCounts(Append(arena, node), Append(traces, ReturnTrace), d)
      BY <1>1, <1>2, <3>1, <3>3, CountsGoOnWithTrace
    <3>6. arena \o <<node>> = Append(arena, node) /\ Append(arena, node) \in Seq(NodeType)
      BY <1>2, <3>3, AppendIsConcat, AppendProperties
    <3>7. arena' = Append(arena, node)
      BY <2>1, <3>4, <3>6
    <3> QED BY <2>3, <3>5, <3>6, <3>7 DEF ArenaInv
  <2> QED BY <2>1, <2>2, <2>3, RecordedFacts
<1> QED BY <1>3, <1>4

LEMMA TracedInvInit == TracedInit => TracedInv
<1> SUFFICES ASSUME TracedInit PROVE TracedInv
  OBVIOUS
<1>1. Init /\ arena = << >> /\ traces = << >> /\ status = "unchecked"
      /\ expression \in Expressions
  BY DEF TracedInit, Init, EvalInit, CheckInit
<1>2. EvalInv
  BY <1>1, EvalInvInit
<1>3. traces \in Seq(TraceType) /\ Len(traces) = 0 /\ arena \in Seq(NodeType) /\ Len(arena) = 0
  BY <1>1, EmptySeq
<1>4. TraceInv
  BY <1>1, <1>3 DEF TraceInv
<1>5. ArenaInv
  <2> DEFINE c == [n \in 0 .. 0 |-> 0]
  <2>1. ArenaCounts(arena, traces, c)
    BY <1>3 DEF ArenaCounts
  <2> QED BY <1>3, <2>1 DEF ArenaInv
<1> QED BY <1>2, <1>4, <1>5 DEF TracedInv

LEMMA TracedInvNext == TracedInv /\ [TracedNext]_tracedVars => TracedInv'
<1> SUFFICES ASSUME TracedInv, [TracedNext]_tracedVars PROVE TracedInv'
  OBVIOUS
<1>1. [Next]_vars
  BY DEF TracedNext, tracedVars
<1>2. ArenaInv'
  BY ArenaInvNext
<1>3. EvalInv'
  BY <1>1, EvalInvNext DEF TracedInv
<1>4. TraceInv'
  BY <1>1, TraceInvNext DEF TracedInv
<1> QED BY <1>2, <1>3, <1>4 DEF TracedInv

(* What is read from the arena in a state of an evaluation. *)
LEMMA ReadFacts ==
  ASSUME TracedInv
  PROVE  /\ Len(traces) \in Nat
         /\ Len(Read) = Len(traces) /\ DOMAIN Read = 1 .. Len(traces)
         /\ \A t \in 1 .. Len(traces) : Read[t] = ReadBack(traces[Len(traces) - t + 1])
<1>1. PICK c : ArenaCounts(arena, traces, c)
  BY DEF TracedInv, ArenaInv
<1>2. Len(arena) \in Nat /\ Len(traces) \in Nat
  BY LenProperties DEF TracedInv, ArenaInv, TraceInv
<1>3. ASSUME NEW t \in 1 .. Len(traces) PROVE IsWritable(traces[t])
  <2>1. traces[t] \in TraceType /\ TraceFits(expression, traces[t]) /\ expression \in Expressions
    BY ElementOfSeq DEF TracedInv, TraceInv
  <2> QED BY <2>1, FittingIsWritable
<1>4. Read = RainTraces(arena)
  BY DEF Read, FromRaw, FromTyped, Raw
<1> QED BY <1>1, <1>2, <1>3, <1>4, ArenaReadBack

LEMMA TracesReadBack == TracedInv => ReadsWhatWasTraced
<1> SUFFICES ASSUME TracedInv PROVE ReadsWhatWasTraced
  OBVIOUS
<1> DEFINE N == Len(traces)
<1>1. /\ N \in Nat /\ Len(Read) = N /\ DOMAIN Read = 1 .. N
      /\ \A t \in 1 .. N : Read[t] = ReadBack(traces[N - t + 1])
  BY ReadFacts
<1>2. /\ traces \in Seq(TraceType) /\ DOMAIN traces = 1 .. N
      /\ \A t \in 1 .. N : traces[t] \in TraceType
  BY LenProperties, ElementOfSeq DEF TracedInv, TraceInv
<1> HIDE DEF N
<1>3. ASSUME NEW t \in 1 .. N
      PROVE  LET trace == traces[N + 1 - t] IN
               /\ Read[t].parent + 1 = trace.parent
               /\ Read[t].source + 1 = trace.source
               /\ Read[t].stack = [k \in DOMAIN trace.stack |-> Encoded(trace.stack[k])]
  <2> DEFINE trace == traces[N + 1 - t]
  <2>1. N + 1 - t = N - t + 1 /\ N + 1 - t \in 1 .. N
    BY <1>1
  <2>2. trace \in TraceType /\ Read[t] = ReadBack(trace)
    BY <1>1, <1>2, <2>1
  <2>3. trace.parent \in Nat /\ trace.source \in Nat /\ DOMAIN trace.stack = 1 .. Len(trace.stack)
    BY <2>2, LenProperties DEF TraceType
  <2> HIDE DEF trace
  <2>4. /\ Read[t].parent + 1 = trace.parent /\ Read[t].source + 1 = trace.source
        /\ Read[t].stack = [k \in DOMAIN trace.stack |-> Encoded(trace.stack[k])]
    BY <2>2, <2>3 DEF ReadBack
  <2> QED BY <2>4 DEF trace
<1>4. ASSUME status = "ok"
      PROVE  LET r == FromTyped(Raw, TypedReturn) IN
               SubSeq(r.traces[1].stack, 1, Len(r.stack)) = [k \in DOMAIN r.stack |-> Encoded(r.stack[k])]
  <2> DEFINE last == traces[N]
             stack == result.stack
             n == Len(stack)
             all == last.stack
             bytes == [k \in 1 .. Len(all) |-> Encoded(all[k])]
  <2>1. /\ N \in 1 .. N /\ n <= Len(all) /\ SubSeq(all, 1, n) = stack
    <3>1. LastTraceIs(traces, request.sourceIndex, result.stack)
      BY <1>4 DEF TracedInv, TraceInv
    <3> QED BY <1>1, <3>1 DEF LastTraceIs, N
  <2>2. stack \in Seq(Value) /\ n \in Nat /\ DOMAIN stack = 1 .. n
    BY <1>4, LenProperties DEF TracedInv, EvalInv
  <2>3. all \in Seq(Value) /\ Len(all) \in Nat
    BY <1>2, <2>1, LenProperties DEF TraceType
  <2>4. Read[1].stack = bytes
    <3>1. 1 \in 1 .. N /\ N - 1 + 1 = N
      BY <1>1, <2>1
    <3>2. Read[1] = ReadBack(last)
      BY <1>1, <3>1
    <3> HIDE DEF last
    <3> QED BY <3>2 DEF ReadBack
  <2>5. FromTyped(Raw, TypedReturn).traces = Read /\ FromTyped(Raw, TypedReturn).stack = stack
    BY DEF FromTyped, TypedReturn, Raw, Read, FromRaw
  <2> HIDE DEF last, stack, n, all
  <2>6. \A k \in 1 .. n : stack[k] = all[k]
    <3>1. \A k \in 1 .. n : all[k] \in Value
      <4>1. \A k \in 1 .. n : k \in 1 .. Len(all)
        BY <2>1, <2>2, <2>3
      <4> QED BY <2>3, <4>1, ElementOfSeq
    <3>2. \A k \in 1 .. (n - 1 + 1) : SubSeq(all, 1, n)[k] = all[1 + k - 1]
      <4>1. 1 \in Int /\ n \in Int
        BY <2>2
      <4> QED BY <3>1, <4>1, SubSeqProperties
    <3>3. n - 1 + 1 = n /\ \A k \in 1 .. n : 1 + k - 1 = k
      BY <2>2
    <3> QED BY <2>1, <3>2, <3>3
  <2> DEFINE S == {Encoded(all[k]) : k \in 1 .. Len(all)}
             words == [k \in 1 .. n |-> Encoded(stack[k])]
  <2>7. \A k \in 1 .. n : k \in 1 .. Len(all) /\ bytes[k] = words[k] /\ bytes[k] \in S
    BY <2>1, <2>2, <2>3, <2>6
  <2>8. words \in Seq(S) /\ Len(words) = n /\ \A k \in 1 .. n : words[k] = bytes[k]
    <3>1. words \in [1 .. n -> S]
      BY <2>7
    <3> HIDE DEF words, S, bytes
    <3> QED BY <2>2, <2>7, <3>1, FunctionIsSequence
  <2> HIDE DEF words, S, bytes
  <2>9. /\ SubSeq(bytes, 1, n) \in Seq(S)
        /\ Len(SubSeq(bytes, 1, n)) = n
        /\ \A k \in 1 .. n : SubSeq(bytes, 1, n)[k] = bytes[k]
    <3>1. /\ SubSeq(bytes, 1, n) \in Seq(S)
          /\ Len(SubSeq(bytes, 1, n)) = IF 1 <= n THEN n - 1 + 1 ELSE 0
          /\ \A k \in 1 .. (n - 1 + 1) : SubSeq(bytes, 1, n)[k] = bytes[1 + k - 1]
      <4>1. 1 \in Int /\ n \in Int
        BY <2>2
      <4> QED BY <2>7, <4>1, SubSeqProperties
    <3>2. n - 1 + 1 = n /\ \A k \in 1 .. n : 1 + k - 1 = k
      BY <2>2
    <3> QED BY <2>2, <3>1, <3>2
  <2>10. SubSeq(bytes, 1, n) = words
    BY <2>8, <2>9, SeqEqual
  <2> QED BY <2>2, <2>4, <2>5, <2>10 DEF words, n
<1> QED BY <1>1, <1>3, <1>4 DEF ReadsWhatWasTraced, N

(* What the crates read from the arena are the traces of the evaluation, the *)
(* last first: the bytes of indices and words, among the calls to other      *)
(* contracts, come back as they were written.                                *)
THEOREM TracesAreReadBack == TracedSpec => []ReadsWhatWasTraced
  BY TracedInvInit, TracedInvNext, TracesReadBack, PTL DEF TracedSpec

-----------------------------------------------------------------------------
(* Paths. *)

PartType == [number : Int, parses : BOOLEAN]

(* The path of the activations fs. *)
PathOf(fs) == [d \in DOMAIN fs |-> Part(fs[d].src - 1)]

(* A path ends in the source of its trace, and before that in its parent. *)
PathFits(path, trace) ==
  /\ Len(path) >= 1
  /\ path[Len(path)] = Part(trace.source - 1)
  /\ Len(path) = 1 => trace.parent = trace.source
  /\ Len(path) > 1 => path[Len(path) - 1] = Part(trace.parent - 1)

(* A source of which an activation has ended did not wait for itself. *)
WaitsForOthers(path) == \A k \in 1 .. (Len(path) - 1) : path[k] # path[Len(path)]

(* The path q goes along the first n parts of p. *)
Along(n, p, q) == Len(q) >= n /\ \A k \in 1 .. n : q[k] = p[k]

(* The traces from t + 1 to u are of what the caller of trace t called. *)
AllWithin(ps, t, u) ==
  \A v \in (t + 1) .. u : Len(ps[v]) > Len(ps[t]) - 1 /\ Along(Len(ps[t]) - 1, ps[t], ps[v])

(* The trace u is that of the caller of trace t. *)
IsCaller(ps, t, u) ==
  /\ Len(ps[u]) = Len(ps[t]) - 1
  /\ Along(Len(ps[t]) - 1, ps[t], ps[u])
  /\ AllWithin(ps, t, u - 1)

CallEnded(ps, t) == \E u \in (t + 1) .. Len(ps) : IsCaller(ps, t, u)

(* The caller of trace t is one of the activations on the path running. *)
CallRuns(ps, t, running) ==
  Along(Len(ps[t]) - 1, ps[t], running) /\ AllWithin(ps, t, Len(ps))

(* What the first n ops of source s of e call has a trace up to the m-th. *)
CallsTraced(e, ts, s, n, m) ==
  \A k \in 1 .. n :
    e.sources[s].ops[k].code = "call" =>
      \E t \in 1 .. m : ts[t].source = e.sources[s].ops[k].arg

PathsInv(e, ts, ps, st, running) ==
  /\ ps \in Seq(Seq(PartType)) /\ Len(ps) = Len(ts)
  /\ \A t \in 1 .. Len(ts) :
       /\ PathFits(ps[t], ts[t])
       /\ WaitsForOthers(ps[t])
       /\ CallsTraced(e, ts, ts[t].source, Len(e.sources[ts[t].source].ops), t - 1)
       /\ Len(ps[t]) > 1 => CallEnded(ps, t) \/ (st # "ok" /\ CallRuns(ps, t, running))

FramesTraced(e, ts, fs) ==
  \A d \in DOMAIN fs : CallsTraced(e, ts, fs[d].src, fs[d].pc, Len(ts))

PathInv ==
  /\ PathsInv(expression, traces, callPaths, status, PathOf(frames))
  /\ status = "eval" => FramesTraced(expression, traces, frames)
  /\ status \in {"unchecked", "allocate", "overlay"} => traces = << >>

LEMMA PartFacts ==
  ASSUME NEW a \in Int, NEW b \in Int
  PROVE  /\ Part(a) \in PartType /\ Unresolved(a) \in PartType
         /\ Part(a).parses /\ ~Unresolved(a).parses
         /\ Part(a).number = a /\ Unresolved(a).number = a
         /\ Part(a) = Part(b) => a = b
<1>1. Part(a).number = a /\ Part(b).number = b /\ Part(a).parses
      /\ ~Unresolved(a).parses /\ Unresolved(a).number = a
  BY DEF Part, Unresolved
<1>2. Part(a) \in PartType /\ Unresolved(a) \in PartType
  BY DEF Part, Unresolved, PartType
<1> QED BY <1>1, <1>2

LEMMA PathOfFacts ==
  ASSUME NEW fs \in Seq(FrameType)
  PROVE  /\ PathOf(fs) \in Seq(PartType) /\ Len(PathOf(fs)) = Len(fs)
         /\ \A d \in 1 .. Len(fs) : PathOf(fs)[d] = Part(fs[d].src - 1)
<1>1. Len(fs) \in Nat /\ DOMAIN fs = 1 .. Len(fs)
  BY LenProperties
<1>2. \A d \in 1 .. Len(fs) : fs[d].src - 1 \in Int
  <2>1. ASSUME NEW d \in 1 .. Len(fs) PROVE fs[d].src - 1 \in Int
    <3>1. fs[d] \in FrameType
      BY ElementOfSeq
    <3>2. fs[d].src \in Nat
      BY <3>1 DEF FrameType
    <3> QED BY <3>2
  <2> QED BY <2>1
<1>3. \A d \in 1 .. Len(fs) : Part(fs[d].src - 1) \in PartType
  BY <1>2, PartFacts
<1>4. PathOf(fs) \in [1 .. Len(fs) -> PartType]
  BY <1>1, <1>3 DEF PathOf
<1>5. \A d \in 1 .. Len(fs) : PathOf(fs)[d] = Part(fs[d].src - 1)
  BY <1>1 DEF PathOf
<1> QED BY <1>1, <1>4, <1>5, FunctionIsSequence

(* A further trace takes away no trace. *)
LEMMA CallsStayTraced ==
  ASSUME NEW e, NEW ts, NEW us, NEW s, NEW n, NEW m \in Nat, NEW k \in Nat, m <= k,
         \A t \in 1 .. m : us[t] = ts[t], CallsTraced(e, ts, s, n, m)
  PROVE  CallsTraced(e, us, s, n, k)
<1> SUFFICES ASSUME NEW i \in 1 .. n, e.sources[s].ops[i].code = "call"
             PROVE  \E t \in 1 .. k : us[t].source = e.sources[s].ops[i].arg
  BY DEF CallsTraced
<1>1. PICK t \in 1 .. m : ts[t].source = e.sources[s].ops[i].arg
  BY DEF CallsTraced
<1>2. t \in 1 .. k /\ us[t] = ts[t]
  OBVIOUS
<1> QED BY <1>1, <1>2

(* The traces that have been made stay where they are. *)
LEMMA WithinStays ==
  ASSUME NEW ps \in Seq(Seq(PartType)), NEW p \in Seq(PartType), NEW t \in 1 .. Len(ps),
         NEW u \in Int, u <= Len(ps), AllWithin(ps, t, u)
  PROVE  AllWithin(Append(ps, p), t, u)
<1> DEFINE qs == Append(ps, p)
<1>1. Len(ps) \in Nat /\ \A v \in 1 .. Len(ps) : qs[v] = ps[v]
  BY LenProperties, AppendProperties
<1>2. \A v \in (t + 1) .. u : v \in 1 .. Len(ps)
  BY <1>1
<1> HIDE DEF qs
<1>3. \A v \in (t + 1) .. u : qs[v] = ps[v]
  BY <1>1, <1>2
<1>4. AllWithin(qs, t, u)
  BY <1>1, <1>3 DEF AllWithin
<1> QED BY <1>4 DEF qs

LEMMA EndedStays ==
  ASSUME NEW ps \in Seq(Seq(PartType)), NEW p \in Seq(PartType), NEW t \in 1 .. Len(ps),
         CallEnded(ps, t)
  PROVE  CallEnded(Append(ps, p), t)
<1> DEFINE qs == Append(ps, p)
<1>1. Len(ps) \in Nat /\ Len(qs) = Len(ps) + 1 /\ \A v \in 1 .. Len(ps) : qs[v] = ps[v]
  BY LenProperties, AppendProperties
<1>2. PICK u \in (t + 1) .. Len(ps) : IsCaller(ps, t, u)
  BY DEF CallEnded
<1>3. u \in 1 .. Len(ps) /\ u \in (t + 1) .. Len(qs) /\ u - 1 \in Int /\ u - 1 <= Len(ps)
  BY <1>1
<1>4. AllWithin(qs, t, u - 1)
  BY <1>2, <1>3, WithinStays DEF IsCaller
<1>5. qs[u] = ps[u] /\ qs[t] = ps[t]
  BY <1>1, <1>3
<1> HIDE DEF qs
<1>6. IsCaller(qs, t, u)
  BY <1>2, <1>4, <1>5 DEF IsCaller
<1>7. CallEnded(qs, t)
  BY <1>3, <1>6 DEF CallEnded
<1> QED BY <1>7 DEF qs

(* When an activation ends, its callees have ended calls; those of the       *)
(* activations that remain go on.                                            *)
LEMMA RunsGoOn ==
  ASSUME NEW ps \in Seq(Seq(PartType)), NEW p \in Seq(PartType), NEW t \in 1 .. Len(ps),
         CallRuns(ps, t, p), NEW q, Len(q) = Len(p) - 1,
         \A k \in 1 .. Len(q) : q[k] = p[k]
  PROVE  CallEnded(Append(ps, p), t) \/ CallRuns(Append(ps, p), t, q)
<1> DEFINE qs == Append(ps, p)
           M == Len(ps)
           n == Len(ps[t]) - 1
<1>1. M \in Nat /\ Len(qs) = M + 1 /\ qs[M + 1] = p /\ \A v \in 1 .. M : qs[v] = ps[v]
  BY LenProperties, AppendProperties
<1>2. n \in Int /\ Len(p) \in Nat
  <2>1. ps[t] \in Seq(PartType)
    BY ElementOfSeq
  <2> QED BY <2>1, LenProperties
<1>3. qs[t] = ps[t] /\ Along(n, ps[t], p) /\ AllWithin(ps, t, M)
  BY <1>1 DEF CallRuns
<1>4. AllWithin(qs, t, M)
  BY <1>1, <1>3, WithinStays
<1>5. M + 1 \in (t + 1) .. (M + 1) /\ (M + 1) - 1 = M
  BY <1>1
<1> HIDE DEF qs, M, n
<1>6. Len(p) >= n
  BY <1>3 DEF Along
<1>7. CASE Len(p) = n
  <2>1. IsCaller(qs, t, M + 1)
    BY <1>1, <1>3, <1>4, <1>5, <1>7 DEF IsCaller, n
  <2>2. CallEnded(qs, t)
    BY <1>1, <1>5, <2>1 DEF CallEnded
  <2> QED BY <2>2 DEF qs
<1>8. CASE Len(p) > n
  <2>1. AllWithin(qs, t, M + 1)
    <3>1. ASSUME NEW v \in (t + 1) .. (M + 1)
          PROVE  Len(qs[v]) > n /\ Along(n, qs[t], qs[v])
      <4>1. CASE v = M + 1
        BY <1>1, <1>3, <1>8, <4>1
      <4>2. CASE v \in (t + 1) .. M
        BY <1>3, <1>4, <4>2 DEF AllWithin, n
      <4> QED BY <1>1, <4>1, <4>2
    <3> QED BY <1>3, <3>1 DEF AllWithin, n
  <2>2. Along(n, qs[t], q)
    <3>1. Len(q) >= n /\ \A k \in 1 .. n : k \in 1 .. Len(q)
      BY <1>2, <1>8
    <3>2. \A k \in 1 .. n : q[k] = p[k] /\ p[k] = ps[t][k]
      BY <1>3, <3>1 DEF Along
    <3> QED BY <1>3, <3>1, <3>2 DEF Along
  <2>3. CallRuns(qs, t, q)
    BY <1>1, <1>3, <2>1, <2>2 DEF CallRuns, n
  <2> QED BY <2>3 DEF qs
<1> QED BY <1>2, <1>6, <1>7, <1>8

-----------------------------------------------------------------------------
(* The activations and the traces of what they have called. *)

(* An activation that waits is at a call of the one above it. *)
LEMMA WaitingCalls ==
  ASSUME EvalInv, status = "eval", NEW d \in 1 .. (Len(frames) - 1)
  PROVE  /\ frames[d].pc + 1 \in 1 .. Len(Sources[frames[d].src].ops)
         /\ Sources[frames[d].src].ops[frames[d].pc + 1].code = "call"
         /\ Sources[frames[d].src].ops[frames[d].pc + 1].arg = frames[d + 1].src
         /\ frames[d + 1].parent = frames[d].src
<1>1. WaitsFor(expression, frames[d], frames[d + 1])
  BY SuspendedFacts
<1>2. frames[d].src \in DOMAIN Sources /\ frames[d].pc \in Nat
  BY SuspendedFacts DEF FrameFits, FrameType, Sources
<1>3. Len(Sources[frames[d].src].ops) \in Nat
  BY <1>2, SourceFacts DEF EvalInv
<1>4. /\ frames[d].pc < Len(Sources[frames[d].src].ops)
      /\ Sources[frames[d].src].ops[frames[d].pc + 1].code = "call"
      /\ Sources[frames[d].src].ops[frames[d].pc + 1].arg = frames[d + 1].src
      /\ frames[d + 1].parent = frames[d].src
  BY <1>1 DEF WaitsFor, OpAt, Sources
<1>5. frames[d].pc + 1 \in 1 .. Len(Sources[frames[d].src].ops)
  BY <1>2, <1>3, <1>4
<1> QED BY <1>4, <1>5

(* What the running source calls is traced when it returns.  Were the source *)
(* also that of an activation that waits, then of the sources that these     *)
(* activations wait for, one would be traced first; but a trace comes after  *)
(* those of the calls of its source.                                         *)
LEMMA EndedNeverWaits ==
  ASSUME EvalInv, PathInv, AtReturn, NEW k \in 1 .. (Len(frames) - 1)
  PROVE  frames[k].src # Running.src
<1> SUFFICES ASSUME frames[k].src = Running.src PROVE FALSE
  OBVIOUS
<1> DEFINE n == Len(frames)
           N == Len(traces)
           T == {t \in 1 .. N : \E m \in (k + 1) .. n : traces[t].source = frames[m].src}
<1>1. status = "eval" /\ Running.pc = Len(Sources[Running.src].ops)
  BY DEF AtReturn
<1>2. /\ n \in Nat /\ DOMAIN frames = 1 .. n /\ frames[n] = Running /\ Running.pc \in Nat
  BY <1>1, RunningFacts, LenProperties DEF Running
<1>3. N \in Nat
  <2>1. callPaths \in Seq(Seq(PartType)) /\ Len(callPaths) = N
    BY DEF PathInv, PathsInv
  <2> QED BY <2>1, LenProperties
<1>4. CallsTraced(expression, traces, Running.src, Len(Sources[Running.src].ops), N)
  <2>1. FramesTraced(expression, traces, frames) /\ n \in DOMAIN frames
    <3>1. n \in 1 .. n
      BY <1>2
    <3> QED BY <1>1, <1>2, <3>1 DEF PathInv
  <2> QED BY <1>1, <1>2, <2>1 DEF FramesTraced
<1>5. \A t \in 1 .. N : CallsTraced(expression, traces, traces[t].source,
                                    Len(Sources[traces[t].source].ops), t - 1)
  BY DEF PathInv, PathsInv, Sources
<1>6. ASSUME NEW m \in 1 .. (n - 1), NEW u,
             CallsTraced(expression, traces, frames[m].src, Len(Sources[frames[m].src].ops), u)
      PROVE  \E t \in 1 .. u : traces[t].source = frames[m + 1].src
  <2>1. /\ frames[m].pc + 1 \in 1 .. Len(Sources[frames[m].src].ops)
        /\ Sources[frames[m].src].ops[frames[m].pc + 1].code = "call"
        /\ Sources[frames[m].src].ops[frames[m].pc + 1].arg = frames[m + 1].src
    BY <1>1, WaitingCalls
  <2> QED BY <1>6, <2>1 DEF CallsTraced, Sources
<1> HIDE DEF n, N
<1>7. k \in 1 .. (n - 1) /\ k + 1 \in (k + 1) .. n
  <2>1. k \in 1 .. (n - 1)
    BY DEF n
  <2> QED BY <1>2, <2>1
<1>8. T # {}
  <2>1. PICK t \in 1 .. N : traces[t].source = frames[k + 1].src
    BY <1>4, <1>6, <1>7
  <2> QED BY <1>7, <2>1
<1>9. T \in SUBSET Nat
  BY <1>3
<1>10. PICK t \in T : \A u \in T : t <= u
  <2> HIDE DEF T
  <2> QED BY <1>8, <1>9, LeastNatural
<1>11. PICK m \in (k + 1) .. n : traces[t].source = frames[m].src
  BY <1>10
<1>12. t \in 1 .. N /\ t \in Nat
  BY <1>3, <1>10
<1>13. CallsTraced(expression, traces, frames[m].src, Len(Sources[frames[m].src].ops), t - 1)
  BY <1>5, <1>11, <1>12
<1>14. ASSUME NEW i \in 1 .. (n - 1), frames[i].src = frames[m].src, i + 1 \in (k + 1) .. n
       PROVE  FALSE
  <2>1. PICK u \in 1 .. (t - 1) : traces[u].source = frames[i + 1].src
    BY <1>6, <1>13, <1>14
  <2>2. u \in 1 .. N /\ ~(t <= u)
    BY <1>3, <1>12
  <2>3. u \in T
    BY <1>14, <2>1, <2>2
  <2> QED BY <1>10, <2>2, <2>3
<1>15. CASE m = n
  <2>1. frames[k].src = frames[m].src
    BY <1>2, <1>15
  <2> QED BY <1>7, <1>14, <2>1
<1>16. CASE m # n
  <2>1. m \in 1 .. (n - 1) /\ m + 1 \in (k + 1) .. n
    BY <1>2, <1>7, <1>16
  <2> QED BY <1>14, <2>1
<1> QED BY <1>15, <1>16

(* Paths stay what they are while no activation ends. *)
LEMMA PathsStay ==
  ASSUME NEW e, NEW ts, NEW ps, NEW st, NEW p, PathsInv(e, ts, ps, st, p),
         NEW st2, NEW q, st2 = "ok" => st = "ok",
         st2 # "ok" => \A t \in 1 .. Len(ts) : CallRuns(ps, t, p) => CallRuns(ps, t, q)
  PROVE  PathsInv(e, ts, ps, st2, q)
<1>1. ps \in Seq(Seq(PartType)) /\ Len(ps) = Len(ts)
  BY DEF PathsInv
<1>2. ASSUME NEW t \in 1 .. Len(ts)
      PROVE  /\ PathFits(ps[t], ts[t])
             /\ WaitsForOthers(ps[t])
             /\ CallsTraced(e, ts, ts[t].source, Len(e.sources[ts[t].source].ops), t - 1)
             /\ Len(ps[t]) > 1 => CallEnded(ps, t) \/ (st # "ok" /\ CallRuns(ps, t, p))
  BY DEF PathsInv
<1>3. ASSUME NEW t \in 1 .. Len(ts), Len(ps[t]) > 1
      PROVE  CallEnded(ps, t) \/ (st2 # "ok" /\ CallRuns(ps, t, q))
  BY <1>2, <1>3
<1> QED BY <1>1, <1>2, <1>3 DEF PathsInv

(* They do as well when there is one more activation. *)
LEMMA RunsUnder ==
  ASSUME NEW ps, NEW t, NEW p, NEW q, Len(p) \in Nat, Len(ps[t]) \in Nat, Len(q) \in Nat,
         Len(q) >= Len(p), \A k \in 1 .. Len(p) : q[k] = p[k], CallRuns(ps, t, p)
  PROVE  CallRuns(ps, t, q)
<1> DEFINE n == Len(ps[t]) - 1
<1>1. n \in Int
  OBVIOUS
<1>2. Along(n, ps[t], p) /\ AllWithin(ps, t, Len(ps))
  BY DEF CallRuns
<1> HIDE DEF n
<1>3. Len(p) >= n /\ \A k \in 1 .. n : p[k] = ps[t][k]
  BY <1>2 DEF Along
<1>4. \A k \in 1 .. n : q[k] = ps[t][k]
  <2>1. \A k \in 1 .. n : k \in 1 .. Len(p)
    BY <1>1, <1>3
  <2> QED BY <1>3, <2>1
<1>5. Len(q) >= n
  BY <1>1, <1>3
<1>6. Along(n, ps[t], q)
  BY <1>4, <1>5 DEF Along
<1> QED BY <1>2, <1>6 DEF CallRuns, n

LEMMA StepKinds ==
  ASSUME EvalInv, [Next]_vars
  PROVE  \/ ReturnFromCall \/ ReturnFromEval \/ RunCall \/ EnterEval
         \/ /\ \E code, newTop : code # "call" /\ AtRun(code) /\ Advance(newTop)
            /\ status' = status /\ traces' = traces
         \/ /\ frames' = frames /\ traces' = traces
            /\ status' = "ok" => status = "ok"
            /\ status' = "eval" => status = "eval"
            /\ status' \in {"unchecked", "allocate", "overlay"} =>
                 status \in {"unchecked", "allocate", "overlay"}
<1>1. CASE UNCHANGED evalVars
  BY <1>1 DEF evalVars
<1>2. CASE CallEval4 \/ AllocateStack \/ Deserialized \/ ApplyOverlay
  BY <1>2 DEF CallEval4, AllocateStack, Deserialized, ApplyOverlay
<1>3. CASE \E error \in EvalReverts : Revert(error)
  BY <1>3 DEF Revert, EvalReverts
<1>4. CASE RunOp /\ ~RunCall /\ ~(\E error \in EvalReverts : Revert(error))
  <2> SUFFICES /\ \E code, newTop : code # "call" /\ AtRun(code) /\ Advance(newTop)
               /\ status' = status /\ traces' = traces
    OBVIOUS
  <2>1. CASE RunPure
    BY <2>1 DEF RunPure, PureCodes, PopPush, evalFixed
  <2>2. CASE RunStack
    BY <2>2 DEF RunStack, PopPush, evalFixed
  <2>3. CASE RunConstant
    BY <2>3 DEF RunConstant, PopPush, evalFixed
  <2>4. CASE RunContext
    BY <2>4 DEF RunContext, PopPush, evalFixed
  <2>5. CASE RunEnsure
    BY <2>5 DEF RunEnsure, evalFixed
  <2>6. CASE RunGet
    BY <2>6 DEF RunGet, PopPush, evalFixed
  <2>7. CASE RunSet
    BY <2>7 DEF RunSet, evalFixed
  <2>8. CASE RunExtern
    BY <2>8 DEF RunExtern, evalFixed
  <2>9. CASE \/ RevertContext \/ RevertArithmetic \/ RevertEnsure \/ RevertStore
             \/ RevertExternCall \/ RevertExternOutputs \/ RevertGas
    BY <1>4, <2>9 DEF RevertContext, RevertArithmetic, RevertEnsure, RevertStore,
         RevertExternCall, RevertExternOutputs, RevertGas, EvalReverts
  <2> QED BY <1>4, <2>1, <2>2, <2>3, <2>4, <2>5, <2>6, <2>7, <2>8, <2>9 DEF RunOp
<1>5. CASE RejectOverlay \/ RejectSourceIndex \/ RejectInputs
  BY <1>3, <1>5 DEF RejectOverlay, RejectSourceIndex, RejectInputs, EvalReverts
<1> QED BY <1>1, <1>2, <1>3, <1>4, <1>5 DEF Next, Stopped, vars, EvalNext

(* An op that is no call. *)
LEMMA OpKeepsPaths ==
  ASSUME EvalInv, PathInv, NEW code, NEW newTop, code # "call", AtRun(code), Advance(newTop),
         expression' = expression, status' = status, traces' = traces, callPaths' = callPaths
  PROVE  PathInv'
<1> DEFINE n == Len(frames)
           g == Frame(Running.src, Running.parent, Running.bottom, newTop, Running.pc + 1)
<1>1. /\ status = "eval" /\ RunningOp.code = code /\ frames' = [frames EXCEPT ![n] = g]
  BY DEF AtRun, Advance
<1>2. /\ n \in Nat /\ n >= 1 /\ DOMAIN frames = 1 .. n /\ frames[n] = Running
      /\ Running.pc \in Nat
  BY <1>1, RunningFacts, LenProperties DEF Running
<1>3. g.src = Running.src /\ g.pc = Running.pc + 1
  BY DEF Frame
<1> HIDE DEF n, g
<1>4. /\ DOMAIN frames' = 1 .. n
      /\ \A d \in 1 .. n : frames'[d] = IF d = n THEN g ELSE frames[d]
  BY <1>1, <1>2
<1>5. \A d \in 1 .. n : frames'[d].src = frames[d].src
  BY <1>2, <1>3, <1>4
<1>6. PathOf(frames') = PathOf(frames)
  BY <1>2, <1>4, <1>5 DEF PathOf
<1>7. \A d \in 1 .. n : CallsTraced(expression, traces, frames[d].src, frames[d].pc, Len(traces))
  BY <1>1, <1>2 DEF PathInv, FramesTraced
<1>8. CallsTraced(expression, traces, g.src, g.pc, Len(traces))
  <2> SUFFICES ASSUME NEW k \in 1 .. (Running.pc + 1),
                      expression.sources[Running.src].ops[k].code = "call"
               PROVE  \E t \in 1 .. Len(traces) :
                        traces[t].source = expression.sources[Running.src].ops[k].arg
    BY <1>3 DEF CallsTraced
  <2>1. k # Running.pc + 1
    BY <1>1 DEF RunningOp, OpAt
  <2>2. k \in 1 .. Running.pc
    BY <1>2, <2>1
  <2>3. CallsTraced(expression, traces, Running.src, Running.pc, Len(traces))
    <3>1. n \in 1 .. n
      BY <1>2
    <3> QED BY <1>2, <1>7, <3>1
  <2> QED BY <2>2, <2>3 DEF CallsTraced
<1>9. FramesTraced(expression, traces, frames')
  <2>1. ASSUME NEW d \in 1 .. n
        PROVE  CallsTraced(expression, traces, frames'[d].src, frames'[d].pc, Len(traces))
    <3>1. CASE d = n
      BY <1>4, <1>8, <3>1
    <3>2. CASE d # n
      BY <1>4, <1>7, <3>2
    <3> QED BY <3>1, <3>2
  <2> QED BY <1>4, <2>1 DEF FramesTraced
<1> QED BY <1>1, <1>6, <1>9 DEF PathInv

(* A call starts an activation on top of the others. *)
LEMMA CallKeepsPaths ==
  ASSUME EvalInv, PathInv, RunCall, expression' = expression, callPaths' = callPaths,
         frames' \in Seq(FrameType)
  PROVE  PathInv'
<1> DEFINE n == Len(frames)
           p == PathOf(frames)
           q == PathOf(frames')
<1>1. status = "eval" /\ status' = status /\ traces' = traces
  BY DEF RunCall, AtRun
<1>2. /\ n \in Nat /\ n >= 1 /\ DOMAIN frames = 1 .. n /\ frames[n] = Running
      /\ DOMAIN frames' = 1 .. (n + 1) /\ frames'[n + 1] = CalleeFrame
      /\ \A d \in 1 .. n : frames'[d] = IF d = n THEN CallerFrame ELSE frames[d]
  BY CallFrames
<1>3. /\ CallerFrame.src = Running.src /\ CallerFrame.pc = Running.pc
      /\ CalleeFrame.pc = 0
  BY DEF CallerFrame, CalleeFrame, Frame
<1>4. frames \in Seq(FrameType) /\ Len(frames') = n + 1
  <2> DEFINE L == Len(frames')
  <2>1. L \in Nat /\ \A d : d \in 1 .. L <=> d \in 1 .. (n + 1)
    BY <1>2, LenProperties
  <2> HIDE DEF L, n
  <2>2. n + 1 \in 1 .. (n + 1)
    BY <1>2
  <2>3. n + 1 \in 1 .. L /\ L \in 1 .. (n + 1)
    <3>1. n + 1 \in 1 .. L
      BY <2>1, <2>2
    <3>2. L \in 1 .. L
      BY <1>2, <2>1, <3>1
    <3> QED BY <2>1, <3>1, <3>2
  <2>4. L = n + 1
    BY <1>2, <2>1, <2>3
  <2> QED BY <1>1, <2>4, RunningFacts DEF L
<1> HIDE DEF n
<1>5. \A d \in 1 .. n : frames'[d].src = frames[d].src /\ frames'[d].pc = frames[d].pc
  BY <1>2, <1>3
<1>6. /\ Len(p) = n /\ Len(q) = n + 1
      /\ \A d \in 1 .. n : q[d] = p[d]
  <2>1. /\ Len(p) = n /\ \A d \in 1 .. n : p[d] = Part(frames[d].src - 1)
    BY <1>4, PathOfFacts DEF n
  <2>2. /\ Len(q) = n + 1 /\ \A d \in 1 .. (n + 1) : q[d] = Part(frames'[d].src - 1)
    BY <1>4, PathOfFacts
  <2>3. \A d \in 1 .. n : d \in 1 .. (n + 1)
    BY <1>2
  <2> HIDE DEF p, q
  <2> QED BY <1>5, <2>1, <2>2, <2>3
<1> HIDE DEF p, q
<1>7. PathsInv(expression, traces, callPaths, status, p)
  BY DEF PathInv, p
<1>8. ASSUME NEW t \in 1 .. Len(traces), CallRuns(callPaths, t, p)
      PROVE  CallRuns(callPaths, t, q)
  <2>1. callPaths[t] \in Seq(PartType)
    BY <1>7, ElementOfSeq DEF PathsInv
  <2>2. /\ Len(callPaths[t]) \in Nat /\ Len(p) \in Nat /\ Len(q) \in Nat /\ Len(q) >= Len(p)
        /\ \A d \in 1 .. Len(p) : q[d] = p[d]
    BY <1>2, <1>6, <2>1, LenProperties
  <2> QED BY <1>8, <2>2, RunsUnder
<1>9. PathsInv(expression, traces, callPaths, status, q)
  BY <1>7, <1>8, PathsStay
<1>10. FramesTraced(expression, traces, frames')
  <2>1. FramesTraced(expression, traces, frames)
    BY <1>1 DEF PathInv
  <2>2. ASSUME NEW d \in 1 .. (n + 1)
        PROVE  CallsTraced(expression, traces, frames'[d].src, frames'[d].pc, Len(traces))
    <3>1. CASE d = n + 1
      BY <1>2, <1>3, <3>1 DEF CallsTraced
    <3>2. CASE d \in 1 .. n
      BY <1>2, <1>5, <2>1, <3>2 DEF FramesTraced
    <3> QED BY <1>2, <3>1, <3>2
  <2> QED BY <1>2, <2>2 DEF FramesTraced
<1> QED BY <1>1, <1>9, <1>10 DEF PathInv, q

(* A return adds a trace, and its path to the paths; what is left of the     *)
(* activations is on the path q.                                             *)
LEMMA ReturnAddsPath ==
  ASSUME EvalInv, TraceInv, PathInv, AtReturn,
         NEW st, NEW q, Len(q) = Len(frames) - 1,
         \A k \in 1 .. Len(q) : q[k] = PathOf(frames)[k],
         st = "ok" => Len(frames) = 1
  PROVE  PathsInv(expression, Append(traces, ReturnTrace), Append(callPaths, PathOf(frames)), st, q)
<1> DEFINE n == Len(frames)
           M == Len(traces)
           p == PathOf(frames)
           e == expression
           ps == callPaths
           us == Append(traces, ReturnTrace)
           qs == Append(callPaths, p)
<1>1. status = "eval" /\ Running.pc = Len(e.sources[Running.src].ops)
  BY DEF AtReturn, Sources
<1>2. /\ n \in Nat /\ n >= 1 /\ DOMAIN frames = 1 .. n /\ frames[n] = Running
      /\ frames \in Seq(FrameType) /\ Running.src \in Nat /\ Running.parent \in Nat
  BY <1>1, RunningFacts, LenProperties DEF Running
<1>3. /\ p \in Seq(PartType) /\ Len(p) = n
      /\ \A d \in 1 .. n : p[d] = Part(frames[d].src - 1)
  BY <1>2, PathOfFacts
<1>4. /\ ps \in Seq(Seq(PartType)) /\ Len(ps) = M /\ M \in Nat /\ traces \in Seq(TraceType)
  <2>1. traces \in Seq(TraceType)
    BY DEF TraceInv
  <2>2. ps \in Seq(Seq(PartType)) /\ Len(ps) = M
    BY DEF PathInv, PathsInv
  <2> QED BY <2>1, <2>2, LenProperties
<1>5. ReturnTrace \in TraceType /\ ReturnTrace.parent = Running.parent
      /\ ReturnTrace.source = Running.src
  BY ReturnTraceFits DEF ReturnTrace
<1>6. /\ Len(us) = M + 1 /\ us[M + 1] = ReturnTrace /\ \A t \in 1 .. M : us[t] = traces[t]
  BY <1>4, <1>5, AppendProperties
<1>7. /\ qs \in Seq(Seq(PartType)) /\ Len(qs) = M + 1 /\ qs[M + 1] = p
      /\ \A t \in 1 .. M : qs[t] = ps[t]
  <2> HIDE DEF p, M
  <2>1. ps \in Seq(Seq(PartType)) /\ p \in Seq(PartType)
    BY <1>3, <1>4
  <2>2. /\ Append(ps, p) \in Seq(Seq(PartType)) /\ Len(Append(ps, p)) = Len(ps) + 1
        /\ Append(ps, p)[Len(ps) + 1] = p
        /\ \A t \in 1 .. Len(ps) : Append(ps, p)[t] = ps[t]
    BY <2>1, AppendProperties
  <2> HIDE DEF ps
  <2> QED BY <1>4, <2>2 DEF ps
<1>8. PathsInv(e, traces, ps, status, p) /\ FramesTraced(e, traces, frames)
  BY <1>1 DEF PathInv
<1>9. PathFits(p, ReturnTrace)
  <2>1. p[n] = Part(Running.src - 1)
    BY <1>2, <1>3
  <2>2. ASSUME n = 1 PROVE Running.parent = Running.src
    BY <1>1, <1>2, <2>2 DEF TraceInv, RootIs
  <2>3. ASSUME n > 1 PROVE p[n - 1] = Part(Running.parent - 1)
    <3>1. n - 1 \in 1 .. n /\ n - 1 \in 1 .. (Len(frames) - 1) /\ (n - 1) + 1 = n
      BY <1>2, <2>3
    <3>2. frames[(n - 1) + 1].parent = frames[n - 1].src
      BY <1>1, <3>1, WaitingCalls
    <3> HIDE DEF n, p
    <3>3. Running.parent = frames[n - 1].src
      BY <1>2, <3>1, <3>2
    <3> QED BY <1>3, <3>1, <3>3
  <2> HIDE DEF n, p
  <2> QED BY <1>2, <1>3, <1>5, <2>1, <2>2, <2>3 DEF PathFits
<1>10. WaitsForOthers(p)
  <2>1. ASSUME NEW k \in 1 .. (n - 1) PROVE p[k] # p[n]
    <3>1. frames[k].src # Running.src
      BY EndedNeverWaits
    <3>2. k \in 1 .. n /\ n \in 1 .. n
      BY <1>2
    <3>3. frames[k].src \in Nat
      <4>1. frames[k] \in FrameType
        BY <1>2, <3>2, ElementOfSeq
      <4> QED BY <4>1 DEF FrameType
    <3>4. frames[k].src - 1 \in Int /\ Running.src - 1 \in Int
          /\ frames[k].src - 1 # Running.src - 1
      BY <1>2, <3>1, <3>3
    <3>5. Part(frames[k].src - 1) # Part(Running.src - 1)
      BY <3>4, PartFacts
    <3> HIDE DEF p, n
    <3> QED BY <1>2, <1>3, <3>2, <3>5
  <2> HIDE DEF p, n
  <2> QED BY <1>3, <2>1 DEF WaitsForOthers
<1>11. CallsTraced(e, us, ReturnTrace.source, Len(e.sources[ReturnTrace.source].ops), M)
  <2>1. CallsTraced(e, traces, Running.src, Running.pc, M)
    <3>1. n \in DOMAIN frames
      BY <1>2
    <3> HIDE DEF n
    <3> QED BY <1>2, <1>8, <3>1 DEF FramesTraced
  <2> HIDE DEF e, us, M
  <2>2. CallsTraced(e, us, Running.src, Running.pc, M)
    <3>1. \A t \in 1 .. M : us[t] = traces[t]
      BY <1>6
    <3> QED BY <1>4, <2>1, <3>1, CallsStayTraced
  <2> QED BY <1>1, <1>5, <2>2
<1>12. Len(q) = Len(p) - 1 /\ \A k \in 1 .. Len(q) : q[k] = p[k]
  <2> HIDE DEF p
  <2> QED BY <1>3 DEF p
<1>13. ASSUME NEW t \in 1 .. M
       PROVE  /\ PathFits(ps[t], traces[t])
              /\ WaitsForOthers(ps[t])
              /\ CallsTraced(e, traces, traces[t].source, Len(e.sources[traces[t].source].ops), t - 1)
              /\ Len(ps[t]) > 1 => CallEnded(ps, t) \/ CallRuns(ps, t, p)
  BY <1>8 DEF PathsInv
<1> HIDE DEF n, M, p, e, ps, us, qs
<1>14. ASSUME NEW t \in 1 .. M
       PROVE  /\ PathFits(qs[t], us[t])
              /\ WaitsForOthers(qs[t])
              /\ CallsTraced(e, us, us[t].source, Len(e.sources[us[t].source].ops), t - 1)
              /\ Len(qs[t]) > 1 => CallEnded(qs, t) \/ (st # "ok" /\ CallRuns(qs, t, q))
  <2>1. qs[t] = ps[t] /\ us[t] = traces[t]
    BY <1>6, <1>7
  <2>2. CallsTraced(e, us, traces[t].source, Len(e.sources[traces[t].source].ops), t - 1)
    <3>1. t - 1 \in Nat /\ t - 1 <= t - 1 /\ \A v \in 1 .. (t - 1) : v \in 1 .. M
      BY <1>4
    <3>2. \A v \in 1 .. (t - 1) : us[v] = traces[v]
      BY <1>6, <3>1
    <3> QED BY <1>13, <3>1, <3>2, CallsStayTraced
  <2>3. ASSUME Len(qs[t]) > 1, ~CallEnded(qs, t)
        PROVE  st # "ok" /\ CallRuns(qs, t, q)
    <3>1. t \in 1 .. Len(ps) /\ qs = Append(ps, p)
      BY <1>4 DEF qs, ps, p
    <3>2. ~CallEnded(ps, t)
      BY <1>3, <1>4, <2>3, <3>1, EndedStays
    <3>3. CallRuns(ps, t, p)
      BY <1>13, <2>1, <2>3, <3>2
    <3>4. CallRuns(qs, t, q)
      BY <1>3, <1>4, <1>12, <2>3, <3>1, <3>3, RunsGoOn
    <3>5. Len(q) >= Len(qs[t]) - 1
      BY <3>4 DEF CallRuns, Along
    <3>6. st # "ok"
      <4> SUFFICES ASSUME st = "ok" PROVE FALSE
        OBVIOUS
      <4>1. n = 1
        BY DEF n
      <4>2. Len(q) = 0
        BY <1>3, <1>12, <4>1
      <4>3. Len(qs[t]) \in Nat
        <5>1. ps[t] \in Seq(PartType)
          BY <1>4, ElementOfSeq
        <5> QED BY <2>1, <5>1, LenProperties
      <4> DEFINE len == Len(qs[t])
                 left == Len(q)
      <4>4. len \in Nat /\ len > 1 /\ left = 0 /\ left >= len - 1
        BY <2>3, <3>5, <4>2, <4>3
      <4> HIDE DEF len, left
      <4>5. \A a \in Nat : a > 1 => ~(0 >= a - 1)
        OBVIOUS
      <4> QED BY <4>4, <4>5
    <3> QED BY <3>4, <3>6
  <2> QED BY <1>13, <2>1, <2>2, <2>3
<1>15. Len(qs[M + 1]) > 1 => st # "ok" /\ CallRuns(qs, M + 1, q)
  <2> SUFFICES ASSUME Len(qs[M + 1]) > 1 PROVE st # "ok" /\ CallRuns(qs, M + 1, q)
    OBVIOUS
  <2>1. n > 1 /\ n # 1
    BY <1>2, <1>3, <1>7
  <2>2. st # "ok"
    BY <2>1 DEF n
  <2>3. Along(n - 1, p, q)
    <3>1. Len(q) = n - 1 /\ Len(q) >= n - 1
      BY <1>2, <1>3, <1>12
    <3> QED BY <1>12, <3>1 DEF Along
  <2>4. AllWithin(qs, M + 1, M + 1)
    <3>1. \A v \in ((M + 1) + 1) .. (M + 1) : FALSE
      BY <1>4
    <3> QED BY <3>1 DEF AllWithin
  <2>5. CallRuns(qs, M + 1, q)
    BY <1>3, <1>7, <2>3, <2>4 DEF CallRuns
  <2> QED BY <2>2, <2>5
<1>16. ASSUME NEW t \in 1 .. Len(us)
       PROVE  /\ PathFits(qs[t], us[t])
              /\ WaitsForOthers(qs[t])
              /\ CallsTraced(e, us, us[t].source, Len(e.sources[us[t].source].ops), t - 1)
              /\ Len(qs[t]) > 1 => CallEnded(qs, t) \/ (st # "ok" /\ CallRuns(qs, t, q))
  <2>1. CASE t = M + 1
    <3>1. t - 1 = M
      BY <1>4, <2>1
    <3> QED BY <1>6, <1>7, <1>9, <1>10, <1>11, <1>15, <2>1, <3>1
  <2>2. CASE t \in 1 .. M
    BY <1>14, <2>2
  <2> QED BY <1>4, <1>6, <2>1, <2>2
<1>17. PathsInv(e, us, qs, st, q)
  BY <1>6, <1>7, <1>16 DEF PathsInv
<1> QED BY <1>17 DEF e, us, qs, p

(* The caller has gone past its call, of which there is now a trace. *)
LEMMA ReturnFromCallKeepsPaths ==
  ASSUME EvalInv, TraceInv, PathInv, ReturnFromCall, expression' = expression,
         callPaths' = Append(callPaths, PathOf(frames)), frames' \in Seq(FrameType)
  PROVE  PathInv'
<1> DEFINE n == Len(frames) - 1
           M == Len(traces)
           p == PathOf(frames)
           q == PathOf(frames')
           us == Append(traces, ReturnTrace)
<1>1. /\ AtReturn /\ status = "eval" /\ status' = "eval"
      /\ traces' = us
  BY DEF ReturnFromCall, AtReturn, StackTrace, ReturnTrace
<1>2. /\ n \in Nat /\ n >= 1 /\ n + 1 = Len(frames) /\ DOMAIN frames = 1 .. (n + 1)
      /\ DOMAIN frames' = 1 .. n
      /\ \A d \in 1 .. (n - 1) : frames'[d] = frames[d]
  <2>1. n - 1 = Len(frames) - 2 /\ n \in Nat /\ n >= 1 /\ n + 1 = Len(frames)
    BY ReturnFrames
  <2> QED BY <2>1, ReturnFrames
<1>3. /\ frames'[n].src = frames[n].src /\ frames'[n].pc = frames[n].pc + 1
  BY ReturnFrames DEF ResumedFrame, Waiting, Frame
<1>4. frames \in Seq(FrameType) /\ frames[n + 1] = Running
  BY <1>1, <1>2, RunningFacts DEF Running
<1>5. Len(frames') = n
  <2> DEFINE L == Len(frames')
  <2>1. L \in Nat /\ \A d : d \in 1 .. L <=> d \in 1 .. n
    BY <1>2, LenProperties
  <2> HIDE DEF L, n
  <2>2. n \in 1 .. L
    BY <1>2, <2>1
  <2>3. L \in 1 .. n
    BY <2>1, <2>2
  <2> QED BY <1>2, <2>1, <2>2, <2>3 DEF L
<1> HIDE DEF n
<1>6. \A d \in 1 .. n : frames'[d].src = frames[d].src
  BY <1>2, <1>3
<1>7. Len(q) = Len(frames) - 1 /\ \A d \in 1 .. Len(q) : q[d] = p[d]
  <2>1. /\ Len(p) = n + 1 /\ \A d \in 1 .. (n + 1) : p[d] = Part(frames[d].src - 1)
    BY <1>2, <1>4, PathOfFacts
  <2>2. /\ Len(q) = n /\ \A d \in 1 .. n : q[d] = Part(frames'[d].src - 1)
    BY <1>5, PathOfFacts
  <2>3. \A d \in 1 .. n : d \in 1 .. (n + 1)
    BY <1>2
  <2> HIDE DEF p, q
  <2> QED BY <1>2, <1>6, <2>1, <2>2, <2>3
<1>8. PathsInv(expression, us, Append(callPaths, p), "eval", q)
  <2> HIDE DEF q
  <2> QED BY <1>1, <1>7, ReturnAddsPath
<1>9. /\ traces \in Seq(TraceType) /\ M \in Nat /\ Len(us) = M + 1
      /\ us[M + 1] = ReturnTrace /\ \A t \in 1 .. M : us[t] = traces[t]
  <2>1. traces \in Seq(TraceType) /\ ReturnTrace \in TraceType
    BY <1>1, ReturnTraceFits DEF TraceInv
  <2> QED BY <2>1, AppendProperties, LenProperties
<1>10. ReturnTrace.source = frames[n + 1].src
  BY <1>4 DEF ReturnTrace
<1>11. FramesTraced(expression, traces, frames)
  BY <1>1 DEF PathInv
<1> HIDE DEF M, us
<1>12. ASSUME NEW d \in 1 .. n
       PROVE  CallsTraced(expression, us, frames[d].src, frames[d].pc, M + 1)
  <2>1. CallsTraced(expression, traces, frames[d].src, frames[d].pc, M)
    <3>1. d \in DOMAIN frames
      BY <1>2
    <3> QED BY <1>11, <3>1 DEF FramesTraced, M
  <2>2. M + 1 \in Nat /\ M <= M + 1
    BY <1>9
  <2> QED BY <1>9, <2>1, <2>2, CallsStayTraced
<1>13. CallsTraced(expression, us, frames[n].src, frames[n].pc + 1, M + 1)
  <2> SUFFICES ASSUME NEW k \in 1 .. (frames[n].pc + 1),
                      expression.sources[frames[n].src].ops[k].code = "call"
               PROVE  \E t \in 1 .. (M + 1) :
                        us[t].source = expression.sources[frames[n].src].ops[k].arg
    BY DEF CallsTraced
  <2>1. n \in 1 .. n /\ n \in 1 .. (Len(frames) - 1)
    BY <1>2
  <2>2. /\ frames[n].pc + 1 \in 1 .. Len(Sources[frames[n].src].ops)
        /\ expression.sources[frames[n].src].ops[frames[n].pc + 1].arg = frames[n + 1].src
    BY <1>1, <2>1, WaitingCalls DEF Sources
  <2>3. frames[n].pc \in Nat
    <3>1. frames[n] \in FrameType
      <4>1. n \in 1 .. Len(frames)
        BY <1>2
      <4> QED BY <1>4, <4>1, ElementOfSeq
    <3> QED BY <3>1 DEF FrameType
  <2>4. CASE k = frames[n].pc + 1
    <3>1. M + 1 \in 1 .. (M + 1)
      BY <1>9
    <3> QED BY <1>9, <1>10, <2>2, <2>4, <3>1
  <2>5. CASE k # frames[n].pc + 1
    <3>1. k \in 1 .. frames[n].pc
      BY <2>3, <2>5
    <3> QED BY <1>12, <2>1, <3>1 DEF CallsTraced
  <2> QED BY <2>4, <2>5
<1>14. FramesTraced(expression, us, frames')
  <2>1. ASSUME NEW d \in 1 .. n
        PROVE  CallsTraced(expression, us, frames'[d].src, frames'[d].pc, Len(us))
    <3>1. CASE d = n
      BY <1>3, <1>9, <1>13, <3>1
    <3>2. CASE d # n
      <4>1. d \in 1 .. (n - 1)
        BY <1>2, <3>2
      <4>2. frames'[d] = frames[d]
        BY <1>2, <4>1
      <4> QED BY <1>9, <1>12, <4>2
    <3> QED BY <3>1, <3>2
  <2> QED BY <1>2, <2>1 DEF FramesTraced
<1>15. PathsInv(expression', traces', callPaths', status', PathOf(frames'))
  <2> HIDE DEF q, p
  <2> QED BY <1>1, <1>8 DEF us, q, p
<1>16. FramesTraced(expression', traces', frames')
  BY <1>1, <1>14 DEF us
<1> QED BY <1>1, <1>15, <1>16 DEF PathInv

(* The entry source has a path of itself. *)
LEMMA ReturnFromEvalKeepsPaths ==
  ASSUME EvalInv, TraceInv, PathInv, ReturnFromEval, expression' = expression,
         callPaths' = Append(callPaths, PathOf(frames))
  PROVE  PathInv'
<1> DEFINE us == Append(traces, ReturnTrace)
           qs == Append(callPaths, PathOf(frames))
<1>1. /\ AtReturn /\ status = "eval" /\ status' = "ok" /\ Len(frames) = 1
      /\ traces' = us /\ frames' = frames
  BY DEF ReturnFromEval, AtReturn, StackTrace, ReturnTrace
<1>2. PathsInv(expression, us, qs, "ok", << >>)
  <2> DEFINE q == << >>
  <2>1. Len(q) = 0
    BY EmptySeq
  <2> HIDE DEF q
  <2>2. Len(q) = Len(frames) - 1 /\ \A k \in 1 .. Len(q) : q[k] = PathOf(frames)[k]
    BY <1>1, <2>1
  <2>3. PathsInv(expression, us, qs, "ok", q)
    BY <1>1, <2>2, ReturnAddsPath
  <2> QED BY <2>3 DEF q
<1> HIDE DEF us, qs
<1>3. PathsInv(expression, us, qs, "ok", PathOf(frames))
  BY <1>2, PathsStay
<1>4. PathsInv(expression', traces', callPaths', status', PathOf(frames'))
  BY <1>1, <1>3 DEF qs
<1> QED BY <1>1, <1>4 DEF PathInv

LEMMA PathInvNext == EvalInv /\ TraceInv /\ PathInv /\ [TracedNext]_tracedVars => PathInv'
<1> SUFFICES ASSUME EvalInv, TraceInv, PathInv, [TracedNext]_tracedVars
             PROVE  PathInv'
  OBVIOUS
<1>1. [Next]_vars /\ (traces' = traces => callPaths' = callPaths)
  BY DEF TracedNext, tracedVars, vars, evalVars
<1>2. expression' = expression
  BY <1>1, ExpressionStays
<1>3. EvalInv' /\ frames' \in Seq(FrameType)
  <2>1. EvalInv'
    BY <1>1, EvalInvNext
  <2> QED BY <2>1 DEF EvalInv
<1>4. ASSUME ReturnFromCall \/ ReturnFromEval
      PROVE  callPaths' = Append(callPaths, PathOf(frames))
  <2>1. traces' = Append(traces, ReturnTrace) /\ traces \in Seq(TraceType) /\ AtReturn
    BY <1>4 DEF ReturnFromCall, ReturnFromEval, StackTrace, ReturnTrace, TraceInv
  <2>2. traces' # traces
    <3>1. ReturnTrace \in TraceType
      BY <2>1, ReturnTraceFits
    <3>2. Len(traces') = Len(traces) + 1 /\ Len(traces) \in Nat
      BY <2>1, <3>1, AppendProperties, LenProperties
    <3> QED BY <3>2
  <2>3. TracedNext
    <3>1. ~UNCHANGED tracedVars
      BY <2>2 DEF tracedVars, vars, evalVars
    <3> QED BY <3>1
  <2> QED BY <2>2, <2>3 DEF TracedNext, PathOfRunning, PathOf
<1>5. CASE ReturnFromCall
  BY <1>2, <1>3, <1>4, <1>5, ReturnFromCallKeepsPaths
<1>6. CASE ReturnFromEval
  BY <1>2, <1>4, <1>6, ReturnFromEvalKeepsPaths
<1>7. CASE RunCall
  <2>1. traces' = traces
    BY <1>7 DEF RunCall
  <2> QED BY <1>1, <1>2, <1>3, <1>7, <2>1, CallKeepsPaths
<1>8. CASE EnterEval
  <2>1. traces = << >> /\ traces' = traces /\ status' = "eval"
    BY <1>8 DEF EnterEval, Overlaid, PathInv
  <2>2. Len(traces) = 0 /\ callPaths' = callPaths
    BY <1>1, <2>1, EmptySeq
  <2>3. callPaths \in Seq(Seq(PartType)) /\ Len(callPaths) = Len(traces)
    BY DEF PathInv, PathsInv
  <2>4. PathsInv(expression, traces, callPaths, status', PathOf(frames'))
    BY <2>2, <2>3 DEF PathsInv
  <2>5. FramesTraced(expression, traces, frames')
    <3> DEFINE g == Frame(sourceIndex, sourceIndex, stackBottoms[sourceIndex],
                          stackBottoms[sourceIndex] - Len(request.inputs), 0)
    <3>1. frames' = <<g>>
      BY <1>8 DEF EnterEval
    <3>2. g.pc = 0
      BY DEF Frame
    <3> HIDE DEF g
    <3>3. \A d \in DOMAIN frames' : frames'[d].pc = 0
      BY <3>1, <3>2
    <3>4. ASSUME NEW d \in DOMAIN frames'
          PROVE  CallsTraced(expression, traces, frames'[d].src, frames'[d].pc, Len(traces))
      BY <3>3 DEF CallsTraced
    <3> QED BY <3>4 DEF FramesTraced
  <2> QED BY <1>2, <2>1, <2>2, <2>4, <2>5 DEF PathInv
<1>9. CASE /\ \E code, newTop : code # "call" /\ AtRun(code) /\ Advance(newTop)
           /\ status' = status /\ traces' = traces
  BY <1>1, <1>2, <1>9, OpKeepsPaths
<1>10. CASE /\ frames' = frames /\ traces' = traces
            /\ status' = "ok" => status = "ok"
            /\ status' = "eval" => status = "eval"
            /\ status' \in {"unchecked", "allocate", "overlay"} =>
                 status \in {"unchecked", "allocate", "overlay"}
  <2>1. PathsInv(expression, traces, callPaths, status, PathOf(frames))
    BY DEF PathInv
  <2>2. PathsInv(expression, traces, callPaths, status', PathOf(frames))
    BY <1>10, <2>1, PathsStay
  <2> QED BY <1>1, <1>2, <1>10, <2>2 DEF PathInv
<1> QED BY <1>1, <1>5, <1>6, <1>7, <1>8, <1>9, <1>10, StepKinds

-----------------------------------------------------------------------------
(* The names of the traces. *)

(* The nearest path of a parent. *)
LEMMA ParentPathFacts ==
  ASSUME NEW paths, Len(paths) \in Nat, NEW parent
  PROVE  LET k == ParentPath(paths, parent) IN
           \/ k = 0 /\ \A q \in 1 .. Len(paths) : Last(paths[q]) # Part(parent)
           \/ /\ k \in 1 .. Len(paths) /\ Last(paths[k]) = Part(parent)
              /\ \A q \in 1 .. Len(paths) : q > k => Last(paths[q]) # Part(parent)
<1> DEFINE I == {i \in 1 .. Len(paths) : Last(paths[i]) = Part(parent)}
           k == ParentPath(paths, parent)
<1>1. k = IF I # {} THEN Max(I) ELSE 0
  BY DEF ParentPath, SelectLastInSeq
<1>2. CASE I = {}
  BY <1>1, <1>2
<1>3. CASE I # {}
  <2>1. k = Max(I)
    BY <1>1, <1>3
  <2>2. I \in SUBSET (1 .. Len(paths))
    OBVIOUS
  <2> HIDE DEF I, k
  <2>3. \E m \in I : \A i \in I : m >= i
    BY <1>3, <2>2, GreatestNumber
  <2>4. k \in I /\ \A i \in I : k >= i
    BY <2>1, <2>3 DEF Max
  <2>5. k \in 1 .. Len(paths) /\ Last(paths[k]) = Part(parent)
    BY <2>4 DEF I
  <2>6. ASSUME NEW q \in 1 .. Len(paths), q > k PROVE Last(paths[q]) # Part(parent)
    <3>1. ~(k >= q)
      BY <2>5, <2>6
    <3>2. q \notin I
      BY <2>4, <3>1
    <3> QED BY <3>2 DEF I
  <2> QED BY <2>5, <2>6 DEF k
<1> QED BY <1>2, <1>3

(* The path with its first part parsed. *)
Resolved(path) == [path EXCEPT ![1] = Part(@.number)]

LEMMA ResolvedFacts ==
  ASSUME NEW path \in Seq(PartType), Len(path) >= 1
  PROVE  /\ Resolved(path) \in Seq(PartType) /\ Len(Resolved(path)) = Len(path)
         /\ Resolved(path)[1] = Part(path[1].number)
         /\ \A k \in 2 .. Len(path) : Resolved(path)[k] = path[k]
<1>1. Len(path) \in Nat /\ 1 \in 1 .. Len(path) /\ DOMAIN path = 1 .. Len(path)
  BY LenProperties
<1>2. path[1] \in PartType
  BY <1>1, ElementOfSeq
<1>3. Part(path[1].number) \in PartType
  BY <1>2 DEF PartType, Part
<1> DEFINE x == Part(path[1].number)
<1>4. Resolved(path) = [path EXCEPT ![1] = x]
  BY <1>1 DEF Resolved
<1> HIDE DEF x
<1>5. x \in PartType
  BY <1>3 DEF x
<1>6. /\ Resolved(path) \in Seq(PartType) /\ Len(Resolved(path)) = Len(path)
      /\ \A k \in 1 .. Len(path) : Resolved(path)[k] = IF k = 1 THEN x ELSE path[k]
  BY <1>1, <1>4, <1>5, ExceptSeq
<1>7. \A k \in 2 .. Len(path) : k \in 1 .. Len(path) /\ k # 1
  BY <1>1
<1> QED BY <1>1, <1>6, <1>7 DEF x

(* What NamesArePaths asks of the path of a trace, with what it ends in. *)
IsNamed(path, exact, st) ==
  /\ path \in Seq(PartType) /\ Len(path) >= 1
  /\ Last(path) = Last(exact)
  /\ IF path[1].parses THEN path = exact ELSE st # "ok" /\ IsTail(Resolved(path), exact)

(* The name of a callee is that of its caller and its own source. *)
LEMMA CalleeIsNamed ==
  ASSUME NEW path, NEW exact \in Seq(PartType), NEW st, IsNamed(path, exact, st),
         NEW x \in PartType, NEW longer \in Seq(PartType), Len(longer) = Len(exact) + 1,
         \A k \in 1 .. Len(exact) : longer[k] = exact[k], Last(longer) = x
  PROVE  IsNamed(Append(path, x), longer, st)
<1> DEFINE m == Len(path)
           n == Len(exact)
           a == Append(path, x)
<1>1. /\ path \in Seq(PartType) /\ m \in Nat /\ m >= 1 /\ n \in Nat
      /\ DOMAIN path = 1 .. m
  BY LenProperties DEF IsNamed
<1>2. /\ a \in Seq(PartType) /\ Len(a) = m + 1 /\ a[m + 1] = x
      /\ \A k \in 1 .. m : a[k] = path[k]
  <2> DEFINE S == PartType
  <2> HIDE DEF S
  <2>1. path \in Seq(S) /\ x \in S
    BY <1>1 DEF S
  <2>2. /\ Append(path, x) \in Seq(S) /\ Len(Append(path, x)) = Len(path) + 1
        /\ \A k \in 1 .. Len(path) : Append(path, x)[k] = path[k]
        /\ Append(path, x)[Len(path) + 1] = x
    BY <2>1, AppendProperties
  <2> QED BY <2>2 DEF S
<1>3. Len(longer) = n + 1 /\ longer[n + 1] = x /\ \A k \in 1 .. n : longer[k] = exact[k]
  BY DEF Last
<1>4. IF path[1].parses THEN path = exact ELSE st # "ok" /\ IsTail(Resolved(path), exact)
  BY DEF IsNamed
<1> HIDE DEF m, n, a
<1>5. Len(a) >= 1 /\ Last(a) = Last(longer) /\ a[1] = path[1]
  <2>1. 1 \in 1 .. m /\ m + 1 >= 1
    BY <1>1
  <2> QED BY <1>2, <1>3, <2>1 DEF Last
<1>6. ASSUME a[1].parses PROVE a = longer
  <2>1. path = exact
    BY <1>4, <1>5, <1>6
  <2>2. m = n
    BY <2>1 DEF m, n
  <2>3. ASSUME NEW k \in 1 .. (m + 1) PROVE a[k] = longer[k]
    <3>1. CASE k = m + 1
      BY <1>2, <1>3, <2>2, <3>1
    <3>2. CASE k \in 1 .. m
      BY <1>2, <1>3, <2>1, <2>2, <3>2
    <3> QED BY <1>1, <3>1, <3>2
  <2>4. Len(a) = Len(longer) /\ \A k \in 1 .. Len(a) : a[k] = longer[k]
    BY <1>2, <1>3, <2>2, <2>3
  <2> QED BY <1>2, <2>4, SeqEqual
<1>7. ASSUME ~a[1].parses PROVE st # "ok" /\ IsTail(Resolved(a), longer)
  <2> DEFINE r == Resolved(a)
             s == Resolved(path)
  <2>1. st # "ok" /\ IsTail(s, exact)
    BY <1>4, <1>5, <1>7
  <2>2. /\ Len(s) = m /\ s[1] = Part(path[1].number) /\ \A k \in 2 .. m : s[k] = path[k]
    BY <1>1, ResolvedFacts DEF m
  <2>3. /\ Len(r) = m + 1 /\ r[1] = Part(a[1].number) /\ \A k \in 2 .. (m + 1) : r[k] = a[k]
    <3>1. /\ Len(r) = Len(a) /\ r[1] = Part(a[1].number)
          /\ \A k \in 2 .. Len(a) : r[k] = a[k]
      BY <1>2, <1>5, ResolvedFacts
    <3> HIDE DEF r
    <3> QED BY <1>2, <3>1
  <2> HIDE DEF r, s
  <2>4. m <= n /\ \A k \in 1 .. m : s[k] = exact[n - m + k]
    BY <2>1, <2>2 DEF IsTail, n
  <2>5. \A k \in 1 .. m : r[k] = s[k]
    <3>1. ASSUME NEW k \in 1 .. m PROVE r[k] = s[k]
      <4>1. CASE k = 1
        BY <1>5, <2>2, <2>3, <4>1
      <4>2. CASE k # 1
        <5>1. k \in 2 .. m /\ k \in 2 .. (m + 1)
          BY <1>1, <4>2
        <5> QED BY <1>2, <2>2, <2>3, <5>1
      <4> QED BY <4>1, <4>2
    <3> QED BY <3>1
  <2>6. ASSUME NEW k \in 1 .. (m + 1) PROVE r[k] = longer[n - m + k]
    <3>1. CASE k = m + 1
      <4>1. k \in 2 .. (m + 1) /\ n - m + k = n + 1
        BY <1>1, <3>1
      <4> QED BY <1>2, <1>3, <2>3, <3>1, <4>1
    <3>2. CASE k \in 1 .. m
      <4>1. n - m + k \in 1 .. n
        BY <1>1, <2>4, <3>2
      <4> QED BY <1>3, <2>4, <2>5, <3>2, <4>1
    <3> QED BY <1>1, <3>1, <3>2
  <2>7. (n + 1) - (m + 1) = n - m /\ m + 1 <= n + 1
    BY <1>1, <2>4
  <2>8. IsTail(r, longer)
    <3>1. \A k \in 1 .. (m + 1) : r[k] = longer[(n + 1) - (m + 1) + k]
      BY <2>6, <2>7
    <3> QED BY <1>3, <2>3, <2>7, <3>1 DEF IsTail
  <2> QED BY <2>1, <2>8 DEF r
<1>8. IsNamed(a, longer, st)
  BY <1>2, <1>5, <1>6, <1>7 DEF IsNamed
<1> QED BY <1>8 DEF a

(* The place of trace v in the reversed list. *)
LEMMA PlaceFacts ==
  ASSUME NEW N \in Nat, NEW t \in 1 .. N
  PROVE  /\ \A u \in (t + 1) .. N : u \in 1 .. N /\ N + 1 - u \in 1 .. (N - t)
                                   /\ N + 1 - u # 0 /\ N + 1 - (N + 1 - u) = u
         /\ \A u \in (t + 1) .. N : \A q \in 1 .. (N - t) :
              q > N + 1 - u => N + 1 - q \in (t + 1) .. (u - 1) /\ N + 1 - q \in 1 .. N
         /\ \A q \in 1 .. (N - t) : N + 1 - q \in (t + 1) .. N /\ N + 1 - q \in 1 .. N
  OBVIOUS

(* The paths of the traces after t are named, the last trace first. *)
AreNamed(paths, ps, t, st) ==
  /\ Len(paths) = Len(ps) - t
  /\ \A q \in 1 .. Len(paths) : IsNamed(paths[q], ps[Len(ps) + 1 - q], st)

(* The caller of trace t has a trace, or none after t has what it calls for. *)
CallerKnown(ps, t, st) == CallEnded(ps, t) \/ (st # "ok" /\ AllWithin(ps, t, Len(ps)))

(* Of the paths of the traces after t, the nearest that ends in the parent of *)
(* trace t is that of its caller, if the caller has a trace.                  *)
LEMMA NearestIsCaller ==
  ASSUME NEW ps \in Seq(Seq(PartType)), NEW t \in 1 .. Len(ps),
         \A v \in 1 .. Len(ps) : WaitsForOthers(ps[v]),
         NEW st, CallerKnown(ps, t, st),
         Len(ps[t]) > 1, NEW parent, ps[t][Len(ps[t]) - 1] = Part(parent),
         NEW paths, AreNamed(paths, ps, t, st)
  PROVE  \/ ParentPath(paths, parent) = 0 /\ st # "ok"
         \/ \E u \in (t + 1) .. Len(ps) :
              IsCaller(ps, t, u) /\ ParentPath(paths, parent) = Len(ps) + 1 - u
<1> DEFINE N == Len(ps)
           n == Len(ps[t]) - 1
           k == ParentPath(paths, parent)
<1>1. N \in Nat /\ t \in 1 .. N /\ Len(paths) = N - t /\ N - t \in Nat
  <2>1. N \in Nat
    BY LenProperties
  <2> QED BY <2>1 DEF AreNamed
<1>2. n \in Nat /\ n >= 1 /\ ps[t][n] = Part(parent)
  <2>1. ps[t] \in Seq(PartType)
    BY ElementOfSeq
  <2> QED BY <2>1, LenProperties
<1>3. \A v \in 1 .. N : Len(ps[v]) \in Nat
  <2>1. \A v \in 1 .. N : ps[v] \in Seq(PartType)
    BY ElementOfSeq
  <2> QED BY <2>1, LenProperties
<1>4. ASSUME NEW q \in 1 .. (N - t) PROVE Last(paths[q]) = Last(ps[N + 1 - q])
  BY <1>1, <1>4 DEF IsNamed, AreNamed
<1> HIDE DEF N, n
<1>5. ASSUME NEW v \in 1 .. N, Len(ps[v]) > n, Along(n, ps[t], ps[v])
      PROVE  Last(ps[v]) # Part(parent)
  <2>1. n \in 1 .. n /\ n \in 1 .. (Len(ps[v]) - 1)
    BY <1>2, <1>3, <1>5
  <2>2. ps[v][n] = Part(parent)
    BY <1>2, <1>5, <2>1 DEF Along
  <2>3. ps[v][n] # ps[v][Len(ps[v])]
    BY <2>1 DEF WaitsForOthers, N
  <2> QED BY <2>2, <2>3 DEF Last
<1>6. \/ k = 0 /\ \A q \in 1 .. (N - t) : Last(paths[q]) # Part(parent)
      \/ /\ k \in 1 .. (N - t) /\ Last(paths[k]) = Part(parent)
         /\ \A q \in 1 .. (N - t) : q > k => Last(paths[q]) # Part(parent)
  <2> HIDE DEF k
  <2>1. Len(paths) \in Nat
    BY <1>1
  <2> QED BY <1>1, <2>1, ParentPathFacts DEF k
<1> HIDE DEF k
<1>7. CASE CallEnded(ps, t)
  <2>1. PICK u \in (t + 1) .. N : IsCaller(ps, t, u)
    BY <1>7 DEF CallEnded, N
  <2> DEFINE c == N + 1 - u
  <2>2. u \in 1 .. N /\ c \in 1 .. (N - t) /\ N + 1 - c = u
    BY <1>1, PlaceFacts
  <2>3. Len(ps[u]) = n /\ Along(n, ps[t], ps[u]) /\ AllWithin(ps, t, u - 1)
    BY <2>1 DEF IsCaller, n
  <2> HIDE DEF c
  <2>4. Last(ps[u]) = Part(parent)
    <3>1. n \in 1 .. n
      BY <1>2
    <3>2. ps[u][n] = ps[t][n]
      BY <2>3, <3>1 DEF Along
    <3> QED BY <1>2, <2>3, <3>2 DEF Last
  <2>5. Last(paths[c]) = Part(parent)
    BY <1>4, <2>2, <2>4
  <2>6. ASSUME NEW q \in 1 .. (N - t), q > c PROVE Last(paths[q]) # Part(parent)
    <3> DEFINE v == N + 1 - q
    <3>1. v \in (t + 1) .. (u - 1) /\ v \in 1 .. N
      <4>1. q > N + 1 - u
        BY <2>6 DEF c
      <4> QED BY <1>1, <4>1, PlaceFacts
    <3> HIDE DEF v
    <3>2. Len(ps[v]) > n /\ Along(n, ps[t], ps[v])
      BY <2>3, <3>1 DEF AllWithin, n
    <3>3. Last(ps[v]) # Part(parent)
      BY <1>5, <3>1, <3>2
    <3> QED BY <1>4, <3>3 DEF v
  <2>7. k = c
    <3>1. k # 0
      BY <1>6, <2>2, <2>5
    <3>2. /\ k \in 1 .. (N - t) /\ Last(paths[k]) = Part(parent)
          /\ \A q \in 1 .. (N - t) : q > k => Last(paths[q]) # Part(parent)
      BY <1>6, <3>1
    <3>3. ~(k > c)
      BY <2>6, <3>2
    <3>4. ~(c > k)
      BY <2>2, <2>5, <3>2
    <3> QED BY <1>1, <2>2, <3>2, <3>3, <3>4
  <2> QED BY <2>1, <2>7 DEF k, c, N
<1>8. CASE ~CallEnded(ps, t)
  <2>1. st # "ok" /\ AllWithin(ps, t, N)
    BY <1>8 DEF CallerKnown, N
  <2>2. ASSUME NEW q \in 1 .. (N - t) PROVE Last(paths[q]) # Part(parent)
    <3> DEFINE v == N + 1 - q
    <3>1. v \in (t + 1) .. N /\ v \in 1 .. N
      BY <1>1, PlaceFacts
    <3> HIDE DEF v
    <3>2. Len(ps[v]) > n /\ Along(n, ps[t], ps[v])
      BY <2>1, <3>1 DEF AllWithin, n
    <3>3. Last(ps[v]) # Part(parent)
      BY <1>5, <3>1, <3>2
    <3> QED BY <1>4, <3>3 DEF v
  <2>3. k = 0
    BY <1>6, <2>2
  <2> QED BY <2>1, <2>3 DEF k
<1> QED BY <1>7, <1>8

LEMMA NearestInEval ==
  ASSUME NEW e, NEW ts, NEW ps, NEW st, NEW p, PathsInv(e, ts, ps, st, p),
         NEW t \in 1 .. Len(ps), Len(ps[t]) > 1, NEW parent,
         ps[t][Len(ps[t]) - 1] = Part(parent), NEW paths, AreNamed(paths, ps, t, st)
  PROVE  \/ ParentPath(paths, parent) = 0 /\ st # "ok"
         \/ \E u \in (t + 1) .. Len(ps) :
              IsCaller(ps, t, u) /\ ParentPath(paths, parent) = Len(ps) + 1 - u
<1>1. /\ ps \in Seq(Seq(PartType)) /\ Len(ps) = Len(ts)
      /\ \A v \in 1 .. Len(ts) : WaitsForOthers(ps[v])
      /\ \A v \in 1 .. Len(ts) :
           Len(ps[v]) > 1 => CallEnded(ps, v) \/ (st # "ok" /\ CallRuns(ps, v, p))
  BY DEF PathsInv
<1>2. \A v \in 1 .. Len(ps) : WaitsForOthers(ps[v])
  BY <1>1
<1>3. ps \in Seq(Seq(PartType)) /\ CallerKnown(ps, t, st)
  BY <1>1 DEF CallerKnown, CallRuns
<1> QED BY <1>2, <1>3, NearestIsCaller

(* The next path is named if those before it are. *)
LEMMA NextIsNamed ==
  ASSUME NEW e, NEW ts \in Seq(TraceType), NEW ps, NEW st, NEW p, PathsInv(e, ts, ps, st, p),
         NEW t \in 1 .. Len(ts), NEW trace,
         trace.parent = ts[t].parent - 1, trace.source = ts[t].source - 1,
         NEW paths, AreNamed(paths, ps, t, st)
  PROVE  IsNamed(PathAfter(paths, trace), ps[t], st)
<1> DEFINE exact == ps[t]
           N == Len(ts)
           n == Len(exact) - 1
           a == ts[t].parent - 1
           b == ts[t].source - 1
<1>1. /\ ps \in Seq(Seq(PartType)) /\ Len(ps) = N /\ N \in Nat
      /\ PathFits(exact, ts[t]) /\ WaitsForOthers(exact)
      /\ Len(exact) > 1 => CallEnded(ps, t) \/ (st # "ok" /\ CallRuns(ps, t, p))
  BY LenProperties DEF PathsInv
<1>2. exact \in Seq(PartType) /\ Len(exact) \in Nat
  <2>1. exact \in Seq(PartType)
    BY <1>1, ElementOfSeq
  <2> QED BY <2>1, LenProperties
<1>3. /\ a \in Int /\ b \in Int /\ (a = b <=> ts[t].parent = ts[t].source)
  <2>1. ts[t] \in TraceType
    BY ElementOfSeq
  <2>2. ts[t].parent \in Nat /\ ts[t].source \in Nat
    BY <2>1 DEF TraceType
  <2> QED BY <2>2
<1>4. /\ Len(exact) >= 1 /\ exact[Len(exact)] = Part(b)
      /\ Len(exact) = 1 => a = b
      /\ Len(exact) > 1 => exact[Len(exact) - 1] = Part(a)
  BY <1>1, <1>3 DEF PathFits
<1>5. Part(a) \in PartType /\ Part(b) \in PartType /\ Unresolved(a) \in PartType
      /\ Part(b).parses /\ ~Unresolved(a).parses /\ Unresolved(a).number = a
  BY <1>3, PartFacts
<1>6. trace.parent = a /\ trace.source = b
  OBVIOUS
<1> HIDE DEF exact, a, b
<1>7. CASE a = b
  <2>1. Len(exact) = 1
    <3> SUFFICES ASSUME Len(exact) > 1 PROVE FALSE
      <4>1. \A m \in Nat : m >= 1 /\ ~(m > 1) => m = 1
        OBVIOUS
      <4> QED BY <1>2, <1>4, <4>1
    <3>1. Len(exact) - 1 \in 1 .. (Len(exact) - 1)
      BY <1>2
    <3>2. exact[Len(exact) - 1] = exact[Len(exact)]
      BY <1>4, <1>7
    <3> QED BY <1>1, <3>1, <3>2 DEF WaitsForOthers
  <2> DEFINE path == <<Part(b)>>
  <2>2. PathAfter(paths, trace) = path
    BY <1>6, <1>7 DEF PathAfter
  <2>3. path \in Seq(PartType) /\ Len(path) = 1 /\ path[1] = Part(b)
    BY <1>5
  <2> HIDE DEF path, exact
  <2>4. \A k \in 1 .. Len(path) : path[k] = exact[k]
    <3>1. \A k \in 1 .. Len(path) : k = 1
      BY <2>3
    <3> QED BY <1>4, <2>1, <2>3, <3>1
  <2>5. path = exact
    BY <1>2, <2>1, <2>3, <2>4, SeqEqual
  <2>6. IsNamed(path, exact, st)
    BY <1>5, <2>3, <2>5 DEF IsNamed
  <2> QED BY <2>2, <2>6 DEF exact
<1>8. CASE a # b
  <2>1. Len(exact) > 1
    <3>1. \A m \in Nat : m >= 1 /\ m # 1 => m > 1
      OBVIOUS
    <3> QED BY <1>2, <1>4, <1>8, <3>1
  <2> DEFINE k == ParentPath(paths, a)
  <2>2. PathAfter(paths, trace) = IF k = 0 THEN <<Unresolved(a), Part(b)>>
                                  ELSE Append(paths[k], Part(b))
    BY <1>6, <1>8 DEF PathAfter
  <2>3. \/ k = 0 /\ st # "ok"
        \/ \E u \in (t + 1) .. Len(ps) : IsCaller(ps, t, u) /\ k = Len(ps) + 1 - u
    <3>1. t \in 1 .. Len(ps)
      BY <1>1
    <3>2. Len(ps[t]) > 1 /\ ps[t][Len(ps[t]) - 1] = Part(a)
      BY <1>4, <2>1 DEF exact
    <3>3. \/ ParentPath(paths, a) = 0 /\ st # "ok"
          \/ \E u \in (t + 1) .. Len(ps) :
               IsCaller(ps, t, u) /\ ParentPath(paths, a) = Len(ps) + 1 - u
      BY <3>1, <3>2, NearestInEval
    <3> QED BY <3>3
  <2>4. CASE k = 0 /\ st # "ok"
    <3> DEFINE path == <<Unresolved(a), Part(b)>>
    <3>1. /\ path \in Seq(PartType) /\ Len(path) = 2
          /\ path[1] = Unresolved(a) /\ path[2] = Part(b)
      BY <1>5
    <3> HIDE DEF path, exact, k
    <3>2. /\ Len(Resolved(path)) = 2 /\ Resolved(path)[1] = Part(a)
          /\ Resolved(path)[2] = Part(b)
      <4>1. Len(path) >= 1 /\ 2 \in 2 .. Len(path)
        BY <3>1
      <4>2. /\ Len(Resolved(path)) = Len(path)
            /\ Resolved(path)[1] = Part(path[1].number)
            /\ \A j \in 2 .. Len(path) : Resolved(path)[j] = path[j]
        BY <3>1, <4>1, ResolvedFacts
      <4> QED BY <1>5, <3>1, <4>1, <4>2
    <3>3. Last(path) = Last(exact)
      BY <1>4, <3>1 DEF Last
    <3>4. IsTail(Resolved(path), exact)
      <4> DEFINE r == Resolved(path)
                 m == Len(exact)
      <4>1. Len(r) = 2 /\ r[1] = Part(a) /\ r[2] = Part(b) /\ exact[m] = Part(b)
            /\ exact[m - 1] = Part(a) /\ m \in Nat /\ m > 1
        BY <1>2, <1>4, <2>1, <3>2
      <4> HIDE DEF r, m
      <4>2. ASSUME NEW j \in 1 .. 2 PROVE r[j] = exact[m - 2 + j]
        <5>1. m - 2 + 1 = m - 1 /\ m - 2 + 2 = m
          <6>1. \A i \in Nat : i - 2 + 1 = i - 1 /\ i - 2 + 2 = i
            OBVIOUS
          <6> QED BY <4>1, <6>1
        <5>2. r[1] = exact[m - 2 + 1] /\ r[2] = exact[m - 2 + 2]
          BY <4>1, <5>1
        <5> QED BY <5>2
      <4>3. 2 <= m
        BY <4>1
      <4> QED BY <4>1, <4>2, <4>3 DEF IsTail, m, r
    <3>5. ~path[1].parses /\ Len(path) >= 1
      BY <1>5, <3>1
    <3>6. IsNamed(path, exact, st)
      BY <2>4, <3>1, <3>3, <3>4, <3>5 DEF IsNamed
    <3> QED BY <2>2, <2>4, <3>6 DEF path, exact
  <2>5. CASE \E u \in (t + 1) .. Len(ps) : IsCaller(ps, t, u) /\ k = Len(ps) + 1 - u
    <3>1. PICK u \in (t + 1) .. N : IsCaller(ps, t, u) /\ k = N + 1 - u
      BY <1>1, <2>5
    <3>2. u \in 1 .. N /\ k \in 1 .. (N - t) /\ k # 0 /\ N + 1 - k = u
      <4> HIDE DEF k, N
      <4>1. t \in 1 .. N
        BY DEF N
      <4> QED BY <1>1, <3>1, <4>1, PlaceFacts
    <3>3. IsNamed(paths[k], ps[u], st)
      <4> HIDE DEF k
      <4>1. k \in 1 .. Len(paths) /\ Len(ps) + 1 - k = u
        BY <1>1, <3>2 DEF AreNamed
      <4> QED BY <4>1 DEF AreNamed
    <3>4. ps[u] \in Seq(PartType) /\ Len(ps[u]) \in Nat
      <4>1. u \in 1 .. Len(ps)
        BY <1>1, <3>2
      <4>2. ps[u] \in Seq(PartType)
        BY <1>1, <4>1, ElementOfSeq
      <4> QED BY <4>2, LenProperties
    <3>5. Len(exact) = Len(ps[u]) + 1 /\ \A j \in 1 .. Len(ps[u]) : exact[j] = ps[u][j]
      <4>1. Len(ps[u]) = n /\ Along(n, exact, ps[u])
        BY <3>1 DEF IsCaller, exact
      <4>2. Len(exact) = n + 1
        BY <1>2
      <4> HIDE DEF exact, n
      <4> QED BY <4>1, <4>2 DEF Along
    <3> HIDE DEF k, exact
    <3>6. IsNamed(Append(paths[k], Part(b)), exact, st)
      <4>1. Last(exact) = Part(b)
        BY <1>4 DEF Last
      <4> QED BY <1>2, <1>5, <3>3, <3>4, <3>5, <4>1, CalleeIsNamed
    <3> QED BY <2>2, <3>2, <3>6 DEF exact
  <2> QED BY <2>3, <2>4, <2>5
<1> QED BY <1>7, <1>8

LEMMA PathAfterIsPath ==
  ASSUME NEW paths \in Seq(Seq(PartType)), NEW trace, trace.parent \in Int, trace.source \in Int
  PROVE  PathAfter(paths, trace) \in Seq(PartType)
<1> DEFINE k == ParentPath(paths, trace.parent)
           a == trace.parent
           x == Part(trace.source)
<1>1. x \in PartType /\ Unresolved(a) \in PartType
  BY PartFacts
<1>2. k = 0 \/ k \in 1 .. Len(paths)
  <2>1. Len(paths) \in Nat
    BY LenProperties
  <2> QED BY <2>1, ParentPathFacts
<1>3. PathAfter(paths, trace) = IF a = trace.source THEN <<x>>
                                ELSE IF k = 0 THEN <<Unresolved(a), x>>
                                ELSE Append(paths[k], x)
  BY DEF PathAfter
<1>4. <<x>> \in Seq(PartType) /\ <<Unresolved(a), x>> \in Seq(PartType)
  <2> HIDE DEF x, a
  <2> QED BY <1>1
<1> HIDE DEF k, a, x
<1>5. ASSUME k \in 1 .. Len(paths) PROVE Append(paths[k], x) \in Seq(PartType)
  <2> DEFINE S == PartType
  <2> HIDE DEF S
  <2>1. paths[k] \in Seq(S) /\ x \in S
    BY <1>1, <1>5, ElementOfSeq DEF S
  <2>2. Append(paths[k], x) \in Seq(S)
    BY <2>1, AppendProperties
  <2> QED BY <2>2 DEF S
<1> QED BY <1>2, <1>3, <1>4, <1>5

LEMMA SourcePathsSteps ==
  ASSUME NEW read, Len(read) \in Nat,
         \A n \in 1 .. Len(read) : read[n].parent \in Int /\ read[n].source \in Int
  PROVE  \E paths :
           /\ SourcePaths(read) = paths[Len(read)]
           /\ paths[0] = << >>
           /\ \A n \in 1 .. Len(read) :
                paths[n] = Append(paths[n - 1], PathAfter(paths[n - 1], read[n]))
<1> DEFINE N == Len(read)
           P == Seq(PartType)
           S == Seq(P)
           Turn(before, n) == Append(before, PathAfter(before, read[n]))
           F == [x \in S \X Nat |-> IF x[2] \in 1 .. N THEN Turn(x[1], x[2]) ELSE x[1]]
           IsLoop(g) == g = [n \in 0 .. N |->
                               IF n = 0 THEN << >>
                               ELSE Append(g[n - 1], PathAfter(g[n - 1], read[n]))]
<1>1. ASSUME NEW before \in S, NEW n \in 1 .. N PROVE Turn(before, n) \in S
  <2>1. PathAfter(before, read[n]) \in P
    BY <1>1, PathAfterIsPath
  <2> HIDE DEF P, N
  <2> QED BY <2>1, AppendProperties
<1>2. F \in [S \X Nat -> S]
  <2> HIDE DEF Turn, N, S
  <2> QED BY <1>1
<1>3. << >> \in S
  <2> HIDE DEF P
  <2> QED BY EmptySeq
<1>4. PICK g : Recurs(g, N, S, << >>, F)
  <2>1. N \in Nat
    OBVIOUS
  <2> HIDE DEF N, F, S
  <2> QED BY <2>1, <1>2, <1>3, RecursionExists
<1>5. ASSUME NEW n \in 1 .. N PROVE g[n] = Turn(g[n - 1], n)
  <2>1. n - 1 \in 0 .. N /\ n \in Nat
    OBVIOUS
  <2>2. <<g[n - 1], n>> \in S \X Nat
    <3> HIDE DEF S, F, N
    <3> QED BY <2>1, <1>4 DEF Recurs
  <2> HIDE DEF Turn, N, S
  <2> QED BY <1>4, <1>5, <2>2 DEF Recurs
<1>6. IsLoop(g)
  <2>1. ASSUME NEW n \in 0 .. N
        PROVE  g[n] = IF n = 0 THEN << >>
                      ELSE Append(g[n - 1], PathAfter(g[n - 1], read[n]))
    <3>1. CASE n = 0
      <4> HIDE DEF S, F, N
      <4> QED BY <1>4, <3>1 DEF Recurs
    <3>2. CASE n # 0
      <4>1. n \in 1 .. N
        BY <3>2
      <4>2. g[n] = Turn(g[n - 1], n)
        BY <1>5, <4>1
      <4> QED BY <3>2, <4>2
    <3> QED BY <3>1, <3>2
  <2> HIDE DEF N, F, S
  <2> QED BY <1>4, <2>1 DEF Recurs
<1> DEFINE paths == CHOOSE h : IsLoop(h)
<1>7. IsLoop(paths)
  <2> HIDE DEF IsLoop
  <2> QED BY <1>6
<1>8. SourcePaths(read) = paths[N]
  BY DEF SourcePaths
<1>9. \A n \in 0 .. N : paths[n] = IF n = 0 THEN << >>
                                   ELSE Append(paths[n - 1], PathAfter(paths[n - 1], read[n]))
  <2> HIDE DEF N, paths
  <2>1. paths = [n \in 0 .. N |-> IF n = 0 THEN << >>
                                  ELSE Append(paths[n - 1], PathAfter(paths[n - 1], read[n]))]
    BY <1>7
  <2> QED BY <2>1, Zenon
<1>10. paths[0] = << >>
  <2> HIDE DEF paths
  <2>1. 0 \in 0 .. N
    OBVIOUS
  <2> QED BY <1>9, <2>1
<1>11. ASSUME NEW n \in 1 .. N
       PROVE  paths[n] = Append(paths[n - 1], PathAfter(paths[n - 1], read[n]))
  <2> HIDE DEF paths
  <2>1. n \in 0 .. N /\ n # 0
    OBVIOUS
  <2> QED BY <1>9, <2>1
<1> HIDE DEF paths
<1> QED BY <1>8, <1>10, <1>11

(* The paths of what is read from the arena are named. *)
LEMMA ReadIsNamed ==
  ASSUME NEW e, NEW ts \in Seq(TraceType), NEW ps, NEW st, NEW p, PathsInv(e, ts, ps, st, p),
         NEW read, Len(read) = Len(ts),
         \A t \in 1 .. Len(ts) : read[t] = ReadBack(ts[Len(ts) - t + 1])
  PROVE  SourcePaths(read) \in Seq(Seq(PartType)) /\ AreNamed(SourcePaths(read), ps, 0, st)
<1> DEFINE N == Len(ts)
           P == Seq(PartType)
<1>1. N \in Nat /\ Len(ps) = N /\ Len(read) = N
  BY LenProperties DEF PathsInv
<1>2. ASSUME NEW n \in 1 .. N
      PROVE  /\ N + 1 - n \in 1 .. N
             /\ read[n].parent = ts[N + 1 - n].parent - 1 /\ read[n].parent \in Int
             /\ read[n].source = ts[N + 1 - n].source - 1 /\ read[n].source \in Int
  <2>1. N + 1 - n \in 1 .. N /\ N + 1 - n = N - n + 1
    BY <1>1
  <2>2. read[n] = ReadBack(ts[N + 1 - n])
    BY <2>1
  <2>3. ts[N + 1 - n] \in TraceType
    BY <2>1, ElementOfSeq
  <2>4. ts[N + 1 - n].parent \in Nat /\ ts[N + 1 - n].source \in Nat
    BY <2>3 DEF TraceType
  <2>5. /\ read[n].parent = ts[N + 1 - n].parent - 1
        /\ read[n].source = ts[N + 1 - n].source - 1
    BY <2>2 DEF ReadBack
  <2>6. \A i \in Nat : i - 1 \in Int
    OBVIOUS
  <2>7. ts[N + 1 - n].parent - 1 \in Int /\ ts[N + 1 - n].source - 1 \in Int
    BY <2>4, <2>6
  <2> HIDE DEF N
  <2> QED BY <2>1, <2>5, <2>7
<1> HIDE DEF N, P
<1>3. PICK sp : /\ SourcePaths(read) = sp[N]
                /\ sp[0] = << >>
                /\ \A n \in 1 .. N : sp[n] = Append(sp[n - 1], PathAfter(sp[n - 1], read[n]))
  <2>1. Len(read) \in Nat
    BY <1>1
  <2>2. \A n \in 1 .. Len(read) : read[n].parent \in Int /\ read[n].source \in Int
    BY <1>1, <1>2
  <2>3. \E sp : /\ SourcePaths(read) = sp[Len(read)]
                /\ sp[0] = << >>
                /\ \A n \in 1 .. Len(read) :
                     sp[n] = Append(sp[n - 1], PathAfter(sp[n - 1], read[n]))
    BY <2>1, <2>2, SourcePathsSteps
  <2> QED BY <1>1, <2>3
<1> DEFINE T == {n \in 0 .. N : sp[n] \in Seq(P) /\ AreNamed(sp[n], ps, N - n, st)}
<1>4. 0 \in T
  <2>1. sp[0] \in Seq(P) /\ Len(sp[0]) = 0
    BY <1>3, EmptySeq
  <2>2. N - N = 0 /\ N - 0 = N /\ 0 \in 0 .. N
    BY <1>1
  <2>3. AreNamed(sp[0], ps, N - 0, st)
    BY <1>1, <2>1, <2>2 DEF AreNamed
  <2> QED BY <2>1, <2>2, <2>3
<1>5. ASSUME NEW n \in 0 .. (N - 1), n \in T PROVE n + 1 \in T
  <2> DEFINE t == N - n
             x == PathAfter(sp[n], read[n + 1])
  <2>1. /\ n + 1 \in 1 .. N /\ n + 1 \in 0 .. N /\ (n + 1) - 1 = n
        /\ t \in 1 .. N /\ N + 1 - (n + 1) = t /\ N - (n + 1) = t - 1
        /\ N - t = n /\ N - (t - 1) = n + 1 /\ n \in Nat
    BY <1>1
  <2>2. sp[n] \in Seq(P) /\ AreNamed(sp[n], ps, t, st)
    BY <1>5
  <2> HIDE DEF T, t, x
  <2>3. IsNamed(x, ps[t], st)
    <3>1. read[n + 1].parent = ts[t].parent - 1 /\ read[n + 1].source = ts[t].source - 1
      BY <1>2, <2>1
    <3>2. t \in 1 .. Len(ts)
      BY <2>1 DEF N
    <3> QED BY <2>2, <3>1, <3>2, NextIsNamed DEF x
  <2>4. sp[n + 1] = Append(sp[n], x)
    <3>1. sp[n + 1] = Append(sp[(n + 1) - 1], PathAfter(sp[(n + 1) - 1], read[n + 1]))
      BY <1>3, <2>1
    <3> QED BY <2>1, <3>1 DEF x
  <2>5. x \in P
    BY <2>3 DEF IsNamed, P
  <2>6. Len(sp[n]) = n /\ \A q \in 1 .. n : IsNamed(sp[n][q], ps[N + 1 - q], st)
    <3>1. Len(sp[n]) = n
      BY <1>1, <2>1, <2>2 DEF AreNamed
    <3> QED BY <1>1, <2>2, <3>1 DEF AreNamed
  <2>7. /\ sp[n + 1] \in Seq(P) /\ Len(sp[n + 1]) = n + 1
        /\ \A q \in 1 .. n : sp[n + 1][q] = sp[n][q]
        /\ sp[n + 1][n + 1] = x
    BY <2>2, <2>4, <2>5, <2>6, AppendProperties
  <2>8. ASSUME NEW q \in 1 .. (n + 1) PROVE IsNamed(sp[n + 1][q], ps[N + 1 - q], st)
    <3>1. CASE q = n + 1
      BY <2>1, <2>3, <2>7, <3>1
    <3>2. CASE q # n + 1
      <4>1. q \in 1 .. n
        BY <2>1, <3>2
      <4> QED BY <2>6, <2>7, <4>1
    <3> QED BY <3>1, <3>2
  <2>9. AreNamed(sp[n + 1], ps, N - (n + 1), st)
    BY <1>1, <2>1, <2>7, <2>8 DEF AreNamed
  <2> QED BY <2>1, <2>7, <2>9 DEF T
<1>6. N \in T
  <2> HIDE DEF T
  <2>1. \A n \in 0 .. N : n \in T
    BY <1>1, <1>4, <1>5, BoundedInduction
  <2> QED BY <1>1, <2>1
<1>7. N - N = 0
  BY <1>1
<1> QED BY <1>3, <1>6, <1>7 DEF P

LEMMA PathInvInit == TracedInit => PathInv
<1> SUFFICES ASSUME TracedInit PROVE PathInv
  OBVIOUS
<1>1. traces = << >> /\ callPaths = << >> /\ status = "unchecked"
  BY DEF TracedInit, Init, EvalInit, CheckInit
<1>2. callPaths \in Seq(Seq(PartType)) /\ Len(callPaths) = 0 /\ Len(traces) = 0
  <2> DEFINE P == Seq(PartType)
  <2> HIDE DEF P
  <2>1. << >> \in Seq(P) /\ Len(<< >>) = 0
    BY EmptySeq
  <2> QED BY <1>1, <2>1 DEF P
<1>3. PathsInv(expression, traces, callPaths, status, PathOf(frames))
  BY <1>2 DEF PathsInv
<1> QED BY <1>1, <1>3 DEF PathInv

LEMMA NamesFit == TracedInv /\ PathInv => NamesArePaths
<1> SUFFICES ASSUME TracedInv, PathInv PROVE NamesArePaths
  OBVIOUS
<1> DEFINE N == Len(traces)
           paths == SourcePaths(Read)
<1>1. /\ PathsInv(expression, traces, callPaths, status, PathOf(frames))
      /\ traces \in Seq(TraceType)
  BY DEF PathInv, TracedInv, TraceInv
<1>2. N \in Nat /\ Len(callPaths) = N /\ callPaths \in Seq(Seq(PartType))
  BY <1>1, LenProperties DEF PathsInv
<1>3. paths \in Seq(Seq(PartType)) /\ AreNamed(paths, callPaths, 0, status)
  <2>1. Len(Read) = Len(traces)
        /\ \A t \in 1 .. Len(traces) : Read[t] = ReadBack(traces[Len(traces) - t + 1])
    BY ReadFacts
  <2> QED BY <1>1, <2>1, ReadIsNamed
<1> HIDE DEF N, paths
<1>4. DOMAIN paths = 1 .. N
  <2>1. N - 0 = N
    BY <1>2
  <2> QED BY <1>2, <1>3, <2>1, LenProperties DEF AreNamed
<1>5. ASSUME NEW t \in 1 .. N
      PROVE  LET exact == callPaths[Len(callPaths) + 1 - t] IN
               IF paths[t][1].parses THEN paths[t] = exact
               ELSE /\ status # "ok"
                    /\ IsSuffix([paths[t] EXCEPT ![1] = Part(@.number)], exact)
  <2> DEFINE exact == callPaths[Len(callPaths) + 1 - t]
             path == paths[t]
  <2>1. IsNamed(path, exact, status)
    <3>1. Len(paths) = N
      BY <1>2, <1>3 DEF AreNamed
    <3> QED BY <1>3, <3>1 DEF AreNamed
  <2>2. exact \in Seq(PartType)
    <3>1. N + 1 - t \in 1 .. N
      BY <1>2
    <3> QED BY <1>2, <3>1, ElementOfSeq
  <2> HIDE DEF exact, path
  <2>3. path \in Seq(PartType) /\ Len(path) >= 1
    BY <2>1 DEF IsNamed
  <2>4. ASSUME ~path[1].parses PROVE status # "ok" /\ IsSuffix(Resolved(path), exact)
    <3>1. status # "ok" /\ IsTail(Resolved(path), exact)
      BY <2>1, <2>4 DEF IsNamed
    <3>2. Resolved(path) \in Seq(PartType)
      BY <2>3, ResolvedFacts
    <3> QED BY <2>2, <3>1, <3>2, TailIsSuffix
  <2>5. path[1].parses => path = exact
    BY <2>1 DEF IsNamed
  <2> QED BY <2>4, <2>5 DEF Resolved, path, exact
<1> QED BY <1>4, <1>5 DEF NamesArePaths, paths

LEMMA PathsStayNamed == TracedInv /\ PathInv /\ [TracedNext]_tracedVars => PathInv'
  BY PathInvNext DEF TracedInv

(* Each trace that the crates read is named by the calls that led to it: by  *)
(* all of them, or by those from the nearest source that has no trace yet,   *)
(* and in an evaluation that ended well by all of them.                      *)
THEOREM NamesFollowTheCalls == TracedSpec => []NamesArePaths
  BY TracedInvInit, TracedInvNext, PathInvInit, PathsStayNamed, NamesFit, PTL DEF TracedSpec

-----------------------------------------------------------------------------
(* Searches. *)

LEMMA TraceBetweenFacts ==
  ASSUME NEW read, Len(read) \in Nat, NEW parent, NEW called,
         NEW u \in 1 .. Len(read), read[u].parent = parent, read[u].source = called
  PROVE  /\ TraceBetween(read, parent, called) \in 1 .. Len(read)
         /\ read[TraceBetween(read, parent, called)].parent = parent
         /\ read[TraceBetween(read, parent, called)].source = called
<1> DEFINE I == {i \in 1 .. Len(read) : read[i].parent = parent /\ read[i].source = called}
           k == TraceBetween(read, parent, called)
<1>1. k = IF I # {} THEN Min(I) ELSE 0
  BY DEF TraceBetween, SelectInSeq
<1>2. u \in I /\ I \in SUBSET Nat
  OBVIOUS
<1>3. k = Min(I)
  <2> HIDE DEF I, k
  <2> QED BY <1>1, <1>2
<1>4. k \in I
  <2> HIDE DEF I, k
  <2>1. \E m \in I : \A i \in I : m <= i
    BY <1>2, LeastNatural
  <2> QED BY <1>3, <2>1 DEF Min
<1> HIDE DEF k
<1>5. k \in 1 .. Len(read) /\ read[k].parent = parent /\ read[k].source = called
  BY <1>4
<1> QED BY <1>5 DEF k

(* What is read of an evaluation that ended well: traces with the outputs of *)
(* their sources, and paths that lead from the entry to each of them, along  *)
(* callers that have traces too.                                             *)
IsTree(read, paths, outs) ==
  /\ Len(read) \in Nat /\ Len(paths) = Len(read) /\ paths \in Seq(Seq(PartType))
  /\ \A t \in 1 .. Len(read) :
       /\ read[t].parent \in 0 .. (IndexMod - 1) /\ read[t].source \in 0 .. (IndexMod - 1)
       /\ read[t].stack \in Seq(Seq(Nat))
       /\ Len(read[t].stack) = outs[read[t].source] /\ Len(read[t].stack) < UsizeMod
       /\ Len(paths[t]) >= 1 /\ paths[t][Len(paths[t])] = Part(read[t].source)
       /\ Len(paths[t]) = 1 => read[t].parent = read[t].source
       /\ Len(paths[t]) > 1 =>
            /\ paths[t][Len(paths[t]) - 1] = Part(read[t].parent)
            /\ read[t].parent # read[t].source
            /\ \E u \in 1 .. Len(read) :
                 Len(paths[u]) = Len(paths[t]) - 1 /\ Along(Len(paths[u]), paths[t], paths[u])

LEMMA TreeTypes ==
  ASSUME NEW read, NEW paths, NEW outs, IsTree(read, paths, outs), NEW t \in 1 .. Len(read)
  PROVE  /\ paths[t] \in Seq(PartType) /\ Len(paths[t]) \in Nat
         /\ \A k \in 1 .. Len(paths[t]) : paths[t][k] \in PartType
         /\ read[t].stack \in Seq(Seq(Nat)) /\ Len(read[t].stack) \in Nat
         /\ Part(read[t].parent) \in PartType /\ Part(read[t].source) \in PartType
<1>1. t \in 1 .. Len(paths) /\ paths \in Seq(Seq(PartType))
  BY DEF IsTree
<1>2. paths[t] \in Seq(PartType)
  BY <1>1, ElementOfSeq
<1>3. read[t].stack \in Seq(Seq(Nat))
  BY DEF IsTree
<1>4. Part(read[t].parent) \in PartType /\ Part(read[t].source) \in PartType
  <2>1. read[t].parent \in Int /\ read[t].source \in Int
    BY DEF IsTree
  <2> QED BY <2>1, PartFacts
<1> QED BY <1>2, <1>3, <1>4, LenProperties, ElementOfSeq

(* The beginnings of a path are the paths of traces. *)
LEMMA CallersHaveTraces ==
  ASSUME NEW read, NEW paths, NEW outs, IsTree(read, paths, outs), NEW t \in 1 .. Len(read),
         NEW k \in 1 .. Len(paths[t])
  PROVE  \E u \in 1 .. Len(read) : Len(paths[u]) = k /\ Along(k, paths[t], paths[u])
<1> DEFINE n == Len(paths[t])
           N == Len(read)
           T == {d \in 0 .. (n - 1) :
                   \E u \in 1 .. N : Len(paths[u]) = n - d /\ Along(n - d, paths[t], paths[u])}
<1>1. n \in Nat /\ N \in Nat /\ n >= 1
  BY TreeTypes DEF IsTree
<1>2. \A u \in 1 .. N : Len(paths[u]) \in Nat
  BY TreeTypes
<1>3. \A u \in 1 .. N : Len(paths[u]) > 1 =>
        \E v \in 1 .. N : /\ Len(paths[v]) = Len(paths[u]) - 1
                          /\ Along(Len(paths[v]), paths[u], paths[v])
  BY DEF IsTree
<1>4. t \in 1 .. N /\ k \in 1 .. n
  OBVIOUS
<1> HIDE DEF N, n
<1>5. 0 \in T
  <2>1. Along(n, paths[t], paths[t])
    BY <1>1 DEF Along, n
  <2>2. Len(paths[t]) = n - 0 /\ Along(n - 0, paths[t], paths[t])
    BY <1>1, <2>1 DEF n
  <2>3. 0 \in 0 .. (n - 1)
    BY <1>1
  <2> QED BY <1>4, <2>2, <2>3
<1>6. ASSUME NEW d \in 0 .. ((n - 1) - 1), d \in T PROVE d + 1 \in T
  <2>1. PICK u \in 1 .. N : Len(paths[u]) = n - d /\ Along(n - d, paths[t], paths[u])
    BY <1>6
  <2>2. n - d > 1 /\ n - d - 1 = n - (d + 1) /\ d + 1 \in 0 .. (n - 1)
    BY <1>1
  <2>3. PICK v \in 1 .. N : /\ Len(paths[v]) = Len(paths[u]) - 1
                            /\ Along(Len(paths[v]), paths[u], paths[v])
    BY <1>3, <2>1, <2>2
  <2>4. Len(paths[v]) = n - (d + 1)
    BY <2>1, <2>2, <2>3
  <2>5. ASSUME NEW i \in 1 .. (n - (d + 1)) PROVE paths[v][i] = paths[t][i]
    <3>1. i \in 1 .. (n - d)
      BY <1>1
    <3>2. paths[u][i] = paths[t][i]
      BY <2>1, <3>1 DEF Along
    <3>3. paths[v][i] = paths[u][i]
      BY <2>3, <2>4 DEF Along
    <3> QED BY <3>2, <3>3
  <2>6. Along(n - (d + 1), paths[t], paths[v])
    BY <1>1, <2>2, <2>4, <2>5 DEF Along
  <2> QED BY <2>2, <2>4, <2>6
<1>7. n - k \in T
  <2> HIDE DEF T
  <2>1. n - 1 \in Nat /\ n - k \in 0 .. (n - 1)
    BY <1>1, <1>4
  <2>2. \A d \in 0 .. (n - 1) : d \in T
    BY <2>1, <1>5, <1>6, BoundedInduction
  <2> QED BY <2>1, <2>2
<1>8. n - (n - k) = k
  BY <1>1, <1>4
<1>9. \E u \in 1 .. N : Len(paths[u]) = k /\ Along(k, paths[t], paths[u])
  BY <1>7, <1>8
<1> QED BY <1>9 DEF N

(* What a path is made of. *)
LEMMA PathsParse ==
  ASSUME NEW read, NEW paths, NEW outs, IsTree(read, paths, outs), NEW t \in 1 .. Len(read),
         NEW k \in 1 .. Len(paths[t])
  PROVE  /\ ParsesU16(paths[t][k])
         /\ k >= 2 => TraceBetween(read, paths[t][k - 1].number, paths[t][k].number) # 0
<1>1. PICK u \in 1 .. Len(read) : Len(paths[u]) = k /\ Along(k, paths[t], paths[u])
  BY CallersHaveTraces
<1>2. k \in Nat /\ k >= 1 /\ k \in 1 .. k
  BY TreeTypes
<1>3. paths[t][k] = Part(read[u].source) /\ read[u].source \in 0 .. (IndexMod - 1)
  <2>1. paths[u][k] = Part(read[u].source) /\ read[u].source \in 0 .. (IndexMod - 1)
    BY <1>1 DEF IsTree
  <2> QED BY <1>1, <1>2, <2>1 DEF Along
<1>4. ParsesU16(paths[t][k]) /\ paths[t][k].number = read[u].source
  <2> DEFINE x == read[u].source
  <2>1. paths[t][k].parses /\ paths[t][k].number = x
    BY <1>3 DEF Part
  <2>2. x < IndexMod
    <3>1. IndexMod \in Nat
      BY DEF IndexMod
    <3>2. x \in 0 .. (IndexMod - 1)
      BY <1>3
    <3> HIDE DEF x
    <3> QED BY <3>1, <3>2
  <2> HIDE DEF x
  <2> QED BY <2>1, <2>2 DEF ParsesU16, x
<1>5. ASSUME k >= 2 PROVE TraceBetween(read, paths[t][k - 1].number, paths[t][k].number) # 0
  <2>1. k - 1 \in 1 .. k /\ k > 1
    BY <1>2, <1>5
  <2>2. paths[u][k - 1] = Part(read[u].parent)
    BY <1>1, <2>1 DEF IsTree
  <2>3. paths[t][k - 1] = Part(read[u].parent)
    BY <1>1, <2>1, <2>2 DEF Along
  <2>4. paths[t][k - 1].number = read[u].parent
    BY <2>3 DEF Part
  <2>5. Len(read) \in Nat
    BY DEF IsTree
  <2>6. TraceBetween(read, read[u].parent, read[u].source) \in 1 .. Len(read)
    BY <2>5, TraceBetweenFacts
  <2> QED BY <1>4, <2>4, <2>5, <2>6
<1> QED BY <1>4, <1>5

(* A search goes to the first trace between the last two sources of a path. *)
LEMMA SearchGoesThere ==
  ASSUME NEW read, NEW paths, NEW outs, IsTree(read, paths, outs), NEW t \in 1 .. Len(read),
         NEW index \in Nat, index < UsizeMod
  PROVE  LET b == TraceBetween(read, read[t].parent, read[t].source) IN
           /\ b \in 1 .. Len(read)
           /\ read[b].parent = read[t].parent /\ read[b].source = read[t].source
           /\ SearchTraceByPath(read, Append(paths[t], Part(index))) = ItemOf(read[b].stack, index)
<1> DEFINE sources == paths[t]
           n == Len(sources)
           path == Append(sources, Part(index))
           b == TraceBetween(read, read[t].parent, read[t].source)
<1>1. n \in Nat /\ n >= 1 /\ Len(read) \in Nat /\ sources \in Seq(PartType)
  BY TreeTypes DEF IsTree
<1>2. b \in 1 .. Len(read) /\ read[b].parent = read[t].parent /\ read[b].source = read[t].source
  BY <1>1, TraceBetweenFacts
<1>3. Len(path) = n + 1 /\ Front(path) = sources /\ Last(path) = Part(index)
  <2> DEFINE S == PartType
  <2>1. Part(index) \in S
    BY PartFacts
  <2>2. sources \in Seq(S)
    BY <1>1
  <2> HIDE DEF S, sources
  <2> QED BY <2>1, <2>2, FrontOfAppend DEF n
<1>4. ASSUME NEW k \in 1 .. n
      PROVE  /\ ParsesU16(sources[k])
             /\ k >= 2 => TraceBetween(read, sources[k - 1].number, sources[k].number) # 0
  BY PathsParse
<1>5. /\ Last(sources) = Part(read[t].source)
      /\ n = 1 => read[t].parent = read[t].source
      /\ n > 1 => sources[n - 1] = Part(read[t].parent)
  BY DEF IsTree, Last
<1> HIDE DEF path, b, n, sources
<1>6. DOMAIN sources = 1 .. n
  BY <1>1, LenProperties DEF n
<1>7. FirstFailure(read, sources) = n + 1
  <2> DEFINE fails(k) == \/ ~ParsesU16(sources[k])
                         \/ TraceBetween(read, sources[k - 1].number, sources[k].number) = 0
             failures == {k \in 2 .. n : fails(k)}
  <2>1. failures = {}
    <3>1. \A k \in 2 .. n : k \in 1 .. n /\ k >= 2
      BY <1>1
    <3> QED BY <1>4, <3>1
  <2>2. FirstFailure(read, sources) = IF failures = {} THEN n + 1
                                      ELSE CHOOSE k \in failures : \A l \in failures : k <= l
    BY DEF FirstFailure, n
  <2> HIDE DEF failures
  <2> QED BY <2>1, <2>2
<1>8. ParentIndex(sources) = read[t].parent
  <2>1. CASE n = 1
    BY <1>5, <2>1 DEF ParentIndex, Part, n
  <2>2. CASE n # 1
    <3>1. n > 1
      BY <1>1, <2>2
    <3> QED BY <1>5, <2>2, <3>1 DEF ParentIndex, Part, n
  <2> QED BY <2>1, <2>2
<1>9. Last(sources).number = read[t].source /\ Last(path).number = index /\ ParsesUsize(Last(path))
  BY <1>3, <1>5 DEF Part, ParsesUsize
<1>10. ParsesU16(sources[1]) /\ ~(Len(path) < 2) /\ n + 1 \notin DOMAIN sources
  <2>1. 1 \in 1 .. n /\ ~(n + 1 < 2) /\ n + 1 \notin 1 .. n
    BY <1>1
  <2> QED BY <1>3, <1>4, <1>6, <2>1
<1>11. TraceBetween(read, ParentIndex(sources), Last(sources).number) = b /\ b # 0
  BY <1>1, <1>2, <1>8, <1>9 DEF b
<1>12. SearchTraceByPath(read, path) = ItemOf(read[b].stack, index)
  BY <1>3, <1>7, <1>9, <1>10, <1>11 DEF SearchTraceByPath
<1> QED BY <1>2, <1>12 DEF b, path, sources

(* An index is that of an item, or nothing is found. *)
LEMMA ItemFacts ==
  ASSUME NEW S, NEW stack \in Seq(S), Len(stack) < UsizeMod, NEW index \in Nat, index < UsizeMod
  PROVE  /\ index < Len(stack) => ItemOf(stack, index) = Found(stack[Len(stack) - index])
         /\ index >= Len(stack) => ItemOf(stack, index) = TraceNotFound
         /\ index < Len(stack) => ItemOf(stack, index) # TraceNotFound
<1> DEFINE n == Len(stack)
           w == (index + 1) % UsizeMod
<1>1. n \in Nat /\ UsizeMod \in Nat /\ n < UsizeMod
  BY LenProperties, UsizeAssumption
<1>2. ItemOf(stack, index) = IF n - w < 0 \/ n - w >= n THEN TraceNotFound
                             ELSE Found(stack[n - w + 1])
  BY DEF ItemOf, Reversed
<1>3. \A x : Found(x) # TraceNotFound
  BY DEF Found, TraceNotFound
<1>4. ASSUME index + 1 < UsizeMod PROVE w = index + 1
  BY <1>1, <1>4
<1>5. ASSUME ~(index + 1 < UsizeMod) PROVE w = 0 /\ index >= n
  <2>1. index + 1 = UsizeMod
    BY <1>1, <1>5
  <2> QED BY <1>1, <2>1
<1> HIDE DEF n, w
<1>6. ASSUME index < n PROVE ItemOf(stack, index) = Found(stack[n - index])
  <2>1. w = index + 1
    BY <1>1, <1>4, <1>6
  <2>2. ~(n - w < 0) /\ ~(n - w >= n) /\ n - w + 1 = n - index
    BY <1>1, <1>6, <2>1
  <2> QED BY <1>2, <2>2
<1>7. ASSUME index >= n PROVE ItemOf(stack, index) = TraceNotFound
  <2>1. w = index + 1 \/ w = 0
    BY <1>4, <1>5
  <2>2. n - w < 0 \/ n - w >= n
    BY <1>1, <1>7, <2>1
  <2> QED BY <1>2, <2>2
<1> QED BY <1>3, <1>6, <1>7 DEF n

NamesOf(stack, path) == [k \in 1 .. Len(stack) |-> Append(path, Part(k - 1))]

LEMMA PartsOfColumns ==
  ASSUME NEW path \in Seq(PartType), NEW stack \in Seq(Seq(Nat))
  PROVE  /\ NamesOf(stack, path) \in Seq(Seq(PartType))
         /\ Len(NamesOf(stack, path)) = Len(stack)
         /\ Reverse(stack) \in Seq(Seq(Nat)) /\ Len(Reverse(stack)) = Len(stack)
         /\ \A k \in 1 .. Len(stack) : Reverse(stack)[k] = stack[Len(stack) - (k - 1)]
<1> DEFINE P == Seq(PartType)
           W == Seq(Nat)
           m == Len(stack)
           a == NamesOf(stack, path)
           b == Reverse(stack)
<1>1. m \in Nat /\ \A k \in 1 .. m : stack[k] \in W
  BY LenProperties, ElementOfSeq
<1>2. ASSUME NEW k \in 1 .. m PROVE Append(path, Part(k - 1)) \in P
  <2> DEFINE S == PartType
  <2>1. k - 1 \in Int
    BY <1>1
  <2>2. Part(k - 1) \in S /\ path \in Seq(S)
    BY <2>1, PartFacts
  <2> HIDE DEF S
  <2>3. Append(path, Part(k - 1)) \in Seq(S)
    BY <2>2, AppendProperties
  <2> QED BY <2>3 DEF S
<1>3. a = [k \in 1 .. m |-> Append(path, Part(k - 1))]
  BY DEF NamesOf
<1>4. b = [k \in 1 .. m |-> stack[(m - k) + 1]]
  BY DEF Reverse
<1> HIDE DEF a, b, P, W, m
<1>5. \A k \in 1 .. m : (m - k) + 1 \in 1 .. m /\ (m - k) + 1 = m - (k - 1)
  BY <1>1
<1>6. a \in [1 .. m -> P] /\ b \in [1 .. m -> W]
  BY <1>1, <1>2, <1>3, <1>4, <1>5
<1>7. a \in Seq(P) /\ Len(a) = m /\ b \in Seq(W) /\ Len(b) = m
  BY <1>1, <1>6, FunctionIsSequence
<1>8. \A k \in 1 .. m : b[k] = stack[m - (k - 1)]
  BY <1>4, <1>5
<1> QED BY <1>7, <1>8 DEF a, b, P, W, m

(* Column n is that of the k-th item from the top of the stack of trace t. *)
IsColumn(read, names, row, n, t, k) ==
  /\ names[n] = Append(SourcePaths(read)[t], Part(k - 1))
  /\ row[n] = read[t].stack[Len(read[t].stack) - (k - 1)]

LEMMA ColumnFacts ==
  ASSUME NEW read, NEW outs, IsTree(read, SourcePaths(read), outs), DOMAIN read = 1 .. Len(read)
  PROVE  LET names == FlattenedTracePathNames(read)
             row == RowOf(read)
         IN  /\ \A n \in DOMAIN names : \E t \in 1 .. Len(read) :
                  \E k \in 1 .. Len(read[t].stack) : IsColumn(read, names, row, n, t, k)
             /\ \A t \in 1 .. Len(read) : \A k \in 1 .. Len(read[t].stack) :
                  \E n \in DOMAIN names : IsColumn(read, names, row, n, t, k)
<1> DEFINE paths == SourcePaths(read)
           N == Len(read)
           P == Seq(PartType)
           W == Seq(Nat)
           height(t) == Len(read[t].stack)
           nameParts == [t \in 1 .. N |-> NamesOf(read[t].stack, paths[t])]
           rowParts == [t \in 1 .. N |-> Reverse(read[t].stack)]
           names == FlattenedTracePathNames(read)
           row == RowOf(read)
<1>1. names = FlattenSeq(nameParts)
  BY DEF FlattenedTracePathNames, NamesOf
<1>2. row = FlattenSeq(rowParts)
  BY DEF RowOf
<1>3. N \in Nat
  BY DEF IsTree
<1>4. ASSUME NEW t \in 1 .. N
      PROVE  /\ height(t) \in Nat
             /\ nameParts[t] \in Seq(P) /\ Len(nameParts[t]) = height(t)
             /\ rowParts[t] \in Seq(W) /\ Len(rowParts[t]) = height(t)
             /\ \A k \in 1 .. height(t) : rowParts[t][k] = read[t].stack[height(t) - (k - 1)]
             /\ \A k \in 1 .. height(t) : nameParts[t][k] = Append(paths[t], Part(k - 1))
  <2> DEFINE path == paths[t]
             stack == read[t].stack
  <2>1. path \in Seq(PartType) /\ stack \in Seq(Seq(Nat)) /\ Len(stack) \in Nat
    BY TreeTypes
  <2>2. nameParts[t] = NamesOf(stack, path) /\ rowParts[t] = Reverse(stack)
    OBVIOUS
  <2>3. \A k \in 1 .. Len(stack) : NamesOf(stack, path)[k] = Append(path, Part(k - 1))
    BY DEF NamesOf
  <2> HIDE DEF path, stack, nameParts, rowParts
  <2>4. /\ NamesOf(stack, path) \in Seq(P)
        /\ Len(NamesOf(stack, path)) = Len(stack)
        /\ Reverse(stack) \in Seq(W) /\ Len(Reverse(stack)) = Len(stack)
        /\ \A k \in 1 .. Len(stack) : Reverse(stack)[k] = stack[Len(stack) - (k - 1)]
    BY <2>1, PartsOfColumns
  <2> QED BY <2>1, <2>2, <2>3, <2>4 DEF path, stack
<1>5. /\ nameParts \in [1 .. N -> Seq(P)] /\ rowParts \in [1 .. N -> Seq(W)]
  <2>1. \A t \in 1 .. N : NamesOf(read[t].stack, paths[t]) \in Seq(P)
    BY <1>4
  <2>2. \A t \in 1 .. N : Reverse(read[t].stack) \in Seq(W)
    BY <1>4
  <2> HIDE DEF P, W, N, paths
  <2> QED BY <2>1, <2>2
<1> HIDE DEF nameParts, rowParts, names, row, P, W, N, paths
<1>6. /\ nameParts \in Seq(Seq(P)) /\ Len(nameParts) = N
      /\ rowParts \in Seq(Seq(W)) /\ Len(rowParts) = N
  BY <1>3, <1>5, FunctionIsSequence
<1>7. PICK o : AreOffsets(o, nameParts)
  BY <1>6, OffsetsExist
<1>8. AreOffsets(o, rowParts)
  <2>1. \A t \in 1 .. N : Len(nameParts[t]) = Len(rowParts[t])
    BY <1>4
  <2> QED BY <1>6, <1>7, <2>1 DEF AreOffsets
<1>9. /\ names \in Seq(P) /\ Len(names) = o[N]
      /\ \A t \in 1 .. N : \A k \in 1 .. Len(nameParts[t]) :
           /\ o[t - 1] + k \in 1 .. o[N]
           /\ names[o[t - 1] + k] = nameParts[t][k]
  <2>1. nameParts \in Seq(Seq(P)) /\ AreOffsets(o, nameParts)
    BY <1>6, <1>7
  <2>2. /\ FlattenSeq(nameParts) \in Seq(P)
        /\ Len(FlattenSeq(nameParts)) = o[Len(nameParts)]
        /\ \A t \in 1 .. Len(nameParts) : \A k \in 1 .. Len(nameParts[t]) :
             /\ o[t - 1] + k \in 1 .. o[Len(nameParts)]
             /\ FlattenSeq(nameParts)[o[t - 1] + k] = nameParts[t][k]
    BY ONLY <2>1, FlattenFacts
  <2> QED BY <1>1, <1>6, <2>2
<1>10. \A t \in 1 .. N : \A k \in 1 .. Len(rowParts[t]) : row[o[t - 1] + k] = rowParts[t][k]
  <2>1. rowParts \in Seq(Seq(W)) /\ AreOffsets(o, rowParts)
    BY <1>6, <1>8
  <2>2. /\ FlattenSeq(rowParts) \in Seq(W)
        /\ \A t \in 1 .. Len(rowParts) : \A k \in 1 .. Len(rowParts[t]) :
             /\ o[t - 1] + k \in 1 .. o[Len(rowParts)]
             /\ FlattenSeq(rowParts)[o[t - 1] + k] = rowParts[t][k]
    BY ONLY <2>1, FlattenFacts
  <2> QED BY <1>2, <1>6, <2>2
<1>11. DOMAIN names = 1 .. o[N]
  BY <1>9, LenProperties
<1>12. ASSUME NEW t \in 1 .. N, NEW k \in 1 .. height(t)
       PROVE  o[t - 1] + k \in DOMAIN names /\ IsColumn(read, names, row, o[t - 1] + k, t, k)
  <2>1. k \in 1 .. Len(nameParts[t]) /\ k \in 1 .. Len(rowParts[t])
    BY <1>4
  <2>2. names[o[t - 1] + k] = Append(paths[t], Part(k - 1))
    BY <1>4, <1>9, <2>1
  <2>3. row[o[t - 1] + k] = read[t].stack[height(t) - (k - 1)]
    BY <1>4, <1>10, <2>1
  <2> QED BY <1>9, <1>11, <2>1, <2>2, <2>3 DEF IsColumn, paths
<1>13. ASSUME NEW n \in DOMAIN names
       PROVE  \E t \in 1 .. N : \E k \in 1 .. height(t) : IsColumn(read, names, row, n, t, k)
  <2>1. N \in 0 .. Len(nameParts) /\ n \in 1 .. o[N]
    BY <1>3, <1>6, <1>11
  <2>2. PICK u \in 1 .. N : \E k \in 1 .. Len(nameParts[u]) : n = o[u - 1] + k
    BY <1>6, <1>7, <2>1, OffsetsCover, SMTT(30)
  <2>3. PICK k \in 1 .. Len(nameParts[u]) : n = o[u - 1] + k
    BY <2>2
  <2>4. k \in 1 .. height(u)
    BY <1>4
  <2>5. IsColumn(read, names, row, n, u, k)
    BY <1>12, <2>3, <2>4
  <2> QED BY <2>4, <2>5
<1> QED BY <1>12, <1>13 DEF names, row, N

(* The name of an item: its path, the parts between, and its index. *)
LEMMA NameFacts ==
  ASSUME NEW path \in Seq(PartType), Len(path) >= 1, NEW index \in Int, NEW other \in Int
  PROVE  LET name == Append(path, Part(index)) IN
           /\ Len(name) = Len(path) + 1 /\ SubSeq(name, 1, Len(name) - 1) = path
           /\ Last(name) = Part(index)
           /\ [name EXCEPT ![Len(name)] = Part(other)] = Append(path, Part(other))
           /\ Len(path) > 1 => Between(name) = <<path[Len(path) - 1], path[Len(path)]>>
<1> DEFINE S == PartType
           n == Len(path)
           x == Part(index)
           y == Part(other)
           name == Append(path, x)
           changed == [name EXCEPT ![Len(name)] = y]
           beside == Append(path, y)
<1>1. x \in S /\ y \in S /\ path \in Seq(S) /\ n \in Nat /\ n >= 1
  BY PartFacts, LenProperties
<1> HIDE DEF S, x, y
<1>2. /\ name \in Seq(S) /\ Len(name) = n + 1 /\ Front(name) = path /\ Last(name) = x
      /\ \A k \in 1 .. n : name[k] = path[k]
  BY <1>1, FrontOfAppend
<1>3. /\ beside \in Seq(S) /\ Len(beside) = n + 1 /\ Last(beside) = y
      /\ \A k \in 1 .. n : beside[k] = path[k]
  BY <1>1, FrontOfAppend
<1> HIDE DEF name, beside, n
<1>4. changed = beside
  <2>1. n + 1 \in 1 .. Len(name) /\ changed = [name EXCEPT ![n + 1] = y]
    BY <1>1, <1>2
  <2> HIDE DEF changed
  <2>2. /\ changed \in Seq(S) /\ Len(changed) = n + 1
        /\ \A k \in 1 .. (n + 1) : changed[k] = IF k = n + 1 THEN y ELSE name[k]
    BY <1>1, <1>2, <2>1, ExceptSeq
  <2>3. ASSUME NEW k \in 1 .. (n + 1) PROVE changed[k] = beside[k]
    <3>1. CASE k = n + 1
      BY <1>3, <2>2, <3>1 DEF Last
    <3>2. CASE k # n + 1
      <4>1. k \in 1 .. n
        BY <1>1, <3>2
      <4> QED BY <1>2, <1>3, <2>2, <3>2, <4>1
    <3> QED BY <3>1, <3>2
  <2>4. Len(changed) = Len(beside) /\ \A k \in 1 .. Len(changed) : changed[k] = beside[k]
    BY <1>3, <2>2, <2>3
  <2> QED BY <1>3, <2>2, <2>4, SeqEqual
<1>5. ASSUME n > 1 PROVE Between(name) = <<path[n - 1], path[n]>>
  <2> DEFINE between == SubSeq(name, n - 1, n)
             pair == <<path[n - 1], path[n]>>
  <2>1. n - 1 \in 1 .. n /\ n \in 1 .. n
    BY <1>1, <1>5
  <2>2. Between(name) = between
    <3>1. (n + 1) - 2 = n - 1 /\ (n + 1) - 1 = n
      BY <1>1
    <3> QED BY <1>2, <3>1 DEF Between
  <2>3. path[n - 1] \in S /\ path[n] \in S
    BY <1>1, <2>1, ElementOfSeq DEF n
  <2>4. pair \in Seq(S) /\ Len(pair) = 2 /\ pair[1] = path[n - 1] /\ pair[2] = path[n]
    BY <2>3
  <2> HIDE DEF pair, between
  <2>5. between \in Seq(S) /\ Len(between) = 2 /\ between[1] = name[n - 1] /\ between[2] = name[n]
    <3>1. \A k \in (n - 1) .. n : name[k] \in S
      <4>1. \A k \in (n - 1) .. n : k \in 1 .. Len(name)
        BY <1>1, <1>2, <1>5
      <4> QED BY <1>2, <4>1, ElementOfSeq
    <3>2. n - 1 \in Int /\ n \in Int
      BY <1>1
    <3>3. /\ between \in Seq(S)
          /\ Len(between) = (IF n - 1 <= n THEN n - (n - 1) + 1 ELSE 0)
          /\ \A k \in 1 .. (n - (n - 1) + 1) : between[k] = name[(n - 1) + k - 1]
      BY <3>1, <3>2, SubSeqProperties DEF between
    <3>4. /\ (IF n - 1 <= n THEN n - (n - 1) + 1 ELSE 0) = 2 /\ n - (n - 1) + 1 = 2
          /\ (n - 1) + 1 - 1 = n - 1 /\ (n - 1) + 2 - 1 = n
      BY <1>1
    <3>5. 1 \in 1 .. 2 /\ 2 \in 1 .. 2
      OBVIOUS
    <3> QED BY <3>3, <3>4, <3>5
  <2>6. \A k \in 1 .. Len(between) : between[k] = pair[k]
    <3>1. \A k \in 1 .. 2 : k = 1 \/ k = 2
      OBVIOUS
    <3> QED BY <1>2, <2>1, <2>4, <2>5, <3>1
  <2>7. between = pair
    BY <2>4, <2>5, <2>6, SeqEqual
  <2> QED BY <2>2, <2>7 DEF pair
<1>6. Len(name) = n + 1 /\ SubSeq(name, 1, Len(name) - 1) = path /\ Last(name) = x
  BY <1>2 DEF Front
<1> QED BY <1>4, <1>5, <1>6 DEF name, beside, n, x, y, changed

(* Traces between the same sources have the same path if names tell it. *)
LEMMA SameBetween ==
  ASSUME NEW read, NEW paths, NEW outs, IsTree(read, paths, outs),
         NEW t \in 1 .. Len(read), NEW b \in 1 .. Len(read),
         read[b].parent = read[t].parent, read[b].source = read[t].source,
         NEW i \in Int, NEW j \in Int, NEW names, NEW m \in DOMAIN names,
         names[m] = Append(paths[b], Part(j)),
         OnePathBetween(names, Append(paths[t], Part(i)))
  PROVE  paths[b] = paths[t]
<1> DEFINE p == paths[t]
           q == paths[b]
           long == Append(q, Part(j))
           name == Append(p, Part(i))
<1>1. p \in Seq(PartType) /\ q \in Seq(PartType) /\ Len(p) \in Nat /\ Len(q) \in Nat
  BY TreeTypes
<1>2. /\ Len(p) >= 1 /\ p[Len(p)] = Part(read[t].source)
      /\ Len(p) = 1 => read[t].parent = read[t].source
      /\ Len(p) > 1 => p[Len(p) - 1] = Part(read[t].parent) /\ read[t].parent # read[t].source
  BY DEF IsTree
<1>3. /\ Len(q) >= 1 /\ q[Len(q)] = Part(read[t].source)
      /\ Len(q) = 1 => read[t].parent = read[t].source
      /\ Len(q) > 1 => q[Len(q) - 1] = Part(read[t].parent) /\ read[t].parent # read[t].source
  BY DEF IsTree
<1>4. names[m] = long /\ OnePathBetween(names, name)
  OBVIOUS
<1> HIDE DEF p, q
<1>5. /\ Len(name) = Len(p) + 1 /\ SubSeq(name, 1, Len(name) - 1) = p
      /\ Len(p) > 1 => Between(name) = <<p[Len(p) - 1], p[Len(p)]>>
  BY <1>1, <1>2, NameFacts
<1>6. /\ Len(long) = Len(q) + 1 /\ SubSeq(long, 1, Len(long) - 1) = q
      /\ Len(q) > 1 => Between(long) = <<q[Len(q) - 1], q[Len(q)]>>
  BY <1>1, <1>3, NameFacts
<1> HIDE DEF name, long
<1>7. CASE read[t].parent = read[t].source
  <2>1. \A k \in Nat : k >= 1 /\ ~(k > 1) => k = 1
    OBVIOUS
  <2>2. Len(p) = 1 /\ Len(q) = 1
    BY <1>1, <1>2, <1>3, <1>7, <2>1
  <2>3. \A k \in 1 .. Len(p) : p[k] = q[k]
    BY <1>2, <1>3, <2>2
  <2>4. p = q
    BY <1>1, <2>2, <2>3, SeqEqual
  <2> QED BY <2>4 DEF p, q
<1>8. CASE read[t].parent # read[t].source
  <2>1. \A k \in Nat : k >= 1 /\ k # 1 => k > 1 /\ k + 1 > 2
    OBVIOUS
  <2>2. Len(p) > 1 /\ Len(q) > 1 /\ Len(p) + 1 > 2 /\ Len(q) + 1 > 2
    BY <1>1, <1>2, <1>3, <1>8, <2>1
  <2>3. Between(name) = Between(long)
    BY <1>2, <1>3, <1>5, <1>6, <2>2
  <2>4. q = p
    BY <1>4, <1>5, <1>6, <2>2, <2>3 DEF OnePathBetween
  <2> QED BY <2>4 DEF p, q
<1> QED BY <1>7, <1>8

(* Names and search agree on every tree. *)
LEMMA SearchAgrees ==
  ASSUME NEW read, NEW outs, IsTree(read, SourcePaths(read), outs), DOMAIN read = 1 .. Len(read)
  PROVE  LET names == FlattenedTracePathNames(read)
             row == RowOf(read)
         IN  \A n \in DOMAIN names :
               /\ /\ OnePathBetween(names, names[n])
                  /\ \A m \in DOMAIN names : names[m] = names[n] => m = n
                  => SearchTraceByPath(read, names[n]) = Found(row[n])
               /\ \A index \in Nat : index < UsizeMod =>
                    LET beyond == [names[n] EXCEPT ![Len(names[n])] = Part(index)] IN
                      SearchTraceByPath(read, beyond) = TraceNotFound
                        <=> \A m \in DOMAIN names : names[m] # beyond
<1> DEFINE names == FlattenedTracePathNames(read)
           row == RowOf(read)
           paths == SourcePaths(read)
           N == Len(read)
           height(t) == Len(read[t].stack)
<1>1. /\ \A n \in DOMAIN names : \E t \in 1 .. N :
           \E k \in 1 .. height(t) : IsColumn(read, names, row, n, t, k)
      /\ \A t \in 1 .. N : \A k \in 1 .. height(t) :
           \E n \in DOMAIN names : IsColumn(read, names, row, n, t, k)
  BY ColumnFacts
<1> HIDE DEF names, row
<1>2. ASSUME NEW n \in DOMAIN names, NEW t \in 1 .. N, NEW k, IsColumn(read, names, row, n, t, k)
      PROVE  /\ names[n] = Append(paths[t], Part(k - 1))
             /\ row[n] = read[t].stack[height(t) - (k - 1)]
  BY <1>2 DEF IsColumn
<1>3. IsTree(read, paths, outs)
  OBVIOUS
<1> HIDE DEF paths
<1>4. ASSUME NEW t \in 1 .. N
      PROVE  /\ paths[t] \in Seq(PartType) /\ Len(paths[t]) >= 1
             /\ paths[t][Len(paths[t])] = Part(read[t].source) /\ read[t].source \in Int
             /\ read[t].stack \in Seq(Seq(Nat)) /\ height(t) \in Nat
             /\ height(t) = outs[read[t].source] /\ height(t) < UsizeMod
  <2>1. paths[t] \in Seq(PartType) /\ read[t].stack \in Seq(Seq(Nat)) /\ height(t) \in Nat
    BY <1>3, TreeTypes
  <2>2. /\ Len(paths[t]) >= 1 /\ paths[t][Len(paths[t])] = Part(read[t].source)
        /\ read[t].source \in 0 .. (IndexMod - 1)
        /\ height(t) = outs[read[t].source] /\ height(t) < UsizeMod
    BY <1>3 DEF IsTree
  <2> QED BY <2>1, <2>2
<1>5. ASSUME NEW t \in 1 .. N, NEW index \in Nat, index < UsizeMod
      PROVE  \E b \in 1 .. N :
               /\ read[b].parent = read[t].parent /\ read[b].source = read[t].source
               /\ height(b) = height(t)
               /\ SearchTraceByPath(read, Append(paths[t], Part(index)))
                    = IF index < height(t) THEN Found(read[b].stack[height(t) - index])
                      ELSE TraceNotFound
  <2> DEFINE b == TraceBetween(read, read[t].parent, read[t].source)
  <2>1. /\ b \in 1 .. N
        /\ read[b].parent = read[t].parent /\ read[b].source = read[t].source
        /\ SearchTraceByPath(read, Append(paths[t], Part(index))) = ItemOf(read[b].stack, index)
    BY <1>3, <1>5, SearchGoesThere
  <2> HIDE DEF b
  <2>2. height(b) = height(t)
    BY <1>4, <2>1
  <2> DEFINE stack == read[b].stack
  <2>3. stack \in Seq(Seq(Nat)) /\ Len(stack) < UsizeMod /\ Len(stack) \in Nat
    BY <1>4, <2>1
  <2> HIDE DEF stack
  <2>4. ItemOf(stack, index) = IF index < Len(stack) THEN Found(stack[Len(stack) - index])
                               ELSE TraceNotFound
    <3>1. /\ index < Len(stack) => ItemOf(stack, index) = Found(stack[Len(stack) - index])
          /\ index >= Len(stack) => ItemOf(stack, index) = TraceNotFound
      BY <1>5, <2>3, ItemFacts
    <3>2. index < Len(stack) \/ index >= Len(stack)
      BY <2>3
    <3> QED BY <3>1, <3>2
  <2> QED BY <2>1, <2>2, <2>4 DEF stack
<1> HIDE DEF N
<1>6. ASSUME NEW n \in DOMAIN names, OnePathBetween(names, names[n]),
             \A m \in DOMAIN names : names[m] = names[n] => m = n
      PROVE  SearchTraceByPath(read, names[n]) = Found(row[n])
  <2>0. PICK t \in 1 .. N : \E k \in 1 .. height(t) : IsColumn(read, names, row, n, t, k)
    BY <1>1
  <2>1. PICK k \in 1 .. height(t) : IsColumn(read, names, row, n, t, k)
    BY <2>0
  <2> DEFINE index == k - 1
  <2>2. /\ index \in Nat /\ index \in Int /\ index < height(t) /\ index < UsizeMod
        /\ k \in 1 .. height(t)
    <3>1. height(t) \in Nat /\ height(t) < UsizeMod
      BY <1>4
    <3> DEFINE h == height(t)
    <3> HIDE DEF h
    <3>2. k \in 1 .. h /\ h \in Nat /\ h < UsizeMod /\ UsizeMod \in Nat
      BY <3>1, UsizeAssumption DEF h
    <3>3. index \in Nat /\ index \in Int /\ index < h /\ index < UsizeMod
      BY <3>2
    <3> QED BY <3>2, <3>3 DEF h
  <2>3. names[n] = Append(paths[t], Part(index)) /\ row[n] = read[t].stack[height(t) - index]
    BY <1>2, <2>1
  <2> HIDE DEF index
  <2>4. PICK b \in 1 .. N :
          /\ read[b].parent = read[t].parent /\ read[b].source = read[t].source
          /\ height(b) = height(t)
          /\ SearchTraceByPath(read, Append(paths[t], Part(index)))
               = IF index < height(t) THEN Found(read[b].stack[height(t) - index])
                 ELSE TraceNotFound
    BY <1>5, <2>2
  <2>5. PICK m \in DOMAIN names : IsColumn(read, names, row, m, b, k)
    BY <1>1, <2>2, <2>4
  <2>6. names[m] = Append(paths[b], Part(index)) /\ row[m] = read[b].stack[height(b) - index]
    BY <1>2, <2>5 DEF index
  <2>7. paths[b] = paths[t]
    <3>1. OnePathBetween(names, Append(paths[t], Part(index)))
      BY <1>6, <2>3
    <3> QED BY <1>3, <2>2, <2>4, <2>6, <3>1, SameBetween, SMTT(30) DEF N
  <2>8. m = n
    BY <1>6, <2>3, <2>6, <2>7
  <2> QED BY <2>2, <2>3, <2>4, <2>6, <2>8
<1>7. ASSUME NEW n \in DOMAIN names, NEW index \in Nat, index < UsizeMod
      PROVE  LET beyond == [names[n] EXCEPT ![Len(names[n])] = Part(index)] IN
               SearchTraceByPath(read, beyond) = TraceNotFound
                 <=> \A m \in DOMAIN names : names[m] # beyond
  <2> DEFINE beyond == [names[n] EXCEPT ![Len(names[n])] = Part(index)]
  <2>0. PICK t \in 1 .. N : \E k \in 1 .. height(t) : IsColumn(read, names, row, n, t, k)
    BY <1>1
  <2>1. PICK k \in 1 .. height(t) : IsColumn(read, names, row, n, t, k)
    BY <2>0
  <2>2. names[n] = Append(paths[t], Part(k - 1))
    BY <1>2, <2>1
  <2> DEFINE path == paths[t]
  <2>3. path \in Seq(PartType) /\ Len(path) >= 1 /\ index \in Int /\ k - 1 \in Int
    <3>1. \A i \in Nat : i \in Int
      OBVIOUS
    <3>2. k - 1 \in Int
      OBVIOUS
    <3> QED BY <1>4, <3>1, <3>2
  <2>4. beyond = Append(path, Part(index))
    <3> DEFINE name == names[n]
               last == Part(index)
    <3>1. name = Append(path, Part(k - 1))
      BY <2>2
    <3> HIDE DEF path, name
    <3>2. [Append(path, Part(k - 1)) EXCEPT ![Len(Append(path, Part(k - 1)))] = last]
            = Append(path, last)
      BY <2>3, NameFacts
    <3> HIDE DEF last
    <3>3. [name EXCEPT ![Len(name)] = last] = Append(path, last)
      BY <3>1, <3>2
    <3> QED BY <3>3 DEF name, last
  <2> HIDE DEF beyond
  <2>5. PICK b \in 1 .. N :
          SearchTraceByPath(read, beyond)
            = IF index < height(t) THEN Found(read[b].stack[height(t) - index]) ELSE TraceNotFound
    BY <1>5, <1>7, <2>4
  <2>6. SearchTraceByPath(read, beyond) = TraceNotFound <=> ~(index < height(t))
    <3>1. \A x : Found(x) # TraceNotFound
      BY DEF Found, TraceNotFound
    <3> QED BY <2>5, <3>1
  <2>7. ASSUME index < height(t) PROVE \E m \in DOMAIN names : names[m] = beyond
    <3> DEFINE h == height(t)
    <3>1. h \in Nat /\ index < h
      BY <1>4, <2>7
    <3> HIDE DEF h
    <3>2. index + 1 \in 1 .. h /\ (index + 1) - 1 = index
      BY <3>1
    <3>3. PICK m \in DOMAIN names : IsColumn(read, names, row, m, t, index + 1)
      BY <1>1, <3>2 DEF h
    <3>4. names[m] = Append(paths[t], Part((index + 1) - 1))
      BY <1>2, <3>3
    <3> QED BY <2>4, <3>2, <3>4
  <2>8. ASSUME NEW m \in DOMAIN names, names[m] = beyond PROVE index < height(t)
    <3>0. PICK u \in 1 .. N : \E j \in 1 .. height(u) : IsColumn(read, names, row, m, u, j)
      BY <1>1
    <3>1. PICK j \in 1 .. height(u) : IsColumn(read, names, row, m, u, j)
      BY <3>0
    <3> DEFINE q == paths[u]
    <3>2. beyond = Append(q, Part(j - 1))
      BY <1>2, <2>8, <3>1
    <3>3. q \in Seq(PartType) /\ Len(q) >= 1 /\ j - 1 \in Int
      BY <1>4
    <3> HIDE DEF path, q
    <3>4. SubSeq(beyond, 1, Len(beyond) - 1) = q /\ Last(beyond) = Part(j - 1)
      BY <3>2, <3>3, NameFacts
    <3>5. SubSeq(beyond, 1, Len(beyond) - 1) = path /\ Last(beyond) = Part(index)
      BY <2>3, <2>4, NameFacts
    <3>6. q = path /\ j - 1 = index
      <4>1. Part(j - 1) = Part(index)
        BY <3>4, <3>5
      <4>2. j - 1 = index
        BY <2>3, <3>3, <4>1, PartFacts
      <4> QED BY <3>4, <3>5, <4>2
    <3>7. read[u].source = read[t].source
      <4>1. Part(read[u].source) = Part(read[t].source)
        BY <1>4, <3>6 DEF path, q
      <4>2. read[u].source \in Int /\ read[t].source \in Int
        BY <1>4
      <4> QED BY <4>1, <4>2, PartFacts
    <3>8. height(u) = height(t) /\ height(u) \in Nat
      BY <1>4, <3>7
    <3> DEFINE h == height(u)
    <3>9. j \in 1 .. h /\ h \in Nat /\ h = height(t)
      BY <3>8
    <3> HIDE DEF h
    <3>10. j - 1 < h
      BY <3>9
    <3> QED BY <3>6, <3>9, <3>10
  <2>9. SearchTraceByPath(read, beyond) = TraceNotFound
          <=> \A m \in DOMAIN names : names[m] # beyond
    BY <2>6, <2>7, <2>8
  <2> QED BY <2>9 DEF beyond
<1>8. \A n \in DOMAIN names :
        /\ /\ OnePathBetween(names, names[n])
           /\ \A m \in DOMAIN names : names[m] = names[n] => m = n
           => SearchTraceByPath(read, names[n]) = Found(row[n])
        /\ \A index \in Nat : index < UsizeMod =>
             LET beyond == [names[n] EXCEPT ![Len(names[n])] = Part(index)] IN
               SearchTraceByPath(read, beyond) = TraceNotFound
                 <=> \A m \in DOMAIN names : names[m] # beyond
  BY <1>6, <1>7
<1> QED BY <1>8 DEF names, row

Outputs == [i \in Int |-> Sources[i + 1].outputs]

(* The traces that are read of an evaluation that ended well are a tree. *)
LEMMA ReadIsTree ==
  ASSUME TracedInv, PathInv, status = "ok"
  PROVE  IsTree(Read, SourcePaths(Read), Outputs) /\ DOMAIN Read = 1 .. Len(Read)
<1> DEFINE N == Len(traces)
           paths == SourcePaths(Read)
<1>1. /\ N \in Nat /\ Len(Read) = N /\ DOMAIN Read = 1 .. N
      /\ \A t \in 1 .. N : Read[t] = ReadBack(traces[N - t + 1])
  BY ReadFacts
<1>2. /\ PathsInv(expression, traces, callPaths, status, PathOf(frames))
      /\ traces \in Seq(TraceType) /\ expression \in Expressions
      /\ \A t \in 1 .. N : TraceFits(expression, traces[t])
  BY DEF PathInv, TracedInv, TraceInv
<1>3. paths \in Seq(Seq(PartType)) /\ AreNamed(paths, callPaths, 0, status)
  <2>1. Len(Read) = Len(traces)
        /\ \A t \in 1 .. Len(traces) : Read[t] = ReadBack(traces[Len(traces) - t + 1])
    BY <1>1
  <2> QED BY <1>2, <2>1, ReadIsNamed
<1>4. /\ Len(callPaths) = N /\ callPaths \in Seq(Seq(PartType))
      /\ \A v \in 1 .. N :
           /\ PathFits(callPaths[v], traces[v]) /\ WaitsForOthers(callPaths[v])
           /\ Len(callPaths[v]) > 1 => CallEnded(callPaths, v)
  BY <1>2 DEF PathsInv
<1> HIDE DEF N, paths
<1>5. Len(paths) = N
  <2>1. N - 0 = N
    BY <1>1
  <2> QED BY <1>3, <1>4, <2>1 DEF AreNamed
<1>6. ASSUME NEW t \in 1 .. N PROVE N + 1 - t \in 1 .. N /\ paths[t] = callPaths[N + 1 - t]
  <2>1. IsNamed(paths[t], callPaths[N + 1 - t], status)
    BY <1>3, <1>4, <1>5 DEF AreNamed
  <2> QED BY <1>1, <2>1 DEF IsNamed
<1>7. ASSUME NEW t \in 1 .. N
      PROVE  /\ Read[t].parent \in 0 .. (IndexMod - 1) /\ Read[t].source \in 0 .. (IndexMod - 1)
             /\ Read[t].stack \in Seq(Seq(Nat))
             /\ Len(Read[t].stack) = Outputs[Read[t].source] /\ Len(Read[t].stack) < UsizeMod
             /\ Len(paths[t]) >= 1 /\ paths[t][Len(paths[t])] = Part(Read[t].source)
             /\ Len(paths[t]) = 1 => Read[t].parent = Read[t].source
             /\ Len(paths[t]) > 1 =>
                  /\ paths[t][Len(paths[t]) - 1] = Part(Read[t].parent)
                  /\ Read[t].parent # Read[t].source
                  /\ \E u \in 1 .. N :
                       Len(paths[u]) = Len(paths[t]) - 1 /\ Along(Len(paths[u]), paths[t], paths[u])
  <2> DEFINE v == N + 1 - t
             trace == traces[v]
             path == paths[t]
             m == Len(trace.stack)
             bytes == [k \in 1 .. m |-> Encoded(trace.stack[k])]
  <2>1. v \in 1 .. N /\ v = N - t + 1 /\ path = callPaths[v]
    BY <1>1, <1>6
  <2>2. Read[t] = ReadBack(trace)
    BY <1>1, <2>1
  <2>3. trace \in TraceType /\ TraceFits(expression, trace) /\ IsWritable(trace)
    <3>1. trace \in TraceType /\ TraceFits(expression, trace)
      BY <1>2, <2>1, ElementOfSeq DEF N
    <3> QED BY <1>2, <3>1, FittingIsWritable
  <2>4. PathFits(path, trace) /\ WaitsForOthers(path) /\ (Len(path) > 1 => CallEnded(callPaths, v))
    BY <1>4, <2>1
  <2>5. path \in Seq(PartType) /\ Len(path) \in Nat
    <3>1. path \in Seq(PartType)
      BY <1>4, <2>1, ElementOfSeq
    <3> QED BY <3>1, LenProperties
  <2>6. ASSUME Len(path) > 1
        PROVE  \E u \in 1 .. N :
                 Len(paths[u]) = Len(path) - 1 /\ Along(Len(paths[u]), path, paths[u])
    <3>1. PICK w \in (v + 1) .. N : IsCaller(callPaths, v, w)
      BY <1>4, <2>4, <2>6 DEF CallEnded
    <3>2. N + 1 - w \in 1 .. N /\ N + 1 - (N + 1 - w) = w
      <4> HIDE DEF v
      <4> QED BY <1>1, <2>1
    <3>3. paths[N + 1 - w] = callPaths[w]
      BY <1>6, <3>2
    <3>4. /\ Len(callPaths[w]) = Len(path) - 1
          /\ Along(Len(path) - 1, path, callPaths[w])
      BY <2>1, <3>1 DEF IsCaller
    <3> QED BY <3>2, <3>3, <3>4
  <2> HIDE DEF v, path
  <2>7. /\ trace.parent \in 1 .. IndexMod /\ trace.source \in 1 .. IndexMod
        /\ trace.stack \in Seq(Value) /\ m \in Nat
    BY <2>3, LenProperties DEF IsWritable
  <2>8. m = Sources[trace.source].outputs /\ m < UsizeMod
    BY <1>2, <2>3, CountsAssumption DEF TraceFits, Sources
  <2> HIDE DEF trace, m
  <2>9. bytes \in Seq(Seq(Nat)) /\ Len(bytes) = m
    <3>1. \A k \in 1 .. m : trace.stack[k] \in Value
      BY <2>7, ElementOfSeq DEF m
    <3>2. \A k \in 1 .. m : Encoded(trace.stack[k]) \in Seq(Nat)
      BY <3>1, EncodedAssumption
    <3> DEFINE W == Seq(Nat)
    <3>3. bytes \in [1 .. m -> W]
      BY <3>2
    <3> HIDE DEF bytes, W
    <3>4. bytes \in Seq(W) /\ Len(bytes) = m
      BY <2>7, <3>3, FunctionIsSequence
    <3> QED BY <3>4 DEF W
  <2>10. /\ Read[t].parent = trace.parent - 1 /\ Read[t].source = trace.source - 1
         /\ Read[t].stack = bytes
    BY <2>2 DEF ReadBack, m
  <2> HIDE DEF bytes
  <2>11. \A i \in 1 .. IndexMod : i - 1 \in 0 .. (IndexMod - 1) /\ i - 1 \in Int /\ (i - 1) + 1 = i
    <3>1. IndexMod \in Nat
      BY DEF IndexMod
    <3>2. \A j \in Nat : \A i \in 1 .. j : i - 1 \in 0 .. (j - 1) /\ i - 1 \in Int /\ (i - 1) + 1 = i
      OBVIOUS
    <3> QED BY <3>1, <3>2
  <2>12. Outputs[trace.source - 1] = Sources[trace.source].outputs
    BY <2>7, <2>11 DEF Outputs
  <2>13. /\ Len(path) >= 1 /\ path[Len(path)] = Part(trace.source - 1)
         /\ Len(path) = 1 => trace.parent = trace.source
         /\ Len(path) > 1 => path[Len(path) - 1] = Part(trace.parent - 1)
    BY <2>4 DEF PathFits
  <2>14. ASSUME Len(path) > 1 PROVE trace.parent - 1 # trace.source - 1
    <3>1. Len(path) - 1 \in 1 .. (Len(path) - 1)
      BY <2>5, <2>14
    <3>2. path[Len(path) - 1] # path[Len(path)]
      BY <2>4, <3>1 DEF WaitsForOthers
    <3> QED BY <2>13, <2>14, <3>2
  <2>15. Read[t].parent \in 0 .. (IndexMod - 1) /\ Read[t].source \in 0 .. (IndexMod - 1)
    BY <2>7, <2>10, <2>11
  <2> HIDE DEF N
  <2> QED BY <2>6, <2>8, <2>9, <2>10, <2>12, <2>13, <2>14, <2>15 DEF path
<1>8. IsTree(Read, paths, Outputs)
  BY <1>1, <1>3, <1>5, <1>7 DEF IsTree
<1> QED BY <1>1, <1>8 DEF paths

LEMMA SearchFinds == TracedInv /\ PathInv => SearchFindsColumn
<1> SUFFICES ASSUME TracedInv, PathInv, status = "ok"
             PROVE  LET names == FlattenedTracePathNames(Read)
                        row == RowOf(Read)
                    IN  \A n \in DOMAIN names :
                          /\ /\ OnePathBetween(names, names[n])
                             /\ \A m \in DOMAIN names : names[m] = names[n] => m = n
                             => SearchTraceByPath(Read, names[n]) = Found(row[n])
                          /\ \A index \in {Sources[s].outputs : s \in DOMAIN Sources}
                                            \cup {UsizeMod - 1} :
                               LET beyond == [names[n] EXCEPT ![Len(names[n])] = Part(index)] IN
                                 SearchTraceByPath(Read, beyond) = TraceNotFound
                                   <=> \A m \in DOMAIN names : names[m] # beyond
  BY DEF SearchFindsColumn
<1> DEFINE Indices == {Sources[s].outputs : s \in DOMAIN Sources} \cup {UsizeMod - 1}
<1>1. IsTree(Read, SourcePaths(Read), Outputs) /\ DOMAIN Read = 1 .. Len(Read)
  BY ReadIsTree
<1>2. ASSUME NEW index \in Indices PROVE index \in Nat /\ index < UsizeMod
  <2>1. CASE index = UsizeMod - 1
    BY <2>1, UsizeAssumption
  <2>2. CASE \E s \in DOMAIN Sources : index = Sources[s].outputs
    <3>1. PICK s \in DOMAIN Sources : index = Sources[s].outputs
      BY <2>2
    <3>2. CheckInv /\ verdict = "ok" /\ expression \in Expressions
      BY DEF TracedInv, EvalInv, TraceInv
    <3>3. Sources[s].outputs \in Nat
      BY <3>2, SourceFacts
    <3>4. Sources[s].outputs < UsizeMod
      BY <3>2, CountsAssumption DEF Sources
    <3> QED BY <3>1, <3>3, <3>4
  <2> QED BY <2>1, <2>2
<1> HIDE DEF Indices
<1>3. LET names == FlattenedTracePathNames(Read)
          row == RowOf(Read)
      IN  \A n \in DOMAIN names :
            /\ /\ OnePathBetween(names, names[n])
               /\ \A m \in DOMAIN names : names[m] = names[n] => m = n
               => SearchTraceByPath(Read, names[n]) = Found(row[n])
            /\ \A index \in Nat : index < UsizeMod =>
                 LET beyond == [names[n] EXCEPT ![Len(names[n])] = Part(index)] IN
                   SearchTraceByPath(Read, beyond) = TraceNotFound
                     <=> \A m \in DOMAIN names : names[m] # beyond
  BY <1>1, SearchAgrees
<1> QED BY <1>2, <1>3 DEF Indices

(* The name of a column finds the value in the column, unless a source is    *)
(* called by the same parent twice or along two paths, and past the items of *)
(* a stack nothing is found.                                                 *)
THEOREM NamesFindTheirColumns == TracedSpec => []SearchFindsColumn
  BY TracedInvInit, TracedInvNext, PathInvInit, PathsStayNamed, SearchFinds, PTL DEF TracedSpec
=============================================================================
