-------------------------------- MODULE Eval --------------------------------
(***************************************************************************)
(* Rainterpreter.eval4 on an expression that passed the integrity check:   *)
(* the expression is deserialized, the state overlay is applied, the       *)
(* inputs are copied onto the stack of the entry source, and LibEval runs  *)
(* its ops, recursing through the op "call".                               *)
(*                                                                         *)
(* Memory is what the assembly sees: one array of words.  Every source has *)
(* one stack region in it, allocated by unsafeDeserialize and never        *)
(* zeroed: a length word, then alloc words.  A stack grows down from its   *)
(* bottom, item i of it is the word at bottom - (i + 1).  Nothing at run   *)
(* time checks an address.  What is allocated above the stacks, the cache  *)
(* and the arrays of external calls, has variables of its own or none.     *)
(*                                                                         *)
(* The Solidity recursion of evalLoop is the sequence frames: a frame      *)
(* holds the locals of one activation of evalLoop.  One action is one op.  *)
(* Gas bounds the recursion: a call deeper than MaxDepth reverts.          *)
(***************************************************************************)
EXTENDS IntegrityCheck

CONSTANTS
  Requests,       (* The arguments of eval4: a set of records.             *)
  ExternAnswers,  (* The arrays an extern contract may return.             *)
  MaxOutputs,     (* maxOutputs, 2^256 - 1 when Rainterpreter calls.       *)
  MaxDepth        (* The call depth that the gas of the eval pays for.     *)

VARIABLES
  status,        (* The phase of eval4, its success, or its revert.        *)
  request,       (* The arguments of eval4.                                *)
  mem,           (* Memory, from the first stack up: address |-> word.     *)
  freePtr,       (* The free memory pointer while stacks are allocated.    *)
  stackBottoms,  (* state.stackBottoms.                                    *)
  stateKV,       (* state.stateKV, Missing where it has no key.            *)
  overlaid,      (* The words of the overlay applied so far.               *)
  sourceIndex,   (* state.sourceIndex.                                     *)
  frames,        (* The activations of evalLoop, the running one last.     *)
  traces,        (* The calls the stack tracer has received.               *)
  result         (* What eval4 returns.                                    *)

memVars == <<mem, freePtr, stackBottoms>>
evalVars == <<status, request, memVars, stateKV, overlaid, sourceIndex,
              frames, traces, result>>
vars == <<checkVars, evalVars>>

(* Words that no evaluation computes, and absent things. *)
Dirty == <<"dirty">>
LengthWord(n) == <<"length", n>>
TraceWord(parent, src) == <<"trace", parent, src>>
Missing == <<"missing">>
None == [none |-> TRUE]

EvalReverts == {"OddSetLength", "SourceIndexOutOfBounds", "InputsLengthMismatch",
  "ContextOutOfBounds", "ArithmeticRevert", "EnsureFailed", "BadOutputsLength",
  "CallFailed", "OutOfGas"}

Statuses == {"unchecked", "allocate", "overlay", "eval", "ok"} \cup EvalReverts

ASSUME DepthAssumption == MaxDepth \in Nat \ {0}
ASSUME MaxOutputsAssumption == MaxOutputs \in Nat
ASSUME ExternAssumption == \A answer \in ExternAnswers : answer \in Seq(Value)
ASSUME WordAssumption == Dirty \notin Value /\ Missing \notin Value
ASSUME RequestsAssumption ==
  \A r \in Requests :
    /\ r.inputs \in Seq(Value)
    /\ r.overlay \in Seq(Value)
    /\ r.store \in [Value -> Value]
    /\ \A row \in DOMAIN r.context : r.context[row] \in Seq(Value)

Sources == expression.sources

EvalInit ==
  /\ status = "unchecked"
  /\ request = None
  /\ mem = << >>
  /\ freePtr = 1
  /\ stackBottoms = << >>
  /\ stateKV = [key \in Value |-> Missing]
  /\ overlaid = 0
  /\ sourceIndex = 0
  /\ frames = << >>
  /\ traces = << >>
  /\ result = None

Revert(error) ==
  /\ status' = error
  /\ UNCHANGED <<request, memVars, stateKV, overlaid, sourceIndex, frames, traces, result>>

-----------------------------------------------------------------------------
(* Deserialization and the start of the evaluation. *)

(* Anyone may evaluate what the deployer returned. *)
CallEval4 ==
  /\ status = "unchecked"
  /\ verdict = "ok"
  /\ request' \in Requests
  /\ status' = "allocate"
  /\ UNCHANGED <<memVars, stateKV, overlaid, sourceIndex, frames, traces, result>>

(* Mutant of StackBottom: the length word has no room. *)
StackBottomShort(size) == freePtr + size

StackBottom(size) == freePtr + size + 1

(* The stack of the next source takes the next words of memory: its length *)
(* and the allocation the source declares, as they are.                    *)
AllocateStack ==
  /\ status = "allocate"
  /\ Len(stackBottoms) < Len(Sources)
  /\ LET size == Sources[Len(stackBottoms) + 1].alloc
     IN  /\ mem' = [a \in 1 .. (freePtr + size) |->
                      IF a < freePtr THEN mem[a]
                      ELSE IF a = freePtr THEN LengthWord(size) ELSE Dirty]
         /\ freePtr' = StackBottom(size)
         /\ stackBottoms' = Append(stackBottoms, StackBottom(size))
  /\ UNCHANGED <<status, request, stateKV, overlaid, sourceIndex, frames, traces, result>>

Deserialized ==
  /\ status = "allocate"
  /\ Len(stackBottoms) = Len(Sources)
  /\ sourceIndex' = request.sourceIndex
  /\ status' = "overlay"
  /\ UNCHANGED <<request, memVars, stateKV, overlaid, frames, traces, result>>

RejectOverlay ==
  /\ status = "overlay"
  /\ Len(request.overlay) % 2 # 0
  /\ Revert("OddSetLength")

(* The overlay seeds the cache of the evaluation, later pairs over earlier. *)
ApplyOverlay ==
  /\ status = "overlay"
  /\ Len(request.overlay) % 2 = 0
  /\ overlaid < Len(request.overlay)
  /\ stateKV' = [stateKV EXCEPT ![request.overlay[overlaid + 1]] =
                   request.overlay[overlaid + 2]]
  /\ overlaid' = overlaid + 2
  /\ UNCHANGED <<status, request, memVars, sourceIndex, frames, traces, result>>

Overlaid ==
  /\ status = "overlay"
  /\ Len(request.overlay) % 2 = 0
  /\ overlaid = Len(request.overlay)

RejectSourceIndex ==
  /\ Overlaid
  /\ sourceIndex \notin DOMAIN Sources
  /\ Revert("SourceIndexOutOfBounds")

RejectInputs ==
  /\ Overlaid
  /\ sourceIndex \in DOMAIN Sources
  /\ Len(request.inputs) # Sources[sourceIndex].inputs
  /\ Revert("InputsLengthMismatch")

(* One activation of evalLoop: src, parent, bottom and top are its locals, *)
(* pc the number of ops behind its cursor.                                 *)
Frame(src, parent, bottom, top, pc) ==
  [src |-> src, parent |-> parent, bottom |-> bottom, top |-> top, pc |-> pc]

(* At the root the parent of the trace is the source itself. *)
EnterEval ==
  /\ Overlaid
  /\ sourceIndex \in DOMAIN Sources
  /\ Len(request.inputs) = Sources[sourceIndex].inputs
  /\ LET bottom == stackBottoms[sourceIndex]
         top == bottom - Len(request.inputs)
     IN  /\ mem' = [a \in DOMAIN mem |->
                      IF a \in top .. (bottom - 1) THEN request.inputs[a - top + 1] ELSE mem[a]]
         /\ frames' = <<Frame(sourceIndex, sourceIndex, bottom, top, 0)>>
  /\ status' = "eval"
  /\ UNCHANGED <<request, freePtr, stackBottoms, stateKV, overlaid, sourceIndex, traces, result>>

-----------------------------------------------------------------------------
(* The run functions of the ops. *)

Running == frames[Len(frames)]
RunningOp == OpAt(expression, Running.src, Running.pc)

AtRun(code) ==
  /\ status = "eval"
  /\ Running.pc < Len(Sources[Running.src].ops)
  /\ RunningOp.code = code

(* The running frame moves past its op with its stack top at newTop. *)
Advance(newTop) ==
  frames' = [frames EXCEPT ![Len(frames)] =
    Frame(Running.src, Running.parent, Running.bottom, newTop, Running.pc + 1)]

evalFixed == <<status, request, freePtr, stackBottoms, overlaid, sourceIndex, traces, result>>

(* The op pops n items and pushes a word. *)
PopPush(n, word) ==
  LET newTop == Running.top + n - 1 IN
    /\ mem' = [mem EXCEPT ![newTop] = word]
    /\ Advance(newTop)
    /\ UNCHANGED evalFixed

(* Item k of the array that starts at the stack top, from 1. *)
Item(k) == mem[Running.top + k - 1]
Items(n) == [k \in 1 .. n |-> Item(k)]

(* The stack is found through state.sourceIndex, not through the locals. *)
StackItem(i) == mem[stackBottoms[sourceIndex] - (i + 1)]

RunStack ==
  /\ AtRun("stack")
  /\ PopPush(0, StackItem(RunningOp.arg))
  /\ UNCHANGED stateKV

RunConstant ==
  /\ AtRun("constant")
  /\ PopPush(0, expression.constants[RunningOp.arg])
  /\ UNCHANGED stateKV

(* The row is the low byte of the operand, the column the byte above. *)
ContextRow == (RunningOp.arg % 256) + 1
ContextColumn == ((RunningOp.arg \div 256) % 256) + 1
ContextHas ==
  /\ ContextRow \in DOMAIN request.context
  /\ ContextColumn \in DOMAIN request.context[ContextRow]

RunContext ==
  /\ AtRun("context")
  /\ ContextHas
  /\ PopPush(0, request.context[ContextRow][ContextColumn])
  /\ UNCHANGED stateKV

RevertContext ==
  /\ AtRun("context")
  /\ ~ContextHas
  /\ Revert("ContextOutOfBounds")

RunPure ==
  \E code \in PureCodes :
    /\ AtRun(code)
    /\ PopPush(RunningOp.ins, PureResult(code, Items(RunningOp.ins)))
    /\ UNCHANGED stateKV

(* The decimal float library reverts on what it cannot represent. *)
RevertArithmetic == AtRun("add") /\ Revert("ArithmeticRevert")

RunEnsure ==
  /\ AtRun("ensure")
  /\ Item(1) \notin ZeroWords
  /\ Advance(Running.top + 2)
  /\ UNCHANGED <<evalFixed, mem, stateKV>>

RevertEnsure ==
  /\ AtRun("ensure")
  /\ Item(1) \in ZeroWords
  /\ Revert("EnsureFailed")

(* A key that is not cached is read from the store and cached. *)
RunGet ==
  /\ AtRun("get")
  /\ LET key == Item(1)
         value == IF stateKV[key] = Missing THEN request.store[key] ELSE stateKV[key]
     IN  /\ stateKV' = [stateKV EXCEPT ![key] = value]
         /\ PopPush(1, value)

(* The call to the store fails: the request names the store. *)
RevertStore ==
  /\ AtRun("get")
  /\ stateKV[Item(1)] = Missing
  /\ Revert("CallFailed")

RunSet ==
  /\ AtRun("set")
  /\ stateKV' = [stateKV EXCEPT ![Item(1)] = Item(2)]
  /\ Advance(Running.top + 2)
  /\ UNCHANGED <<evalFixed, mem>>

(* The word above the stack top becomes the length of an array for the     *)
(* length of an external call, and gets its old content back.              *)
Borrowed(word) == [mem EXCEPT ![Running.top - 1] = word]

(* Mutant of Restored: the word is not put back. *)
NotRestored(memory) == memory

Restored(memory) == [memory EXCEPT ![Running.top - 1] = mem[Running.top - 1]]

(* The outputs replace the inputs, the first of them the lowest. *)
RunExtern ==
  /\ AtRun("extern")
  /\ \E outputs \in ExternAnswers :
       LET outs == RunningOp.outs
           popped == Running.top + RunningOp.ins
           restored == Restored(Borrowed(LengthWord(RunningOp.ins)))
       IN  /\ Len(outputs) = outs
           /\ mem' = [a \in DOMAIN mem |->
                        IF a \in (popped - outs) .. (popped - 1)
                        THEN outputs[popped - a] ELSE restored[a]]
           /\ Advance(popped - outs)
  /\ UNCHANGED <<evalFixed, stateKV>>

RevertExternOutputs ==
  /\ AtRun("extern")
  /\ \E outputs \in ExternAnswers : Len(outputs) # RunningOp.outs
  /\ Revert("BadOutputsLength")

RevertExternCall == AtRun("extern") /\ Revert("CallFailed")

(* Mutant of CopiedInput: the inputs keep their order. *)
CopiedInOrder(k, bottom) == Item(RunningOp.ins + 1 - k)

(* The k-th input is copied to the k-th word below the callee's bottom.  A *)
(* source that calls itself copies within one region, and past the middle  *)
(* of it reads what it has just written.                                   *)
CopiedInput(k, bottom) ==
  LET written == bottom - (Running.top + k - 1) IN
    IF written \in 1 .. (k - 1) THEN Item(written) ELSE Item(k)

(* Mutant of CalleeBottom: the source index has not been switched yet. *)
CallerBottom(callee) == stackBottoms[sourceIndex]

CalleeBottom(callee) == stackBottoms[callee]

(* The caller's frame keeps its pc at the call; its inputs are popped. *)
RunCall ==
  /\ AtRun("call")
  /\ Len(frames) < MaxDepth
  /\ LET callee == RunningOp.arg
         ins == RunningOp.ins
         bottom == CalleeBottom(callee)
         caller == Frame(Running.src, Running.parent, Running.bottom,
                         Running.top + ins, Running.pc)
     IN  /\ mem' = [a \in DOMAIN mem |->
                      IF a \in (bottom - ins) .. (bottom - 1)
                      THEN CopiedInput(bottom - a, bottom) ELSE mem[a]]
         /\ frames' = Append([frames EXCEPT ![Len(frames)] = caller],
                             Frame(callee, sourceIndex, bottom, bottom - ins, 0))
         /\ sourceIndex' = callee
  /\ UNCHANGED <<status, request, freePtr, stackBottoms, stateKV, overlaid, traces, result>>

RevertGas ==
  /\ AtRun("call")
  /\ Len(frames) = MaxDepth
  /\ Revert("OutOfGas")

-----------------------------------------------------------------------------
(* The end of evalLoop. *)

(* Mutants of AtReturn: the loop leaves a call in the last place out, or ends *)
(* an op late.                                                                *)
AtReturnEarly ==
  /\ status = "eval"
  /\ \/ Running.pc = Len(Sources[Running.src].ops)
     \/ Running.pc + 1 = Len(Sources[Running.src].ops) /\ RunningOp.code = "call"
AtReturnLate == status = "eval" /\ Running.pc = Len(Sources[Running.src].ops) + 1

AtReturn ==
  /\ status = "eval"
  /\ Running.pc = Len(Sources[Running.src].ops)

(* Mutant of StackTrace: parent and source are confused. *)
StackTraceSwapped ==
  traces' = Append(traces,
    [parent |-> Running.src, source |-> Running.parent,
     stack |-> Items(Running.bottom - Running.top)])

(* The tracer is called with the stack of the source, from top to bottom. *)
StackTrace ==
  traces' = Append(traces,
    [parent |-> Running.parent, source |-> Running.src,
     stack |-> Items(Running.bottom - Running.top)])

(* Memory after the trace has put its word above the stack and restored it. *)
Traced == Restored(Borrowed(TraceWord(Running.parent, Running.src)))

(* Mutant of CallOutputs: all that the callee has. *)
AllOutputs(caller) == Sources[Running.src].outputs

CallOutputs(caller) == OpAt(expression, caller.src, caller.pc).outs

(* Mutant of SavedSourceIndex: the index stays that of the callee. *)
SavedIndexLost == Running.src

(* What state.sourceIndex was when the call began. *)
SavedSourceIndex == Running.parent

(* The outputs the caller asked for are copied from the top of the callee's *)
(* stack to the caller's in the same order.                                 *)
ReturnFromCall ==
  /\ AtReturn
  /\ Len(frames) > 1
  /\ StackTrace
  /\ LET caller == frames[Len(frames) - 1]
         newTop == caller.top - CallOutputs(caller)
     IN  /\ mem' = [a \in DOMAIN mem |->
                      IF a \in newTop .. (caller.top - 1)
                      THEN Traced[Running.top + (a - newTop)] ELSE Traced[a]]
         /\ frames' = [SubSeq(frames, 1, Len(frames) - 1) EXCEPT ![Len(frames) - 1] =
                         Frame(caller.src, caller.parent, caller.bottom, newTop, caller.pc + 1)]
         /\ sourceIndex' = SavedSourceIndex
  /\ UNCHANGED <<status, request, freePtr, stackBottoms, stateKV, overlaid, result>>

(* The stack is returned in place: the word above it becomes its length. *)
ReturnFromEval ==
  /\ AtReturn
  /\ Len(frames) = 1
  /\ StackTrace
  /\ LET declared == Sources[sourceIndex].outputs
         outputs == IF MaxOutputs < declared THEN MaxOutputs ELSE declared
     IN  /\ mem' = [Traced EXCEPT ![Running.top - 1] = LengthWord(outputs)]
         /\ result' = [stack |-> Items(outputs), kvs |-> stateKV]
  /\ status' = "ok"
  /\ UNCHANGED <<request, freePtr, stackBottoms, stateKV, overlaid, sourceIndex, frames>>

-----------------------------------------------------------------------------
RunOp ==
  \/ RunStack \/ RunConstant \/ RunContext \/ RunPure \/ RunEnsure
  \/ RunGet \/ RunSet \/ RunExtern \/ RunCall
  \/ RevertContext \/ RevertArithmetic \/ RevertEnsure
  \/ RevertStore \/ RevertExternCall \/ RevertExternOutputs \/ RevertGas

EvalNext ==
  \/ CallEval4 \/ AllocateStack \/ Deserialized
  \/ RejectOverlay \/ ApplyOverlay \/ RejectSourceIndex \/ RejectInputs \/ EnterEval
  \/ RunOp \/ ReturnFromCall \/ ReturnFromEval

Stopped ==
  /\ verdict \in Reverts \/ status \in {"ok"} \cup EvalReverts
  /\ UNCHANGED vars

Init == CheckInit /\ EvalInit

Next ==
  \/ CheckNext /\ UNCHANGED evalVars
  \/ EvalNext /\ UNCHANGED checkVars
  \/ Stopped

Spec == Init /\ [][Next]_vars

(* The EVM runs a transaction to its end. *)
FairSpec == Spec /\ WF_vars(Next)
-----------------------------------------------------------------------------
(* Properties. *)

Evaluating == status = "eval"

(* The words of the stack of a source, live or not, and its length word. *)
LengthAddress(s) == stackBottoms[s] - Sources[s].alloc - 1
LiveWords(frame) == frame.top .. (frame.bottom - 1)
ItemAddress(frame, i) == frame.bottom - (i + 1)

(* Some source has been called from within itself. *)
Recursive ==
  \E d, c \in DOMAIN frames : d < c /\ frames[d].src = frames[c].src

(* Every variable of the evaluation has its type. *)
EvalTypeOK ==
  /\ status \in Statuses
  /\ request \in Requests \cup {None}
  /\ DOMAIN mem = 1 .. (freePtr - 1)
  /\ stackBottoms \in Seq(Nat)
  /\ stateKV \in [Value -> Value \cup {Missing}]
  /\ overlaid \in Nat
  /\ frames \in Seq([src : Nat, parent : Nat, bottom : Nat, top : Nat, pc : Nat])

(* The check predicts the run: the running activation has exactly the stack *)
(* height that the integrity walk had before the same op, and a suspended   *)
(* one that height less the inputs of its call.                             *)
HeightAsChecked ==
  Evaluating =>
    \A d \in DOMAIN frames :
      LET f == frames[d]
          checked == profile[f.src][f.pc + 1].height
      IN f.bottom - f.top =
           IF d = Len(frames) THEN checked
           ELSE checked - OpAt(expression, f.src, f.pc).ins

(* No stack leaves its region: without any bounds check at run time, every *)
(* stack top lies between the bottom of its source's stack and the end of  *)
(* the allocation the source declares.                                     *)
StackInBounds ==
  Evaluating =>
    \A d \in DOMAIN frames :
      LET f == frames[d] IN
        /\ f.bottom = stackBottoms[f.src]
        /\ f.top \in (f.bottom - Sources[f.src].alloc) .. f.bottom

(* Stacks are not zeroed on allocation, and other words are borrowed for    *)
(* external calls: yet every word an op can reach or eval4 returns is one   *)
(* that this evaluation has computed.                                       *)
OnlyComputedWords ==
  /\ Evaluating =>
       \A d \in DOMAIN frames : \A a \in LiveWords(frames[d]) : mem[a] \in Value
  /\ status = "ok" => result.stack \in Seq(Value)

(* The length word of a stack is next to its last item and is overwritten by *)
(* a trace or an external call made at full height.  It is always repaired.  *)
LengthWordsIntact ==
  status # "ok" =>
    \A s \in DOMAIN stackBottoms :
      mem[LengthAddress(s)] = LengthWord(Sources[s].alloc)

(* The op "stack" finds its stack through state.sourceIndex and everything   *)
(* else through the locals of evalLoop.  The two never disagree, because     *)
(* every return from a call puts the caller's index back.                    *)
SourceIndexIsRunning == Evaluating => sourceIndex = Running.src

(* Each trace names a call that the bytecode makes and shows as many items   *)
(* as the source has outputs, and the last trace of a finished evaluation is *)
(* that of the entry source with the returned stack on top.                  *)
TracesAreFaithful ==
  /\ \A t \in 1 .. Len(traces) :
       LET trace == traces[t] IN
         /\ Len(trace.stack) = Sources[trace.source].outputs
         /\ \/ trace.parent = trace.source
            \/ \E op \in {Sources[trace.parent].ops[k] : k \in DOMAIN Sources[trace.parent].ops} :
                 op.code = "call" /\ op.arg = trace.source
  /\ status = "ok" =>
       LET last == traces[Len(traces)] IN
         /\ last.source = request.sourceIndex
         /\ last.parent = request.sourceIndex
         /\ SubSeq(last.stack, 1, Len(result.stack)) = result.stack

(* What a source's stack holds below its highwater, its inputs above all, is *)
(* immutable: no step changes it while the activation lasts, whoever runs.   *)
(* (A recursive call reuses the region, and never comes back.)               *)
ImmutableBelowHighwater ==
  [][Evaluating /\ status' = "eval" /\ ~Recursive' =>
       \A d \in DOMAIN frames \cap DOMAIN frames' :
         \A i \in 0 .. (profile[frames[d].src][frames[d].pc + 1].highwater - 1) :
           mem'[ItemAddress(frames[d], i)] = mem[ItemAddress(frames[d], i)]]_vars

(* A source runs in a scope of its own: while it runs, nothing it does       *)
(* changes an item of an activation that waits for it.                       *)
CallersUntouched ==
  [][Evaluating /\ status' = "eval" /\ ~Recursive' =>
       \A d \in DOMAIN frames :
         d < Len(frames) /\ d < Len(frames') =>
           \A a \in LiveWords(frames[d]) : mem'[a] = mem[a]]_vars

(* The integrity check does not reject recursion.  A recursive evaluation    *)
(* never returns, though: it reverts, for want of gas if nothing else.       *)
RecursionReverts == Recursive ~> status \in EvalReverts

(* Whatever expression is checked and evaluated, the transaction ends. *)
EvalEnds == <>(verdict \in Reverts \/ status \in {"ok"} \cup EvalReverts)
=============================================================================
