----------------------------- MODULE TracedEval -----------------------------
(***************************************************************************)
(* An evaluation under the inspector of the forked EVM, and what the Rust  *)
(* crates read from its traces.  The inspector records every call: that to *)
(* eval4, those to externs and to the store, and those to the tracer.      *)
(***************************************************************************)
EXTENDS Eval, Traces

CONSTANTS
  Interpreter, StoreContract, ExternContract,  (* Addresses.               *)
  Encoded(_)                                   (* The bytes of a word.     *)

(* A word has its bytes.  Numbers of sources and of outputs are one byte.  *)
ASSUME EncodedAssumption ==
  \A word \in Value : Encoded(word) \in Seq(Nat) /\ Len(Encoded(word)) = WordBytes
ASSUME CountsAssumption ==
  \A e \in Expressions :
    /\ Len(e.sources) <= IndexMod
    /\ \A s \in DOMAIN e.sources : e.sources[s].outputs < UsizeMod

VARIABLES
  arena,      (* The nodes of the call trace arena.                        *)
  callPaths   (* History: the path of the activation of each trace.        *)

tracedVars == <<vars, arena, callPaths>>

Node(address, data) == [address |-> address, data |-> data]

IndexBytes(n) == <<(n \div 256) % 256, n % 256>>

(* Sources are counted from 0 in the code, and from 1 in module Eval. *)
TracerCalldata(trace) ==
  IndexBytes(trace.parent - 1) \o IndexBytes(trace.source - 1) \o
    FlattenSeq([k \in DOMAIN trace.stack |-> Encoded(trace.stack[k])])

TracerCalls ==
  [k \in 1 .. (Len(traces') - Len(traces)) |->
     Node(TracerAddress, TracerCalldata(traces'[Len(traces) + k]))]

ReadsStore == AtRun("get") /\ stateKV[Item(1)] = Missing

(* The calls that a step makes. *)
RecordedCalls ==
  IF status = "unchecked" /\ status' = "allocate" THEN <<Node(Interpreter, << >>)>>
  ELSE IF AtRun("extern") THEN <<Node(ExternContract, << >>)>>
  ELSE IF ReadsStore THEN <<Node(StoreContract, << >>)>>
  ELSE TracerCalls

PathOfRunning == [d \in DOMAIN frames |-> Part(frames[d].src - 1)]

TracedInit == Init /\ arena = << >> /\ callPaths = << >>

TracedNext ==
  /\ Next
  /\ arena' = arena \o RecordedCalls
  /\ callPaths' = IF traces' # traces THEN Append(callPaths, PathOfRunning) ELSE callPaths

(* As in module Eval: the EVM runs a transaction to its end. *)
TracedSpec == TracedInit /\ [][TracedNext]_tracedVars /\ WF_tracedVars(TracedNext)

(* The results of the call that is recorded. *)
Raw == [reverted |-> status \in EvalReverts, traces |-> arena]
TypedReturn == [stack |-> result.stack, writes |-> << >>]
Read == FromRaw(Raw).traces
-----------------------------------------------------------------------------
(* Properties. *)

(* The inspector's arena holds calls to other contracts between those to the *)
(* tracer, and the words of a stack are cut from calldata: what is read from *)
(* it is, for each source that ended, the last first, its parent, its index  *)
(* and its stack, and for a finished evaluation the stack that is returned   *)
(* is the top of the first trace.                                            *)
ReadsWhatWasTraced ==
  /\ Len(Read) = Len(traces)
  /\ \A t \in DOMAIN Read :
       LET trace == traces[Len(traces) + 1 - t] IN
         /\ Read[t].parent + 1 = trace.parent
         /\ Read[t].source + 1 = trace.source
         /\ Read[t].stack = [k \in DOMAIN trace.stack |-> Encoded(trace.stack[k])]
  /\ status = "ok" =>
       LET r == FromTyped(Raw, TypedReturn) IN
         SubSeq(r.traces[1].stack, 1, Len(r.stack)) = [k \in DOMAIN r.stack |-> Encoded(r.stack[k])]

(* Parents are found by their index alone, among the traces that come before *)
(* in the reversed list.  This names each trace by the calls that lead to it *)
(* from the entry source; where an evaluation reverted, by those from the    *)
(* nearest source that has no trace, marked as unresolved.  No trace is      *)
(* ever attributed to a call that did not make it.                           *)
NamesArePaths ==
  LET paths == SourcePaths(Read) IN
    \A t \in DOMAIN paths :
      LET exact == callPaths[Len(callPaths) + 1 - t] IN
        IF paths[t][1].parses THEN paths[t] = exact
        ELSE /\ status # "ok"
             /\ IsSuffix([paths[t] EXCEPT ![1] = Part(@.number)], exact)

(* The calls of a source in the order of its ops. *)
CallOps(s) == SelectSeq(Sources[s].ops, LAMBDA op : op.code = "call")

(* The names of a whole evaluation that is at a path, read off the bytecode *)
(* with nothing run: the source itself, then its calls, the last one first. *)
Unfolded(depth) ==
  LET names[d \in 1 .. depth, s \in DOMAIN Sources] ==
        [k \in 1 .. Sources[s].outputs |-> <<Part(s - 1), Part(k - 1)>>] \o
        (IF d = 1 THEN << >>
         ELSE FlattenSeq([c \in DOMAIN CallOps(s) |->
                LET callee == CallOps(s)[Len(CallOps(s)) + 1 - c].arg
                IN  [n \in DOMAIN names[d - 1, callee] |-> <<Part(s - 1)>> \o names[d - 1, callee][n]]]))
  IN names

(* A table takes its columns from its first result.  They fit every complete *)
(* result of the same source, because they depend on the bytecode only, and  *)
(* not on the inputs, the context, the store or what an extern answered.     *)
NamesAreStatic ==
  status = "ok" =>
    LET table == IntoFlattenedTable(<<FromTyped(Raw, TypedReturn)>>) IN
      /\ table.columns = Unfolded(MaxDepth)[MaxDepth, request.sourceIndex]
      /\ Len(table.rows[1]) = Len(table.columns)

Between(path) == SubSeq(path, Len(path) - 2, Len(path) - 1)

(* Two calls are confused by a search when they are between the same sources. *)
OnePathBetween(names, path) ==
  \A n \in DOMAIN names :
    Len(path) > 2 /\ Len(names[n]) > 2 /\ Between(names[n]) = Between(path) =>
      SubSeq(names[n], 1, Len(names[n]) - 1) = SubSeq(path, 1, Len(path) - 1)

(* Names and search agree: the name of a column finds the value in it, and   *)
(* with an index past the stack nothing.  They do unless a source is called  *)
(* by the same parent twice, or along two paths.                             *)
SearchFindsColumn ==
  status = "ok" =>
    LET names == FlattenedTracePathNames(Read)
        row == RowOf(Read)
    IN  \A n \in DOMAIN names :
          /\ OnePathBetween(names, names[n]) /\ (\A m \in DOMAIN names : names[m] = names[n] => m = n) =>
               SearchTraceByPath(Read, names[n]) = Found(row[n])
          /\ \A index \in {Sources[s].outputs : s \in DOMAIN Sources} \cup {UsizeMod - 1} :
               LET beyond == [names[n] EXCEPT ![Len(names[n])] = Part(index)] IN
                 SearchTraceByPath(Read, beyond) = TraceNotFound
                   <=> \A m \in DOMAIN names : names[m] # beyond

(* "Searches for a stack value by a dot-separated path through the trace     *)
(* tree": what is found at a path is the value of an item at that path.      *)
SearchFindsThePath ==
  status = "ok" =>
    LET names == FlattenedTracePathNames(Read)
        row == RowOf(Read)
    IN  \A n \in DOMAIN names :
          \E m \in DOMAIN names :
            names[m] = names[n] /\ SearchTraceByPath(Read, names[n]) = Found(row[m])
=============================================================================
