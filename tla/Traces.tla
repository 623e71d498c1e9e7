------------------------------- MODULE Traces -------------------------------
(***************************************************************************)
(* What the Rust crates make of the traces of an evaluation.  The          *)
(* interpreter calls an address without code with the stack of each source *)
(* that ends; the inspector of the forked EVM records all calls of the     *)
(* evaluation in one arena.  Traces are picked from the arena, named by    *)
(* paths of source indices, searched by such a path, and laid out as a     *)
(* table.                                                                  *)
(*                                                                         *)
(* A path is the sequence of its parts between the dots, a part the number *)
(* it parses as.  What does not parse is a part too, as is the name of a   *)
(* source whose own trace is missing.                                      *)
(***************************************************************************)
EXTENDS Integers, Sequences, SequencesExt

CONSTANTS
  TracerAddress,  (* RAIN_TRACER_ADDRESS.                                  *)
  WordBytes,      (* The bytes of a word: 32.                              *)
  UsizeMod        (* The numbers of a usize: 2^64.                         *)

ASSUME WordBytesAssumption == WordBytes \in Nat \ {0}
ASSUME UsizeAssumption == UsizeMod \in Nat \ {0}

(* A source index has two bytes. *)
IndexMod == 256 * 256

-----------------------------------------------------------------------------
(* RainSourceTrace and RainEvalResult. *)

U16(high, low) == 256 * high + low

WordAt(data, k) == SubSeq(data, 4 + (k - 1) * WordBytes + 1, 4 + k * WordBytes)

(* Mutant of FromData: the last word is taken for a partial one. *)
FromDataShort(data) ==
  [parent |-> U16(data[1], data[2]), source |-> U16(data[3], data[4]),
   stack  |-> [k \in 1 .. ((Len(data) - 5) \div WordBytes) |-> WordAt(data, k)]]

(* A word that is not there in full is left out. *)
FromData(data) ==
  [parent |-> U16(data[1], data[2]), source |-> U16(data[3], data[4]),
   stack  |-> [k \in 1 .. ((Len(data) - 4) \div WordBytes) |-> WordAt(data, k)]]

(* Calls to the tracer are traces, if they are long enough for the indices. *)
IsTrace(node) == node.address = TracerAddress /\ Len(node.data) >= 4

(* The last trace, which is that of the entry source, comes first. *)
RainTraces(nodes) ==
  LET read[n \in 0 .. Len(nodes)] ==
        IF n = 0 THEN << >>
        ELSE IF IsTrace(nodes[n]) THEN Append(read[n - 1], FromData(nodes[n].data))
        ELSE read[n - 1]
  IN  Reverse(read[Len(nodes)])

(* TryFrom<ForkTypedReturn<eval4Call>>. *)
FromTyped(raw, typed) ==
  [reverted |-> raw.reverted, stack |-> typed.stack, writes |-> typed.writes,
   traces |-> RainTraces(raw.traces)]

(* TryFrom<RawCallResult>: nothing decodes what was returned. *)
FromRaw(raw) == FromTyped(raw, [stack |-> << >>, writes |-> << >>])

-----------------------------------------------------------------------------
(* flattened_trace_path_names. *)

Part(n) == [number |-> n, parses |-> TRUE]
Unresolved(n) == [number |-> n, parses |-> FALSE]

(* Mutant of ParentPath: the first path of the parent, not the nearest. *)
FirstPath(paths, parent) == SelectInSeq(paths, LAMBDA path : Last(path) = Part(parent))

(* The nearest path before that ends in the parent, 0 if there is none. *)
ParentPath(paths, parent) == SelectLastInSeq(paths, LAMBDA path : Last(path) = Part(parent))

PathAfter(paths, trace) ==
  LET parent == ParentPath(paths, trace.parent) IN
    IF trace.parent = trace.source THEN <<Part(trace.source)>>
    ELSE IF parent = 0 THEN <<Unresolved(trace.parent), Part(trace.source)>>
    ELSE Append(paths[parent], Part(trace.source))

(* One path for each trace, with the paths before it to look in. *)
SourcePaths(traces) ==
  LET paths[n \in 0 .. Len(traces)] ==
        IF n = 0 THEN << >> ELSE Append(paths[n - 1], PathAfter(paths[n - 1], traces[n]))
  IN  paths[Len(traces)]

(* One name for each item of each stack. *)
FlattenedTracePathNames(traces) ==
  LET paths == SourcePaths(traces)
  IN  FlattenSeq([t \in DOMAIN traces |->
        [k \in 1 .. Len(traces[t].stack) |-> Append(paths[t], Part(k - 1))]])

RowOf(traces) == FlattenSeq([t \in DOMAIN traces |-> Reverse(traces[t].stack)])

(* The columns are named for the first result. *)
IntoFlattenedTable(results) ==
  [columns |-> IF results = << >> THEN << >> ELSE FlattenedTracePathNames(results[1].traces),
   rows    |-> [r \in DOMAIN results |-> RowOf(results[r].traces)]]

-----------------------------------------------------------------------------
(* search_trace_by_path. *)

ParsesU16(part) == part.parses /\ part.number < IndexMod
ParsesUsize(part) == part.parses /\ part.number < UsizeMod

Found(value) == [found |-> TRUE, value |-> value]
BadTracePath == [found |-> FALSE, error |-> "BadTracePath"]
TraceNotFound == [found |-> FALSE, error |-> "TraceNotFound"]

(* The first trace between a parent and a source, 0 if there is none. *)
TraceBetween(traces, parent, source) ==
  SelectInSeq(traces, LAMBDA trace : trace.parent = parent /\ trace.source = source)

(* Mutant of Reversed: indices count from 1. *)
ReversedOff(stack, index) == Len(stack) - index

(* The last item has index 0.  The index plus one wraps, in a release build. *)
Reversed(stack, index) == Len(stack) - ((index + 1) % UsizeMod)

ItemOf(stack, index) ==
  LET reversed == Reversed(stack, index)
  IN  IF reversed < 0 \/ reversed >= Len(stack) THEN TraceNotFound ELSE Found(stack[reversed + 1])

(* The first step along the sources of a path that does not parse, or that *)
(* no trace takes; the path's length if there is none.                     *)
FirstFailure(traces, sources) ==
  LET fails(k) == \/ ~ParsesU16(sources[k])
                  \/ TraceBetween(traces, sources[k - 1].number, sources[k].number) = 0
      failures == {k \in 2 .. Len(sources) : fails(k)}
  IN  IF failures = {} THEN Len(sources) + 1 ELSE CHOOSE k \in failures : \A l \in failures : k <= l

(* The parent of the root is the root itself. *)
ParentIndex(sources) ==
  IF Len(sources) = 1 THEN Last(sources).number ELSE sources[Len(sources) - 1].number

SearchTraceByPath(traces, path) ==
  IF Len(path) < 2 \/ ~ParsesUsize(Last(path)) THEN BadTracePath
  ELSE LET sources == Front(path)
           failure == FirstFailure(traces, sources)
       IN IF ~ParsesU16(sources[1]) THEN BadTracePath
          ELSE IF failure \in DOMAIN sources
          THEN IF ParsesU16(sources[failure]) THEN TraceNotFound ELSE BadTracePath
          ELSE LET t == TraceBetween(traces, ParentIndex(sources), Last(sources).number)
               IN IF t = 0 THEN TraceNotFound ELSE ItemOf(traces[t].stack, Last(path).number)
=============================================================================
