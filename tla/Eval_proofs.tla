----------------------------- MODULE Eval_proofs -----------------------------
(***************************************************************************)
(* Proofs about the evaluation, for every expression that the integrity    *)
(* check may be given, every request, every extern and every call depth.   *)
(*                                                                         *)
(* No address is checked at run time.  That none is wrong follows from two *)
(* facts that the invariant EvalInv keeps side by side: the stack regions  *)
(* are disjoint (Layout), and each activation has the height that the walk *)
(* of the integrity check had at the same op (FrameFits).                  *)
(*                                                                         *)
(* While no source runs twice at a time, the words of each activation are  *)
(* its own: the last part shows that shared memory and pointers are then   *)
(* the private stacks of StackMachine.                                     *)
(***************************************************************************)
EXTENDS EvalMachine, IntegrityCheck_proofs

FrameType == [src : Nat, parent : Nat, bottom : Nat, top : Nat, pc : Nat]

(* The regions of the stacks b of an expression e lie one after the other, *)
(* each with its length word, below the free memory pointer.               *)
Layout(e, b, free) ==
  /\ b \in Seq(Nat) /\ Len(b) <= Len(e.sources) /\ free \in Nat \ {0}
  /\ \A s \in 1 .. Len(b) : b[s] - e.sources[s].alloc - 1 >= 1 /\ b[s] <= free
  /\ \A s, t \in 1 .. Len(b) : s < t => b[s] <= b[t] - e.sources[t].alloc - 1

(* The length words are in place in memory m. *)
LengthWordsAt(e, b, m) ==
  \A s \in 1 .. Len(b) :
    m[b[s] - e.sources[s].alloc - 1] = LengthWord(e.sources[s].alloc)

(* Frame f has the height of the walk at its op, less the items popped. *)
FrameFits(e, marks, b, f, popped) ==
  /\ f \in FrameType
  /\ f.src \in DOMAIN e.sources
  /\ f.pc <= Len(e.sources[f.src].ops)
  /\ f.bottom = b[f.src]
  /\ f.bottom - f.top = marks[f.src][f.pc + 1].height - popped

(* Frame f is suspended at the call that started frame g. *)
WaitsFor(e, f, g) ==
  /\ f.pc < Len(e.sources[f.src].ops)
  /\ OpAt(e, f.src, f.pc).code = "call"
  /\ OpAt(e, f.src, f.pc).arg = g.src
  /\ g.parent = f.src

HoldsWords(m, f) == \A a \in f.top .. (f.bottom - 1) : m[a] \in Value

(* What the frames fs satisfy while the source i runs. *)
FramesFit(e, marks, b, m, fs, i) ==
  /\ fs \in Seq(FrameType) /\ Len(fs) >= 1
  /\ FrameFits(e, marks, b, fs[Len(fs)], 0)
  /\ \A d \in 1 .. (Len(fs) - 1) :
       /\ FrameFits(e, marks, b, fs[d], OpAt(e, fs[d].src, fs[d].pc).ins)
       /\ WaitsFor(e, fs[d], fs[d + 1])
  /\ \A d \in 1 .. Len(fs) : HoldsWords(m, fs[d])
  /\ i = fs[Len(fs)].src

EvalInv ==
  /\ CheckInv
  /\ status \in Statuses /\ request \in Requests \cup {None}
  /\ status # "unchecked" => verdict = "ok" /\ request \in Requests
  /\ status = "unchecked" => Len(stackBottoms) = 0
  /\ Layout(expression, stackBottoms, freePtr)
  /\ mem = [a \in 1 .. (freePtr - 1) |-> mem[a]]
  /\ stateKV \in [Value -> Value \cup {Missing}]
  /\ overlaid \in Nat /\ overlaid % 2 = 0
  /\ frames \in Seq(FrameType)
  /\ status \in {"overlay", "eval"} => Len(stackBottoms) = Len(Sources)
  /\ status = "eval" =>
       FramesFit(expression, profile, stackBottoms, mem, frames, sourceIndex)
  /\ status # "ok" => LengthWordsAt(expression, stackBottoms, mem)
  /\ status = "ok" => result.stack \in Seq(Value)

-----------------------------------------------------------------------------
(* A nibble is a number. *)
LEMMA NibblesAreNumbers == Nibble \subseteq Nat
BY NibbleAssumption DEF Nibble

(* What an accepted expression guarantees. *)

LEMMA SourceFacts ==
  ASSUME CheckInv, verdict = "ok", NEW s \in DOMAIN Sources
  PROVE  /\ Sources[s] \in Source /\ s \in Nat \ {0}
         /\ Sources[s].alloc \in Nat /\ Sources[s].inputs \in Nat
         /\ Sources[s].outputs \in Nat /\ Len(Sources[s].ops) \in Nat
         /\ profile[s][1].height = Sources[s].inputs
         /\ profile[s][Len(Sources[s].ops) + 1].height = Sources[s].outputs
         /\ \A k \in 1 .. (Len(Sources[s].ops) + 1) :
              profile[s][k].height \in Nat /\ profile[s][k].height <= Sources[s].alloc
<1>1. /\ expression.sources \in Seq(Source) /\ profile \in Seq(Seq(MarkType))
      /\ Len(Sources) \in Nat /\ s \in 1 .. Len(Sources) /\ source = Len(Sources) + 1
  BY LenProperties DEF CheckInv, CheckTypeOK, CheckedBehindCursor, Sources, MarkType
<1>2. s \in DOMAIN profile /\ SourceChecked(s)
  BY <1>1 DEF CheckInv, CheckedBehindCursor
<1>3. Sources[s] \in Source /\ Len(Sources[s].ops) \in Nat
  BY <1>1, OpOfExpression DEF Sources
<1>4. Sources[s].alloc \in Nat /\ Sources[s].inputs \in Nat /\ Sources[s].outputs \in Nat
  BY <1>3 DEF Source
<1>5. profile[s] \in Seq(MarkType)
  BY <1>1, <1>2, LenProperties, ElementOfSeq
<1>6. Len(profile[s]) = Len(Sources[s].ops) + 1
  BY <1>2 DEF SourceChecked, OpsChecked, Sources
<1>7. \A k \in 1 .. (Len(Sources[s].ops) + 1) : profile[s][k].height \in Nat
  <2> SUFFICES ASSUME NEW k \in 1 .. (Len(Sources[s].ops) + 1)
               PROVE  profile[s][k].height \in Nat
    OBVIOUS
  <2>1. profile[s][k] \in MarkType
    BY <1>5, <1>6, ElementOfSeq
  <2> QED
    BY <2>1 DEF MarkType
<1> QED
  BY SMTT(30), <1>1, <1>2, <1>3, <1>4, <1>7 DEF SourceChecked, OpsChecked, Sources, Mark

(* What the check's acceptance says about each op of a source. *)
LEMMA OpFacts ==
  ASSUME CheckInv, verdict = "ok", NEW s \in DOMAIN Sources,
         NEW k \in Nat, k < Len(Sources[s].ops)
  PROVE  /\ OpAt(expression, s, k) \in Op
         /\ OpAt(expression, s, k).ins \in Nibble
         /\ OpAt(expression, s, k).outs \in Nibble
         /\ OpAt(expression, s, k).arg \in Nat
         /\ OpChecked(expression, OpAt(expression, s, k), profile[s][k + 1], profile[s][k + 2])
         /\ profile[s][k + 1].height \in Nat /\ profile[s][k + 2].height \in Nat
         /\ profile[s][k + 2].height <= Sources[s].alloc
<1>1. /\ expression.sources \in Seq(Source)
      /\ Len(Sources) \in Nat /\ s \in 1 .. Len(Sources) /\ source = Len(Sources) + 1
  BY LenProperties DEF CheckInv, CheckTypeOK, CheckedBehindCursor, Sources
<1>2. SourceChecked(s)
  BY <1>1 DEF CheckInv, CheckedBehindCursor
<1>3. Len(Sources[s].ops) \in Nat
      /\ \A j \in 1 .. (Len(Sources[s].ops) + 1) :
            profile[s][j].height \in Nat /\ profile[s][j].height <= Sources[s].alloc
  BY SourceFacts
<1>4. k + 1 \in 1 .. Len(Sources[s].ops)
  BY <1>3
<1>5. OpAt(expression, s, k) \in Op
  BY <1>1, <1>4, OpOfExpression DEF OpAt, Sources
<1>6. OpChecked(expression, OpAt(expression, s, k), profile[s][k + 1], profile[s][k + 2])
  <2>1. OpChecked(expression, Sources[s].ops[k + 1], profile[s][k + 1], profile[s][(k + 1) + 1])
    BY <1>2, <1>4 DEF SourceChecked, OpsChecked, Sources
  <2>2. (k + 1) + 1 = k + 2
    OBVIOUS
  <2> QED
    BY <2>1, <2>2 DEF OpAt, Sources
<1>7. /\ OpAt(expression, s, k).ins \in Nibble /\ OpAt(expression, s, k).outs \in Nibble
      /\ OpAt(expression, s, k).arg \in Nat
  BY <1>5 DEF Op
<1> QED
  BY <1>3, <1>4, <1>5, <1>6, <1>7

-----------------------------------------------------------------------------
(* What a step of an evaluation may do to memory and frames. *)

(* Memory m is mem but for words of the stack region of source s. *)
WritesStack(m, s) ==
  /\ m = [a \in 1 .. (freePtr - 1) |-> m[a]]
  /\ \A a \in 1 .. (freePtr - 1) :
       \/ m[a] = mem[a]
       \/ /\ a \in (stackBottoms[s] - Sources[s].alloc) .. (stackBottoms[s] - 1)
          /\ m[a] \in Value

(* The region of a source, in numbers. *)
LEMMA RegionFacts ==
  ASSUME EvalInv, status \in {"overlay", "eval"}, NEW s \in DOMAIN Sources
  PROVE  /\ s \in 1 .. Len(stackBottoms) /\ stackBottoms[s] \in Nat
         /\ Sources[s].alloc \in Nat /\ freePtr \in Nat
         /\ stackBottoms[s] - Sources[s].alloc - 1 >= 1
         /\ stackBottoms[s] <= freePtr
<1>1. verdict = "ok" /\ CheckInv /\ Len(stackBottoms) = Len(Sources)
  BY DEF EvalInv
<1>2. Sources \in Seq(Source)
  BY <1>1 DEF CheckInv, CheckTypeOK, Sources
<1>3. s \in 1 .. Len(stackBottoms)
  BY <1>1, <1>2, LenProperties
<1>4. Sources[s].alloc \in Nat
  BY <1>1, SourceFacts
<1>5. Layout(expression, stackBottoms, freePtr)
  BY DEF EvalInv
<1>6. stackBottoms[s] \in Nat
  BY <1>3, <1>5, ElementOfSeq DEF Layout
<1> QED
  BY <1>3, <1>4, <1>5, <1>6 DEF Layout, Sources

(* No length word is in a stack region: regions are disjoint. *)
LEMMA LengthWordsKept ==
  ASSUME EvalInv, status \in {"overlay", "eval"}, NEW s \in DOMAIN Sources, NEW m, WritesStack(m, s)
  PROVE  LengthWordsAt(expression, stackBottoms, m)
<1> SUFFICES ASSUME NEW t \in 1 .. Len(stackBottoms)
             PROVE  m[stackBottoms[t] - Sources[t].alloc - 1] = LengthWord(Sources[t].alloc)
  BY DEF LengthWordsAt, Sources
<1> DEFINE a == stackBottoms[t] - Sources[t].alloc - 1
<1>1. Sources \in Seq(Source) /\ Len(stackBottoms) = Len(Sources)
  BY DEF EvalInv, CheckInv, CheckTypeOK, Sources
<1>2. t \in DOMAIN Sources
  BY <1>1, LenProperties
<1>3. /\ stackBottoms[t] \in Nat /\ Sources[t].alloc \in Nat /\ a \in 1 .. (freePtr - 1)
      /\ stackBottoms[s] \in Nat /\ Sources[s].alloc \in Nat
      /\ s \in 1 .. Len(stackBottoms) /\ t \in Nat /\ s \in Nat
  BY SMTT(30), <1>2, RegionFacts
<1>4. a \notin (stackBottoms[s] - Sources[s].alloc) .. (stackBottoms[s] - 1)
  <2>1. \A i, j \in 1 .. Len(stackBottoms) :
          i < j => stackBottoms[i] <= stackBottoms[j] - Sources[j].alloc - 1
    BY DEF EvalInv, Layout, Sources
  <2>2. CASE s = t
    BY <2>2, <1>3
  <2>3. CASE s < t
    BY <2>1, <2>3, <1>3
  <2>4. CASE t < s
    <3>1. stackBottoms[t] <= stackBottoms[s] - Sources[s].alloc - 1
      BY <2>1, <2>4, <1>3
    <3>2. a < stackBottoms[t]
      BY <1>3, SMTT(30)
    <3>3. a < stackBottoms[s] - Sources[s].alloc
      <4> HIDE DEF a
      <4> QED
        BY <3>1, <3>2, <1>3
    <3> QED
      BY <3>3, <1>3
  <2> QED
    BY <2>2, <2>3, <2>4, <1>3
<1>5. m[a] = mem[a]
  BY <1>3, <1>4 DEF WritesStack
<1>6. mem[a] = LengthWord(Sources[t].alloc)
  BY DEF EvalInv, LengthWordsAt, Sources
<1> QED
  BY <1>5, <1>6

(* A frame that fits lies in the region of its source. *)
LEMMA FrameInRegion ==
  ASSUME EvalInv, status = "eval", NEW f, NEW popped \in Nat,
         FrameFits(expression, profile, stackBottoms, f, popped)
  PROVE  /\ f.src \in DOMAIN Sources /\ f.pc \in Nat
         /\ f.top \in Nat /\ f.bottom \in Nat
         /\ f.bottom = stackBottoms[f.src]
         /\ f.bottom - Sources[f.src].alloc >= 2
         /\ f.bottom - Sources[f.src].alloc <= f.top
         /\ f.bottom <= freePtr
         /\ profile[f.src][f.pc + 1].height \in Nat
<1>1. /\ f \in FrameType /\ f.src \in DOMAIN Sources /\ f.pc <= Len(Sources[f.src].ops)
      /\ f.bottom = stackBottoms[f.src]
      /\ f.bottom - f.top = profile[f.src][f.pc + 1].height - popped
  BY DEF FrameFits, Sources
<1>2. f.top \in Nat /\ f.bottom \in Nat /\ f.pc \in Nat
  BY <1>1 DEF FrameType
<1>3. verdict = "ok" /\ CheckInv
  BY DEF EvalInv
<1>4. Len(Sources[f.src].ops) \in Nat
      /\ \A k \in 1 .. (Len(Sources[f.src].ops) + 1) :
            profile[f.src][k].height \in Nat /\ profile[f.src][k].height <= Sources[f.src].alloc
  BY <1>1, <1>3, SourceFacts
<1>5. /\ profile[f.src][f.pc + 1].height \in Nat
      /\ profile[f.src][f.pc + 1].height <= Sources[f.src].alloc
  BY <1>1, <1>2, <1>4
<1>6. /\ Sources[f.src].alloc \in Nat /\ stackBottoms[f.src] - Sources[f.src].alloc - 1 >= 1
      /\ stackBottoms[f.src] <= freePtr
  BY <1>1, RegionFacts
<1>7. f.bottom - f.top <= Sources[f.src].alloc
  <2>1. profile[f.src][f.pc + 1].height - popped <= profile[f.src][f.pc + 1].height
    BY <1>5
  <2> QED
    BY SMTT(30), <2>1, <1>1, <1>2, <1>5, <1>6
<1>8. f.bottom - Sources[f.src].alloc <= f.top
  BY <1>2, <1>6, <1>7
<1> QED
  BY <1>1, <1>2, <1>5, <1>6, <1>8

(* The items of a frame stay words. *)
LEMMA WordsKept ==
  ASSUME EvalInv, status = "eval", NEW s \in DOMAIN Sources, NEW m, WritesStack(m, s),
         NEW f, NEW popped \in Nat,
         FrameFits(expression, profile, stackBottoms, f, popped), HoldsWords(mem, f)
  PROVE  HoldsWords(m, f)
<1> SUFFICES ASSUME NEW a \in f.top .. (f.bottom - 1)
             PROVE  m[a] \in Value
  BY DEF HoldsWords
<1>1. mem[a] \in Value
  BY DEF HoldsWords
<1>2. a \in 1 .. (freePtr - 1)
  <2>1. /\ f.src \in DOMAIN Sources /\ f.top \in Nat /\ f.bottom \in Nat
        /\ f.bottom - Sources[f.src].alloc >= 2
        /\ f.bottom - Sources[f.src].alloc <= f.top
        /\ f.bottom <= freePtr
    BY FrameInRegion
  <2>2. Sources[f.src].alloc \in Nat /\ freePtr \in Nat
    BY <2>1, RegionFacts
  <2> QED
    BY <2>1, <2>2
<1> QED
  BY <1>1, <1>2 DEF WritesStack

(* A suspended frame, in numbers. *)
LEMMA SuspendedFacts ==
  ASSUME EvalInv, status = "eval", NEW d \in 1 .. (Len(frames) - 1)
  PROVE  /\ OpAt(expression, frames[d].src, frames[d].pc).ins \in Nat
         /\ FrameFits(expression, profile, stackBottoms, frames[d],
                      OpAt(expression, frames[d].src, frames[d].pc).ins)
         /\ WaitsFor(expression, frames[d], frames[d + 1])
         /\ HoldsWords(mem, frames[d])
<1>1. FramesFit(expression, profile, stackBottoms, mem, frames, sourceIndex)
  BY DEF EvalInv
<1>2. Len(frames) \in Nat
  BY LenProperties DEF EvalInv
<1>3. /\ FrameFits(expression, profile, stackBottoms, frames[d],
                   OpAt(expression, frames[d].src, frames[d].pc).ins)
      /\ WaitsFor(expression, frames[d], frames[d + 1])
      /\ HoldsWords(mem, frames[d])
  BY <1>1, <1>2 DEF FramesFit
<1>4. /\ frames[d].src \in DOMAIN Sources /\ frames[d].pc \in Nat
      /\ frames[d].pc < Len(Sources[frames[d].src].ops)
  BY <1>3 DEF FrameFits, FrameType, WaitsFor, Sources
<1>5. OpAt(expression, frames[d].src, frames[d].pc).ins \in Nibble
  BY <1>4, OpFacts DEF EvalInv
<1> QED
  BY <1>3, <1>5, NibbleAssumption DEF Nibble

(* The frames still fit after a step that leaves n of them and moves only *)
(* the last of these.                                                     *)
LEMMA LastMoves ==
  ASSUME EvalInv, status = "eval", NEW s \in DOMAIN Sources, NEW m, WritesStack(m, s),
         NEW n \in 1 .. Len(frames), NEW fs \in Seq(FrameType), Len(fs) = n,
         \A d \in 1 .. (n - 1) : fs[d] = frames[d],
         fs[n].src = frames[n].src, fs[n].parent = frames[n].parent,
         FrameFits(expression, profile, stackBottoms, fs[n], 0), HoldsWords(m, fs[n])
  PROVE  FramesFit(expression, profile, stackBottoms, m, fs, fs[n].src)
<1>1. Len(frames) \in Nat
  BY LenProperties DEF EvalInv
<1>2. ASSUME NEW d \in 1 .. (n - 1)
      PROVE  /\ FrameFits(expression, profile, stackBottoms, fs[d],
                          OpAt(expression, fs[d].src, fs[d].pc).ins)
             /\ WaitsFor(expression, fs[d], fs[d + 1])
             /\ HoldsWords(m, fs[d])
  <2>1. d \in 1 .. (Len(frames) - 1) /\ fs[d] = frames[d]
    BY <1>1
  <2>2. HoldsWords(m, fs[d])
    BY <2>1, SuspendedFacts, WordsKept
  <2>3. WaitsFor(expression, fs[d], fs[d + 1])
    <3>1. fs[d + 1].src = frames[d + 1].src /\ fs[d + 1].parent = frames[d + 1].parent
      BY <1>1
    <3> QED
      BY <2>1, <3>1, SuspendedFacts DEF WaitsFor
  <2> QED
    BY <2>1, <2>2, <2>3, SuspendedFacts
<1>3. \A d \in 1 .. n : HoldsWords(m, fs[d])
  BY <1>1, <1>2
<1>4. /\ n \in Nat /\ n >= 1
      /\ FrameFits(expression, profile, stackBottoms, fs[Len(fs)], 0)
      /\ fs[n].src = fs[Len(fs)].src
  BY <1>1
<1>5. \A d \in 1 .. (Len(fs) - 1) :
        /\ FrameFits(expression, profile, stackBottoms, fs[d],
                     OpAt(expression, fs[d].src, fs[d].pc).ins)
        /\ WaitsFor(expression, fs[d], fs[d + 1])
  BY <1>2
<1> QED
  BY <1>3, <1>4, <1>5 DEF FramesFit

(* A step of an evaluation keeps the invariant, if its frames fit. *)
LEMMA EvalStep ==
  ASSUME EvalInv, status = "eval", status' = "eval",
         UNCHANGED <<checkVars, request, freePtr, stackBottoms, overlaid>>,
         stateKV' \in [Value -> Value \cup {Missing}],
         NEW s \in DOMAIN Sources, WritesStack(mem', s),
         FramesFit(expression, profile, stackBottoms, mem', frames', sourceIndex')
  PROVE  EvalInv'
<1>1. CheckInv'
  BY CheckInvNext DEF EvalInv
<1>2. UNCHANGED <<expression, verdict, profile>>
  BY DEF checkVars, walkVars
<1>3. LengthWordsAt(expression, stackBottoms, mem')
  BY LengthWordsKept
<1>4. mem' = [a \in 1 .. (freePtr - 1) |-> mem'[a]]
  BY DEF WritesStack
<1>5. frames' \in Seq(FrameType)
  BY DEF FramesFit
<1>6. Layout(expression, stackBottoms, freePtr)'
  BY <1>2 DEF EvalInv
<1>7. LengthWordsAt(expression, stackBottoms, mem)'
  BY <1>2, <1>3
<1>8. FramesFit(expression, profile, stackBottoms, mem, frames, sourceIndex)'
  BY <1>2
<1>9. Sources' = Sources
  BY <1>2 DEF Sources
<1> QED
  BY <1>1, <1>2, <1>4, <1>5, <1>6, <1>7, <1>8, <1>9 DEF EvalInv, Statuses

-----------------------------------------------------------------------------
(* The running frame. *)

LEMMA RunningFacts ==
  ASSUME EvalInv, status = "eval"
  PROVE  /\ Len(frames) \in Nat /\ Len(frames) >= 1 /\ frames \in Seq(FrameType)
         /\ Running \in FrameType /\ Running.src \in DOMAIN Sources
         /\ Running.src \in Nat /\ Running.parent \in Nat /\ Running.pc \in Nat
         /\ Running.top \in Nat /\ Running.bottom \in Nat
         /\ sourceIndex = Running.src
         /\ FrameFits(expression, profile, stackBottoms, Running, 0)
         /\ HoldsWords(mem, Running)
         /\ Running.bottom = stackBottoms[Running.src]
         /\ Sources[Running.src].alloc \in Nat /\ freePtr \in Nat
         /\ Running.bottom - Sources[Running.src].alloc >= 2
         /\ Running.bottom - Sources[Running.src].alloc <= Running.top
         /\ Running.bottom <= freePtr
         /\ profile[Running.src][Running.pc + 1].height \in Nat
         /\ Running.bottom - Running.top = profile[Running.src][Running.pc + 1].height
<1>1. FramesFit(expression, profile, stackBottoms, mem, frames, sourceIndex)
  BY DEF EvalInv
<1>2. frames \in Seq(FrameType) /\ Len(frames) \in Nat /\ Len(frames) >= 1
  BY <1>1, LenProperties DEF FramesFit
<1>3. /\ FrameFits(expression, profile, stackBottoms, Running, 0)
      /\ HoldsWords(mem, Running) /\ sourceIndex = Running.src
  BY <1>1, <1>2 DEF FramesFit, Running
<1>4. Running \in FrameType /\ Running.src \in DOMAIN Sources
  BY <1>3 DEF FrameFits, Sources
<1>5. Running.bottom - Running.top = profile[Running.src][Running.pc + 1].height - 0
  BY <1>3 DEF FrameFits
<1>6. /\ Running.src \in Nat /\ Running.parent \in Nat /\ Running.pc \in Nat
      /\ Running.top \in Nat /\ Running.bottom \in Nat
  BY <1>4 DEF FrameType
<1>7. /\ Running.bottom = stackBottoms[Running.src]
      /\ Running.bottom - Sources[Running.src].alloc >= 2
      /\ Running.bottom - Sources[Running.src].alloc <= Running.top
      /\ Running.bottom <= freePtr
      /\ profile[Running.src][Running.pc + 1].height \in Nat
  BY <1>3, FrameInRegion
<1>8. Sources[Running.src].alloc \in Nat /\ freePtr \in Nat
  BY <1>4, RegionFacts
<1> QED
  BY <1>2, <1>3, <1>4, <1>5, <1>6, <1>7, <1>8, SMTT(30)

(* The same about the op that is about to run. *)
LEMMA RunningOpFacts ==
  ASSUME EvalInv, NEW code, AtRun(code)
  PROVE  /\ status = "eval" /\ Running.pc < Len(Sources[Running.src].ops)
         /\ Running.pc + 1 <= Len(Sources[Running.src].ops)
         /\ RunningOp \in Op /\ RunningOp.code = code
         /\ RunningOp.ins \in Nat /\ RunningOp.outs \in Nat /\ RunningOp.arg \in Nat
         /\ RunningOp.ins \in Nibble
         /\ OpChecked(expression, RunningOp, profile[Running.src][Running.pc + 1],
                                             profile[Running.src][Running.pc + 2])
         /\ RunningOp.ins <= Running.bottom - Running.top
         /\ Running.bottom - Running.top - RunningOp.ins + RunningOp.outs
              = profile[Running.src][Running.pc + 2].height
         /\ profile[Running.src][Running.pc + 2].height \in Nat
         /\ profile[Running.src][Running.pc + 2].height <= Sources[Running.src].alloc
<1>1. status = "eval" /\ Running.pc < Len(Sources[Running.src].ops) /\ RunningOp.code = code
  BY DEF AtRun
<1>2. Running.src \in DOMAIN Sources /\ Running.pc \in Nat
  BY <1>1, RunningFacts
<1>3. /\ RunningOp \in Op /\ RunningOp.ins \in Nibble /\ RunningOp.outs \in Nibble
      /\ RunningOp.arg \in Nat
      /\ OpChecked(expression, RunningOp, profile[Running.src][Running.pc + 1],
                                          profile[Running.src][Running.pc + 2])
      /\ profile[Running.src][Running.pc + 2].height \in Nat
      /\ profile[Running.src][Running.pc + 2].height <= Sources[Running.src].alloc
  BY <1>1, <1>2, OpFacts DEF EvalInv, RunningOp
<1>4. RunningOp.ins \in Nat /\ RunningOp.outs \in Nat
  BY <1>3, NibbleAssumption DEF Nibble
<1>5. Running.bottom - Running.top = profile[Running.src][Running.pc + 1].height
  BY <1>1, RunningFacts
<1>6. Running.pc + 1 <= Len(Sources[Running.src].ops)
  <2>1. Len(Sources[Running.src].ops) \in Nat
    BY <1>2, SourceFacts DEF EvalInv
  <2> QED
    BY <2>1, <1>1, <1>2
<1> QED
  BY <1>1, <1>3, <1>4, <1>5, <1>6 DEF OpChecked

(* Memory changes in the n words from address newTop on, to words. *)
PushesWords(newTop, n) ==
  /\ mem' = [a \in 1 .. (freePtr - 1) |-> mem'[a]]
  /\ \A a \in 1 .. (freePtr - 1) :
       IF a \in newTop .. (newTop + n - 1) THEN mem'[a] \in Value ELSE mem'[a] = mem[a]

(* Where the stack top goes in an op, in plain numbers. *)
LEMMA HeightArithmetic ==
  ASSUME NEW bottom \in Nat, NEW top \in Nat, NEW ins \in Nat, NEW outs \in Nat,
         NEW alloc \in Nat, NEW height \in Nat, NEW newTop \in Int,
         newTop = top + ins - outs, ins <= bottom - top,
         bottom - top - ins + outs = height, height <= alloc, bottom - alloc >= 2
  PROVE  /\ newTop \in Nat /\ bottom - newTop = height /\ bottom - alloc <= newTop
         /\ top <= newTop + outs /\ newTop + outs <= bottom
OBVIOUS

(* Where the words of a region lie. *)
LEMMA RangeArithmetic ==
  ASSUME NEW bottom \in Nat, NEW alloc \in Nat, NEW low \in Nat, NEW n \in Nat,
         bottom - alloc <= low, low + n <= bottom,
         NEW a \in low .. (low + n - 1)
  PROVE  a \in (bottom - alloc) .. (bottom - 1)
OBVIOUS

(* Where an op leaves the stack top, going by the IO that it declares. *)
NewTop == Running.top + RunningOp.ins - RunningOp.outs

(* After an op a frame has the height that the check computed for the next. *)
LEMMA AdvanceHeights ==
  ASSUME EvalInv, NEW code, AtRun(code)
  PROVE  /\ NewTop \in Nat
         /\ Running.bottom - NewTop = profile[Running.src][Running.pc + 2].height
         /\ Running.bottom - Sources[Running.src].alloc <= NewTop
         /\ Running.top <= NewTop + RunningOp.outs
         /\ NewTop + RunningOp.outs <= Running.bottom
<1> DEFINE bottom == Running.bottom
           top == Running.top
           ins == RunningOp.ins
           outs == RunningOp.outs
           alloc == Sources[Running.src].alloc
           height == profile[Running.src][Running.pc + 2].height
<1>1. /\ ins \in Nat /\ outs \in Nat /\ ins <= bottom - top
      /\ bottom - top - ins + outs = height /\ height <= alloc /\ height \in Nat
  BY RunningOpFacts
<1>2. top \in Nat /\ bottom \in Nat /\ alloc \in Nat /\ bottom - alloc >= 2
  BY RunningOpFacts, RunningFacts
<1>3. NewTop \in Int /\ NewTop = top + ins - outs
  BY <1>1, <1>2 DEF NewTop
<1> HIDE DEF bottom, top, ins, outs, alloc, height
<1>4. /\ NewTop \in Nat /\ bottom - NewTop = height /\ bottom - alloc <= NewTop
      /\ top <= NewTop + outs /\ NewTop + outs <= bottom
  BY <1>1, <1>2, <1>3, HeightArithmetic
<1> QED
  BY <1>4 DEF bottom, top, ins, outs, alloc, height

(* An op pops its inputs, pushes words in their place, and advances. *)
LEMMA AdvanceKeeps ==
  ASSUME EvalInv, NEW code, AtRun(code), Advance(NewTop), UNCHANGED <<checkVars, evalFixed>>,
         stateKV' \in [Value -> Value \cup {Missing}],
         PushesWords(NewTop, RunningOp.outs)
  PROVE  EvalInv'
<1> DEFINE g == Frame(Running.src, Running.parent, Running.bottom, NewTop, Running.pc + 1)
           alloc == Sources[Running.src].alloc
<1>1. /\ status = "eval" /\ status' = "eval"
      /\ UNCHANGED <<request, freePtr, stackBottoms, overlaid, sourceIndex>>
  BY RunningOpFacts DEF evalFixed
<1>2. /\ Running.pc < Len(Sources[Running.src].ops)
      /\ RunningOp.ins \in Nat /\ RunningOp.outs \in Nat
      /\ RunningOp.ins <= Running.bottom - Running.top
      /\ Running.bottom - Running.top - RunningOp.ins + RunningOp.outs
           = profile[Running.src][Running.pc + 2].height
      /\ profile[Running.src][Running.pc + 2].height <= alloc
      /\ profile[Running.src][Running.pc + 2].height \in Nat
  BY RunningOpFacts
<1>3. /\ Running.top \in Nat /\ Running.bottom \in Nat /\ alloc \in Nat /\ freePtr \in Nat
      /\ Running.bottom - alloc >= 2 /\ Running.bottom <= freePtr
      /\ Running.bottom = stackBottoms[Running.src]
      /\ Running.src \in DOMAIN Sources /\ Running.src \in Nat /\ Running.parent \in Nat
      /\ Running.pc \in Nat
  BY <1>1, RunningFacts
<1>4. /\ Running.bottom - NewTop = profile[Running.src][Running.pc + 2].height
      /\ NewTop \in Nat /\ Running.bottom - alloc <= NewTop
      /\ Running.top <= NewTop + RunningOp.outs
      /\ NewTop + RunningOp.outs <= Running.bottom
  BY AdvanceHeights
<1>5. WritesStack(mem', Running.src)
  <2> SUFFICES ASSUME NEW a \in 1 .. (freePtr - 1), mem'[a] # mem[a]
               PROVE  /\ a \in (stackBottoms[Running.src] - alloc)
                                 .. (stackBottoms[Running.src] - 1)
                      /\ mem'[a] \in Value
    BY DEF WritesStack, PushesWords
  <2>1. a \in NewTop .. (NewTop + RunningOp.outs - 1) /\ mem'[a] \in Value
    BY DEF PushesWords
  <2> QED
    BY <2>1, <1>2, <1>3, <1>4, RangeArithmetic
<1>6. /\ g \in FrameType /\ g.src = Running.src /\ g.parent = Running.parent
      /\ g.bottom = Running.bottom /\ g.top = NewTop /\ g.pc = Running.pc + 1
  BY <1>3, <1>4 DEF Frame, FrameType
<1>7. FrameFits(expression, profile, stackBottoms, g, 0)
  <2>1. g.pc <= Len(Sources[Running.src].ops)
    BY RunningOpFacts, <1>6
  <2>2. (Running.pc + 1) + 1 = Running.pc + 2
    BY <1>3
  <2>3. g.bottom - g.top = profile[g.src][g.pc + 1].height - 0
    BY <1>2, <1>4, <1>6, <2>2
  <2> QED
    BY <1>3, <1>6, <2>1, <2>3 DEF FrameFits, Sources
<1>8. HoldsWords(mem', g)
  <2> SUFFICES ASSUME NEW a \in NewTop .. (Running.bottom - 1)
               PROVE  mem'[a] \in Value
    BY <1>6 DEF HoldsWords
  <2>1. a \in 1 .. (freePtr - 1)
    BY <1>3, <1>4
  <2>2. CASE a \in NewTop .. (NewTop + RunningOp.outs - 1)
    BY <2>1, <2>2 DEF PushesWords
  <2>3. CASE a \notin NewTop .. (NewTop + RunningOp.outs - 1)
    <3>1. a \in Running.top .. (Running.bottom - 1)
      BY <2>3, <1>2, <1>3, <1>4, SMTT(30)
    <3>2. mem[a] \in Value
      BY <3>1, <1>1, RunningFacts DEF HoldsWords
    <3> QED
      BY <2>1, <2>3, <3>2 DEF PushesWords
  <2> QED
    BY <2>2, <2>3
<1>9. frames \in Seq(FrameType) /\ Len(frames) \in Nat /\ Len(frames) >= 1
  BY <1>1, RunningFacts
<1>10. /\ frames' \in Seq(FrameType) /\ Len(frames') = Len(frames)
       /\ \A d \in 1 .. Len(frames) :
            frames'[d] = IF d = Len(frames) THEN g ELSE frames[d]
  <2> HIDE DEF g
  <2>1. frames' = [frames EXCEPT ![Len(frames)] = g]
    BY DEF Advance, g
  <2> QED
    BY <2>1, <1>6, <1>9, ExceptSeq
<1>11. FramesFit(expression, profile, stackBottoms, mem', frames', Running.src)
  <2> HIDE DEF g
  <2>1. Len(frames) \in 1 .. Len(frames)
    BY <1>9
  <2>2. frames'[Len(frames)] = g /\ \A d \in 1 .. (Len(frames) - 1) : frames'[d] = frames[d]
    BY <1>9, <1>10
  <2>3. g.src = frames[Len(frames)].src /\ g.parent = frames[Len(frames)].parent
    BY <1>6 DEF Running
  <2>4. FramesFit(expression, profile, stackBottoms, mem', frames',
                  frames'[Len(frames)].src)
    BY <1>1, <1>3, <1>5, <1>7, <1>8, <1>10, <2>1, <2>2, <2>3, LastMoves
  <2> QED
    BY <2>2, <2>4, <1>6
<1>12. sourceIndex' = Running.src
  BY <1>1, RunningFacts
<1> QED
  BY <1>1, <1>3, <1>5, <1>11, <1>12, EvalStep

-----------------------------------------------------------------------------
(* The ops. *)

(* What the integrity check has established of the running op. *)
LEMMA RunningIO ==
  ASSUME EvalInv, NEW code, AtRun(code)
  PROVE  /\ code \in {"stack", "constant", "context"} => RunningOp.ins = 0
         /\ code \in {"stack", "constant", "context", "get"} \cup PureCodes => RunningOp.outs = 1
         /\ code = "get" => RunningOp.ins = 1
         /\ code \in {"set", "ensure"} => RunningOp.ins = 2 /\ RunningOp.outs = 0
         /\ code = "if" => RunningOp.ins = 3
         /\ code = "call" => /\ RunningOp.arg \in DOMAIN Sources
                             /\ RunningOp.ins = Sources[RunningOp.arg].inputs
                             /\ RunningOp.outs <= Sources[RunningOp.arg].outputs
         /\ code = "stack" => RunningOp.arg < Running.bottom - Running.top
         /\ code = "constant" => RunningOp.arg \in DOMAIN expression.constants
<1> DEFINE h == profile[Running.src][Running.pc + 1].height
<1>1. /\ RunningOp.code = code
      /\ <<RunningOp.ins, RunningOp.outs>> \in CalcIO(expression, RunningOp)
      /\ OperandRevert(expression, RunningOp, h) = "none"
  BY RunningOpFacts DEF OpChecked
<1>2. h = Running.bottom - Running.top /\ h \in Nat
  BY RunningOpFacts, RunningFacts
<1>3. /\ code = "stack" => ~(RunningOp.arg >= h)
      /\ code = "constant" => RunningOp.arg \in DOMAIN expression.constants
      /\ code = "call" => /\ RunningOp.arg \in DOMAIN Sources
                          /\ ~(Sources[RunningOp.arg].outputs < RunningOp.outs)
  BY <1>1 DEF OperandRevert, OutOfBoundsRead, OutOfBoundsConstant, SourceOutOfBounds,
              OutputsExceedSource, Sources
<1>4. code = "stack" => RunningOp.arg < Running.bottom - Running.top
  BY <1>2, <1>3, RunningOpFacts
<1>5. code = "call" => RunningOp.outs <= Sources[RunningOp.arg].outputs
  <2> SUFFICES ASSUME code = "call"
               PROVE  RunningOp.outs <= Sources[RunningOp.arg].outputs
    OBVIOUS
  <2>1. Sources[RunningOp.arg].outputs \in Nat /\ RunningOp.outs \in Nat
    BY <1>3, RunningOpFacts, SourceFacts DEF EvalInv
  <2> QED
    BY <2>1, <1>3
<1> QED
  BY <1>1, <1>3, <1>4, <1>5 DEF CalcIO, FixedIO, PureCodes, Sources

(* The inputs of the running op are words. *)
LEMMA ItemsAreWords ==
  ASSUME EvalInv, NEW code, AtRun(code), NEW k \in 1 .. RunningOp.ins
  PROVE  Item(k) \in Value
<1> DEFINE top == Running.top
           bottom == Running.bottom
           ins == RunningOp.ins
<1>1. /\ top \in Nat /\ bottom \in Nat /\ ins \in Nat /\ ins <= bottom - top
      /\ k \in 1 .. ins
  BY RunningOpFacts, RunningFacts
<1>2. top + k - 1 \in top .. (bottom - 1)
  <2> HIDE DEF top, bottom, ins
  <2> QED
    BY <1>1
<1>3. HoldsWords(mem, Running)
  BY RunningOpFacts, RunningFacts
<1> QED
  BY <1>2, <1>3 DEF HoldsWords, Item

(* An op that pushes one word. *)
LEMMA PopPushKeeps ==
  ASSUME EvalInv, NEW code, AtRun(code), RunningOp.outs = 1, NEW word \in Value,
         PopPush(RunningOp.ins, word), UNCHANGED checkVars,
         stateKV' \in [Value -> Value \cup {Missing}]
  PROVE  EvalInv'
<1>1. NewTop = Running.top + RunningOp.ins - 1
  BY DEF NewTop
<1>2. /\ mem' = [mem EXCEPT ![NewTop] = word]
      /\ Advance(NewTop) /\ UNCHANGED evalFixed
  BY <1>1 DEF PopPush
<1>3. NewTop \in Nat
  BY AdvanceHeights
<1>4. mem = [a \in 1 .. (freePtr - 1) |-> mem[a]]
  BY DEF EvalInv
<1>5. PushesWords(NewTop, 1)
  <2>1. mem' = [a \in 1 .. (freePtr - 1) |-> IF a = NewTop THEN word ELSE mem[a]]
    BY <1>2, <1>4
  <2>2. NewTop .. (NewTop + 1 - 1) = {NewTop}
    BY <1>3
  <2> QED
    BY <2>1, <2>2 DEF PushesWords
<1>6. PushesWords(NewTop, RunningOp.outs)
  BY <1>5
<1> QED
  BY <1>2, <1>6, AdvanceKeeps

(* stack pushes a word that was on the same stack. *)
LEMMA RunStackKeeps ==
  ASSUME EvalInv, RunStack, UNCHANGED checkVars
  PROVE  EvalInv'
<1>1. /\ AtRun("stack") /\ PopPush(0, StackItem(RunningOp.arg)) /\ stateKV' = stateKV
  BY DEF RunStack
<1>2. RunningOp.ins = 0 /\ RunningOp.outs = 1 /\ RunningOp.arg < Running.bottom - Running.top
  BY <1>1, RunningIO
<1>3. StackItem(RunningOp.arg) \in Value
  <2> DEFINE top == Running.top
             bottom == Running.bottom
             arg == RunningOp.arg
  <2>1. /\ top \in Nat /\ bottom \in Nat /\ arg \in Nat /\ arg < bottom - top
        /\ bottom = stackBottoms[sourceIndex]
    BY <1>1, <1>2, RunningOpFacts, RunningFacts
  <2>2. bottom - (arg + 1) \in top .. (bottom - 1)
    <3> HIDE DEF top, bottom, arg
    <3> QED
      BY <2>1
  <2>3. HoldsWords(mem, Running)
    BY <1>1, RunningOpFacts, RunningFacts
  <2> QED
    BY <2>1, <2>2, <2>3 DEF HoldsWords, StackItem
<1>4. stateKV' \in [Value -> Value \cup {Missing}]
  BY <1>1 DEF EvalInv
<1> QED
  BY <1>1, <1>2, <1>3, <1>4, PopPushKeeps

(* constant pushes a word. *)
LEMMA RunConstantKeeps ==
  ASSUME EvalInv, RunConstant, UNCHANGED checkVars
  PROVE  EvalInv'
<1>1. /\ AtRun("constant") /\ PopPush(0, expression.constants[RunningOp.arg])
      /\ stateKV' = stateKV
  BY DEF RunConstant
<1>2. /\ RunningOp.ins = 0 /\ RunningOp.outs = 1
      /\ RunningOp.arg \in DOMAIN expression.constants
  BY <1>1, RunningIO
<1>3. expression.constants[RunningOp.arg] \in Value
  <2>1. expression.constants \in Seq(Value)
    BY DEF EvalInv, CheckInv, CheckTypeOK
  <2> QED
    BY <2>1, <1>2, LenProperties, ElementOfSeq
<1>4. stateKV' \in [Value -> Value \cup {Missing}]
  BY <1>1 DEF EvalInv
<1> QED
  BY <1>1, <1>2, <1>3, <1>4, PopPushKeeps

(* context pushes a word. *)
LEMMA RunContextKeeps ==
  ASSUME EvalInv, RunContext, UNCHANGED checkVars
  PROVE  EvalInv'
<1>1. /\ AtRun("context") /\ ContextHas
      /\ PopPush(0, request.context[ContextRow][ContextColumn]) /\ stateKV' = stateKV
  BY DEF RunContext
<1>2. RunningOp.ins = 0 /\ RunningOp.outs = 1
  BY <1>1, RunningIO
<1>3. request.context[ContextRow][ContextColumn] \in Value
  <2>1. request \in Requests
    BY <1>1 DEF EvalInv, AtRun
  <2>2. request.context[ContextRow] \in Seq(Value)
    BY <2>1, <1>1, RequestsAssumption DEF ContextHas
  <2> QED
    BY <2>2, <1>1, LenProperties, ElementOfSeq DEF ContextHas
<1>4. stateKV' \in [Value -> Value \cup {Missing}]
  BY <1>1 DEF EvalInv
<1> QED
  BY <1>1, <1>2, <1>3, <1>4, PopPushKeeps

(* The words that compute replace their inputs by one word. *)
LEMMA RunPureKeeps ==
  ASSUME EvalInv, RunPure, UNCHANGED checkVars
  PROVE  EvalInv'
<1>1. PICK code \in PureCodes :
        /\ AtRun(code)
        /\ PopPush(RunningOp.ins, PureResult(code, Items(RunningOp.ins)))
        /\ stateKV' = stateKV
  BY DEF RunPure
<1>2. RunningOp.outs = 1 /\ (code = "if" => RunningOp.ins = 3)
  BY <1>1, RunningIO
<1>3. RunningOp.ins \in Nibble /\ RunningOp.ins \in Nat
  BY <1>1, RunningOpFacts
<1>4. Items(RunningOp.ins) \in [1 .. RunningOp.ins -> Value]
  BY <1>1, ItemsAreWords DEF Items
<1>5. PureResult(code, Items(RunningOp.ins)) \in Value
  <2>1. CASE code = "if"
    <3>1. Items(3) \in [1 .. 3 -> Value] /\ RunningOp.ins = 3
      BY <2>1, <1>2, <1>4
    <3> QED
      BY <3>1, <2>1 DEF PureResult
  <2>2. CASE code # "if"
    <3>1. code \in {"add", "hash"}
      BY <2>2 DEF PureCodes
    <3>2. Apply(code, Items(RunningOp.ins)) \in Value
      BY <3>1, <1>3, <1>4, ApplyAssumption
    <3> QED
      BY <2>2, <3>2 DEF PureResult
  <2> QED
    BY <2>1, <2>2
<1>6. stateKV' \in [Value -> Value \cup {Missing}]
  BY <1>1 DEF EvalInv
<1> QED
  BY <1>1, <1>2, <1>5, <1>6, PopPushKeeps

(* An op that only pops. *)
LEMMA PopKeeps ==
  ASSUME EvalInv, NEW code \in {"set", "ensure"}, AtRun(code),
         Advance(Running.top + 2), UNCHANGED <<checkVars, evalFixed, mem>>,
         stateKV' \in [Value -> Value \cup {Missing}]
  PROVE  EvalInv'
<1>1. RunningOp.ins = 2 /\ RunningOp.outs = 0
  BY RunningIO
<1>2. NewTop = Running.top + 2 /\ NewTop \in Nat
  BY <1>1, AdvanceHeights, RunningOpFacts, RunningFacts DEF NewTop
<1>3. PushesWords(NewTop, RunningOp.outs)
  <2>1. mem' = mem /\ mem = [a \in 1 .. (freePtr - 1) |-> mem[a]]
    BY DEF EvalInv
  <2>2. NewTop .. (NewTop + 0 - 1) = {}
    BY <1>2
  <2> QED
    BY <1>1, <2>1, <2>2 DEF PushesWords
<1> QED
  BY <1>2, <1>3, AdvanceKeeps

(* ensure takes two words and leaves none. *)
LEMMA RunEnsureKeeps ==
  ASSUME EvalInv, RunEnsure, UNCHANGED checkVars
  PROVE  EvalInv'
<1>1. stateKV' \in [Value -> Value \cup {Missing}]
  BY DEF EvalInv, RunEnsure
<1> QED
  BY <1>1, PopKeeps DEF RunEnsure

(* set takes a key and a value. *)
LEMMA RunSetKeeps ==
  ASSUME EvalInv, RunSet, UNCHANGED checkVars
  PROVE  EvalInv'
<1>1. AtRun("set") /\ stateKV' = [stateKV EXCEPT ![Item(1)] = Item(2)]
  BY DEF RunSet
<1>2. RunningOp.ins = 2
  BY <1>1, RunningIO
<1>3. Item(1) \in Value /\ Item(2) \in Value
  BY <1>1, <1>2, ItemsAreWords
<1>4. stateKV' \in [Value -> Value \cup {Missing}]
  BY <1>1, <1>3 DEF EvalInv
<1> QED
  BY <1>4, PopKeeps DEF RunSet

(* get replaces a key by a word, from the cache or the store. *)
LEMMA RunGetKeeps ==
  ASSUME EvalInv, RunGet, UNCHANGED checkVars
  PROVE  EvalInv'
<1> DEFINE key == Item(1)
           value == IF stateKV[key] = Missing THEN request.store[key] ELSE stateKV[key]
<1>1. /\ AtRun("get") /\ stateKV' = [stateKV EXCEPT ![key] = value]
      /\ PopPush(1, value)
  BY DEF RunGet
<1>2. RunningOp.ins = 1 /\ RunningOp.outs = 1
  BY <1>1, RunningIO
<1>3. key \in Value
  BY <1>1, <1>2, ItemsAreWords
<1>4. request \in Requests
  BY <1>1 DEF EvalInv, AtRun
<1>5. stateKV \in [Value -> Value \cup {Missing}]
  BY DEF EvalInv
<1>6. value \in Value
  BY <1>3, <1>4, <1>5, RequestsAssumption
<1>7. stateKV' \in [Value -> Value \cup {Missing}]
  BY <1>1, <1>3, <1>5, <1>6
<1> QED
  BY <1>1, <1>2, <1>6, <1>7, PopPushKeeps

(* What is borrowed above the stack of the running frame is given back. *)
LEMMA RestoredIsMem ==
  ASSUME EvalInv, status = "eval", NEW word
  PROVE  Restored(Borrowed(word)) = mem
<1>1. mem = [a \in 1 .. (freePtr - 1) |-> mem[a]]
  BY DEF EvalInv
<1> QED
  BY <1>1 DEF Restored, Borrowed

(* extern puts back what it borrows and pushes words. *)
LEMMA RunExternKeeps ==
  ASSUME EvalInv, RunExtern, UNCHANGED checkVars
  PROVE  EvalInv'
<1> DEFINE outs == RunningOp.outs
           popped == Running.top + RunningOp.ins
<1>1. AtRun("extern") /\ UNCHANGED <<evalFixed, stateKV>>
  BY DEF RunExtern
<1>2. PICK outputs \in ExternAnswers :
        /\ Len(outputs) = outs
        /\ mem' = [a \in DOMAIN mem |->
                     IF a \in (popped - outs) .. (popped - 1) THEN outputs[popped - a]
                     ELSE Restored(Borrowed(LengthWord(RunningOp.ins)))[a]]
        /\ Advance(popped - outs)
  BY DEF RunExtern
<1>3. status = "eval" /\ outs \in Nat /\ popped \in Nat
  <2>1. status = "eval" /\ RunningOp.outs \in Nat /\ RunningOp.ins \in Nat
    BY <1>1, RunningOpFacts
  <2>2. Running.top \in Nat
    BY <2>1, RunningFacts
  <2> QED
    BY <2>1, <2>2
<1>4. NewTop = popped - outs /\ NewTop \in Nat
  <2>1. NewTop \in Nat
    BY <1>1, AdvanceHeights
  <2>2. NewTop = popped - outs
    <3>1. /\ RunningOp.outs \in Nat /\ RunningOp.ins \in Nat /\ Running.top \in Nat
      BY <1>1, <1>3, RunningOpFacts, RunningFacts
    <3> QED
      BY <3>1 DEF NewTop
  <2> QED
    BY <2>1, <2>2
<1>5. mem = [a \in 1 .. (freePtr - 1) |-> mem[a]]
  BY DEF EvalInv
<1>6. Restored(Borrowed(LengthWord(RunningOp.ins))) = mem
  BY <1>3, RestoredIsMem
<1>7. DOMAIN mem = 1 .. (freePtr - 1)
  BY <1>5
<1>8. mem' = [a \in 1 .. (freePtr - 1) |->
               IF a \in NewTop .. (popped - 1) THEN outputs[popped - a] ELSE mem[a]]
  BY <1>2, <1>4, <1>6, <1>7
<1>9. outputs \in Seq(Value) /\ Len(outputs) = outs
  BY <1>2, ExternAssumption
<1>10. PushesWords(NewTop, outs)
  <2>1. NewTop + outs - 1 = popped - 1
    BY <1>3, <1>4
  <2>2. ASSUME NEW a \in NewTop .. (popped - 1)
        PROVE  outputs[popped - a] \in Value
    <3>1. popped - a \in 1 .. outs
      BY <1>3, <1>4
    <3> QED
      BY <3>1, <1>9, ElementOfSeq
  <2> QED
    BY <1>8, <2>1, <2>2 DEF PushesWords
<1>11. stateKV' \in [Value -> Value \cup {Missing}]
  BY <1>1 DEF EvalInv
<1>12. Advance(NewTop)
  BY <1>2, <1>4
<1> QED
  BY <1>1, <1>10, <1>11, <1>12, AdvanceKeeps

-----------------------------------------------------------------------------
(* Calls. *)

(* Each word copied to the callee's stack is one of the inputs. *)
LEMMA CopiedIsWord ==
  ASSUME EvalInv, AtRun("call"), NEW k \in 1 .. RunningOp.ins, NEW bottom \in Nat
  PROVE  CopiedInput(k, bottom) \in Value
<1>1. RunningOp.ins \in Nat
  BY RunningOpFacts
<1>2. \A j \in 1 .. RunningOp.ins : Item(j) \in Value
  BY ItemsAreWords
<1>3. \A j \in 1 .. (k - 1) : j \in 1 .. RunningOp.ins
  BY <1>1
<1> QED
  BY <1>2, <1>3 DEF CopiedInput

(* A call leaves a caller that waits and a callee with its inputs. *)
LEMMA RunCallKeeps ==
  ASSUME EvalInv, RunCall, UNCHANGED checkVars
  PROVE  EvalInv'
<1> DEFINE n == Len(frames)
           callee == RunningOp.arg
           ins == RunningOp.ins
           bottom == stackBottoms[callee]
           caller == Frame(Running.src, Running.parent, Running.bottom,
                           Running.top + ins, Running.pc)
           g == Frame(callee, sourceIndex, bottom, bottom - ins, 0)
           marked == [frames EXCEPT ![n] = caller]
<1>1. /\ AtRun("call") /\ status = "eval" /\ status' = "eval"
      /\ mem' = [a \in DOMAIN mem |->
                   IF a \in (bottom - ins) .. (bottom - 1)
                   THEN CopiedInput(bottom - a, bottom) ELSE mem[a]]
      /\ frames' = Append(marked, g)
      /\ sourceIndex' = callee
      /\ UNCHANGED <<request, freePtr, stackBottoms, stateKV, overlaid>>
  BY DEF RunCall, CalleeBottom, AtRun
<1>2. /\ ins \in Nat /\ callee \in DOMAIN Sources /\ ins = Sources[callee].inputs
      /\ ins <= Running.bottom - Running.top
  BY <1>1, RunningIO, RunningOpFacts
<1>3. /\ bottom \in Nat /\ Sources[callee].alloc \in Nat /\ freePtr \in Nat
      /\ bottom - Sources[callee].alloc - 1 >= 1 /\ bottom <= freePtr
  BY <1>1, <1>2, RegionFacts
<1>4. /\ profile[callee][1].height = ins /\ ins <= Sources[callee].alloc
      /\ Len(Sources[callee].ops) \in Nat /\ callee \in Nat
  <2>1. CheckInv /\ verdict = "ok"
    BY <1>1 DEF EvalInv
  <2>2. /\ profile[callee][1].height = Sources[callee].inputs
        /\ Len(Sources[callee].ops) \in Nat /\ callee \in Nat
        /\ \A k \in 1 .. (Len(Sources[callee].ops) + 1) :
             profile[callee][k].height <= Sources[callee].alloc
    BY <2>1, <1>2, SourceFacts
  <2>3. 1 \in 1 .. (Len(Sources[callee].ops) + 1)
    BY <2>2
  <2>4. profile[callee][1].height <= Sources[callee].alloc
    BY <2>2, <2>3
  <2> QED
    BY <2>2, <2>4, <1>2
<1>5. /\ n \in Nat /\ n >= 1 /\ frames \in Seq(FrameType) /\ Running = frames[n]
      /\ sourceIndex = Running.src /\ Running.src \in DOMAIN Sources
      /\ Running.src \in Nat /\ Running.parent \in Nat /\ Running.pc \in Nat
      /\ Running.top \in Nat /\ Running.bottom \in Nat /\ Running.bottom <= freePtr
      /\ FrameFits(expression, profile, stackBottoms, Running, 0)
      /\ HoldsWords(mem, Running)
      /\ Running.bottom - Running.top = profile[Running.src][Running.pc + 1].height
  BY <1>1, RunningFacts DEF Running
<1>6. WritesStack(mem', callee) /\ \A a \in (bottom - ins) .. (bottom - 1) : mem'[a] \in Value
  <2>1. mem = [a \in 1 .. (freePtr - 1) |-> mem[a]]
    BY DEF EvalInv
  <2>2. DOMAIN mem = 1 .. (freePtr - 1)
    BY <2>1
  <2>3. mem' = [a \in 1 .. (freePtr - 1) |->
                  IF a \in (bottom - ins) .. (bottom - 1)
                  THEN CopiedInput(bottom - a, bottom) ELSE mem[a]]
    BY <1>1, <2>2
  <2>4. ASSUME NEW a \in (bottom - ins) .. (bottom - 1)
        PROVE  /\ CopiedInput(bottom - a, bottom) \in Value
               /\ a \in (bottom - Sources[callee].alloc) .. (bottom - 1)
               /\ a \in 1 .. (freePtr - 1)
    <3>1. bottom - a \in 1 .. ins
      BY <1>2, <1>3
    <3>2. CopiedInput(bottom - a, bottom) \in Value
      BY <3>1, <1>1, <1>3, CopiedIsWord
    <3>3. a \in (bottom - Sources[callee].alloc) .. (bottom - 1)
      BY <1>2, <1>3, <1>4
    <3>4. a \in 1 .. (freePtr - 1)
      BY <3>3, <1>3
    <3> QED
      BY <3>2, <3>3, <3>4
  <2> QED
    BY <2>3, <2>4 DEF WritesStack
<1>7. /\ caller \in FrameType /\ caller.src = Running.src /\ caller.parent = Running.parent
      /\ caller.bottom = Running.bottom /\ caller.top = Running.top + ins
      /\ caller.pc = Running.pc
  <2>1. Running.top + ins \in Nat
    BY <1>2, <1>5, SMTT(30)
  <2>2. /\ Running.src \in Nat /\ Running.parent \in Nat
        /\ Running.bottom \in Nat /\ Running.pc \in Nat
    BY <1>5
  <2> HIDE DEF ins
  <2> QED
    BY <2>1, <2>2 DEF Frame, FrameType
<1>8. /\ g \in FrameType /\ g.src = callee /\ g.parent = Running.src
      /\ g.bottom = bottom /\ g.top = bottom - ins /\ g.pc = 0
  <2>1. bottom - ins \in Nat
    BY <1>2, <1>3, <1>4
  <2>2. 0 \in Nat
    OBVIOUS
  <2>3. /\ callee \in Nat /\ sourceIndex \in Nat /\ bottom \in Nat
        /\ sourceIndex = Running.src
    BY <1>3, <1>4, <1>5
  <2> HIDE DEF ins, callee, bottom
  <2> QED
    BY <2>1, <2>2, <2>3 DEF Frame, FrameType
<1>9. FrameFits(expression, profile, stackBottoms, g, 0)
  <2>1. g.bottom - g.top = ins - 0
    BY <1>2, <1>3, <1>8
  <2>2. g.pc + 1 = 1 /\ g.pc <= Len(Sources[callee].ops)
    BY <1>4, <1>8
  <2> QED
    BY <2>1, <2>2, <1>2, <1>4, <1>8 DEF FrameFits, Sources
<1>10. FrameFits(expression, profile, stackBottoms, caller,
                 OpAt(expression, caller.src, caller.pc).ins)
  <2>1. OpAt(expression, caller.src, caller.pc).ins = ins
    BY <1>7 DEF RunningOp
  <2>2. caller.bottom - caller.top = profile[Running.src][Running.pc + 1].height - ins
    <3>1. Running.bottom - (Running.top + ins) = (Running.bottom - Running.top) - ins
      BY <1>2, <1>5
    <3> QED
      BY <3>1, <1>5, <1>7
  <2>3. Running.pc <= Len(Sources[Running.src].ops) /\ Running.bottom = stackBottoms[Running.src]
    BY <1>5 DEF FrameFits, Sources
  <2> QED
    BY <2>1, <2>2, <2>3, <1>5, <1>7 DEF FrameFits, Sources
<1>11. WaitsFor(expression, caller, g)
  BY <1>1, <1>7, <1>8 DEF WaitsFor, AtRun, RunningOp, Sources
<1>12. HoldsWords(mem', g)
  BY <1>6, <1>8 DEF HoldsWords
<1>13. HoldsWords(mem', caller)
  <2>1. HoldsWords(mem', Running)
    BY <1>1, <1>2, <1>5, <1>6, WordsKept
  <2>2. \A a \in caller.top .. (caller.bottom - 1) : a \in Running.top .. (Running.bottom - 1)
    BY SMTT(30), <1>2, <1>5, <1>7
  <2> QED
    BY <2>1, <2>2 DEF HoldsWords
<1>14. /\ frames' \in Seq(FrameType) /\ Len(frames') = n + 1
       /\ \A d \in 1 .. (n - 1) : frames'[d] = frames[d]
       /\ frames'[n] = caller /\ frames'[n + 1] = g
  <2> HIDE DEF caller, g
  <2>1. /\ marked \in Seq(FrameType) /\ Len(marked) = n
        /\ \A d \in 1 .. n : marked[d] = IF d = n THEN caller ELSE frames[d]
    BY <1>5, <1>7, ExceptSeq
  <2> HIDE DEF marked
  <2>2. /\ frames' \in Seq(FrameType) /\ Len(frames') = n + 1
        /\ \A d \in 1 .. n : frames'[d] = marked[d]
        /\ frames'[n + 1] = g
    BY <1>1, <1>8, <2>1, AppendProperties
  <2> QED
    BY <2>1, <2>2, <1>5
<1>15. FramesFit(expression, profile, stackBottoms, mem', frames', callee)
  <2> HIDE DEF caller, g, n, callee
  <2>1. ASSUME NEW d \in 1 .. n
        PROVE  /\ FrameFits(expression, profile, stackBottoms, frames'[d],
                            OpAt(expression, frames'[d].src, frames'[d].pc).ins)
               /\ WaitsFor(expression, frames'[d], frames'[d + 1])
               /\ HoldsWords(mem', frames'[d])
    <3>1. CASE d = n
      BY <3>1, <1>10, <1>11, <1>13, <1>14
    <3>2. CASE d \in 1 .. (n - 1)
      <4>1. frames'[d] = frames[d] /\ d \in 1 .. (Len(frames) - 1)
        BY <3>2, <1>14 DEF n
      <4>2. frames'[d + 1].src = frames[d + 1].src /\ frames'[d + 1].parent = frames[d + 1].parent
        <5>1. CASE d + 1 = n
          BY <5>1, <1>5, <1>7, <1>14
        <5>2. CASE d + 1 \in 1 .. (n - 1)
          BY <5>2, <1>14
        <5> QED
          BY <5>1, <5>2, <3>2, <1>5
      <4>3. WaitsFor(expression, frames'[d], frames'[d + 1])
        BY <4>1, <4>2, <1>1, SuspendedFacts DEF WaitsFor
      <4>4. HoldsWords(mem', frames'[d])
        BY <4>1, <1>1, <1>2, <1>6, SuspendedFacts, WordsKept
      <4> QED
        BY <4>1, <4>3, <4>4, <1>1, SuspendedFacts
    <3> QED
      BY <3>1, <3>2, <1>5
  <2>2. \A d \in 1 .. (n + 1) : HoldsWords(mem', frames'[d])
    <3> SUFFICES ASSUME NEW d \in 1 .. (n + 1)
                 PROVE  HoldsWords(mem', frames'[d])
      OBVIOUS
    <3>1. CASE d = n + 1
      BY <3>1, <1>12, <1>14
    <3>2. CASE d \in 1 .. n
      BY <3>2, <2>1
    <3> QED
      BY <3>1, <3>2, <1>5
  <2>3. n + 1 >= 1 /\ (n + 1) - 1 = n
    BY <1>5
  <2>4. FrameFits(expression, profile, stackBottoms, frames'[n + 1], 0)
        /\ callee = frames'[n + 1].src
    BY <1>8, <1>9, <1>14
  <2> QED
    BY <2>1, <2>2, <2>3, <2>4, <1>14 DEF FramesFit
<1>16. stateKV' \in [Value -> Value \cup {Missing}]
  BY <1>1 DEF EvalInv
<1> QED
  BY <1>1, <1>2, <1>6, <1>15, <1>16, EvalStep

(* The stack of a source at its end is its outputs, all of them words. *)
LEMMA AtReturnFacts ==
  ASSUME EvalInv, AtReturn
  PROVE  /\ status = "eval"
         /\ Sources[Running.src].outputs \in Nat
         /\ Running.bottom - Running.top = Sources[Running.src].outputs
         /\ \A k \in 1 .. Sources[Running.src].outputs : Item(k) \in Value
<1>1. status = "eval" /\ Running.pc = Len(Sources[Running.src].ops)
  BY DEF AtReturn
<1>2. /\ Running.src \in DOMAIN Sources /\ Running.top \in Nat /\ Running.bottom \in Nat
      /\ Running.bottom - Running.top = profile[Running.src][Running.pc + 1].height
      /\ HoldsWords(mem, Running)
  BY <1>1, RunningFacts
<1>3. /\ Sources[Running.src].outputs \in Nat
      /\ profile[Running.src][Len(Sources[Running.src].ops) + 1].height
           = Sources[Running.src].outputs
  BY <1>1, <1>2, SourceFacts DEF EvalInv
<1>4. Running.bottom - Running.top = Sources[Running.src].outputs
  BY <1>1, <1>2, <1>3
<1>5. ASSUME NEW k \in 1 .. Sources[Running.src].outputs
      PROVE  Item(k) \in Value
  <2>1. Running.top + k - 1 \in Running.top .. (Running.bottom - 1)
    BY <1>2, <1>3, <1>4
  <2> QED
    BY <2>1, <1>2 DEF HoldsWords, Item
<1> QED
  BY <1>1, <1>3, <1>4, <1>5

(* Where the caller's stack top goes on a return, in plain numbers. *)
LEMMA ReturnArithmetic ==
  ASSUME NEW bottom \in Nat, NEW top \in Nat, NEW ins \in Nat, NEW outs \in Nat,
         NEW alloc \in Nat, NEW before \in Nat, NEW after \in Nat,
         bottom - top = before - ins, after = before - ins + outs, ins <= before,
         after <= alloc, bottom - alloc >= 2
  PROVE  /\ top - outs \in Nat /\ bottom - (top - outs) = after
         /\ bottom - alloc <= top - outs /\ (top - outs) + outs = top
         /\ (top - outs) + outs <= bottom
OBVIOUS

(* The frame that waits for the running one, and its call. *)
Waiting == frames[Len(frames) - 1]
WaitingOp == OpAt(expression, Waiting.src, Waiting.pc)

(* What the integrity check has established of the return. *)
LEMMA WaitingFacts ==
  ASSUME EvalInv, AtReturn, Len(frames) > 1
  PROVE  /\ Len(frames) \in Nat /\ frames \in Seq(FrameType)
         /\ Len(frames) - 1 \in 1 .. (Len(frames) - 1) /\ Len(frames) - 1 \in 1 .. Len(frames)
         /\ Len(frames) - 1 \in Nat /\ Len(frames) - 1 + 1 = Len(frames)
         /\ FrameFits(expression, profile, stackBottoms, Waiting, WaitingOp.ins)
         /\ WaitsFor(expression, Waiting, Running) /\ HoldsWords(mem, Waiting)
         /\ WaitingOp.code = "call" /\ WaitingOp.arg = Running.src
         /\ Running.parent = Waiting.src /\ Waiting.pc < Len(Sources[Waiting.src].ops)
         /\ Waiting \in FrameType /\ Waiting.src \in DOMAIN Sources
         /\ Waiting.bottom = stackBottoms[Waiting.src]
         /\ Waiting.src \in Nat /\ Waiting.parent \in Nat /\ Waiting.bottom \in Nat
         /\ Waiting.top \in Nat /\ Waiting.pc \in Nat
         /\ WaitingOp.ins \in Nat /\ WaitingOp.outs \in Nat
         /\ profile[Waiting.src][Waiting.pc + 1].height \in Nat
         /\ profile[Waiting.src][Waiting.pc + 2].height \in Nat
         /\ WaitingOp.ins <= profile[Waiting.src][Waiting.pc + 1].height
         /\ Waiting.bottom - Waiting.top
              = profile[Waiting.src][Waiting.pc + 1].height - WaitingOp.ins
         /\ profile[Waiting.src][Waiting.pc + 2].height <= Sources[Waiting.src].alloc
         /\ OpChecked(expression, WaitingOp, profile[Waiting.src][Waiting.pc + 1],
                                             profile[Waiting.src][Waiting.pc + 2])
         /\ Sources[Waiting.src].alloc \in Nat /\ freePtr \in Nat
         /\ Waiting.bottom - Sources[Waiting.src].alloc - 1 >= 1
         /\ Waiting.bottom <= freePtr
         /\ Waiting.top - WaitingOp.outs \in Nat
         /\ Waiting.bottom - (Waiting.top - WaitingOp.outs)
              = profile[Waiting.src][Waiting.pc + 2].height
         /\ Waiting.bottom - Sources[Waiting.src].alloc <= Waiting.top - WaitingOp.outs
         /\ Waiting.top - WaitingOp.outs + WaitingOp.outs = Waiting.top
         /\ Waiting.top <= Waiting.bottom
         /\ WaitingOp.outs <= Sources[Running.src].outputs
<1> DEFINE n == Len(frames) - 1
           caller == frames[n]
           op == OpAt(expression, caller.src, caller.pc)
           outs == op.outs
           newTop == caller.top - outs
           before == profile[caller.src][caller.pc + 1].height
           after == profile[caller.src][caller.pc + 2].height
           alloc == Sources[caller.src].alloc
<1>1. AtReturn /\ Len(frames) > 1 /\ status = "eval"
  BY DEF AtReturn
<1>2. /\ Len(frames) \in Nat /\ frames \in Seq(FrameType)
      /\ n \in 1 .. (Len(frames) - 1) /\ n \in 1 .. Len(frames) /\ n \in Nat
      /\ n + 1 = Len(frames)
  BY <1>1, RunningFacts
<1>3. /\ op.ins \in Nat
      /\ FrameFits(expression, profile, stackBottoms, caller, op.ins)
      /\ WaitsFor(expression, caller, frames[n + 1])
      /\ HoldsWords(mem, caller)
  BY <1>1, <1>2, SuspendedFacts
<1>4. frames[n + 1] = Running
  BY <1>2 DEF Running
<1>5. /\ op.code = "call" /\ op.arg = Running.src /\ Running.parent = caller.src
      /\ caller.pc < Len(Sources[caller.src].ops)
  BY <1>3, <1>4 DEF WaitsFor, Sources
<1>6. /\ caller \in FrameType /\ caller.src \in DOMAIN Sources
      /\ caller.bottom = stackBottoms[caller.src]
      /\ caller.bottom - caller.top = before - op.ins
  BY <1>3 DEF FrameFits, Sources
<1>7. /\ caller.src \in Nat /\ caller.parent \in Nat /\ caller.bottom \in Nat
      /\ caller.top \in Nat /\ caller.pc \in Nat
  BY <1>6 DEF FrameType
<1>8. /\ op.outs \in Nibble /\ before \in Nat /\ after \in Nat /\ after <= alloc
      /\ OpChecked(expression, op, profile[caller.src][caller.pc + 1],
                                   profile[caller.src][caller.pc + 2])
  BY <1>1, <1>5, <1>6, <1>7, OpFacts DEF EvalInv
<1>9. outs \in Nat /\ after = before - op.ins + outs /\ op.ins <= before
  <2>1. op.outs \in Nat
    BY <1>8, NibblesAreNumbers
  <2>2. after = before - op.ins + op.outs /\ op.ins <= before
    BY <1>8 DEF OpChecked
  <2> QED
    BY <2>1, <2>2
<1>10. /\ alloc \in Nat /\ freePtr \in Nat /\ caller.bottom - alloc - 1 >= 1
       /\ caller.bottom <= freePtr
  BY <1>1, <1>6, RegionFacts
<1>11. /\ newTop \in Nat /\ caller.bottom - newTop = after
       /\ caller.bottom - alloc <= newTop /\ newTop + outs = caller.top
       /\ newTop + outs <= caller.bottom
  <2> DEFINE ins == op.ins
             bottom == caller.bottom
             top == caller.top
  <2>1. bottom - alloc >= 2
    BY <1>7, <1>10
  <2>2. /\ bottom \in Nat /\ top \in Nat /\ ins \in Nat /\ outs \in Nat
        /\ alloc \in Nat /\ before \in Nat /\ after \in Nat
    BY <1>3, <1>7, <1>8, <1>9, <1>10
  <2>3. /\ bottom - top = before - ins /\ after = before - ins + outs
        /\ ins <= before /\ after <= alloc
    BY <1>6, <1>8, <1>9
  <2>4. newTop = top - outs
    OBVIOUS
  <2> HIDE DEF newTop, ins, bottom, top, outs, before, after, alloc
  <2>5. /\ top - outs \in Nat /\ bottom - (top - outs) = after
        /\ bottom - alloc <= top - outs /\ (top - outs) + outs = top
        /\ (top - outs) + outs <= bottom
    BY <2>1, <2>2, <2>3, ReturnArithmetic
  <2>6. /\ newTop \in Nat /\ bottom - newTop = after
        /\ bottom - alloc <= newTop /\ newTop + outs = top /\ newTop + outs <= bottom
    BY <2>4, <2>5
  <2> QED
    BY <2>6 DEF bottom, top
<1>12. outs <= Sources[Running.src].outputs
  <2>1. OperandRevert(expression, op, before) = "none"
    BY <1>8 DEF OpChecked
  <2>2. ~(Sources[Running.src].outputs < outs)
    BY <2>1, <1>5 DEF OperandRevert, OutOfBoundsRead, OutOfBoundsConstant,
                      SourceOutOfBounds, OutputsExceedSource, Sources
  <2>3. Sources[Running.src].outputs \in Nat
    BY <1>1, AtReturnFacts
  <2> QED
    BY <2>2, <2>3, <1>9
<1> QED
  BY <1>2, <1>3, <1>4, <1>5, <1>6, <1>7, <1>8, <1>9, <1>10, <1>11, <1>12
  DEF Waiting, WaitingOp

(* A return lands in the caller at the height after its call. *)
LEMMA ReturnFromCallKeeps ==
  ASSUME EvalInv, ReturnFromCall, UNCHANGED checkVars
  PROVE  EvalInv'
<1> DEFINE n == Len(frames) - 1
           caller == frames[n]
           op == OpAt(expression, caller.src, caller.pc)
           outs == op.outs
           newTop == caller.top - outs
           g == Frame(caller.src, caller.parent, caller.bottom, newTop, caller.pc + 1)
           left == SubSeq(frames, 1, n)
           before == profile[caller.src][caller.pc + 1].height
           after == profile[caller.src][caller.pc + 2].height
           alloc == Sources[caller.src].alloc
<1>1. /\ AtReturn /\ Len(frames) > 1 /\ status = "eval" /\ status' = "eval"
      /\ mem' = [a \in DOMAIN mem |->
                   IF a \in newTop .. (caller.top - 1)
                   THEN Traced[Running.top + (a - newTop)] ELSE Traced[a]]
      /\ frames' = [left EXCEPT ![n] = g]
      /\ sourceIndex' = Running.parent
      /\ UNCHANGED <<request, freePtr, stackBottoms, stateKV, overlaid>>
  BY DEF ReturnFromCall, AtReturn, SavedSourceIndex, CallOutputs
<1>2. /\ Len(frames) \in Nat /\ frames \in Seq(FrameType)
      /\ n \in 1 .. (Len(frames) - 1) /\ n \in 1 .. Len(frames) /\ n \in Nat
      /\ n + 1 = Len(frames)
  BY <1>1, WaitingFacts DEF Waiting, WaitingOp
<1>3. /\ op.ins \in Nat
      /\ FrameFits(expression, profile, stackBottoms, caller, op.ins)
      /\ WaitsFor(expression, caller, Running)
      /\ HoldsWords(mem, caller)
  BY <1>1, WaitingFacts DEF Waiting, WaitingOp
<1>4. frames[n + 1] = Running
  BY <1>2 DEF Running
<1>5. /\ op.code = "call" /\ op.arg = Running.src /\ Running.parent = caller.src
      /\ caller.pc < Len(Sources[caller.src].ops)
  BY <1>1, WaitingFacts DEF Waiting, WaitingOp
<1>6. /\ caller \in FrameType /\ caller.src \in DOMAIN Sources
      /\ caller.bottom = stackBottoms[caller.src]
      /\ caller.bottom - caller.top = before - op.ins
  BY <1>1, WaitingFacts DEF Waiting, WaitingOp
<1>7. /\ caller.src \in Nat /\ caller.parent \in Nat /\ caller.bottom \in Nat
      /\ caller.top \in Nat /\ caller.pc \in Nat
  BY <1>1, WaitingFacts DEF Waiting, WaitingOp
<1>8. /\ before \in Nat /\ after \in Nat /\ after <= alloc
      /\ OpChecked(expression, op, profile[caller.src][caller.pc + 1],
                                   profile[caller.src][caller.pc + 2])
  BY <1>1, WaitingFacts DEF Waiting, WaitingOp
<1>9. outs \in Nat /\ after = before - op.ins + outs /\ op.ins <= before
  <2>1. after = before - op.ins + outs /\ op.ins <= before
    BY <1>8 DEF OpChecked
  <2> QED
    BY <2>1, <1>1, WaitingFacts DEF Waiting, WaitingOp
<1>10. /\ alloc \in Nat /\ freePtr \in Nat /\ caller.bottom - alloc - 1 >= 1
       /\ caller.bottom <= freePtr
  BY <1>1, WaitingFacts DEF Waiting, WaitingOp
<1>11. /\ newTop \in Nat /\ caller.bottom - newTop = after
       /\ caller.bottom - alloc <= newTop /\ newTop + outs = caller.top
       /\ newTop + outs <= caller.bottom
  BY <1>1, WaitingFacts DEF Waiting, WaitingOp
<1>12. outs <= Sources[Running.src].outputs
  BY <1>1, WaitingFacts DEF Waiting, WaitingOp
<1>13. Traced = mem
  BY <1>1, RestoredIsMem DEF Traced
<1>14. mem = [a \in 1 .. (freePtr - 1) |-> mem[a]] /\ DOMAIN mem = 1 .. (freePtr - 1)
  <2>1. mem = [a \in 1 .. (freePtr - 1) |-> mem[a]]
    BY DEF EvalInv
  <2> QED
    BY <2>1
<1>15. ASSUME NEW a \in newTop .. (caller.top - 1)
       PROVE  /\ mem[Running.top + (a - newTop)] \in Value
              /\ a \in (caller.bottom - alloc) .. (caller.bottom - 1)
  <2> HIDE DEF newTop, outs, alloc, caller
  <2>1. (a - newTop) + 1 \in 1 .. Sources[Running.src].outputs
    <3>1. Sources[Running.src].outputs \in Nat
      BY <1>1, AtReturnFacts
    <3> QED
      BY <3>1, <1>7, <1>9, <1>11, <1>12
  <2>2. Item((a - newTop) + 1) \in Value
    BY <2>1, <1>1, AtReturnFacts
  <2>3. Running.top + ((a - newTop) + 1) - 1 = Running.top + (a - newTop)
    <3>1. Running.top \in Nat
      BY <1>1, RunningFacts
    <3> QED
      BY <3>1, <1>11
  <2>4. a \in (caller.bottom - alloc) .. (caller.bottom - 1)
    BY <1>7, <1>9, <1>10, <1>11
  <2> QED
    BY <2>2, <2>3, <2>4 DEF Item
<1>16. /\ WritesStack(mem', caller.src)
       /\ \A a \in 1 .. (freePtr - 1) :
            a \in newTop .. (caller.top - 1) => mem'[a] \in Value
  <2>1. mem' = [a \in 1 .. (freePtr - 1) |->
                  IF a \in newTop .. (caller.top - 1)
                  THEN mem[Running.top + (a - newTop)] ELSE mem[a]]
    BY <1>1, <1>13, <1>14
  <2> HIDE DEF newTop, caller
  <2> QED
    BY <2>1, <1>6, <1>15 DEF WritesStack
<1>17. /\ g \in FrameType /\ g.src = caller.src /\ g.parent = caller.parent
       /\ g.bottom = caller.bottom /\ g.top = newTop /\ g.pc = caller.pc + 1
  <2> HIDE DEF newTop, caller
  <2> QED
    BY <1>7, <1>11 DEF Frame, FrameType
<1>18. FrameFits(expression, profile, stackBottoms, g, 0)
  <2>1. g.pc <= Len(Sources[caller.src].ops)
    <3>1. Len(Sources[caller.src].ops) \in Nat
      BY <1>1, <1>6, SourceFacts DEF EvalInv
    <3> QED
      BY SMTT(30), <3>1, <1>5, <1>7, <1>17
  <2>2. (caller.pc + 1) + 1 = caller.pc + 2
    BY <1>7
  <2>3. g.bottom - g.top = profile[g.src][g.pc + 1].height - 0
    <3>1. g.bottom - g.top = after
      BY <1>11, <1>17
    <3>2. profile[g.src][g.pc + 1].height = after
      BY <2>2, <1>17
    <3>3. after \in Nat
      BY <1>8
    <3> HIDE DEF after, g
    <3> QED
      BY <3>1, <3>2, <3>3
  <2> QED
    BY <2>1, <2>3, <1>6, <1>17 DEF FrameFits, Sources
<1>19. HoldsWords(mem', g)
  <2> HIDE DEF newTop, caller, outs, g
  <2> SUFFICES ASSUME NEW a \in newTop .. (caller.bottom - 1)
               PROVE  mem'[a] \in Value
    BY <1>17 DEF HoldsWords
  <2>1. a \in 1 .. (freePtr - 1)
    BY <1>7, <1>10, <1>11
  <2>2. CASE a \in newTop .. (caller.top - 1)
    BY <2>1, <2>2, <1>16
  <2>3. CASE a \in caller.top .. (caller.bottom - 1)
    <3>1. HoldsWords(mem', caller)
      BY <1>1, <1>3, <1>6, <1>16, WordsKept
    <3> QED
      BY <3>1, <2>3 DEF HoldsWords
  <2> QED
    BY <2>2, <2>3, <1>7, <1>11
<1>20. /\ frames' \in Seq(FrameType) /\ Len(frames') = n
       /\ \A d \in 1 .. (n - 1) : frames'[d] = frames[d]
       /\ frames'[n] = g
  <2> HIDE DEF g, n
  <2>1. \A d \in 1 .. n : frames[d] \in FrameType
    BY <1>2, ElementOfSeq
  <2>2. /\ left \in Seq(FrameType) /\ Len(left) = n
        /\ \A d \in 1 .. n : left[d] = frames[d]
    <3>1. /\ left \in Seq(FrameType)
          /\ Len(left) = (IF 1 <= n THEN n - 1 + 1 ELSE 0)
          /\ \A d \in 1 .. (n - 1 + 1) : left[d] = frames[1 + d - 1]
      BY <2>1, <1>2, SubSeqProperties
    <3>2. n - 1 + 1 = n /\ 1 <= n /\ \A d \in 1 .. n : 1 + d - 1 = d
      BY <1>2
    <3> QED
      BY <3>1, <3>2
  <2> HIDE DEF left
  <2>3. n \in 1 .. Len(left)
    BY <2>2, <1>2
  <2>4. /\ frames' \in Seq(FrameType) /\ Len(frames') = n
        /\ \A d \in 1 .. n : frames'[d] = IF d = n THEN g ELSE left[d]
    BY <2>2, <2>3, <1>1, <1>17, ExceptSeq
  <2> QED
    BY <2>2, <2>4, <1>2
<1>21. FramesFit(expression, profile, stackBottoms, mem', frames', caller.src)
  <2> HIDE DEF g, n, caller
  <2>1. g.src = frames[n].src /\ g.parent = frames[n].parent
    BY <1>17 DEF caller
  <2>2. FramesFit(expression, profile, stackBottoms, mem', frames', frames'[n].src)
    BY ZenonT(30), <2>1, <1>1, <1>2, <1>6, <1>16, <1>18, <1>19, <1>20, LastMoves
  <2> QED
    BY <2>2, <1>17, <1>20
<1>22. stateKV' \in [Value -> Value \cup {Missing}]
  BY <1>1 DEF EvalInv
<1>23. sourceIndex' = caller.src
  BY <1>1, <1>5
<1> QED
  BY <1>1, <1>6, <1>16, <1>21, <1>22, <1>23, EvalStep

-----------------------------------------------------------------------------
(* The start and the end of the evaluation. *)

LEMMA RevertKeeps ==
  ASSUME EvalInv, NEW error \in EvalReverts, status \notin {"unchecked", "ok"},
         Revert(error), UNCHANGED checkVars
  PROVE  EvalInv'
<1>1. /\ status' = error
      /\ UNCHANGED <<request, mem, freePtr, stackBottoms, stateKV, overlaid, frames>>
  BY DEF Revert, memVars
<1>2. error \in Statuses /\ error \notin {"unchecked", "overlay", "eval", "ok"}
  BY DEF Statuses, EvalReverts
<1>3. CheckInv'
  BY CheckInvNext DEF EvalInv
<1>4. UNCHANGED <<expression, verdict, profile>>
  BY DEF checkVars, walkVars
<1>5. Layout(expression, stackBottoms, freePtr)'
  BY <1>1, <1>4 DEF EvalInv
<1>6. LengthWordsAt(expression, stackBottoms, mem)'
  BY <1>1, <1>4 DEF EvalInv
<1> QED
  BY <1>1, <1>2, <1>3, <1>4, <1>5, <1>6 DEF EvalInv

(* An evaluation begins with no stacks and no frames. *)
LEMMA CallEval4Keeps ==
  ASSUME EvalInv, CallEval4, UNCHANGED checkVars
  PROVE  EvalInv'
<1>1. /\ status = "unchecked" /\ verdict = "ok" /\ request' \in Requests
      /\ status' = "allocate"
      /\ UNCHANGED <<mem, freePtr, stackBottoms, stateKV, overlaid, frames>>
  BY DEF CallEval4, memVars
<1>2. CheckInv'
  BY CheckInvNext DEF EvalInv
<1>3. UNCHANGED <<expression, verdict, profile>>
  BY DEF checkVars, walkVars
<1>4. Layout(expression, stackBottoms, freePtr)'
  BY <1>1, <1>3 DEF EvalInv
<1>5. LengthWordsAt(expression, stackBottoms, mem)'
  BY <1>1, <1>3 DEF EvalInv
<1> QED
  BY <1>1, <1>2, <1>3, <1>4, <1>5 DEF EvalInv, Statuses

(* The next region starts where the last one ends. *)
LEMMA AllocateStackKeeps ==
  ASSUME EvalInv, AllocateStack, UNCHANGED checkVars
  PROVE  EvalInv'
<1> DEFINE n == Len(stackBottoms)
           size == Sources[n + 1].alloc
           free == freePtr + size + 1
           b == Append(stackBottoms, free)
<1>1. /\ status = "allocate" /\ n < Len(Sources)
      /\ mem' = [a \in 1 .. (freePtr + size) |->
                   IF a < freePtr THEN mem[a]
                   ELSE IF a = freePtr THEN LengthWord(size) ELSE Dirty]
      /\ freePtr' = free /\ stackBottoms' = b
      /\ UNCHANGED <<status, request, stateKV, overlaid, frames>>
  BY DEF AllocateStack, StackBottom
<1>2. CheckInv' /\ CheckInv /\ verdict = "ok"
  BY <1>1, CheckInvNext DEF EvalInv
<1>3. UNCHANGED <<expression, verdict, profile>>
  BY DEF checkVars, walkVars
<1>4. /\ stackBottoms \in Seq(Nat) /\ freePtr \in Nat \ {0}
      /\ \A s \in 1 .. n :
            stackBottoms[s] - expression.sources[s].alloc - 1 >= 1 /\ stackBottoms[s] <= freePtr
      /\ \A s, t \in 1 .. n :
            s < t => stackBottoms[s] <= stackBottoms[t] - expression.sources[t].alloc - 1
      /\ \A s \in 1 .. n :
            mem[stackBottoms[s] - expression.sources[s].alloc - 1]
              = LengthWord(expression.sources[s].alloc)
  BY <1>1 DEF EvalInv, Layout, LengthWordsAt
<1>5. Sources \in Seq(Source) /\ Len(Sources) \in Nat /\ n \in Nat
  BY <1>2, <1>4, LenProperties DEF CheckInv, CheckTypeOK, Sources
<1>6. n + 1 \in DOMAIN Sources
  BY <1>1, <1>5, LenProperties
<1>7. size \in Nat
  BY <1>2, <1>6, SourceFacts
<1>8. free \in Nat \ {0} /\ free - size - 1 = freePtr /\ free - 1 = freePtr + size
  <2> HIDE DEF size
  <2> QED
    BY <1>4, <1>7
<1>9. /\ b \in Seq(Nat) /\ Len(b) = n + 1
      /\ \A s \in 1 .. n : b[s] = stackBottoms[s]
      /\ b[n + 1] = free
  <2> HIDE DEF free
  <2> QED
    BY <1>4, <1>8, AppendProperties
<1>10. \A s \in 1 .. n : stackBottoms[s] \in Nat /\ expression.sources[s].alloc \in Nat
  <2> SUFFICES ASSUME NEW s \in 1 .. n
               PROVE  stackBottoms[s] \in Nat /\ expression.sources[s].alloc \in Nat
    OBVIOUS
  <2>1. stackBottoms[s] \in Nat
    BY <1>4, ElementOfSeq
  <2>2. s \in DOMAIN Sources
    BY <1>1, <1>5, LenProperties
  <2> QED
    BY <2>1, <2>2, <1>2, SourceFacts DEF Sources
<1>11. \A s \in 1 .. (n + 1) : s \in 1 .. n \/ s = n + 1
  BY <1>5
<1>12. expression.sources[n + 1].alloc = size
  BY DEF Sources
<1>13. freePtr <= free
  <2> HIDE DEF size
  <2> QED
    BY <1>4, <1>7
<1>14. Layout(expression, b, free)
  <2> HIDE DEF b, free, size, n
  <2>1. \A s \in 1 .. (n + 1) : b[s] - expression.sources[s].alloc - 1 >= 1 /\ b[s] <= free
    <3> SUFFICES ASSUME NEW s \in 1 .. (n + 1)
                 PROVE  b[s] - expression.sources[s].alloc - 1 >= 1 /\ b[s] <= free
      OBVIOUS
    <3>1. CASE s \in 1 .. n
      <4>1. b[s] = stackBottoms[s]
        BY <3>1, <1>9
      <4>2. stackBottoms[s] - expression.sources[s].alloc - 1 >= 1 /\ stackBottoms[s] <= freePtr
        BY <3>1, <1>4
      <4>3. stackBottoms[s] \in Nat
        BY <3>1, <1>10
      <4>4. freePtr \in Nat /\ free \in Nat
        BY <1>4, <1>8
      <4>5. stackBottoms[s] <= free
        BY <4>2, <4>3, <4>4, <1>13
      <4> QED
        BY <4>1, <4>2, <4>5
    <3>2. CASE s = n + 1
      BY <3>2, <1>4, <1>8, <1>9, <1>12
    <3> QED
      BY <3>1, <3>2, <1>11
  <2>2. \A s, t \in 1 .. (n + 1) :
          s < t => b[s] <= b[t] - expression.sources[t].alloc - 1
    <3> SUFFICES ASSUME NEW s \in 1 .. (n + 1), NEW t \in 1 .. (n + 1), s < t
                 PROVE  b[s] <= b[t] - expression.sources[t].alloc - 1
      OBVIOUS
    <3>1. s \in 1 .. n
      BY <1>5
    <3>2. CASE t \in 1 .. n
      BY <3>1, <3>2, <1>4, <1>9
    <3>3. CASE t = n + 1
      <4>1. b[t] - expression.sources[t].alloc - 1 = freePtr
        BY <3>3, <1>8, <1>9, <1>12
      <4>2. b[s] <= freePtr
        BY <3>1, <1>4, <1>9
      <4> QED
        BY <4>1, <4>2
    <3> QED
      BY <3>2, <3>3, <1>11
  <2>3. n + 1 <= Len(expression.sources)
    BY <1>1, <1>5 DEF Sources, n
  <2> QED
    BY <2>1, <2>2, <2>3, <1>8, <1>9 DEF Layout
<1>15. LengthWordsAt(expression, b, mem')
  <2> HIDE DEF b, free, size, n
  <2> SUFFICES ASSUME NEW s \in 1 .. (n + 1)
               PROVE  mem'[b[s] - expression.sources[s].alloc - 1]
                        = LengthWord(expression.sources[s].alloc)
    BY <1>9 DEF LengthWordsAt
  <2>1. CASE s \in 1 .. n
    <3>1. b[s] - expression.sources[s].alloc - 1 \in 1 .. (freePtr - 1)
      <4> DEFINE bottom == stackBottoms[s]
                 alloc == expression.sources[s].alloc
      <4>1. b[s] = bottom
        BY <2>1, <1>9
      <4>2. bottom - alloc - 1 >= 1 /\ bottom <= freePtr
        BY <2>1, <1>4
      <4>3. bottom \in Nat /\ alloc \in Nat /\ freePtr \in Nat
        BY <2>1, <1>4, <1>10
      <4> HIDE DEF bottom, alloc
      <4>4. bottom - alloc - 1 \in 1 .. (freePtr - 1)
        BY <4>2, <4>3
      <4> QED
        BY <4>1, <4>4 DEF alloc
    <3>2. mem'[b[s] - expression.sources[s].alloc - 1]
            = mem[b[s] - expression.sources[s].alloc - 1]
      BY <3>1, <1>1, <1>4, <1>7
    <3> QED
      BY <3>2, <2>1, <1>4, <1>9
  <2>2. CASE s = n + 1
    <3>1. b[s] - expression.sources[s].alloc - 1 = freePtr
      BY <2>2, <1>8, <1>9, <1>12
    <3>2. mem'[freePtr] = LengthWord(size)
      BY <1>1, <1>4, <1>7
    <3> QED
      BY <3>1, <3>2, <2>2, <1>12
  <2> QED
    BY <2>1, <2>2, <1>11
<1>16. mem' = [a \in 1 .. (freePtr' - 1) |-> mem'[a]]
  <2> HIDE DEF free, size
  <2>1. freePtr' - 1 = freePtr + size
    BY <1>1, <1>8
  <2> QED
    BY <2>1, <1>1
<1> HIDE DEF b, free
<1>17. Layout(expression, stackBottoms, freePtr)' /\ LengthWordsAt(expression, stackBottoms, mem)'
  BY <1>1, <1>3, <1>14, <1>15
<1> QED
  BY <1>1, <1>2, <1>3, <1>16, <1>17 DEF EvalInv

(* The entry source begins with its inputs on its stack. *)
LEMMA DeserializedKeeps ==
  ASSUME EvalInv, Deserialized, UNCHANGED checkVars
  PROVE  EvalInv'
<1>1. /\ status = "allocate" /\ Len(stackBottoms) = Len(Sources) /\ status' = "overlay"
      /\ UNCHANGED <<request, mem, freePtr, stackBottoms, stateKV, overlaid, frames>>
  BY DEF Deserialized, memVars
<1>2. CheckInv'
  BY CheckInvNext DEF EvalInv
<1>3. UNCHANGED <<expression, verdict, profile>>
  BY DEF checkVars, walkVars
<1>4. Layout(expression, stackBottoms, freePtr)' /\ LengthWordsAt(expression, stackBottoms, mem)'
  BY <1>1, <1>3 DEF EvalInv
<1>5. Sources' = Sources
  BY <1>3 DEF Sources
<1> QED
  BY <1>1, <1>2, <1>3, <1>4, <1>5 DEF EvalInv, Statuses

(* In an array of even length a pair starts at every even index. *)
LEMMA EvenStep ==
  ASSUME NEW i \in Nat, NEW n \in Nat, i % 2 = 0, n % 2 = 0, i < n
  PROVE  /\ i + 1 \in 1 .. n /\ i + 2 \in 1 .. n
         /\ i + 2 \in Nat /\ (i + 2) % 2 = 0
OBVIOUS

(* An overlay of even length is read to its end, two words at a time. *)
LEMMA ApplyOverlayKeeps ==
  ASSUME EvalInv, ApplyOverlay, UNCHANGED checkVars
  PROVE  EvalInv'
<1>1. /\ status = "overlay" /\ status' = "overlay"
      /\ Len(request.overlay) % 2 = 0 /\ overlaid < Len(request.overlay)
      /\ stateKV' = [stateKV EXCEPT ![request.overlay[overlaid + 1]] =
                       request.overlay[overlaid + 2]]
      /\ overlaid' = overlaid + 2
      /\ UNCHANGED <<request, mem, freePtr, stackBottoms, frames>>
  BY DEF ApplyOverlay, memVars
<1>2. CheckInv'
  BY CheckInvNext DEF EvalInv
<1>3. UNCHANGED <<expression, verdict, profile>>
  BY DEF checkVars, walkVars
<1>4. Layout(expression, stackBottoms, freePtr)' /\ LengthWordsAt(expression, stackBottoms, mem)'
  BY <1>1, <1>3 DEF EvalInv
<1>5. Sources' = Sources
  BY <1>3 DEF Sources
<1>6. request.overlay \in Seq(Value) /\ overlaid \in Nat /\ overlaid % 2 = 0
  BY <1>1, RequestsAssumption DEF EvalInv
<1>7. Len(request.overlay) \in Nat
  BY <1>6, LenProperties
<1>8. overlaid + 1 \in 1 .. Len(request.overlay) /\ overlaid + 2 \in 1 .. Len(request.overlay)
  BY <1>1, <1>6, <1>7, EvenStep
<1>9. request.overlay[overlaid + 2] \in Value
  BY <1>6, <1>8, ElementOfSeq
<1>10. stateKV' \in [Value -> Value \cup {Missing}]
  BY <1>1, <1>9 DEF EvalInv
<1>11. overlaid' \in Nat /\ overlaid' % 2 = 0
  BY <1>1, <1>6, <1>7, EvenStep
<1> QED
  BY <1>1, <1>2, <1>3, <1>4, <1>5, <1>10, <1>11 DEF EvalInv

(* The inputs have room: they are the height at which the walk began. *)
LEMMA EnterEvalKeeps ==
  ASSUME EvalInv, EnterEval, UNCHANGED checkVars
  PROVE  EvalInv'
<1> DEFINE ins == Len(request.inputs)
           bottom == stackBottoms[sourceIndex]
           top == bottom - ins
           g == Frame(sourceIndex, sourceIndex, bottom, top, 0)
<1>1. /\ status = "overlay" /\ status' = "eval"
      /\ sourceIndex \in DOMAIN Sources /\ ins = Sources[sourceIndex].inputs
      /\ mem' = [a \in DOMAIN mem |->
                   IF a \in top .. (bottom - 1) THEN request.inputs[a - top + 1] ELSE mem[a]]
      /\ frames' = <<g>>
      /\ UNCHANGED <<request, freePtr, stackBottoms, stateKV, overlaid, sourceIndex>>
  BY DEF EnterEval, Overlaid
<1>2. /\ CheckInv /\ CheckInv' /\ verdict = "ok" /\ request \in Requests
      /\ Len(stackBottoms) = Len(Sources)
  BY <1>1, CheckInvNext DEF EvalInv
<1>3. UNCHANGED <<expression, verdict, profile>> /\ Sources' = Sources
  BY DEF checkVars, walkVars, Sources
<1>4. request.inputs \in Seq(Value) /\ ins \in Nat
  BY <1>2, RequestsAssumption, LenProperties
<1>5. /\ profile[sourceIndex][1].height = ins /\ ins <= Sources[sourceIndex].alloc
      /\ Len(Sources[sourceIndex].ops) \in Nat /\ sourceIndex \in Nat
  <2>1. /\ profile[sourceIndex][1].height = Sources[sourceIndex].inputs
        /\ Len(Sources[sourceIndex].ops) \in Nat /\ sourceIndex \in Nat
        /\ \A k \in 1 .. (Len(Sources[sourceIndex].ops) + 1) :
             profile[sourceIndex][k].height <= Sources[sourceIndex].alloc
    BY <1>1, <1>2, SourceFacts
  <2>2. 1 \in 1 .. (Len(Sources[sourceIndex].ops) + 1)
    BY <2>1
  <2>3. profile[sourceIndex][1].height <= Sources[sourceIndex].alloc
    BY <2>1, <2>2
  <2> QED
    BY <2>1, <2>3, <1>1
<1>6. /\ bottom \in Nat /\ Sources[sourceIndex].alloc \in Nat /\ freePtr \in Nat
      /\ bottom - Sources[sourceIndex].alloc - 1 >= 1 /\ bottom <= freePtr
  BY <1>1, RegionFacts
<1>7. top \in Nat /\ bottom - top = ins
  <2> HIDE DEF ins, bottom
  <2> QED
    BY <1>4, <1>5, <1>6
<1>8. ASSUME NEW a \in top .. (bottom - 1)
      PROVE  /\ request.inputs[a - top + 1] \in Value
             /\ a \in (bottom - Sources[sourceIndex].alloc) .. (bottom - 1)
             /\ a \in 1 .. (freePtr - 1)
  <2>1. a - top + 1 \in 1 .. ins
    <3> HIDE DEF ins, bottom, top
    <3> QED
      BY <1>4, <1>6, <1>7
  <2>2. request.inputs[a - top + 1] \in Value
    BY <2>1, <1>4, ElementOfSeq
  <2>3. a \in (bottom - Sources[sourceIndex].alloc) .. (bottom - 1) /\ a \in 1 .. (freePtr - 1)
    <3> HIDE DEF ins, bottom, top
    <3> QED
      BY <1>4, <1>5, <1>6, <1>7
  <2> QED
    BY <2>2, <2>3
<1>9. DOMAIN mem = 1 .. (freePtr - 1)
  <2>1. mem = [a \in 1 .. (freePtr - 1) |-> mem[a]]
    BY DEF EvalInv
  <2> QED
    BY <2>1
<1>10. /\ WritesStack(mem', sourceIndex)
       /\ \A a \in top .. (bottom - 1) : mem'[a] \in Value
  <2>1. mem' = [a \in 1 .. (freePtr - 1) |->
                  IF a \in top .. (bottom - 1) THEN request.inputs[a - top + 1] ELSE mem[a]]
    BY <1>1, <1>9
  <2> HIDE DEF top, ins
  <2> QED
    BY <2>1, <1>8 DEF WritesStack
<1>11. /\ g \in FrameType /\ g.src = sourceIndex /\ g.bottom = bottom /\ g.top = top /\ g.pc = 0
  <2> HIDE DEF bottom, top
  <2> QED
    BY <1>5, <1>6, <1>7 DEF Frame, FrameType
<1>12. FrameFits(expression, profile, stackBottoms, g, 0)
  <2>1. g.bottom - g.top = profile[g.src][1].height - 0
    <3>1. profile[g.src][1].height = ins
      BY <1>5, <1>11
    <3> HIDE DEF g, ins, bottom, top
    <3> QED
      BY <3>1, <1>4, <1>7, <1>11
  <2>2. g.pc + 1 = 1 /\ g.pc <= Len(Sources[sourceIndex].ops)
    BY <1>5, <1>11
  <2> HIDE DEF g
  <2> QED
    BY <2>1, <2>2, <1>1, <1>11 DEF FrameFits, Sources
<1>13. HoldsWords(mem', g)
  BY <1>10, <1>11 DEF HoldsWords
<1>14. FramesFit(expression, profile, stackBottoms, mem', frames', sourceIndex')
  <2> HIDE DEF g
  <2>1. /\ frames' \in Seq(FrameType) /\ Len(frames') = 1 /\ frames'[1] = g
    BY <1>1, <1>11
  <2> QED
    BY <2>1, <1>1, <1>11, <1>12, <1>13 DEF FramesFit
<1>15. LengthWordsAt(expression, stackBottoms, mem')
  BY <1>1, <1>10, LengthWordsKept
<1>16. Layout(expression, stackBottoms, freePtr)' /\ LengthWordsAt(expression, stackBottoms, mem)'
  BY <1>1, <1>3, <1>15 DEF EvalInv
<1>17. mem' = [a \in 1 .. (freePtr - 1) |-> mem'[a]]
  BY <1>10 DEF WritesStack
<1>18. FramesFit(expression, profile, stackBottoms, mem, frames, sourceIndex)'
  BY <1>1, <1>3, <1>14
<1>19. frames' \in Seq(FrameType)
  BY <1>14 DEF FramesFit
<1>20. /\ stateKV' \in [Value -> Value \cup {Missing}] /\ overlaid' \in Nat /\ overlaid' % 2 = 0
  BY <1>1 DEF EvalInv
<1> HIDE DEF ins, bottom, top, g
<1> QED
  BY <1>1, <1>2, <1>3, <1>16, <1>17, <1>18, <1>19, <1>20 DEF EvalInv, Statuses

(* What eval4 returns are the topmost outputs of the entry source. *)
LEMMA ReturnFromEvalKeeps ==
  ASSUME EvalInv, ReturnFromEval, UNCHANGED checkVars
  PROVE  EvalInv'
<1> DEFINE declared == Sources[sourceIndex].outputs
           outputs == IF MaxOutputs < declared THEN MaxOutputs ELSE declared
<1>1. /\ AtReturn /\ status = "eval" /\ status' = "ok"
      /\ mem' = [Traced EXCEPT ![Running.top - 1] = LengthWord(outputs)]
      /\ result' = [stack |-> Items(outputs), kvs |-> stateKV]
      /\ UNCHANGED <<request, freePtr, stackBottoms, stateKV, overlaid, sourceIndex, frames>>
  BY DEF ReturnFromEval, AtReturn
<1>2. CheckInv' /\ verdict = "ok" /\ request \in Requests
  BY <1>1, CheckInvNext DEF EvalInv
<1>3. UNCHANGED <<expression, verdict, profile>>
  BY DEF checkVars, walkVars
<1>4. /\ declared \in Nat /\ \A k \in 1 .. declared : Item(k) \in Value
  BY <1>1, RunningFacts, AtReturnFacts
<1>5. outputs \in Nat /\ outputs <= declared
  BY <1>4, MaxOutputsAssumption
<1>6. Items(outputs) \in Seq(Value)
  <2>1. \A k \in 1 .. outputs : Item(k) \in Value
    BY <1>4, <1>5
  <2>2. Items(outputs) \in [1 .. outputs -> Value]
    BY <2>1 DEF Items
  <2> HIDE DEF outputs
  <2> QED
    BY <2>2, <1>5, SeqDef
<1>7. result'.stack \in Seq(Value)
  BY <1>1, <1>6
<1>8. mem' = [a \in 1 .. (freePtr - 1) |-> mem'[a]]
  <2>1. Traced = mem
    BY <1>1, RestoredIsMem DEF Traced
  <2>2. mem = [a \in 1 .. (freePtr - 1) |-> mem[a]]
    BY DEF EvalInv
  <2> QED
    BY <2>1, <2>2, <1>1
<1>9. Layout(expression, stackBottoms, freePtr)'
  BY <1>1, <1>3 DEF EvalInv
<1>10. /\ stateKV' \in [Value -> Value \cup {Missing}] /\ overlaid' \in Nat
       /\ overlaid' % 2 = 0 /\ frames' \in Seq(FrameType)
  BY <1>1 DEF EvalInv
<1> HIDE DEF declared, outputs
<1> QED
  BY <1>1, <1>2, <1>3, <1>7, <1>8, <1>9, <1>10 DEF EvalInv, Statuses

-----------------------------------------------------------------------------
(* The invariant holds at the start and no step breaks it. *)

LEMMA EvalInvInit == Init => EvalInv
<1> SUFFICES ASSUME Init PROVE EvalInv
  OBVIOUS
<1>1. CheckInv
  BY CheckInvInit DEF Init
<1>2. /\ status = "unchecked" /\ request = None /\ mem = << >> /\ freePtr = 1
      /\ stackBottoms = << >> /\ stateKV = [key \in Value |-> Missing]
      /\ overlaid = 0 /\ frames = << >>
  BY DEF Init, EvalInit
<1>3. expression.sources \in Seq(Source) /\ Len(expression.sources) \in Nat
  BY <1>1, LenProperties DEF CheckInv, CheckTypeOK
<1>4. stackBottoms \in Seq(Nat) /\ Len(stackBottoms) = 0 /\ frames \in Seq(FrameType)
  BY <1>2, EmptySeq
<1>5. Layout(expression, stackBottoms, freePtr) /\ LengthWordsAt(expression, stackBottoms, mem)
  BY <1>2, <1>3, <1>4 DEF Layout, LengthWordsAt
<1>6. mem = [a \in 1 .. (freePtr - 1) |-> mem[a]]
  <2>1. 1 .. (freePtr - 1) = {}
    BY <1>2
  <2> QED
    BY <2>1, <1>2
<1>7. stateKV \in [Value -> Value \cup {Missing}] /\ overlaid \in Nat /\ overlaid % 2 = 0
  BY <1>2
<1> QED
  BY <1>1, <1>2, <1>4, <1>5, <1>6, <1>7 DEF EvalInv, Statuses

(* A step of the integrity check: nothing is evaluated before it accepts. *)
LEMMA CheckStepKeeps ==
  ASSUME EvalInv, CheckNext, UNCHANGED evalVars
  PROVE  EvalInv'
<1>1. CheckInv'
  BY CheckInvNext DEF EvalInv
<1>2. verdict # "ok"
  BY DEF CheckNext, NewState, AtOp, RevertAllocation, RevertSourceOutputs, EndSource,
         AtEnd, Accept
<1>3. status = "unchecked" /\ Len(stackBottoms) = 0
  BY <1>2 DEF EvalInv
<1>4. UNCHANGED <<status, request, mem, freePtr, stackBottoms, stateKV, overlaid, frames>>
  BY DEF evalVars, memVars
<1>5. Layout(expression, stackBottoms, freePtr)' /\ LengthWordsAt(expression, stackBottoms, mem)'
  <2>1. expression' = expression
    BY DEF CheckNext, NewState, CheckOp, AcceptOp, RevertOpcode, RevertOperand, RevertExtern,
           RevertInputs, RevertOutputs, RevertUnderflow, RevertHighwater, RevertAllocation,
           RevertSourceOutputs, EndSource, Accept, RevertWith
  <2> QED
    BY <2>1, <1>3, <1>4 DEF EvalInv, Layout, LengthWordsAt
<1> QED
  BY <1>1, <1>3, <1>4, <1>5 DEF EvalInv

(* A step that changes nothing keeps EvalInv. *)
LEMMA StutterKeeps ==
  ASSUME EvalInv, UNCHANGED vars
  PROVE  EvalInv'
<1>1. UNCHANGED checkVars /\ UNCHANGED evalVars
  BY DEF vars
<1>2. CheckInv'
  BY <1>1, CheckInvNext DEF EvalInv
<1>3. /\ UNCHANGED <<expression, verdict, profile>>
      /\ UNCHANGED <<status, request, mem, freePtr, stackBottoms, stateKV, overlaid,
                     sourceIndex, frames, result>>
  BY <1>1 DEF checkVars, walkVars, evalVars, memVars
<1>4. /\ Layout(expression, stackBottoms, freePtr)'
         = Layout(expression, stackBottoms, freePtr)
      /\ LengthWordsAt(expression, stackBottoms, mem)'
         = LengthWordsAt(expression, stackBottoms, mem)
      /\ FramesFit(expression, profile, stackBottoms, mem, frames, sourceIndex)'
         = FramesFit(expression, profile, stackBottoms, mem, frames, sourceIndex)
      /\ Sources' = Sources
  BY <1>3 DEF Sources
<1> QED
  BY <1>2, <1>3, <1>4 DEF EvalInv

(* So does every op, whichever word it is. *)
LEMMA RunOpKeeps ==
  ASSUME EvalInv, RunOp, UNCHANGED checkVars
  PROVE  EvalInv'
<1>1. CASE RunStack
  BY <1>1, RunStackKeeps
<1>2. CASE RunConstant
  BY <1>2, RunConstantKeeps
<1>3. CASE RunContext
  BY <1>3, RunContextKeeps
<1>4. CASE RunPure
  BY <1>4, RunPureKeeps
<1>5. CASE RunEnsure
  BY <1>5, RunEnsureKeeps
<1>6. CASE RunGet
  BY <1>6, RunGetKeeps
<1>7. CASE RunSet
  BY <1>7, RunSetKeeps
<1>8. CASE RunExtern
  BY <1>8, RunExternKeeps
<1>9. CASE RunCall
  BY <1>9, RunCallKeeps
<1>10. CASE RevertContext
  BY <1>10, RevertKeeps DEF RevertContext, AtRun, EvalReverts
<1>11. CASE RevertArithmetic
  BY <1>11, RevertKeeps DEF RevertArithmetic, AtRun, EvalReverts
<1>12. CASE RevertEnsure
  BY <1>12, RevertKeeps DEF RevertEnsure, AtRun, EvalReverts
<1>13. CASE RevertExternOutputs
  BY <1>13, RevertKeeps DEF RevertExternOutputs, AtRun, EvalReverts
<1>14. CASE RevertGas
  BY <1>14, RevertKeeps DEF RevertGas, AtRun, EvalReverts
<1>15. CASE RevertStore
  BY <1>15, RevertKeeps DEF RevertStore, AtRun, EvalReverts
<1>16. CASE RevertExternCall
  BY <1>16, RevertKeeps DEF RevertExternCall, AtRun, EvalReverts
<1> QED
  BY <1>1, <1>2, <1>3, <1>4, <1>5, <1>6, <1>7, <1>8, <1>9, <1>10, <1>11, <1>12, <1>13,
     <1>14, <1>15, <1>16 DEF RunOp

(* Every step of an evaluation keeps EvalInv. *)
LEMMA EvalInvNext == EvalInv /\ [Next]_vars => EvalInv'
<1> SUFFICES ASSUME EvalInv, [Next]_vars
             PROVE  EvalInv'
  OBVIOUS
<1>1. CASE CheckNext /\ UNCHANGED evalVars
  BY <1>1, CheckStepKeeps
<1>2. CASE EvalNext /\ UNCHANGED checkVars
  <2>1. CASE CallEval4
    BY <2>1, <1>2, CallEval4Keeps
  <2>2. CASE AllocateStack
    BY <2>2, <1>2, AllocateStackKeeps
  <2>3. CASE Deserialized
    BY <2>3, <1>2, DeserializedKeeps
  <2>4. CASE RejectOverlay
    BY <2>4, <1>2, RevertKeeps DEF RejectOverlay, EvalReverts
  <2>5. CASE ApplyOverlay
    BY <2>5, <1>2, ApplyOverlayKeeps
  <2>6. CASE RejectSourceIndex
    BY <2>6, <1>2, RevertKeeps DEF RejectSourceIndex, Overlaid, EvalReverts
  <2>7. CASE RejectInputs
    BY <2>7, <1>2, RevertKeeps DEF RejectInputs, Overlaid, EvalReverts
  <2>8. CASE EnterEval
    BY <2>8, <1>2, EnterEvalKeeps
  <2>9. CASE RunOp
    BY <2>9, <1>2, RunOpKeeps
  <2>10. CASE ReturnFromCall
    BY <2>10, <1>2, ReturnFromCallKeeps
  <2>11. CASE ReturnFromEval
    BY <2>11, <1>2, ReturnFromEvalKeeps
  <2> QED
    BY <1>2, <2>1, <2>2, <2>3, <2>4, <2>5, <2>6, <2>7, <2>8, <2>9, <2>10, <2>11
    DEF EvalNext
<1>3. CASE UNCHANGED vars
  BY <1>3, StutterKeeps
<1> QED
  BY <1>1, <1>2, <1>3 DEF Next, Stopped

(* EvalInv holds throughout, for any expression, request and depth. *)
LEMMA EvalInvariant == Spec => []EvalInv
<1>1. Init => EvalInv
  BY EvalInvInit
<1>2. EvalInv /\ [Next]_vars => EvalInv'
  BY EvalInvNext
<1> QED
  BY <1>1, <1>2, PTL DEF Spec

-----------------------------------------------------------------------------
(* The results. *)

(* Each activation is one or the other: running, or waiting for a call. *)
LEMMA FrameFacts ==
  ASSUME EvalInv, status = "eval", NEW d \in DOMAIN frames
  PROVE  \E popped \in Nat :
           /\ FrameFits(expression, profile, stackBottoms, frames[d], popped)
           /\ HoldsWords(mem, frames[d])
           /\ popped = IF d = Len(frames) THEN 0
                       ELSE OpAt(expression, frames[d].src, frames[d].pc).ins
<1>1. /\ Len(frames) \in Nat /\ frames \in Seq(FrameType) /\ Running = frames[Len(frames)]
      /\ FrameFits(expression, profile, stackBottoms, Running, 0) /\ HoldsWords(mem, Running)
  BY RunningFacts DEF Running
<1>2. d \in 1 .. Len(frames)
  BY <1>1, LenProperties
<1>3. CASE d = Len(frames)
  BY <1>1, <1>3
<1>4. CASE d \in 1 .. (Len(frames) - 1)
  <2>1. d # Len(frames)
    BY <1>1, <1>4
  <2> QED
    BY <2>1, <1>4, SuspendedFacts
<1> QED
  BY <1>1, <1>2, <1>3, <1>4

(* Every variable of the evaluation keeps its type. *)
THEOREM EvalTypeCorrect == Spec => []EvalTypeOK
<1>1. EvalInv => EvalTypeOK
  <2> SUFFICES ASSUME EvalInv PROVE EvalTypeOK
    OBVIOUS
  <2>1. mem = [a \in 1 .. (freePtr - 1) |-> mem[a]]
    BY DEF EvalInv
  <2>2. DOMAIN mem = 1 .. (freePtr - 1)
    BY <2>1
  <2> QED
    BY <2>2 DEF EvalInv, EvalTypeOK, Layout, FrameType
<1> QED
  BY <1>1, EvalInvariant, PTL

(* The heights of the integrity check are the heights of the evaluation:   *)
(* what integrityCheck2 computes about an op is true whenever evalLoop     *)
(* comes to it, at any call depth.                                         *)
THEOREM HeightsAsChecked == Spec => []HeightAsChecked
<1>1. EvalInv => HeightAsChecked
  <2> SUFFICES ASSUME EvalInv, status = "eval", NEW d \in DOMAIN frames
               PROVE  frames[d].bottom - frames[d].top =
                        IF d = Len(frames)
                        THEN profile[frames[d].src][frames[d].pc + 1].height
                        ELSE profile[frames[d].src][frames[d].pc + 1].height
                               - OpAt(expression, frames[d].src, frames[d].pc).ins
    BY DEF HeightAsChecked, Evaluating
  <2>1. PICK popped \in Nat :
          /\ FrameFits(expression, profile, stackBottoms, frames[d], popped)
          /\ popped = IF d = Len(frames) THEN 0
                      ELSE OpAt(expression, frames[d].src, frames[d].pc).ins
    BY FrameFacts
  <2>2. profile[frames[d].src][frames[d].pc + 1].height \in Nat
    BY <2>1, FrameInRegion
  <2>3. frames[d].bottom - frames[d].top
          = profile[frames[d].src][frames[d].pc + 1].height - popped
    BY <2>1 DEF FrameFits
  <2> QED
    BY <2>1, <2>2, <2>3
<1> QED
  BY <1>1, EvalInvariant, PTL

(* The stack of every activation is in the region of its source. *)
LEMMA InBounds == EvalInv => StackInBounds
<1> SUFFICES ASSUME EvalInv, status = "eval", NEW d \in DOMAIN frames
             PROVE  /\ frames[d].bottom = stackBottoms[frames[d].src]
                    /\ frames[d].top \in (frames[d].bottom - Sources[frames[d].src].alloc)
                                           .. frames[d].bottom
  BY DEF StackInBounds, Evaluating
<1>1. PICK popped \in Nat :
        /\ FrameFits(expression, profile, stackBottoms, frames[d], popped)
        /\ popped = IF d = Len(frames) THEN 0
                    ELSE OpAt(expression, frames[d].src, frames[d].pc).ins
  BY FrameFacts
<1>2. /\ frames[d].src \in DOMAIN Sources
      /\ frames[d].top \in Nat /\ frames[d].bottom \in Nat
      /\ frames[d].bottom = stackBottoms[frames[d].src]
      /\ frames[d].bottom - Sources[frames[d].src].alloc <= frames[d].top
  BY <1>1, FrameInRegion
<1>3. Sources[frames[d].src].alloc \in Nat
  BY <1>2, RegionFacts
<1>4. frames[d].top <= frames[d].bottom
  <2>1. frames[d].bottom - frames[d].top \in Nat
    <3>1. CASE d = Len(frames)
      <4>1. frames[d] = Running
        BY <3>1 DEF Running
      <4>2. Running.bottom - Running.top \in Nat
        BY RunningFacts
      <4> QED
        BY <4>1, <4>2
    <3>2. CASE d # Len(frames)
      <4>1. Len(frames) \in Nat /\ frames \in Seq(FrameType)
        BY RunningFacts
      <4>2. d \in 1 .. (Len(frames) - 1)
        BY <3>2, <4>1, LenProperties
      <4>3. WaitsFor(expression, frames[d], frames[d + 1])
        BY <4>2, SuspendedFacts
      <4>4. /\ frames[d].pc \in Nat /\ frames[d].pc < Len(Sources[frames[d].src].ops)
        BY <1>1, <4>3, FrameInRegion DEF WaitsFor, Sources
      <4>5. OpChecked(expression, OpAt(expression, frames[d].src, frames[d].pc),
                      profile[frames[d].src][frames[d].pc + 1],
                      profile[frames[d].src][frames[d].pc + 2])
        BY <1>2, <4>4, OpFacts DEF EvalInv
      <4>6. popped <= profile[frames[d].src][frames[d].pc + 1].height
        BY <1>1, <3>2, <4>5 DEF OpChecked
      <4>7. /\ frames[d].bottom - frames[d].top
                 = profile[frames[d].src][frames[d].pc + 1].height - popped
            /\ profile[frames[d].src][frames[d].pc + 1].height \in Nat
        BY <1>1, FrameInRegion DEF FrameFits
      <4> QED
        BY <4>6, <4>7
    <3> QED
      BY <3>1, <3>2
  <2> QED
    BY <2>1, <1>2
<1> QED
  BY <1>2, <1>3, <1>4

(* No stack of an accepted expression ever leaves its allocation, although *)
(* evalLoop and the ops check no address.                                  *)
THEOREM StacksInBounds == Spec => []StackInBounds
<1>1. EvalInv => StackInBounds
  BY InBounds
<1> QED
  BY <1>1, EvalInvariant, PTL

(* No op and no caller of eval4 ever sees a word that was in memory before *)
(* the evaluation, or that a trace or an external call left there.         *)
THEOREM WordsAreComputed == Spec => []OnlyComputedWords
<1>1. EvalInv => OnlyComputedWords
  <2> SUFFICES ASSUME EvalInv PROVE OnlyComputedWords
    OBVIOUS
  <2>1. ASSUME status = "eval", NEW d \in DOMAIN frames
        PROVE  \A a \in LiveWords(frames[d]) : mem[a] \in Value
    BY <2>1, FrameFacts DEF HoldsWords, LiveWords
  <2>2. status = "ok" => result.stack \in Seq(Value)
    BY DEF EvalInv
  <2> QED
    BY <2>1, <2>2 DEF OnlyComputedWords, Evaluating
<1> QED
  BY <1>1, EvalInvariant, PTL

(* The length words next to the stacks survive every op, every trace and   *)
(* every external call, until eval4 turns one into the returned array's.   *)
THEOREM LengthWordsStayIntact == Spec => []LengthWordsIntact
<1>1. EvalInv => LengthWordsIntact
  <2> SUFFICES ASSUME EvalInv, status # "ok", NEW s \in DOMAIN stackBottoms
               PROVE  mem[LengthAddress(s)] = LengthWord(Sources[s].alloc)
    BY DEF LengthWordsIntact
  <2>1. s \in 1 .. Len(stackBottoms)
    BY LenProperties DEF EvalInv, Layout
  <2> QED
    BY <2>1 DEF EvalInv, LengthWordsAt, LengthAddress, Sources
<1> QED
  BY <1>1, EvalInvariant, PTL

(* state.sourceIndex is the source that runs, at any call depth. *)
THEOREM RunningSourceIndex == Spec => []SourceIndexIsRunning
<1>1. EvalInv => SourceIndexIsRunning
  BY RunningFacts DEF SourceIndexIsRunning, Evaluating
<1> QED
  BY <1>1, EvalInvariant, PTL

(* What is evaluated has passed a check that implements the validation of  *)
(* whole sources: no evaluation disturbs the walk of integrityCheck2.      *)
THEOREM CheckValidatesForEval == Spec => ImplementsValidation
<1>1. Init => WalkInv /\ Abstract!Init
  BY WalkInvInit, ValidationBegins DEF Init
<1>2. [Next]_vars => CheckNext \/ UNCHANGED checkVars
  BY DEF Next, vars, Stopped
<1>3. WalkInv /\ [Next]_vars => WalkInv'
  BY <1>2, WalkInvNext
<1>4. WalkInv /\ [Next]_vars => [Abstract!Next]_<<expression, Outcome>>
  BY <1>2, WalkValidates
<1> QED
  BY <1>1, <1>3, <1>4, PTL DEF Spec, ImplementsValidation, Abstract!Spec

-----------------------------------------------------------------------------
(* Scopes.  What an op, a call or a return may write, and what follows for  *)
(* the items that it must leave alone: those of other activations, and      *)
(* those below the highwater of its own.  Both need that no source is       *)
(* active twice: then stack regions tell activations apart.                 *)

(* The words that differ after the step are in the stack of the source that *)
(* runs then, and above the highwater if its activation is not a new one.   *)
WritesInScope(s, n) ==
  \A a \in 1 .. (freePtr - 1) :
    mem'[a] # mem[a] =>
      /\ a \in (stackBottoms[s] - Sources[s].alloc) .. (stackBottoms[s] - 1)
      /\ n \in DOMAIN frames =>
           a < stackBottoms[s] - profile[s][frames[n].pc + 1].highwater

(* What a step of evalLoop does: n activations are left. *)
StaysInScope(n) ==
  /\ n \in Nat /\ DOMAIN frames' = 1 .. n /\ n >= 1
  /\ frames'[n].src \in DOMAIN Sources
  /\ \A d \in DOMAIN frames \cap DOMAIN frames' :
       frames'[d].src = frames[d].src /\ frames'[d].parent = frames[d].parent
  /\ WritesInScope(frames'[n].src, n)

-----------------------------------------------------------------------------
(* What lies below the highwater is on the stack, at every op. *)
LEMMA HighwaterOnStack ==
  ASSUME CheckInv, verdict = "ok", NEW s \in DOMAIN Sources,
         NEW k \in 1 .. (Len(Sources[s].ops) + 1)
  PROVE  /\ profile[s][k].highwater \in Nat
         /\ profile[s][k].highwater <= profile[s][k].height
<1>1. /\ expression.sources \in Seq(Source) /\ profile \in Seq(Seq(MarkType))
      /\ Len(Sources) \in Nat /\ s \in 1 .. Len(Sources) /\ source = Len(Sources) + 1
  BY LenProperties DEF CheckInv, CheckTypeOK, CheckedBehindCursor, Sources, MarkType
<1>2. s \in DOMAIN profile /\ SourceChecked(s)
  BY <1>1 DEF CheckInv, CheckedBehindCursor
<1>3. Len(Sources[s].ops) \in Nat
  BY SourceFacts
<1>4. profile[s] \in Seq(MarkType)
  BY <1>1, <1>2, LenProperties, ElementOfSeq
<1>5. /\ Len(profile[s]) = Len(Sources[s].ops) + 1
      /\ profile[s][1] = Mark(Sources[s].inputs, Sources[s].inputs)
  BY <1>2 DEF SourceChecked, OpsChecked, Sources
<1>6. ASSUME NEW j \in 1 .. (Len(Sources[s].ops) + 1)
      PROVE  profile[s][j].highwater \in Nat /\ profile[s][j].height \in Nat
  <2>1. profile[s][j] \in MarkType
    BY <1>4, <1>5, ElementOfSeq
  <2> QED
    BY <2>1 DEF MarkType
<1>7. CASE k = 1
  <2>1. Sources[s].inputs \in Nat
    BY SourceFacts
  <2> QED
    BY <1>5, <1>7, <2>1 DEF Mark
<1>8. CASE k # 1
  <2> DEFINE j == k - 2
  <2>1. j \in Nat /\ j < Len(Sources[s].ops) /\ j + 1 \in 1 .. (Len(Sources[s].ops) + 1)
        /\ j + 2 = k
    BY <1>3, <1>8
  <2> DEFINE op == OpAt(expression, s, j)
             before == profile[s][j + 1]
             after == profile[s][j + 2]
  <2>2. /\ OpChecked(expression, op, before, after) /\ op.arg \in Nat
        /\ op.ins \in Nibble /\ op.outs \in Nibble
    BY <2>1, OpFacts
  <2>3. op.ins \in Nat /\ op.outs \in Nat
    BY <2>2, NibblesAreNumbers
  <2>4. before.highwater \in Nat /\ before.height \in Nat /\ after.height \in Nat
    BY <2>1, <1>6
  <2>5. after.highwater \in Nat
    BY <2>1, <1>6
  <2>6. /\ op.ins <= before.height
        /\ after.height = before.height - op.ins + op.outs
        /\ HighwaterAfterRead(op, before.highwater) <= before.height - op.ins
        /\ after.highwater = IF op.outs > 1 THEN after.height
                             ELSE HighwaterAfterRead(op, before.highwater)
    BY <2>2 DEF OpChecked
  <2>7. HighwaterAfterRead(op, before.highwater) \in Nat
    BY <2>2, <2>4 DEF HighwaterAfterRead
  <2> HIDE DEF op, before, after
  <2>8. after.highwater <= after.height
    BY <2>3, <2>4, <2>6, <2>7
  <2> QED
    BY <2>1, <2>5, <2>8 DEF after
<1> QED
  BY <1>7, <1>8

(* An op consumes nothing below the highwater. *)
LEMMA OpLeavesHighwater ==
  ASSUME CheckInv, verdict = "ok", NEW s \in DOMAIN Sources,
         NEW k \in Nat, k < Len(Sources[s].ops)
  PROVE  profile[s][k + 1].highwater
           <= profile[s][k + 1].height - OpAt(expression, s, k).ins
<1> DEFINE op == OpAt(expression, s, k)
           before == profile[s][k + 1]
<1>1. /\ HighwaterAfterRead(op, before.highwater) <= before.height - op.ins
      /\ op.arg \in Nat /\ op.ins \in Nibble
  BY OpFacts DEF OpChecked
<1>2. Len(Sources[s].ops) \in Nat /\ before.height \in Nat
  BY SourceFacts, OpFacts
<1>3. before.highwater \in Nat
  BY <1>2, HighwaterOnStack
<1>4. op.ins \in Nat
  BY <1>1, NibblesAreNumbers
<1>5. before.highwater <= HighwaterAfterRead(op, before.highwater)
      /\ HighwaterAfterRead(op, before.highwater) \in Nat
  BY <1>1, <1>3 DEF HighwaterAfterRead
<1> HIDE DEF op, before
<1>6. before.highwater <= before.height - op.ins
  BY <1>1, <1>2, <1>3, <1>4, <1>5
<1> QED
  BY <1>6 DEF op, before

(* The regions of two sources have no word in common. *)
LEMMA RegionsApart ==
  ASSUME EvalInv, status = "eval", NEW s \in DOMAIN Sources, NEW t \in DOMAIN Sources, s # t,
         NEW a \in (stackBottoms[t] - Sources[t].alloc) .. (stackBottoms[t] - 1)
  PROVE  a \notin (stackBottoms[s] - Sources[s].alloc) .. (stackBottoms[s] - 1)
<1>1. /\ s \in 1 .. Len(stackBottoms) /\ stackBottoms[s] \in Nat /\ Sources[s].alloc \in Nat
      /\ t \in 1 .. Len(stackBottoms) /\ stackBottoms[t] \in Nat /\ Sources[t].alloc \in Nat
  BY RegionFacts
<1>2. \A i, j \in 1 .. Len(stackBottoms) :
        i < j => stackBottoms[i] <= stackBottoms[j] - Sources[j].alloc - 1
  BY DEF EvalInv, Layout, Sources
<1>3. Len(stackBottoms) \in Nat
  BY LenProperties DEF EvalInv, Layout
<1>4. s < t \/ t < s
  BY <1>1, <1>3
<1>5. CASE s < t
  <2>1. stackBottoms[s] <= stackBottoms[t] - Sources[t].alloc - 1
    BY <1>1, <1>2, <1>5
  <2>2. a >= stackBottoms[s]
    BY <1>1, <2>1
  <2> QED
    BY <1>1, <2>2
<1>6. CASE t < s
  <2>1. stackBottoms[t] <= stackBottoms[s] - Sources[s].alloc - 1
    BY <1>1, <1>2, <1>6
  <2>2. a < stackBottoms[s] - Sources[s].alloc
    BY <1>1, <2>1
  <2> QED
    BY <1>1, <2>2
<1> QED
  BY <1>4, <1>5, <1>6

-----------------------------------------------------------------------------
(* The ops. *)

(* An op that is no call moves the running frame and changes at most the    *)
(* words that it pushes.                                                    *)
OpWrites ==
  /\ Advance(NewTop)
  /\ \A a \in 1 .. (freePtr - 1) :
       mem'[a] # mem[a] => a \in NewTop .. (NewTop + RunningOp.outs - 1)

(* An op stays in the scope of the running source. *)
LEMMA OpInScope ==
  ASSUME EvalInv, NEW code, AtRun(code), OpWrites
  PROVE  StaysInScope(Len(frames))
<1> DEFINE n == Len(frames)
           s == Running.src
           g == Frame(s, Running.parent, Running.bottom, NewTop, Running.pc + 1)
<1>1. /\ status = "eval" /\ Running.pc < Len(Sources[s].ops)
      /\ RunningOp.ins \in Nat /\ RunningOp.outs \in Nat
  BY RunningOpFacts
<1>2. /\ n \in Nat /\ n >= 1 /\ frames \in Seq(FrameType) /\ s \in DOMAIN Sources
      /\ Running.pc \in Nat /\ Running.top \in Nat /\ Running.bottom \in Nat
      /\ Running.bottom = stackBottoms[s] /\ Sources[s].alloc \in Nat
      /\ profile[s][Running.pc + 1].height \in Nat
      /\ Running.bottom - Running.top = profile[s][Running.pc + 1].height
  BY <1>1, RunningFacts
<1>3. DOMAIN frames = 1 .. n /\ n \in DOMAIN frames /\ frames[n] = Running
  BY <1>2, LenProperties DEF Running
<1>4. frames' = [frames EXCEPT ![n] = g]
  BY DEF OpWrites, Advance
<1>5. g.src = s /\ g.parent = Running.parent
  BY DEF Frame
<1>6. /\ DOMAIN frames' = 1 .. n /\ frames'[n].src = s
      /\ \A d \in 1 .. n : frames'[d].src = frames[d].src /\ frames'[d].parent = frames[d].parent
  <2> HIDE DEF g, n, s
  <2>1. \A d \in 1 .. n : frames'[d] = IF d = n THEN g ELSE frames[d]
    BY <1>3, <1>4
  <2>2. DOMAIN frames' = 1 .. n
    BY <1>3, <1>4
  <2>3. frames[n].src = s /\ frames[n].parent = Running.parent
    BY <1>3 DEF s
  <2> QED
    BY <1>3, <1>5, <2>1, <2>2, <2>3
<1>7. WritesInScope(s, n)
  <2> SUFFICES ASSUME NEW a \in 1 .. (freePtr - 1), mem'[a] # mem[a]
               PROVE  /\ a \in (stackBottoms[s] - Sources[s].alloc) .. (stackBottoms[s] - 1)
                      /\ a < stackBottoms[s] - profile[s][frames[n].pc + 1].highwater
    BY DEF WritesInScope
  <2>1. a \in NewTop .. (NewTop + RunningOp.outs - 1)
    BY DEF OpWrites
  <2>2. /\ NewTop \in Nat /\ Running.bottom - Sources[s].alloc <= NewTop
        /\ NewTop + RunningOp.outs <= Running.bottom
    BY AdvanceHeights
  <2>3. NewTop + RunningOp.outs = Running.top + RunningOp.ins
    <3>1. Running.top \in Nat /\ RunningOp.ins \in Nat /\ RunningOp.outs \in Nat
      BY <1>1, <1>2
    <3> QED
      BY <3>1 DEF NewTop
  <2>4. profile[s][Running.pc + 1].highwater
          <= profile[s][Running.pc + 1].height - RunningOp.ins
    BY <1>1, <1>2, OpLeavesHighwater DEF EvalInv, RunningOp
  <2>5. profile[s][Running.pc + 1].highwater \in Nat
    <3>1. CheckInv /\ verdict = "ok"
      BY <1>1 DEF EvalInv
    <3>2. Len(Sources[s].ops) \in Nat
      BY <1>2, <3>1, SourceFacts
    <3>3. Running.pc \in Nat /\ Running.pc < Len(Sources[s].ops)
      BY <1>1, <1>2
    <3>4. Running.pc + 1 \in 1 .. (Len(Sources[s].ops) + 1)
      BY <3>2, <3>3
    <3> QED
      BY <1>2, <3>1, <3>4, HighwaterOnStack
  <2>6. a \in (Running.bottom - Sources[s].alloc) .. (Running.bottom - 1)
    BY <1>1, <1>2, <2>1, <2>2, RangeArithmetic
  <2>7. a < Running.top + RunningOp.ins /\ a \in Nat
    <3>1. NewTop \in Nat /\ RunningOp.outs \in Nat
      BY <1>1, <2>2
    <3>2. a < NewTop + RunningOp.outs /\ a \in Nat
      BY <2>1, <3>1
    <3> QED
      BY <2>3, <3>2
  <2>8. a < Running.bottom - profile[s][Running.pc + 1].highwater
    <3> DEFINE highwater == profile[s][Running.pc + 1].highwater
               height == profile[s][Running.pc + 1].height
    <3>1. /\ highwater \in Nat /\ height \in Nat /\ highwater <= height - RunningOp.ins
          /\ Running.bottom - Running.top = height
      BY <1>2, <2>4, <2>5
    <3>2. Running.top \in Nat /\ Running.bottom \in Nat /\ RunningOp.ins \in Nat
      BY <1>1, <1>2
    <3> HIDE DEF highwater, height
    <3>3. a < Running.bottom - highwater
      BY <2>7, <3>1, <3>2
    <3> QED
      BY <3>3 DEF highwater
  <2> QED
    BY <1>2, <1>3, <2>6, <2>8
<1> QED
  BY <1>2, <1>3, <1>6, <1>7 DEF StaysInScope

(* An op that pops its inputs and pushes one word writes that word. *)
LEMMA PopPushWrites ==
  ASSUME EvalInv, NEW code, AtRun(code), RunningOp.outs = 1, NEW word,
         PopPush(RunningOp.ins, word)
  PROVE  OpWrites
<1>1. NewTop = Running.top + RunningOp.ins - 1
  BY DEF NewTop
<1>2. mem' = [mem EXCEPT ![NewTop] = word] /\ Advance(NewTop)
  BY <1>1 DEF PopPush
<1>3. NewTop \in Nat /\ mem = [a \in 1 .. (freePtr - 1) |-> mem[a]]
  BY AdvanceHeights DEF EvalInv
<1>4. \A a \in 1 .. (freePtr - 1) : mem'[a] # mem[a] => a = NewTop
  BY <1>2, <1>3
<1> QED
  BY <1>2, <1>3, <1>4 DEF OpWrites

(* An op that only pops writes nothing. *)
LEMMA PopWrites ==
  ASSUME EvalInv, NEW code \in {"set", "ensure"}, AtRun(code), Advance(Running.top + 2),
         mem' = mem
  PROVE  OpWrites
<1>1. RunningOp.ins = 2 /\ RunningOp.outs = 0
  BY RunningIO
<1>2. NewTop = Running.top + 2
  BY <1>1, AdvanceHeights, RunningOpFacts, RunningFacts DEF NewTop
<1> QED
  BY <1>2 DEF OpWrites

(* extern writes its outputs, once it has put back what it borrowed. *)
LEMMA ExternWrites ==
  ASSUME EvalInv, RunExtern
  PROVE  OpWrites
<1> DEFINE outs == RunningOp.outs
           popped == Running.top + RunningOp.ins
<1>1. AtRun("extern") /\ status = "eval" /\ outs \in Nat /\ popped \in Nat
      /\ RunningOp.ins \in Nat /\ Running.top \in Nat
  <2>1. AtRun("extern")
    BY DEF RunExtern
  <2>2. status = "eval" /\ RunningOp.outs \in Nat /\ RunningOp.ins \in Nat
    BY <2>1, RunningOpFacts
  <2>3. Running.top \in Nat
    BY <2>2, RunningFacts
  <2> QED
    BY <2>1, <2>2, <2>3
<1>2. PICK outputs \in ExternAnswers :
        /\ mem' = [a \in DOMAIN mem |->
                     IF a \in (popped - outs) .. (popped - 1) THEN outputs[popped - a]
                     ELSE Restored(Borrowed(LengthWord(RunningOp.ins)))[a]]
        /\ Advance(popped - outs)
  BY DEF RunExtern
<1>3. NewTop = popped - outs /\ NewTop \in Nat
  BY <1>1, AdvanceHeights DEF NewTop
<1>4. Restored(Borrowed(LengthWord(RunningOp.ins))) = mem
  BY <1>1, RestoredIsMem
<1>5. mem = [a \in 1 .. (freePtr - 1) |-> mem[a]]
  BY DEF EvalInv
<1>6. \A a \in 1 .. (freePtr - 1) : mem'[a] # mem[a] => a \in NewTop .. (popped - 1)
  BY <1>2, <1>3, <1>4, <1>5
<1>7. popped - 1 = NewTop + outs - 1
  BY <1>1, <1>3
<1> QED
  BY <1>2, <1>3, <1>6, <1>7 DEF OpWrites

(* The ops but call. *)
LEMMA PlainOpsInScope ==
  ASSUME EvalInv,
         \/ RunStack \/ RunConstant \/ RunContext \/ RunPure \/ RunEnsure
         \/ RunGet \/ RunSet \/ RunExtern
  PROVE  StaysInScope(Len(frames))
<1>1. CASE RunStack
  <2>1. AtRun("stack") /\ PopPush(0, StackItem(RunningOp.arg))
    BY <1>1 DEF RunStack
  <2>2. RunningOp.ins = 0 /\ RunningOp.outs = 1
    BY <2>1, RunningIO
  <2> QED
    BY <2>1, <2>2, PopPushWrites, OpInScope
<1>2. CASE RunConstant
  <2>1. AtRun("constant") /\ PopPush(0, expression.constants[RunningOp.arg])
    BY <1>2 DEF RunConstant
  <2>2. RunningOp.ins = 0 /\ RunningOp.outs = 1
    BY <2>1, RunningIO
  <2> QED
    BY <2>1, <2>2, PopPushWrites, OpInScope
<1>3. CASE RunContext
  <2>1. AtRun("context") /\ PopPush(0, request.context[ContextRow][ContextColumn])
    BY <1>3 DEF RunContext
  <2>2. RunningOp.ins = 0 /\ RunningOp.outs = 1
    BY <2>1, RunningIO
  <2> QED
    BY <2>1, <2>2, PopPushWrites, OpInScope
<1>4. CASE RunPure
  <2>1. PICK code \in PureCodes :
          AtRun(code) /\ PopPush(RunningOp.ins, PureResult(code, Items(RunningOp.ins)))
    BY <1>4 DEF RunPure
  <2>2. RunningOp.outs = 1
    BY <2>1, RunningIO
  <2> QED
    BY <2>1, <2>2, PopPushWrites, OpInScope
<1>5. CASE RunEnsure
  <2>1. AtRun("ensure") /\ Advance(Running.top + 2) /\ mem' = mem
    BY <1>5 DEF RunEnsure
  <2> QED
    BY <2>1, PopWrites, OpInScope
<1>6. CASE RunGet
  <2>1. PICK value : AtRun("get") /\ PopPush(1, value)
    BY <1>6 DEF RunGet
  <2>2. RunningOp.ins = 1 /\ RunningOp.outs = 1
    BY <2>1, RunningIO
  <2> QED
    BY <2>1, <2>2, PopPushWrites, OpInScope
<1>7. CASE RunSet
  <2>1. AtRun("set") /\ Advance(Running.top + 2) /\ mem' = mem
    BY <1>7 DEF RunSet
  <2> QED
    BY <2>1, PopWrites, OpInScope
<1>8. CASE RunExtern
  <2>1. AtRun("extern")
    BY <1>8 DEF RunExtern
  <2> QED
    BY <2>1, <1>8, ExternWrites, OpInScope
<1> QED
  BY <1>1, <1>2, <1>3, <1>4, <1>5, <1>6, <1>7, <1>8

-----------------------------------------------------------------------------
(* Calls and returns. *)

(* The frame of the source that calls, and that of the source it calls. *)
CallerFrame == Frame(Running.src, Running.parent, Running.bottom,
                     Running.top + RunningOp.ins, Running.pc)
CalleeFrame == Frame(RunningOp.arg, sourceIndex, stackBottoms[RunningOp.arg],
                     stackBottoms[RunningOp.arg] - RunningOp.ins, 0)

LEMMA CallFrames ==
  ASSUME EvalInv, RunCall
  PROVE  /\ AtRun("call") /\ status = "eval" /\ RunningOp.arg \in DOMAIN Sources
         /\ RunningOp.ins \in Nat /\ RunningOp.ins = Sources[RunningOp.arg].inputs
         /\ stackBottoms[RunningOp.arg] \in Nat /\ Sources[RunningOp.arg].alloc \in Nat
         /\ RunningOp.ins <= Sources[RunningOp.arg].alloc
         /\ Len(frames) \in Nat /\ Len(frames) >= 1 /\ DOMAIN frames = 1 .. Len(frames)
         /\ frames[Len(frames)] = Running
         /\ CallerFrame.src = Running.src /\ CallerFrame.parent = Running.parent
         /\ CalleeFrame.src = RunningOp.arg
         /\ DOMAIN frames' = 1 .. (Len(frames) + 1) /\ frames'[Len(frames) + 1] = CalleeFrame
         /\ \A d \in 1 .. Len(frames) :
              frames'[d] = IF d = Len(frames) THEN CallerFrame ELSE frames[d]
<1> DEFINE n == Len(frames)
           callee == RunningOp.arg
           ins == RunningOp.ins
           bottom == stackBottoms[callee]
           caller == CallerFrame
           g == CalleeFrame
           marked == [frames EXCEPT ![n] = caller]
<1>1. /\ AtRun("call") /\ status = "eval"
      /\ mem' = [a \in DOMAIN mem |->
                   IF a \in (bottom - ins) .. (bottom - 1)
                   THEN CopiedInput(bottom - a, bottom) ELSE mem[a]]
      /\ frames' = Append(marked, g)
  BY DEF RunCall, CalleeBottom, AtRun, CallerFrame, CalleeFrame
<1>2. /\ ins \in Nat /\ callee \in DOMAIN Sources /\ ins = Sources[callee].inputs
  BY <1>1, RunningIO, RunningOpFacts
<1>3. bottom \in Nat /\ Sources[callee].alloc \in Nat
  BY <1>1, <1>2, RegionFacts
<1>4. ins <= Sources[callee].alloc
  <2>1. CheckInv /\ verdict = "ok"
    BY <1>1 DEF EvalInv
  <2>2. /\ profile[callee][1].height = Sources[callee].inputs
        /\ Len(Sources[callee].ops) \in Nat
        /\ \A k \in 1 .. (Len(Sources[callee].ops) + 1) :
             profile[callee][k].height <= Sources[callee].alloc
    BY <2>1, <1>2, SourceFacts
  <2>3. 1 \in 1 .. (Len(Sources[callee].ops) + 1)
    BY <2>2
  <2> QED
    BY <2>2, <2>3, <1>2
<1>5. /\ n \in Nat /\ n >= 1 /\ DOMAIN frames = 1 .. n /\ frames[n] = Running
      /\ frames \in Seq(FrameType)
  BY <1>1, RunningFacts, LenProperties DEF Running
<1>6. caller.src = Running.src /\ caller.parent = Running.parent /\ g.src = callee
  BY DEF Frame, CallerFrame, CalleeFrame
<1>7. /\ DOMAIN frames' = 1 .. (n + 1) /\ frames'[n + 1] = g
      /\ \A d \in 1 .. n : frames'[d] = IF d = n THEN caller ELSE frames[d]
  <2>1. caller \in FrameType /\ g \in FrameType
    <3>1. /\ Running.src \in Nat /\ Running.parent \in Nat /\ Running.bottom \in Nat
          /\ Running.top \in Nat /\ Running.pc \in Nat /\ sourceIndex = Running.src
      BY <1>1, RunningFacts
    <3>2. callee \in Nat /\ bottom - ins \in Nat
      <4>1. callee \in Nat
        BY <1>1, <1>2, SourceFacts DEF EvalInv
      <4>2. bottom - Sources[callee].alloc - 1 >= 1
        BY <1>1, <1>2, RegionFacts
      <4> QED
        BY <4>1, <4>2, <1>2, <1>3, <1>4
    <3> HIDE DEF callee, ins, bottom
    <3> QED
      BY <3>1, <3>2, <1>2, <1>3 DEF Frame, FrameType, CallerFrame, CalleeFrame, ins, bottom, callee
  <2> HIDE DEF caller, g, n
  <2>2. n \in 1 .. Len(frames)
    BY <1>5 DEF n
  <2>3. /\ marked \in Seq(FrameType) /\ Len(marked) = n
        /\ \A d \in 1 .. n : marked[d] = IF d = n THEN caller ELSE frames[d]
    BY <2>1, <2>2, <1>5, ExceptSeq DEF n
  <2> HIDE DEF marked
  <2>4. /\ Append(marked, g) \in Seq(FrameType) /\ Len(Append(marked, g)) = n + 1
        /\ \A d \in 1 .. n : Append(marked, g)[d] = marked[d]
        /\ Append(marked, g)[n + 1] = g
    BY <2>1, <2>3, AppendProperties
  <2>5. DOMAIN Append(marked, g) = 1 .. (n + 1)
    BY <2>4, LenProperties
  <2> QED
    BY <1>1, <2>3, <2>4, <2>5
<1> QED
  BY <1>1, <1>2, <1>3, <1>4, <1>5, <1>6, <1>7

(* A call writes the inputs, on the stack of a new activation. *)
LEMMA CallInScope ==
  ASSUME EvalInv, RunCall
  PROVE  StaysInScope(Len(frames) + 1)
<1> DEFINE n == Len(frames)
           callee == RunningOp.arg
           ins == RunningOp.ins
           bottom == stackBottoms[callee]
           caller == CallerFrame
           g == CalleeFrame
<1>1. /\ AtRun("call") /\ status = "eval"
      /\ mem' = [a \in DOMAIN mem |->
                   IF a \in (bottom - ins) .. (bottom - 1)
                   THEN CopiedInput(bottom - a, bottom) ELSE mem[a]]
  BY DEF RunCall, CalleeBottom, AtRun
<1>2. /\ ins \in Nat /\ callee \in DOMAIN Sources /\ ins = Sources[callee].inputs
  BY CallFrames
<1>3. bottom \in Nat /\ Sources[callee].alloc \in Nat
  BY CallFrames
<1>4. ins <= Sources[callee].alloc
  BY CallFrames
<1>5. n \in Nat /\ n >= 1 /\ DOMAIN frames = 1 .. n /\ frames[n] = Running
  BY CallFrames
<1>6. caller.src = Running.src /\ caller.parent = Running.parent /\ g.src = callee
  BY CallFrames
<1>7. /\ DOMAIN frames' = 1 .. (n + 1) /\ frames'[n + 1] = g
      /\ \A d \in 1 .. n : frames'[d] = IF d = n THEN caller ELSE frames[d]
  BY CallFrames
<1>8. \A d \in DOMAIN frames :
        frames'[d].src = frames[d].src /\ frames'[d].parent = frames[d].parent
  <2> HIDE DEF caller, g, n
  <2> QED
    BY <1>5, <1>6, <1>7
<1>9. WritesInScope(callee, n + 1)
  <2> SUFFICES ASSUME NEW a \in 1 .. (freePtr - 1), mem'[a] # mem[a]
               PROVE  a \in (bottom - Sources[callee].alloc) .. (bottom - 1)
    <3>1. n + 1 \notin DOMAIN frames
      BY <1>5
    <3> QED
      BY <3>1 DEF WritesInScope
  <2>1. mem = [b \in 1 .. (freePtr - 1) |-> mem[b]]
    BY DEF EvalInv
  <2>2. a \in DOMAIN mem
    BY <2>1
  <2> HIDE DEF bottom, ins, callee
  <2>3. a \in (bottom - ins) .. (bottom - 1)
    BY <1>1, <2>2
  <2> QED
    BY <2>3, <1>2, <1>3, <1>4
<1>10. n + 1 \in Nat /\ n + 1 >= 1 /\ frames'[n + 1].src = callee
  <2> HIDE DEF g, n
  <2> QED
    BY <1>5, <1>6, <1>7
<1> QED
  BY <1>2, <1>7, <1>8, <1>9, <1>10 DEF StaysInScope

(* What becomes of the frame that waits for the running one. *)
ResumedFrame == Frame(Waiting.src, Waiting.parent, Waiting.bottom,
                      Waiting.top - WaitingOp.outs, Waiting.pc + 1)

LEMMA ReturnFrames ==
  ASSUME EvalInv, ReturnFromCall
  PROVE  /\ AtReturn /\ status = "eval" /\ Len(frames) \in Nat /\ Len(frames) > 1
         /\ DOMAIN frames = 1 .. Len(frames)
         /\ DOMAIN frames' = 1 .. (Len(frames) - 1)
         /\ frames'[Len(frames) - 1] = ResumedFrame
         /\ ResumedFrame.src = Waiting.src /\ ResumedFrame.parent = Waiting.parent
         /\ \A d \in 1 .. (Len(frames) - 2) : frames'[d] = frames[d]
<1> DEFINE n == Len(frames) - 1
           caller == frames[n]
           g == ResumedFrame
           left == SubSeq(frames, 1, n)
<1>1. /\ AtReturn /\ Len(frames) > 1 /\ status = "eval"
      /\ frames' = [left EXCEPT ![n] = g]
  BY DEF ReturnFromCall, AtReturn, CallOutputs, ResumedFrame, Waiting, WaitingOp
<1>2. /\ Len(frames) \in Nat /\ frames \in Seq(FrameType) /\ DOMAIN frames = 1 .. Len(frames)
      /\ n \in 1 .. (Len(frames) - 1) /\ n \in DOMAIN frames /\ n \in Nat /\ n >= 1
  BY <1>1, RunningFacts, LenProperties, SMTT(30)
<1>3. /\ DOMAIN frames' = 1 .. n /\ frames'[n] = g
      /\ \A d \in 1 .. (n - 1) : frames'[d] = frames[d]
  <2> HIDE DEF n
  <2>1. \A d \in 1 .. n : frames[d] \in FrameType
    BY <1>2, ElementOfSeq DEF n
  <2>2. /\ Len(left) = n /\ left \in Seq(FrameType) /\ \A d \in 1 .. n : left[d] = frames[d]
    <3>1. /\ left \in Seq(FrameType)
          /\ Len(left) = (IF 1 <= n THEN n - 1 + 1 ELSE 0)
          /\ \A d \in 1 .. (n - 1 + 1) : left[d] = frames[1 + d - 1]
      BY <2>1, <1>2, SubSeqProperties
    <3>2. n - 1 + 1 = n /\ 1 <= n /\ \A d \in 1 .. n : 1 + d - 1 = d
      BY <1>2
    <3> QED
      BY <3>1, <3>2
  <2>3. DOMAIN left = 1 .. n
    BY <2>2, LenProperties
  <2> HIDE DEF left, g
  <2>4. DOMAIN frames' = 1 .. n /\ \A d \in 1 .. n : frames'[d] = IF d = n THEN g ELSE left[d]
    BY <1>1, <2>3
  <2> QED
    BY <1>2, <2>2, <2>4
<1>4. g.src = Waiting.src /\ g.parent = Waiting.parent
  BY DEF Frame, ResumedFrame
<1>5. n - 1 = Len(frames) - 2
  BY <1>2
<1> QED
  BY <1>1, <1>2, <1>3, <1>4, <1>5

(* A return writes the outputs, on the stack of the activation that waits. *)
LEMMA ReturnInScope ==
  ASSUME EvalInv, ReturnFromCall
  PROVE  StaysInScope(Len(frames) - 1)
<1> DEFINE n == Len(frames) - 1
           caller == frames[n]
           op == OpAt(expression, caller.src, caller.pc)
           newTop == caller.top - op.outs
           before == profile[caller.src][caller.pc + 1]
           after == profile[caller.src][caller.pc + 2]
           alloc == Sources[caller.src].alloc
<1>1. /\ AtReturn /\ Len(frames) > 1 /\ status = "eval"
      /\ mem' = [a \in DOMAIN mem |->
                   IF a \in newTop .. (caller.top - 1)
                   THEN Traced[Running.top + (a - newTop)] ELSE Traced[a]]
  BY DEF ReturnFromCall, AtReturn, CallOutputs
<1>2. /\ Len(frames) \in Nat /\ frames \in Seq(FrameType) /\ DOMAIN frames = 1 .. Len(frames)
      /\ n \in 1 .. (Len(frames) - 1) /\ n \in DOMAIN frames /\ n \in Nat /\ n >= 1
  BY <1>1, RunningFacts, LenProperties, SMTT(30)
<1>3. /\ op.ins \in Nat
      /\ FrameFits(expression, profile, stackBottoms, caller, op.ins)
      /\ WaitsFor(expression, caller, frames[n + 1])
  BY <1>1, <1>2, SuspendedFacts
<1>4. /\ caller.pc < Len(Sources[caller.src].ops) /\ caller.src \in DOMAIN Sources
      /\ caller.bottom = stackBottoms[caller.src]
      /\ caller.bottom - caller.top = before.height - op.ins
  BY <1>3 DEF FrameFits, WaitsFor, Sources
<1>5. /\ caller.src \in Nat /\ caller.parent \in Nat /\ caller.bottom \in Nat
      /\ caller.top \in Nat /\ caller.pc \in Nat /\ caller \in FrameType
  BY <1>3 DEF FrameFits, FrameType
<1>6. CheckInv /\ verdict = "ok"
  BY <1>1 DEF EvalInv
<1>7. /\ op.outs \in Nibble /\ before.height \in Nat /\ after.height \in Nat
      /\ after.height <= alloc /\ OpChecked(expression, op, before, after)
  BY <1>4, <1>5, <1>6, OpFacts
<1>8. /\ op.outs \in Nat /\ after.height = before.height - op.ins + op.outs
      /\ op.ins <= before.height
  BY <1>7, NibblesAreNumbers DEF OpChecked
<1>9. before.highwater <= before.height - op.ins /\ before.highwater \in Nat
  <2>1. Len(Sources[caller.src].ops) \in Nat
    BY <1>4, <1>6, SourceFacts
  <2>2. caller.pc + 1 \in 1 .. (Len(Sources[caller.src].ops) + 1)
    <3> HIDE DEF caller
    <3> QED
      BY <2>1, <1>4, <1>5
  <2> QED
    BY <2>2, <1>4, <1>5, <1>6, OpLeavesHighwater, HighwaterOnStack
<1>10. alloc \in Nat /\ caller.bottom - alloc >= 2
  BY <1>1, <1>4, <1>5, RegionFacts, SMTT(30)
<1>11. ASSUME NEW a \in newTop .. (caller.top - 1)
       PROVE  /\ a \in (caller.bottom - alloc) .. (caller.bottom - 1)
              /\ a < caller.bottom - before.highwater
  <2> DEFINE bottom == caller.bottom
             top == caller.top
             ins == op.ins
             outs == op.outs
             low == before.height
             high == after.height
             highwater == before.highwater
  <2>1. /\ bottom \in Nat /\ top \in Nat /\ ins \in Nat /\ outs \in Nat /\ low \in Nat
        /\ high \in Nat /\ highwater \in Nat /\ alloc \in Nat /\ high <= alloc
        /\ bottom - top = low - ins /\ high = low - ins + outs /\ ins <= low
        /\ highwater <= low - ins /\ bottom - alloc >= 2 /\ a \in (top - outs) .. (top - 1)
    BY <1>3, <1>4, <1>5, <1>7, <1>8, <1>9, <1>10
  <2> HIDE DEF bottom, top, ins, outs, low, high, highwater, alloc
  <2>2. a \in (bottom - alloc) .. (bottom - 1) /\ a < bottom - highwater
    BY <2>1
  <2> QED
    BY <2>2 DEF bottom, highwater
<1>12. WritesInScope(caller.src, n)
  <2> SUFFICES ASSUME NEW a \in 1 .. (freePtr - 1), mem'[a] # mem[a]
               PROVE  a \in newTop .. (caller.top - 1)
    BY <1>4, <1>11 DEF WritesInScope
  <2>1. Traced = mem
    BY <1>1, RestoredIsMem DEF Traced
  <2>2. mem = [b \in 1 .. (freePtr - 1) |-> mem[b]]
    BY DEF EvalInv
  <2> HIDE DEF newTop, caller
  <2> QED
    BY <1>1, <2>1, <2>2
<1>13. /\ DOMAIN frames' = 1 .. n /\ frames'[n].src = caller.src
       /\ \A d \in 1 .. n : frames'[d].src = frames[d].src /\ frames'[d].parent = frames[d].parent
  <2>1. \A d \in 1 .. n : d = n \/ d \in 1 .. (n - 1)
    <3> HIDE DEF n
    <3> QED
      BY <1>2
  <2>2. n - 1 = Len(frames) - 2
    BY <1>2
  <2>3. \A d \in 1 .. (n - 1) : frames'[d] = frames[d]
    BY <2>2, ReturnFrames
  <2> QED
    BY <2>1, <2>3, ReturnFrames DEF Waiting
<1> QED
  BY <1>2, <1>4, <1>12, <1>13 DEF StaysInScope

(* A step within the evaluation changes no memory or stays in scope. *)
LEMMA StepInScope ==
  ASSUME EvalInv, [Next]_vars, status = "eval", status' = "eval"
  PROVE  UNCHANGED <<mem, frames>> \/ \E n \in Nat : StaysInScope(n)
<1>1. CASE UNCHANGED evalVars
  BY <1>1 DEF evalVars, memVars
<1>2. CASE RunOp
  <2>1. ASSUME NEW error \in EvalReverts, Revert(error)
        PROVE  FALSE
    BY <2>1 DEF Revert, EvalReverts
  <2>2. \/ RunStack \/ RunConstant \/ RunContext \/ RunPure \/ RunEnsure
        \/ RunGet \/ RunSet \/ RunExtern \/ RunCall
    BY <1>2, <2>1 DEF RunOp, RevertContext, RevertArithmetic, RevertEnsure,
                      RevertStore, RevertExternCall, RevertExternOutputs, RevertGas, EvalReverts
  <2>3. CASE RunCall
    BY <2>3, CallInScope DEF StaysInScope
  <2>4. CASE ~RunCall
    BY <2>2, <2>4, PlainOpsInScope DEF StaysInScope
  <2> QED
    BY <2>3, <2>4
<1>3. CASE ReturnFromCall
  BY <1>3, ReturnInScope DEF StaysInScope
<1>4. CASE UNCHANGED vars
  BY <1>4 DEF vars, evalVars, memVars
<1>5. CASE EvalNext
  BY <1>2, <1>3, <1>5 DEF EvalNext, CallEval4, AllocateStack, Deserialized, RejectOverlay,
     ApplyOverlay, RejectSourceIndex, RejectInputs, EnterEval, ReturnFromEval, Overlaid
<1> QED
  BY <1>1, <1>4, <1>5 DEF Next, Stopped

(* A word in the stack of an activation that neither ends nor runs next is   *)
(* as it was, unless sources recur.                                          *)
LEMMA OthersUntouched ==
  ASSUME EvalInv, status = "eval", ~Recursive', NEW n \in Nat, StaysInScope(n),
         NEW d \in DOMAIN frames, d \in DOMAIN frames', d # n,
         frames[d].src \in DOMAIN Sources,
         NEW a \in (stackBottoms[frames[d].src] - Sources[frames[d].src].alloc)
                     .. (stackBottoms[frames[d].src] - 1)
  PROVE  mem'[a] = mem[a]
<1> DEFINE s == frames'[n].src
           t == frames[d].src
<1>1. /\ DOMAIN frames' = 1 .. n /\ n >= 1 /\ s \in DOMAIN Sources /\ frames'[d].src = t
      /\ WritesInScope(s, n)
  BY DEF StaysInScope
<1>2. d < n /\ n \in DOMAIN frames'
  BY <1>1
<1>3. s # t
  BY <1>1, <1>2 DEF Recursive
<1>4. a \notin (stackBottoms[s] - Sources[s].alloc) .. (stackBottoms[s] - 1)
  BY <1>1, <1>3, RegionsApart
<1>5. a \in 1 .. (freePtr - 1)
  <2>1. /\ stackBottoms[t] \in Nat /\ Sources[t].alloc \in Nat /\ freePtr \in Nat
        /\ stackBottoms[t] - Sources[t].alloc - 1 >= 1 /\ stackBottoms[t] <= freePtr
    BY RegionFacts
  <2> QED
    BY <2>1
<1> QED
  BY <1>1, <1>4, <1>5 DEF WritesInScope

(* Where the items below the highwater of an activation are. *)
LEMMA ImmutableInRegion ==
  ASSUME EvalInv, status = "eval", NEW d \in DOMAIN frames,
         NEW i \in 0 .. (profile[frames[d].src][frames[d].pc + 1].highwater - 1)
  PROVE  /\ frames[d].src \in DOMAIN Sources
         /\ frames[d].bottom = stackBottoms[frames[d].src]
         /\ ItemAddress(frames[d], i) \in
              (stackBottoms[frames[d].src] - Sources[frames[d].src].alloc)
                .. (stackBottoms[frames[d].src] - 1)
         /\ ItemAddress(frames[d], i) \in 1 .. (freePtr - 1)
         /\ ItemAddress(frames[d], i)
              >= stackBottoms[frames[d].src] - profile[frames[d].src][frames[d].pc + 1].highwater
<1> DEFINE f == frames[d]
           s == f.src
           mark == profile[s][f.pc + 1]
           highwater == mark.highwater
           height == mark.height
           bottom == stackBottoms[s]
           alloc == Sources[s].alloc
<1>1. PICK popped \in Nat : FrameFits(expression, profile, stackBottoms, f, popped)
  BY FrameFacts
<1>2. s \in DOMAIN Sources /\ f.pc \in Nat /\ f.bottom = bottom /\ f.pc <= Len(Sources[s].ops)
  BY <1>1, FrameInRegion DEF FrameFits, Sources
<1>3. CheckInv /\ verdict = "ok"
  BY DEF EvalInv
<1>4. Len(Sources[s].ops) \in Nat
      /\ \A k \in 1 .. (Len(Sources[s].ops) + 1) :
           profile[s][k].height \in Nat /\ profile[s][k].height <= alloc
  BY <1>2, <1>3, SourceFacts
<1>5. f.pc + 1 \in 1 .. (Len(Sources[s].ops) + 1)
  BY <1>2, <1>4
<1>6. highwater \in Nat /\ highwater <= height /\ height \in Nat /\ height <= alloc
  BY <1>2, <1>3, <1>4, <1>5, HighwaterOnStack
<1>7. /\ bottom \in Nat /\ alloc \in Nat /\ freePtr \in Nat
      /\ bottom - alloc - 1 >= 1 /\ bottom <= freePtr
  BY <1>2, RegionFacts
<1>8. ItemAddress(f, i) = bottom - (i + 1) /\ i \in 0 .. (highwater - 1)
  BY <1>2 DEF ItemAddress
<1> HIDE DEF highwater, height, bottom, alloc, mark
<1>9. /\ ItemAddress(f, i) \in (bottom - alloc) .. (bottom - 1)
      /\ ItemAddress(f, i) \in 1 .. (freePtr - 1)
      /\ ItemAddress(f, i) >= bottom - highwater
  BY <1>6, <1>7, <1>8
<1> QED
  BY <1>2, <1>9 DEF highwater, bottom, alloc, mark

-----------------------------------------------------------------------------
(* The results. *)

(* A source that is called writes on its own stack only, and its return only *)
(* where its caller's op put its outputs: who waits keeps what it has.       *)
THEOREM CallersKeepTheirStacks == Spec => CallersUntouched
<1>1. ASSUME EvalInv, [Next]_vars, status = "eval", status' = "eval", ~Recursive',
             NEW d \in DOMAIN frames, d < Len(frames), d < Len(frames'),
             NEW a \in LiveWords(frames[d])
      PROVE  mem'[a] = mem[a]
  <2>1. PICK popped \in Nat : FrameFits(expression, profile, stackBottoms, frames[d], popped)
    BY <1>1, FrameFacts
  <2> DEFINE s == frames[d].src
  <2>2. /\ s \in DOMAIN Sources /\ frames[d].top \in Nat /\ frames[d].bottom \in Nat
        /\ frames[d].bottom = stackBottoms[s]
        /\ frames[d].bottom - Sources[s].alloc <= frames[d].top
    BY <1>1, <2>1, FrameInRegion
  <2>3. Sources[s].alloc \in Nat
    BY <1>1, <2>2, RegionFacts
  <2>4. a \in (stackBottoms[s] - Sources[s].alloc) .. (stackBottoms[s] - 1)
    BY <1>1, <2>2, <2>3 DEF LiveWords
  <2>5. CASE \E n \in Nat : StaysInScope(n)
    <3>1. PICK n \in Nat : StaysInScope(n)
      BY <2>5
    <3>2. DOMAIN frames' = 1 .. n
      BY <3>1 DEF StaysInScope
    <3>3. EvalInv'
      BY <1>1, EvalInvNext
    <3>4. Len(frames') = n
      <4>1. frames' \in Seq(FrameType)
        BY <3>3 DEF EvalInv
      <4>2. Len(frames') \in Nat /\ DOMAIN frames' = 1 .. Len(frames')
        BY <4>1, LenProperties
      <4>3. n >= 1 /\ 1 .. Len(frames') = 1 .. n
        BY <4>2, <3>1, <3>2 DEF StaysInScope
      <4>4. \A m \in Nat : 1 .. m = 1 .. n => m = n
        <5> SUFFICES ASSUME NEW m \in Nat, 1 .. m = 1 .. n PROVE m = n
          OBVIOUS
        <5>1. n \in 1 .. m
          BY <4>3
        <5>2. m \in 1 .. n
          BY <5>1
        <5> QED
          BY <5>1, <5>2
      <4> QED
        BY <4>2, <4>3, <4>4
    <3>5. d \in Nat /\ d >= 1
      <4>1. frames \in Seq(FrameType)
        BY <1>1 DEF EvalInv
      <4> QED
        BY <1>1, <4>1, LenProperties
    <3>6. d # n /\ d \in DOMAIN frames'
      BY <1>1, <3>2, <3>4, <3>5
    <3> QED
      BY <1>1, <2>2, <2>4, <3>1, <3>6, OthersUntouched
  <2> QED
    BY <1>1, <2>5, StepInScope
<1>2. EvalInv /\ [Next]_vars =>
        [Evaluating /\ status' = "eval" /\ ~Recursive' =>
           \A d \in DOMAIN frames :
             d < Len(frames) /\ d < Len(frames') =>
               \A a \in LiveWords(frames[d]) : mem'[a] = mem[a]]_vars
  BY <1>1 DEF Evaluating
<1> QED
  BY <1>2, EvalInvariant, PTL DEF Spec, CallersUntouched

(* What has been read by name, and the inputs, stay as they are to the end   *)
(* of the activation: the integrity check lets no op consume them.           *)
THEOREM ReadItemsStay == Spec => ImmutableBelowHighwater
<1>1. ASSUME EvalInv, [Next]_vars, status = "eval", status' = "eval", ~Recursive',
             NEW d \in DOMAIN frames \cap DOMAIN frames',
             NEW i \in 0 .. (profile[frames[d].src][frames[d].pc + 1].highwater - 1)
      PROVE  mem'[ItemAddress(frames[d], i)] = mem[ItemAddress(frames[d], i)]
  <2> DEFINE s == frames[d].src
             a == ItemAddress(frames[d], i)
             highwater == profile[s][frames[d].pc + 1].highwater
  <2>1. /\ s \in DOMAIN Sources /\ a \in 1 .. (freePtr - 1) /\ d \in DOMAIN frames
        /\ a \in (stackBottoms[s] - Sources[s].alloc) .. (stackBottoms[s] - 1)
        /\ a >= stackBottoms[s] - highwater
    BY <1>1, ImmutableInRegion
  <2>2. CASE \E n \in Nat : StaysInScope(n)
    <3>1. PICK n \in Nat : StaysInScope(n)
      BY <2>2
    <3>2. CASE d # n
      BY <1>1, <2>1, <3>1, <3>2, OthersUntouched
    <3>3. CASE d = n
      <4>1. frames'[n].src = s /\ WritesInScope(frames'[n].src, n)
        BY <1>1, <3>1, <3>3 DEF StaysInScope
      <4>2. mem'[a] # mem[a] => a < stackBottoms[s] - highwater
        BY <2>1, <3>3, <4>1 DEF WritesInScope
      <4>3. stackBottoms[s] \in Nat /\ a \in Nat /\ highwater \in Nat
        <5>1. stackBottoms[s] \in Nat
          BY <1>1, <2>1, RegionFacts
        <5>2. a \in Nat
          BY <2>1
        <5>3. PICK popped \in Nat :
                FrameFits(expression, profile, stackBottoms, frames[d], popped)
          BY <1>1, FrameFacts
        <5>4. /\ frames[d].pc \in Nat /\ frames[d].pc <= Len(Sources[s].ops)
          BY <1>1, <5>3, FrameInRegion DEF FrameFits, Sources
        <5>5. CheckInv /\ verdict = "ok"
          BY <1>1 DEF EvalInv
        <5>6. Len(Sources[s].ops) \in Nat
          BY <2>1, <5>5, SourceFacts
        <5>7. frames[d].pc + 1 \in 1 .. (Len(Sources[s].ops) + 1)
          BY <5>4, <5>6
        <5> QED
          BY <5>1, <5>2, <5>5, <5>7, <2>1, HighwaterOnStack
      <4> HIDE DEF a, s, highwater
      <4>4. mem'[a] = mem[a]
        BY <2>1, <4>2, <4>3
      <4> QED
        BY <4>4 DEF a
    <3> QED
      BY <3>2, <3>3
  <2> QED
    BY <1>1, <2>2, StepInScope
<1>2. EvalInv /\ [Next]_vars =>
        [Evaluating /\ status' = "eval" /\ ~Recursive' =>
           \A d \in DOMAIN frames \cap DOMAIN frames' :
             \A i \in 0 .. (profile[frames[d].src][frames[d].pc + 1].highwater - 1) :
               mem'[ItemAddress(frames[d], i)] = mem[ItemAddress(frames[d], i)]]_vars
  BY <1>1 DEF Evaluating
<1> QED
  BY <1>2, EvalInvariant, PTL DEF Spec, ImmutableBelowHighwater

(* No step changes the expression. *)
LEMMA ExpressionStays == [Next]_vars => expression' = expression
BY DEF Next, Stopped, vars, checkVars, CheckNext, NewState, CheckOp, AcceptOp, RevertOpcode,
   RevertOperand, RevertExtern, RevertInputs, RevertOutputs, RevertUnderflow, RevertHighwater,
   RevertAllocation, RevertSourceOutputs, EndSource, Accept, RevertWith


-----------------------------------------------------------------------------
(* Sequences that differ at their end. *)

LEMMA Prefix ==
  ASSUME NEW S, NEW s \in Seq(S), NEW n \in 0 .. Len(s)
  PROVE  /\ SubSeq(s, 1, n) \in Seq(S) /\ Len(SubSeq(s, 1, n)) = n
         /\ \A i \in 1 .. n : SubSeq(s, 1, n)[i] = s[i]
<1>1. Len(s) \in Nat /\ n \in Nat /\ \A i \in 1 .. n : s[i] \in S
  BY LenProperties, ElementOfSeq
<1>2. /\ SubSeq(s, 1, n) \in Seq(S)
      /\ Len(SubSeq(s, 1, n)) = (IF 1 <= n THEN n - 1 + 1 ELSE 0)
      /\ \A i \in 1 .. (n - 1 + 1) : SubSeq(s, 1, n)[i] = s[1 + i - 1]
  BY <1>1, SubSeqProperties
<1> QED BY <1>1, <1>2

LEMMA Suffix ==
  ASSUME NEW S, NEW s \in Seq(S), NEW n \in 0 .. Len(s)
  PROVE  /\ SubSeq(s, n + 1, Len(s)) \in Seq(S) /\ Len(SubSeq(s, n + 1, Len(s))) = Len(s) - n
         /\ \A i \in 1 .. (Len(s) - n) : SubSeq(s, n + 1, Len(s))[i] = s[n + i]
<1>1. Len(s) \in Nat /\ n \in Nat /\ \A i \in (n + 1) .. Len(s) : s[i] \in S
  BY LenProperties, ElementOfSeq
<1>2. /\ SubSeq(s, n + 1, Len(s)) \in Seq(S)
      /\ Len(SubSeq(s, n + 1, Len(s))) = (IF n + 1 <= Len(s) THEN Len(s) - (n + 1) + 1 ELSE 0)
      /\ \A i \in 1 .. (Len(s) - (n + 1) + 1) : SubSeq(s, n + 1, Len(s))[i] = s[n + 1 + i - 1]
  BY <1>1, SubSeqProperties
<1> QED BY <1>1, <1>2

LEMMA LastReplaced ==
  ASSUME NEW S, NEW s \in Seq(S), NEW t \in Seq(S), Len(s) >= 1, Len(t) = Len(s),
         \A d \in 1 .. (Len(s) - 1) : t[d] = s[d]
  PROVE  t = Append(SubSeq(s, 1, Len(s) - 1), t[Len(s)])
<1> DEFINE n == Len(s)
           front == SubSeq(s, 1, n - 1)
<1>1. n \in Nat /\ n >= 1 /\ n - 1 \in 0 .. Len(s) /\ t[n] \in S
  BY LenProperties, ElementOfSeq
<1>2. front \in Seq(S) /\ Len(front) = n - 1 /\ \A i \in 1 .. (n - 1) : front[i] = s[i]
  BY <1>1, Prefix
<1> HIDE DEF front, n
<1>3. /\ Append(front, t[n]) \in Seq(S) /\ Len(Append(front, t[n])) = n
      /\ \A i \in 1 .. n : Append(front, t[n])[i] = IF i = n THEN t[n] ELSE front[i]
  <2>1. /\ Append(front, t[n]) \in Seq(S) /\ Len(Append(front, t[n])) = Len(front) + 1
        /\ \A i \in 1 .. Len(front) : Append(front, t[n])[i] = front[i]
        /\ Append(front, t[n])[Len(front) + 1] = t[n]
    BY <1>1, <1>2, AppendProperties
  <2> QED BY <1>1, <1>2, <2>1
<1>4. \A i \in 1 .. n : t[i] = Append(front, t[n])[i]
  BY <1>1, <1>2, <1>3 DEF n
<1>5. t = Append(front, t[n])
  BY <1>3, <1>4, SeqEqual DEF n
<1> QED BY <1>5 DEF n, front

LEMMA LastSplit ==
  ASSUME NEW S, NEW s \in Seq(S), NEW t \in Seq(S), Len(s) >= 1, Len(t) = Len(s) + 1,
         \A d \in 1 .. (Len(s) - 1) : t[d] = s[d]
  PROVE  t = SubSeq(s, 1, Len(s) - 1) \o <<t[Len(s)], t[Len(s) + 1]>>
<1> DEFINE n == Len(s)
           front == SubSeq(s, 1, n - 1)
           two == <<t[n], t[n + 1]>>
<1>1. n \in Nat /\ n >= 1 /\ n - 1 \in 0 .. Len(s) /\ t[n] \in S /\ t[n + 1] \in S
  BY LenProperties, ElementOfSeq
<1>2. front \in Seq(S) /\ Len(front) = n - 1 /\ \A i \in 1 .. (n - 1) : front[i] = s[i]
  BY <1>1, Prefix
<1>3. two \in Seq(S) /\ Len(two) = 2 /\ two[1] = t[n] /\ two[2] = t[n + 1]
  BY <1>1
<1> HIDE DEF front, n, two
<1>4. /\ front \o two \in Seq(S) /\ Len(front \o two) = n + 1
      /\ \A i \in 1 .. (n + 1) : (front \o two)[i] = IF i <= n - 1 THEN front[i] ELSE two[i - (n - 1)]
  <2>1. /\ front \o two \in Seq(S) /\ Len(front \o two) = Len(front) + Len(two)
        /\ \A i \in 1 .. (Len(front) + Len(two)) :
             (front \o two)[i] = IF i <= Len(front) THEN front[i] ELSE two[i - Len(front)]
    <3>1. front \in Seq(S) /\ two \in Seq(S)
      BY <1>2, <1>3
    <3> QED BY <3>1, ConcatProperties, ZenonT(60)
  <2> QED BY <1>1, <1>2, <1>3, <2>1
<1>5. \A i \in 1 .. (n + 1) : t[i] = (front \o two)[i]
  <2> TAKE i \in 1 .. (n + 1)
  <2>1. i \in 1 .. (n - 1) \/ i = n \/ i = n + 1
    BY <1>1
  <2>2. n - (n - 1) = 1 /\ n + 1 - (n - 1) = 2 /\ ~(n <= n - 1) /\ ~(n + 1 <= n - 1)
    BY <1>1
  <2> QED BY <1>1, <1>2, <1>3, <1>4, <2>1, <2>2, SMTT(30) DEF n
<1>6. t = front \o two
  BY <1>1, <1>4, <1>5, SeqEqual DEF n
<1> QED BY <1>6 DEF n, front, two

LEMMA LastMerged ==
  ASSUME NEW S, NEW s \in Seq(S), NEW t \in Seq(S), Len(t) >= 1, Len(t) = Len(s) - 1,
         \A d \in 1 .. (Len(t) - 1) : t[d] = s[d]
  PROVE  t = Append(SubSeq(SubSeq(s, 1, Len(s) - 1), 1, Len(s) - 2), t[Len(t)])
<1> DEFINE n == Len(t)
           front == SubSeq(s, 1, Len(s) - 1)
<1>1. n \in Nat /\ n >= 1 /\ Len(s) \in Nat /\ Len(s) = n + 1 /\ Len(s) - 1 \in 0 .. Len(s)
      /\ Len(s) - 2 = n - 1
  BY LenProperties
<1>2. front \in Seq(S) /\ Len(front) = n /\ \A i \in 1 .. n : front[i] = s[i]
  BY <1>1, Prefix
<1> HIDE DEF front
<1>3. \A i \in 1 .. (n - 1) : t[i] = front[i]
  BY <1>1, <1>2
<1>4. t = Append(SubSeq(front, 1, n - 1), t[n])
  BY <1>1, <1>2, <1>3, LastReplaced
<1> QED BY <1>1, <1>4 DEF front

(* A stack that has lost its top m items and then got others. *)
LEMMA PoppedAndPushed ==
  ASSUME NEW S, NEW s \in Seq(S), NEW t \in Seq(S), NEW n \in 0 .. Len(s), n <= Len(t),
         \A i \in 1 .. n : t[i] = s[i]
  PROVE  t = SubSeq(s, 1, n) \o SubSeq(t, n + 1, Len(t))
<1> DEFINE low == SubSeq(s, 1, n)
           high == SubSeq(t, n + 1, Len(t))
<1>1. n \in Nat /\ Len(s) \in Nat /\ Len(t) \in Nat /\ n \in 0 .. Len(t)
  BY LenProperties
<1>2. low \in Seq(S) /\ Len(low) = n /\ \A i \in 1 .. n : low[i] = s[i]
  BY Prefix
<1>3. high \in Seq(S) /\ Len(high) = Len(t) - n /\ \A i \in 1 .. (Len(t) - n) : high[i] = t[n + i]
  BY <1>1, Suffix
<1> HIDE DEF low, high
<1>4. /\ low \o high \in Seq(S) /\ Len(low \o high) = Len(t)
      /\ \A i \in 1 .. Len(t) : (low \o high)[i] = IF i <= n THEN low[i] ELSE high[i - n]
  <2>1. /\ low \o high \in Seq(S) /\ Len(low \o high) = Len(low) + Len(high)
        /\ \A i \in 1 .. (Len(low) + Len(high)) :
             (low \o high)[i] = IF i <= Len(low) THEN low[i] ELSE high[i - Len(low)]
    BY <1>2, <1>3, ConcatProperties
  <2> QED BY <1>1, <1>2, <1>3, <2>1
<1>5. \A i \in 1 .. Len(t) : t[i] = (low \o high)[i]
  <2> TAKE i \in 1 .. Len(t)
  <2>1. CASE i <= n
    BY <1>1, <1>2, <1>4, <2>1
  <2>2. CASE ~(i <= n)
    <3>1. i - n \in 1 .. (Len(t) - n) /\ n + (i - n) = i
      BY <1>1, <2>2
    <3> QED BY <1>3, <1>4, <2>2, <3>1
  <2> QED BY <2>1, <2>2
<1>6. t = low \o high
  BY <1>4, <1>5, SeqEqual
<1> QED BY <1>6 DEF low, high

-----------------------------------------------------------------------------
(* The stack that a frame f stands for in memory m, and its activation. *)

ActType == [src : Nat, pc : Nat, stack : Seq(Value)]

Shown(f, m) == [i \in 1 .. (f.bottom - f.top) |-> m[ItemAddress(f, i - 1)]]

Stands(f, m) == [src |-> f.src, pc |-> f.pc, stack |-> Shown(f, m)]

LEMMA StandsFacts ==
  ASSUME NEW f \in FrameType, NEW m, f.bottom - f.top \in Nat, HoldsWords(m, f)
  PROVE  /\ Shown(f, m) \in Seq(Value) /\ Len(Shown(f, m)) = f.bottom - f.top
         /\ \A i \in 1 .. (f.bottom - f.top) : Shown(f, m)[i] = m[f.bottom - i]
         /\ Stands(f, m) \in ActType
<1> DEFINE h == f.bottom - f.top
<1>1. /\ f.bottom \in Nat /\ f.top \in Nat /\ h \in Nat /\ f.src \in Nat /\ f.pc \in Nat
      /\ \A i \in 1 .. h : f.bottom - i \in f.top .. (f.bottom - 1)
  BY DEF FrameType
<1>2. \A i \in 1 .. h : ItemAddress(f, i - 1) = f.bottom - i
  BY <1>1 DEF ItemAddress
<1>3. \A i \in 1 .. h : m[f.bottom - i] \in Value
  BY <1>1 DEF HoldsWords
<1>4. Shown(f, m) = [i \in 1 .. h |-> m[f.bottom - i]]
  BY <1>2 DEF Shown
<1> HIDE DEF h
<1>5. Shown(f, m) \in [1 .. h -> Value] /\ \A i \in 1 .. h : Shown(f, m)[i] = m[f.bottom - i]
  BY <1>3, <1>4
<1>6. Shown(f, m) \in Seq(Value) /\ Len(Shown(f, m)) = h
  BY <1>1, <1>5, LenProperties, SeqDef
<1>7. Stands(f, m) \in ActType
  BY <1>1, <1>6 DEF Stands, ActType
<1> QED BY <1>5, <1>6, <1>7 DEF h

LEMMA PrivateStacksAre ==
  /\ PrivateStacks = [d \in DOMAIN frames |-> Stands(frames[d], mem)]
  /\ PrivateStacks' = [d \in DOMAIN frames' |-> Stands(frames'[d], mem')]
  BY DEF PrivateStacks, Stands, Shown

(* Each frame of an evaluation stands for an activation. *)
LEMMA FrameStands ==
  ASSUME EvalInv, status = "eval", NEW d \in DOMAIN frames
  PROVE  /\ frames[d] \in FrameType /\ frames[d].bottom - frames[d].top \in Nat
         /\ HoldsWords(mem, frames[d])
         /\ frames[d].src \in DOMAIN Sources
         /\ frames[d].bottom = stackBottoms[frames[d].src]
         /\ \A i \in 1 .. (frames[d].bottom - frames[d].top) :
              frames[d].bottom - i \in
                (stackBottoms[frames[d].src] - Sources[frames[d].src].alloc)
                  .. (stackBottoms[frames[d].src] - 1)
<1> DEFINE f == frames[d]
           alloc == Sources[f.src].alloc
<1>1. PICK popped \in Nat :
        FrameFits(expression, profile, stackBottoms, f, popped) /\ HoldsWords(mem, f)
  BY FrameFacts
<1>2. f \in FrameType /\ f.src \in DOMAIN Sources /\ f.bottom = stackBottoms[f.src]
  BY <1>1 DEF FrameFits, Sources
<1>3. f.top \in (f.bottom - alloc) .. f.bottom
  BY InBounds DEF StackInBounds, Evaluating
<1>4. f.bottom \in Nat /\ f.top \in Nat /\ alloc \in Nat
  BY <1>2, RegionFacts DEF FrameType
<1> HIDE DEF f, alloc
<1>5. /\ f.bottom - f.top \in Nat
      /\ \A i \in 1 .. (f.bottom - f.top) : f.bottom - i \in (f.bottom - alloc) .. (f.bottom - 1)
  BY <1>3, <1>4
<1> QED BY <1>1, <1>2, <1>5 DEF f, alloc

LEMMA StacksAreSeq ==
  ASSUME NEW n \in Nat, NEW fs, DOMAIN fs = 1 .. n, NEW m,
         \A d \in 1 .. n : fs[d] \in FrameType /\ fs[d].bottom - fs[d].top \in Nat /\ HoldsWords(m, fs[d])
  PROVE  /\ [d \in DOMAIN fs |-> Stands(fs[d], m)] \in Seq(ActType)
         /\ Len([d \in DOMAIN fs |-> Stands(fs[d], m)]) = n
<1> DEFINE as == [d \in DOMAIN fs |-> Stands(fs[d], m)]
<1>1. \A d \in 1 .. n : Stands(fs[d], m) \in ActType
  BY StandsFacts
<1>2. as \in [1 .. n -> ActType]
  BY <1>1
<1> HIDE DEF as
<1>3. as \in Seq(ActType) /\ Len(as) = n
  BY <1>2, FunctionIsSequence, Zenon
<1> QED BY <1>3 DEF as

(* The machine before a step of evalLoop. *)
LEMMA MachineIs ==
  ASSUME EvalInv, status = "eval"
  PROVE  /\ PrivateStacks \in Seq(ActType) /\ Len(PrivateStacks) = Len(frames)
         /\ Machine!Top = Stands(Running, mem)
         /\ Machine!Top.src = Running.src /\ Machine!Top.pc = Running.pc
         /\ Machine!Top.stack = Shown(Running, mem)
         /\ Machine!Ops = Sources[Running.src].ops
         /\ Machine!RunningOp = RunningOp
         /\ Phase = "eval" /\ Cache = stateKV
<1>1. Len(frames) \in Nat /\ Len(frames) >= 1 /\ DOMAIN frames = 1 .. Len(frames)
  BY RunningFacts, LenProperties
<1>2. PrivateStacks \in Seq(ActType) /\ Len(PrivateStacks) = Len(frames)
  <2>1. \A d \in 1 .. Len(frames) :
          /\ frames[d] \in FrameType /\ frames[d].bottom - frames[d].top \in Nat
          /\ HoldsWords(mem, frames[d])
    BY <1>1, FrameStands
  <2>2. /\ [d \in DOMAIN frames |-> Stands(frames[d], mem)] \in Seq(ActType)
        /\ Len([d \in DOMAIN frames |-> Stands(frames[d], mem)]) = Len(frames)
    <3> DEFINE n == Len(frames)
    <3>1. /\ n \in Nat /\ DOMAIN frames = 1 .. n
          /\ \A d \in 1 .. n : /\ frames[d] \in FrameType /\ frames[d].bottom - frames[d].top \in Nat
                               /\ HoldsWords(mem, frames[d])
      BY <1>1, <2>1
    <3> HIDE DEF n
    <3>2. /\ [d \in DOMAIN frames |-> Stands(frames[d], mem)] \in Seq(ActType)
          /\ Len([d \in DOMAIN frames |-> Stands(frames[d], mem)]) = n
      BY <3>1, StacksAreSeq, Zenon
    <3> QED BY <3>2 DEF n
  <2> QED BY <2>2, PrivateStacksAre
<1>3. Machine!Top = Stands(Running, mem)
  BY <1>1, <1>2, PrivateStacksAre DEF Machine!Top, Machine!Last, Running
<1>4. /\ Stands(Running, mem).src = Running.src /\ Stands(Running, mem).pc = Running.pc
      /\ Stands(Running, mem).stack = Shown(Running, mem)
  BY DEF Stands
<1>5. Machine!Ops = Sources[Running.src].ops /\ Machine!RunningOp = RunningOp
  BY <1>3, <1>4, Zenon DEF Machine!Ops, Machine!RunningOp, RunningOp, OpAt, Sources
<1>6. Phase = "eval" /\ Cache = stateKV
  BY DEF Phase, EvalReverts, Cache, Begun
<1> QED BY <1>2, <1>3, <1>4, <1>5, <1>6

(* The items from the stack top down are the machine's arguments. *)
LEMMA ArgsAreItems ==
  ASSUME EvalInv, status = "eval", NEW n \in 0 .. (Running.bottom - Running.top)
  PROVE  Machine!Args(n) = Items(n)
<1> DEFINE h == Running.bottom - Running.top
<1>1. /\ Running \in FrameType /\ Running.top \in Nat /\ Running.bottom \in Nat
      /\ HoldsWords(mem, Running) /\ h \in Nat
  BY RunningFacts
<1>2. /\ Len(Shown(Running, mem)) = h
      /\ \A i \in 1 .. h : Shown(Running, mem)[i] = mem[Running.bottom - i]
  BY <1>1, StandsFacts
<1>3. Machine!Top.stack = Shown(Running, mem)
  BY MachineIs
<1>4. Machine!Args(n) = [k \in 1 .. n |-> Shown(Running, mem)[h + 1 - k]]
  BY <1>2, <1>3 DEF Machine!Args
<1>5. ASSUME NEW k \in 1 .. n PROVE Shown(Running, mem)[h + 1 - k] = Item(k)
  <2>1. h + 1 - k \in 1 .. h /\ Running.bottom - (h + 1 - k) = Running.top + k - 1
    BY <1>1
  <2>2. Shown(Running, mem)[h + 1 - k] = mem[Running.bottom - (h + 1 - k)]
    BY <1>2, <2>1
  <2> QED BY <2>1, <2>2 DEF Item
<1> QED BY <1>4, <1>5 DEF Items

-----------------------------------------------------------------------------
(* What a step leaves of the stacks. *)

(* The items of an activation that neither ends nor runs next. *)
LEMMA ItemsUntouched ==
  ASSUME EvalInv, status = "eval", ~Recursive', NEW n \in Nat, StaysInScope(n),
         NEW d \in DOMAIN frames, d \in DOMAIN frames', d # n
  PROVE  \A i \in 1 .. (frames[d].bottom - frames[d].top) :
           mem'[frames[d].bottom - i] = mem[frames[d].bottom - i]
  BY FrameStands, OthersUntouched

LEMMA SameShown ==
  ASSUME NEW f, NEW m, NEW w, f.bottom \in Nat,
         \A i \in 1 .. (f.bottom - f.top) : w[f.bottom - i] = m[f.bottom - i],
         f.bottom - f.top \in Nat
  PROVE  Stands(f, w) = Stands(f, m)
<1>1. \A i \in 1 .. (f.bottom - f.top) : ItemAddress(f, i - 1) = f.bottom - i
  BY DEF ItemAddress
<1>2. Shown(f, w) = Shown(f, m)
  BY <1>1 DEF Shown
<1> QED BY <1>2 DEF Stands

LEMMA StandsUntouched ==
  ASSUME EvalInv, status = "eval", ~Recursive', NEW n \in Nat, StaysInScope(n),
         NEW d \in DOMAIN frames, d \in DOMAIN frames', d # n, frames'[d] = frames[d]
  PROVE  PrivateStacks'[d] = PrivateStacks[d]
<1>1. /\ frames[d].bottom \in Nat /\ frames[d].bottom - frames[d].top \in Nat
  BY FrameStands DEF FrameType
<1>2. Stands(frames[d], mem') = Stands(frames[d], mem)
  BY <1>1, ItemsUntouched, SameShown
<1> QED BY <1>2, PrivateStacksAre

(* The frames after a step stand for activations. *)
LEMMA StandsAfter ==
  ASSUME EvalInv', status' = "eval",
         \A d \in DOMAIN frames' : frames'[d].bottom - frames'[d].top \in Nat
  PROVE  /\ PrivateStacks' \in Seq(ActType) /\ Len(PrivateStacks') = Len(frames')
         /\ \A d \in DOMAIN frames' : frames'[d] \in FrameType /\ HoldsWords(mem', frames'[d])
<1>1. FramesFit(expression', profile', stackBottoms', mem', frames', sourceIndex')
  BY DEF EvalInv
<1>2. frames' \in Seq(FrameType) /\ \A d \in 1 .. Len(frames') : HoldsWords(mem', frames'[d])
  BY <1>1, Zenon DEF FramesFit
<1>3. Len(frames') \in Nat /\ DOMAIN frames' = 1 .. Len(frames')
  BY <1>2, LenProperties
<1>4. \A d \in 1 .. Len(frames') : frames'[d] \in FrameType
  BY <1>2, ElementOfSeq
<1> QED BY <1>2, <1>3, <1>4, StacksAreSeq, PrivateStacksAre, ZenonT(60)

(* What an op that is no call has pushed, the top last. *)
PushedWords == [k \in 1 .. RunningOp.outs |-> mem'[NewTop + RunningOp.outs - k]]

(* The arithmetic of an op that pops ins items of a stack and pushes outs. *)
LEMMA OpArithmetic ==
  ASSUME NEW bottom \in Nat, NEW top \in Nat, NEW ins \in Nat, NEW outs \in Nat,
         NEW newTop \in Nat, NEW free \in Nat, newTop = top + ins - outs,
         newTop + outs <= bottom, bottom <= free, top >= 1,
         NEW low, low = bottom - top - ins
  PROVE  /\ low \in Nat /\ low <= bottom - top
         /\ bottom - newTop \in Nat /\ bottom - newTop = low + outs
         /\ \A i \in 1 .. low :
              /\ bottom - i \in 1 .. (free - 1) /\ bottom - i \notin newTop .. (newTop + outs - 1)
              /\ i \in 1 .. (bottom - top) /\ i \in 1 .. (low + outs)
         /\ \A k \in 1 .. outs :
              low + k \in 1 .. (low + outs) /\ bottom - (low + k) = newTop + outs - k
  OBVIOUS

LEMMA OpMoves ==
  ASSUME EvalInv, EvalInv', NEW code, AtRun(code), OpWrites, ~Recursive', status' = "eval"
  PROVE  /\ Len(PrivateStacks') = Len(PrivateStacks)
         /\ PrivateStacks' =
              Append(Machine!Front(PrivateStacks),
                     Machine!Activation(Running.src, Running.pc + 1,
                       Machine!Below(RunningOp.ins) \o PushedWords))
         /\ LET stack == PrivateStacks'[Len(PrivateStacks)].stack
            IN  SubSeq(stack, Len(Machine!Top.stack) - RunningOp.ins + 1, Len(stack)) = PushedWords
<1> DEFINE n == Len(frames)
           ins == RunningOp.ins
           outs == RunningOp.outs
           bottom == Running.bottom
           h == bottom - Running.top
           low == h - ins
           g == Frame(Running.src, Running.parent, bottom, NewTop, Running.pc + 1)
           s == Shown(Running, mem)
           t == Shown(g, mem')
<1>1. status = "eval" /\ ins \in Nat /\ outs \in Nat /\ ins <= h
  BY RunningOpFacts
<1>2. /\ n \in Nat /\ n >= 1 /\ DOMAIN frames = 1 .. n /\ frames[n] = Running
      /\ Running.src \in Nat /\ Running.parent \in Nat /\ Running.pc \in Nat
      /\ Running \in FrameType /\ HoldsWords(mem, Running)
      /\ bottom \in Nat /\ Running.top \in Nat /\ h \in Nat
  BY <1>1, RunningFacts, LenProperties DEF Running
<1>3. /\ low \in Nat /\ low <= h
      /\ bottom - NewTop \in Nat /\ bottom - NewTop = low + outs
      /\ \A i \in 1 .. low :
           /\ bottom - i \in 1 .. (freePtr - 1) /\ bottom - i \notin NewTop .. (NewTop + outs - 1)
           /\ i \in 1 .. h /\ i \in 1 .. (low + outs)
      /\ \A k \in 1 .. outs :
           low + k \in 1 .. (low + outs) /\ bottom - (low + k) = NewTop + outs - k
  <2>1. NewTop \in Nat /\ NewTop + outs <= bottom /\ NewTop = Running.top + ins - outs
    BY AdvanceHeights DEF NewTop
  <2>2. freePtr \in Nat /\ bottom <= freePtr /\ Running.top >= 1
    BY <1>1, RunningFacts
  <2> DEFINE top == Running.top
  <2>3. low = bottom - top - ins /\ h = bottom - top
    OBVIOUS
  <2>4. bottom \in Nat /\ top \in Nat
    BY <1>2
  <2> HIDE DEF ins, outs, bottom, top, low, h
  <2>5. NewTop = top + ins - outs /\ top >= 1
    BY <2>1, <2>2 DEF top
  <2> QED BY <1>1, <2>1, <2>2, <2>3, <2>4, <2>5, OpArithmetic
<1>4. /\ g.src = Running.src /\ g.pc = Running.pc + 1 /\ g.bottom = bottom /\ g.top = NewTop
  BY DEF Frame
<1>5. /\ DOMAIN frames' = 1 .. n /\ frames'[n] = g
      /\ \A d \in 1 .. (n - 1) : frames'[d] = frames[d]
  <2>1. frames' = [frames EXCEPT ![n] = g]
    BY DEF OpWrites, Advance
  <2> HIDE DEF g, n
  <2> QED BY <1>2, <2>1
<1>6. \A d \in DOMAIN frames' : frames'[d].bottom - frames'[d].top \in Nat
  <2> SUFFICES ASSUME NEW d \in 1 .. n PROVE frames'[d].bottom - frames'[d].top \in Nat
    BY <1>5
  <2>1. CASE d = n
    BY <2>1, <1>3, <1>4, <1>5
  <2>2. CASE d # n
    <3>1. frames'[d] = frames[d] /\ d \in DOMAIN frames
      BY <2>2, <1>2, <1>5
    <3> QED BY <3>1, <1>1, FrameStands
  <2> QED BY <2>1, <2>2
<1>7. /\ PrivateStacks' \in Seq(ActType) /\ Len(PrivateStacks') = Len(frames')
      /\ g \in FrameType /\ HoldsWords(mem', g)
  <2> HIDE DEF g
  <2> QED BY <1>2, <1>5, <1>6, StandsAfter
<1>8. Len(frames') = n
  <2>1. frames' \in Seq(FrameType)
    BY DEF EvalInv
  <2> QED BY <1>2, <1>5, <2>1, LenProperties
<1>9. \A d \in 1 .. (n - 1) : PrivateStacks'[d] = PrivateStacks[d]
  <2> TAKE d \in 1 .. (n - 1)
  <2>1. StaysInScope(n)
    BY OpInScope
  <2>2. d \in DOMAIN frames /\ d \in DOMAIN frames' /\ d # n /\ frames'[d] = frames[d]
    <3> HIDE DEF n, g
    <3> QED BY <1>2, <1>5
  <2> HIDE DEF n
  <2> QED BY <1>1, <1>2, <2>1, <2>2, StandsUntouched
<1>10. PrivateStacks'[n] = Stands(g, mem')
  BY <1>2, <1>5, PrivateStacksAre
<1>11. /\ s \in Seq(Value) /\ Len(s) = h /\ \A i \in 1 .. h : s[i] = mem[bottom - i]
  BY <1>2, StandsFacts
<1>12. /\ t \in Seq(Value) /\ Len(t) = low + outs
       /\ \A i \in 1 .. (low + outs) : t[i] = mem'[bottom - i]
  <2> HIDE DEF g
  <2> QED BY <1>3, <1>4, <1>7, StandsFacts
<1>13. \A i \in 1 .. low : t[i] = s[i]
  <2> TAKE i \in 1 .. low
  <2>1. bottom - i \in 1 .. (freePtr - 1) /\ bottom - i \notin NewTop .. (NewTop + outs - 1)
        /\ i \in 1 .. h /\ i \in 1 .. (low + outs)
    BY <1>3
  <2>3. mem'[bottom - i] = mem[bottom - i]
    BY <2>1 DEF OpWrites
  <2> HIDE DEF s, t, low, h, outs, bottom
  <2> QED BY <1>11, <1>12, <2>1, <2>3
<1> HIDE DEF s, t
<1>14. SubSeq(t, low + 1, Len(t)) = PushedWords
  <2> DEFINE high == SubSeq(t, low + 1, Len(t))
  <2>1. low \in 0 .. Len(t)
    BY <1>1, <1>3, <1>12
  <2>2. /\ high \in Seq(Value) /\ Len(high) = Len(t) - low
        /\ \A k \in 1 .. (Len(t) - low) : high[k] = t[low + k]
    BY <1>12, <2>1, Suffix
  <2> HIDE DEF high
  <2>3. Len(high) = outs
    BY <1>1, <1>3, <1>12, <2>2
  <2>4. ASSUME NEW k \in 1 .. outs PROVE high[k] = mem'[NewTop + outs - k]
    <3>1. low + k \in 1 .. (low + outs) /\ bottom - (low + k) = NewTop + outs - k
      BY <1>3
    <3> HIDE DEF low, outs, bottom
    <3> QED BY <1>12, <2>2, <2>3, <3>1
  <2>5. high = [k \in 1 .. outs |-> high[k]]
    BY <2>2, <2>3, LenProperties, SeqDef
  <2>6. high = [k \in 1 .. outs |-> mem'[NewTop + outs - k]]
    BY <2>4, <2>5, Zenon
  <2> QED BY <2>6 DEF high, PushedWords
<1>15. t = Machine!Below(ins) \o PushedWords
  <2>1. Machine!Below(ins) = SubSeq(s, 1, low)
    <3>1. Machine!Top.stack = s
      BY <1>1, MachineIs DEF s
    <3> QED BY <3>1, <1>11, Zenon DEF Machine!Below
  <2>2. low \in 0 .. Len(s) /\ low <= Len(t)
    BY <1>1, <1>3, <1>11, <1>12
  <2>3. t = SubSeq(s, 1, low) \o SubSeq(t, low + 1, Len(t))
    BY <1>11, <1>12, <1>13, <2>2, PoppedAndPushed
  <2> QED BY <2>1, <2>3, <1>14
<1>16. PrivateStacks'[n] = Machine!Activation(Running.src, Running.pc + 1,
                             Machine!Below(ins) \o PushedWords)
  BY <1>4, <1>10, <1>15, Zenon DEF Stands, Machine!Activation, t
<1>17. PrivateStacks \in Seq(ActType) /\ Len(PrivateStacks) = n
  BY <1>1, MachineIs
<1> HIDE DEF n
<1>18. PrivateStacks' = Append(SubSeq(PrivateStacks, 1, n - 1), PrivateStacks'[n])
  BY <1>2, <1>7, <1>8, <1>9, <1>17, LastReplaced
<1>19. PrivateStacks'[n].stack = t /\ Len(Machine!Top.stack) = h
  BY <1>1, <1>10, <1>11, MachineIs DEF Stands, t, s
<1> QED
  BY <1>7, <1>8, <1>14, <1>16, <1>17, <1>18, <1>19, Zenon DEF Machine!Front

(* An op that is no call is a step of the machine, if it has the effect. *)
LEMMA OpSteps ==
  ASSUME EvalInv, EvalInv', NEW code, AtRun(code), OpWrites, ~Recursive', status' = "eval",
         UNCHANGED <<expression, request, result>>,
         Machine!Effect(RunningOp, Items(RunningOp.ins), PushedWords, stateKV')
  PROVE  Machine!Step
<1>1. /\ Len(PrivateStacks') = Len(PrivateStacks)
      /\ PrivateStacks' =
           Append(Machine!Front(PrivateStacks),
                  Machine!Activation(Running.src, Running.pc + 1,
                    Machine!Below(RunningOp.ins) \o PushedWords))
      /\ LET stack == PrivateStacks'[Len(PrivateStacks)].stack
         IN  SubSeq(stack, Len(Machine!Top.stack) - RunningOp.ins + 1, Len(stack)) = PushedWords
  BY OpMoves
<1>2. /\ status = "eval" /\ Running.pc < Len(Sources[Running.src].ops)
      /\ RunningOp.ins \in 0 .. (Running.bottom - Running.top)
  <2>1. /\ status = "eval" /\ Running.pc < Len(Sources[Running.src].ops)
        /\ RunningOp.ins \in Nat /\ RunningOp.ins <= Running.bottom - Running.top
    BY RunningOpFacts
  <2>2. Running.bottom \in Nat /\ Running.top \in Nat
    BY <2>1, RunningFacts
  <2> QED BY <2>1, <2>2
<1>3. /\ Machine!Top.src = Running.src /\ Machine!Top.pc = Running.pc
      /\ Machine!Ops = Sources[Running.src].ops
      /\ Machine!RunningOp = RunningOp
      /\ Phase = "eval" /\ Cache = stateKV
  BY <1>2, MachineIs
<1>4. Machine!Args(RunningOp.ins) = Items(RunningOp.ins)
  BY <1>2, ArgsAreItems
<1>5. Machine!Running
  BY <1>2, <1>3, Zenon DEF Machine!Running
<1>6. Phase' = "eval" /\ Cache' = stateKV' /\ Returned' = Returned
  BY <1>2 DEF Phase, EvalReverts, Cache, Begun, Returned
<1>7. UNCHANGED <<expression, Phase, request, Returned>>
  BY <1>3, <1>6
<1>8. Machine!Effect(Machine!RunningOp, Machine!Args(Machine!RunningOp.ins), PushedWords, Cache')
  BY <1>3, <1>4, <1>6, Zenon
<1> QED
  BY <1>1, <1>3, <1>5, <1>7, <1>8, Zenon DEF Machine!Step

(* What an op pushes is one word. *)
LEMMA OneWord ==
  ASSUME RunningOp.outs = 1, NewTop \in Nat
  PROVE  PushedWords = <<mem'[NewTop]>>
<1>1. PushedWords = [k \in 1 .. 1 |-> mem'[NewTop + 1 - k]]
  BY DEF PushedWords
<1>2. \A k \in 1 .. 1 : NewTop + 1 - k = NewTop
  OBVIOUS
<1>3. PushedWords = [k \in 1 .. 1 |-> mem'[NewTop]]
  BY <1>1, <1>2
<1> QED BY <1>3

LEMMA NoWord ==
  ASSUME RunningOp.outs = 0
  PROVE  PushedWords = << >>
  BY DEF PushedWords

LEMMA PopPushPushes ==
  ASSUME EvalInv, NEW code, AtRun(code), RunningOp.outs = 1, NEW word,
         PopPush(RunningOp.ins, word)
  PROVE  /\ OpWrites /\ PushedWords = <<word>> /\ status' = "eval"
         /\ UNCHANGED <<request, result>>
<1>1. /\ mem' = [mem EXCEPT ![NewTop] = word] /\ UNCHANGED evalFixed
  <2>1. NewTop = Running.top + RunningOp.ins - 1
    BY DEF NewTop
  <2> QED BY <2>1 DEF PopPush
<1>2. NewTop \in 1 .. (freePtr - 1) /\ NewTop \in Nat
  <2>1. /\ NewTop \in Nat /\ NewTop + 1 <= Running.bottom
        /\ Running.bottom - Sources[Running.src].alloc <= NewTop
    BY AdvanceHeights
  <2>2. /\ Running.bottom - Sources[Running.src].alloc >= 2 /\ Running.bottom <= freePtr
        /\ freePtr \in Nat /\ Running.bottom \in Nat /\ Sources[Running.src].alloc \in Nat
    BY RunningOpFacts, RunningFacts
  <2> QED BY <2>1, <2>2
<1>3. mem' [NewTop] = word
  <2>1. mem = [a \in 1 .. (freePtr - 1) |-> mem[a]]
    BY DEF EvalInv
  <2> QED BY <1>1, <1>2, <2>1
<1>4. status = "eval"
  BY RunningOpFacts
<1> QED BY <1>1, <1>2, <1>3, <1>4, OneWord, PopPushWrites DEF evalFixed

LEMMA NotPure ==
  /\ "stack" \notin Machine!PureCodes /\ "constant" \notin Machine!PureCodes
  /\ "context" \notin Machine!PureCodes /\ "ensure" \notin Machine!PureCodes
  /\ "set" \notin Machine!PureCodes /\ "get" \notin Machine!PureCodes
  /\ "extern" \notin Machine!PureCodes
  BY DEF Machine!PureCodes

(* The op "stack" pushes the item that its operand names. *)
LEMMA StackSteps ==
  ASSUME EvalInv, EvalInv', RunStack, ~Recursive', UNCHANGED checkVars
  PROVE  Machine!Step
<1>1. AtRun("stack") /\ PopPush(0, StackItem(RunningOp.arg)) /\ UNCHANGED stateKV
  BY DEF RunStack
<1>2. /\ RunningOp.ins = 0 /\ RunningOp.outs = 1
      /\ RunningOp.arg < Running.bottom - Running.top
      /\ RunningOp.arg \in Nat /\ RunningOp.code = "stack" /\ status = "eval"
  BY <1>1, RunningIO, RunningOpFacts
<1>3. /\ OpWrites /\ PushedWords = <<StackItem(RunningOp.arg)>> /\ status' = "eval"
      /\ UNCHANGED <<request, result>>
  BY <1>1, <1>2, PopPushPushes
<1>4. Machine!Top.stack[RunningOp.arg + 1] = StackItem(RunningOp.arg)
  <2>1. /\ Running \in FrameType /\ Running.top \in Nat /\ Running.bottom \in Nat
        /\ HoldsWords(mem, Running) /\ Running.bottom = stackBottoms[sourceIndex]
        /\ Running.bottom - Running.top \in Nat
    BY <1>2, RunningFacts
  <2>2. RunningOp.arg + 1 \in 1 .. (Running.bottom - Running.top)
    BY <1>2, <2>1
  <2>3. Shown(Running, mem)[RunningOp.arg + 1] = mem[Running.bottom - (RunningOp.arg + 1)]
    BY <2>1, <2>2, StandsFacts
  <2> QED BY <1>2, <2>1, <2>3, MachineIs DEF StackItem
<1>5. Machine!Effect(RunningOp, Items(RunningOp.ins), PushedWords, stateKV')
  BY <1>1, <1>2, <1>3, <1>4, MachineIs, NotPure DEF Machine!Effect
<1> QED
  BY <1>1, <1>3, <1>5, OpSteps DEF checkVars

(* The op "constant" pushes the constant that its operand names. *)
LEMMA ConstantSteps ==
  ASSUME EvalInv, EvalInv', RunConstant, ~Recursive', UNCHANGED checkVars
  PROVE  Machine!Step
<1>1. /\ AtRun("constant") /\ PopPush(0, expression.constants[RunningOp.arg])
      /\ UNCHANGED stateKV
  BY DEF RunConstant
<1>2. RunningOp.ins = 0 /\ RunningOp.outs = 1 /\ RunningOp.code = "constant" /\ status = "eval"
  BY <1>1, RunningIO, RunningOpFacts
<1>3. /\ OpWrites /\ PushedWords = <<expression.constants[RunningOp.arg]>> /\ status' = "eval"
      /\ UNCHANGED <<request, result>>
  BY <1>1, <1>2, PopPushPushes
<1>4. Machine!Effect(RunningOp, Items(RunningOp.ins), PushedWords, stateKV')
  BY <1>1, <1>2, <1>3, MachineIs, NotPure DEF Machine!Effect
<1> QED
  BY <1>1, <1>3, <1>4, OpSteps DEF checkVars

(* The op "context" pushes the word of the row and column its operand names. *)
LEMMA ContextSteps ==
  ASSUME EvalInv, EvalInv', RunContext, ~Recursive', UNCHANGED checkVars
  PROVE  Machine!Step
<1> DEFINE word == request.context[ContextRow][ContextColumn]
<1>1. AtRun("context") /\ ContextHas /\ PopPush(0, word) /\ UNCHANGED stateKV
  BY DEF RunContext
<1>2. RunningOp.ins = 0 /\ RunningOp.outs = 1 /\ RunningOp.code = "context" /\ status = "eval"
  BY <1>1, RunningIO, RunningOpFacts
<1>3. /\ OpWrites /\ PushedWords = <<word>> /\ status' = "eval"
      /\ UNCHANGED <<request, result>>
  <2> HIDE DEF word
  <2> QED BY <1>1, <1>2, PopPushPushes
<1>4. Machine!Effect(RunningOp, Items(RunningOp.ins), PushedWords, stateKV')
  <2>1. /\ (RunningOp.arg % 256) + 1 \in DOMAIN request.context
        /\ ((RunningOp.arg \div 256) % 256) + 1
             \in DOMAIN request.context[(RunningOp.arg % 256) + 1]
        /\ PushedWords = <<request.context[(RunningOp.arg % 256) + 1]
                             [((RunningOp.arg \div 256) % 256) + 1]>>
    BY <1>1, <1>3 DEF ContextHas, ContextRow, ContextColumn
  <2>2. Cache = stateKV
    BY <1>2, MachineIs
  <2> QED BY <1>1, <1>2, <2>1, <2>2, NotPure DEF Machine!Effect
<1> QED
  BY <1>1, <1>3, <1>4, OpSteps DEF checkVars

(* A pure op pushes what it computes. *)
LEMMA PureSteps ==
  ASSUME EvalInv, EvalInv', RunPure, ~Recursive', UNCHANGED checkVars
  PROVE  Machine!Step
<1>1. PICK code \in PureCodes :
        /\ AtRun(code) /\ PopPush(RunningOp.ins, PureResult(code, Items(RunningOp.ins)))
        /\ UNCHANGED stateKV
  BY DEF RunPure
<1> DEFINE word == PureResult(code, Items(RunningOp.ins))
<1>2. RunningOp.outs = 1 /\ RunningOp.code = code /\ status = "eval"
  BY <1>1, RunningIO, RunningOpFacts
<1>3. /\ OpWrites /\ PushedWords = <<word>> /\ status' = "eval"
      /\ UNCHANGED <<request, result>>
  <2>1. PopPush(RunningOp.ins, word)
    BY <1>1
  <2> HIDE DEF word
  <2> QED BY <1>1, <1>2, <2>1, PopPushPushes
<1>4. Machine!Effect(RunningOp, Items(RunningOp.ins), PushedWords, stateKV')
  <2>1. code \in Machine!PureCodes
    BY DEF Machine!PureCodes, PureCodes
  <2>2. Machine!PureResult(code, Items(RunningOp.ins)) = word
    BY DEF Machine!PureResult, PureResult
  <2>3. code \notin {"stack", "constant", "context", "ensure", "set", "get", "extern"}
    BY DEF PureCodes
  <2>4. Cache = stateKV
    BY <1>2, MachineIs
  <2> HIDE DEF word
  <2> QED BY <1>1, <1>2, <1>3, <2>1, <2>2, <2>3, <2>4 DEF Machine!Effect
<1> QED
  BY <1>1, <1>3, <1>4, OpSteps DEF checkVars

(* The op "ensure" goes on where its condition holds. *)
LEMMA EnsureSteps ==
  ASSUME EvalInv, EvalInv', RunEnsure, ~Recursive', UNCHANGED checkVars
  PROVE  Machine!Step
<1>1. /\ AtRun("ensure") /\ Item(1) \notin ZeroWords /\ Advance(Running.top + 2)
      /\ UNCHANGED <<evalFixed, mem, stateKV>>
  BY DEF RunEnsure
<1>2. /\ RunningOp.ins = 2 /\ RunningOp.outs = 0 /\ RunningOp.code = "ensure"
      /\ status = "eval"
  BY <1>1, RunningIO, RunningOpFacts
<1>3. /\ OpWrites /\ PushedWords = << >> /\ status' = "eval"
      /\ UNCHANGED <<request, result>>
  BY <1>1, <1>2, PopWrites, NoWord DEF evalFixed
<1>4. Items(2)[1] = Item(1)
  BY DEF Items
<1>5. Machine!Effect(RunningOp, Items(RunningOp.ins), PushedWords, stateKV')
  BY <1>1, <1>2, <1>3, <1>4, MachineIs, NotPure DEF Machine!Effect
<1> QED
  BY <1>1, <1>3, <1>5, OpSteps DEF checkVars

(* The op "set" caches a word for a key. *)
LEMMA SetSteps ==
  ASSUME EvalInv, EvalInv', RunSet, ~Recursive', UNCHANGED checkVars
  PROVE  Machine!Step
<1>1. /\ AtRun("set") /\ Advance(Running.top + 2)
      /\ stateKV' = [stateKV EXCEPT ![Item(1)] = Item(2)] /\ UNCHANGED <<evalFixed, mem>>
  BY DEF RunSet
<1>2. /\ RunningOp.ins = 2 /\ RunningOp.outs = 0 /\ RunningOp.code = "set"
      /\ status = "eval"
  BY <1>1, RunningIO, RunningOpFacts
<1>3. /\ OpWrites /\ PushedWords = << >> /\ status' = "eval"
      /\ UNCHANGED <<request, result>>
  BY <1>1, <1>2, PopWrites, NoWord DEF evalFixed
<1>4. Items(2)[1] = Item(1) /\ Items(2)[2] = Item(2)
  BY DEF Items
<1>5. Machine!Effect(RunningOp, Items(RunningOp.ins), PushedWords, stateKV')
  BY <1>1, <1>2, <1>3, <1>4, MachineIs, NotPure DEF Machine!Effect
<1> QED
  BY <1>1, <1>3, <1>5, OpSteps DEF checkVars

(* The op "get" pushes the word of a key, from the cache or the store. *)
LEMMA GetSteps ==
  ASSUME EvalInv, EvalInv', RunGet, ~Recursive', UNCHANGED checkVars
  PROVE  Machine!Step
<1> DEFINE key == Item(1)
           value == IF stateKV[key] = Missing THEN request.store[key] ELSE stateKV[key]
<1>1. /\ AtRun("get") /\ PopPush(1, value)
      /\ stateKV' = [stateKV EXCEPT ![key] = value]
  BY DEF RunGet
<1>2. RunningOp.ins = 1 /\ RunningOp.outs = 1 /\ RunningOp.code = "get" /\ status = "eval"
  BY <1>1, RunningIO, RunningOpFacts
<1>3. /\ OpWrites /\ PushedWords = <<value>> /\ status' = "eval"
      /\ UNCHANGED <<request, result>>
  <2> HIDE DEF value
  <2> QED BY <1>1, <1>2, PopPushPushes
<1>4. Items(1)[1] = key
  BY DEF Items
<1>5. Machine!Effect(RunningOp, Items(RunningOp.ins), PushedWords, stateKV')
  <2>1. Cache = stateKV
    BY <1>2, MachineIs
  <2> HIDE DEF key
  <2> QED BY <1>1, <1>2, <1>3, <1>4, <2>1, NotPure DEF Machine!Effect
<1> QED
  BY <1>1, <1>3, <1>5, OpSteps DEF checkVars

(* The op "extern" pushes what the contract answered. *)
LEMMA ExternSteps ==
  ASSUME EvalInv, EvalInv', RunExtern, ~Recursive', UNCHANGED checkVars
  PROVE  Machine!Step
<1> DEFINE outs == RunningOp.outs
           popped == Running.top + RunningOp.ins
<1>1. AtRun("extern") /\ UNCHANGED <<evalFixed, stateKV>>
  BY DEF RunExtern
<1>2. PICK outputs \in ExternAnswers :
        /\ Len(outputs) = outs
        /\ mem' = [a \in DOMAIN mem |->
                     IF a \in (popped - outs) .. (popped - 1) THEN outputs[popped - a]
                     ELSE Restored(Borrowed(LengthWord(RunningOp.ins)))[a]]
  BY DEF RunExtern
<1>3. /\ status = "eval" /\ outs \in Nat /\ RunningOp.ins \in Nat /\ RunningOp.code = "extern"
      /\ Running.top \in Nat /\ NewTop \in Nat /\ NewTop + outs <= Running.bottom
      /\ Running.bottom <= freePtr /\ freePtr \in Nat /\ Running.bottom \in Nat
      /\ Running.bottom - Sources[Running.src].alloc <= NewTop
      /\ Running.bottom - Sources[Running.src].alloc >= 2 /\ Sources[Running.src].alloc \in Nat
  BY <1>1, RunningOpFacts, RunningFacts, AdvanceHeights
<1>4. NewTop = popped - outs
  BY <1>3 DEF NewTop
<1>5. outputs \in Seq(Value)
  BY ExternAssumption
<1>6. PushedWords = outputs
  <2>1. DOMAIN mem = 1 .. (freePtr - 1)
    BY DEF EvalInv
  <2>2. ASSUME NEW k \in 1 .. outs
        PROVE  mem'[NewTop + outs - k] = outputs[k]
    <3> DEFINE a == NewTop + outs - k
               bottom == Running.bottom
               alloc == Sources[Running.src].alloc
    <3> HIDE DEF popped, outs, bottom, alloc
    <3>1. a \in 1 .. (freePtr - 1) /\ a \in (popped - outs) .. (popped - 1) /\ popped - a = k
      <4>1. popped \in Nat
        BY <1>3 DEF popped
      <4> QED BY <1>3, <1>4, <4>1 DEF bottom, alloc
    <3> HIDE DEF a
    <3>2. mem'[a] = outputs[popped - a]
      BY <1>2, <2>1, <3>1
    <3> QED BY <3>1, <3>2 DEF a
  <2>3. outputs = [k \in 1 .. outs |-> outputs[k]]
    BY <1>2, <1>5, LenProperties, SeqDef
  <2> QED BY <2>2, <2>3, Zenon DEF PushedWords
<1>7. OpWrites /\ status' = "eval" /\ UNCHANGED <<request, result>>
  BY <1>1, <1>3, ExternWrites DEF evalFixed
<1>8. Machine!Effect(RunningOp, Items(RunningOp.ins), PushedWords, stateKV')
  BY <1>1, <1>2, <1>3, <1>6, MachineIs, NotPure DEF Machine!Effect
<1> QED
  BY <1>1, <1>7, <1>8, OpSteps DEF checkVars

-----------------------------------------------------------------------------
(* Calls and returns. *)

LEMMA MachineRuns ==
  ASSUME EvalInv, NEW code, AtRun(code)
  PROVE  /\ Machine!Running /\ Machine!RunningOp = RunningOp /\ status = "eval"
         /\ Machine!Top.src = Running.src /\ Machine!Top.pc = Running.pc
         /\ RunningOp.ins \in 0 .. (Running.bottom - Running.top)
         /\ Running.bottom - Running.top \in Nat
<1>1. /\ status = "eval" /\ Running.pc < Len(Sources[Running.src].ops)
      /\ RunningOp.ins \in Nat /\ RunningOp.ins <= Running.bottom - Running.top
  BY RunningOpFacts
<1>2. Running.bottom \in Nat /\ Running.top \in Nat
  BY <1>1, RunningFacts
<1>3. /\ Machine!Top.src = Running.src /\ Machine!Top.pc = Running.pc
      /\ Machine!Ops = Sources[Running.src].ops
      /\ Machine!RunningOp = RunningOp /\ Phase = "eval"
  BY <1>1, MachineIs
<1>4. Machine!Running
  BY <1>1, <1>3, Zenon DEF Machine!Running
<1>5. RunningOp.ins \in 0 .. (Running.bottom - Running.top) /\ Running.bottom - Running.top \in Nat
  BY <1>1, <1>2
<1> QED BY <1>1, <1>3, <1>4, <1>5

(* No word that a call copies has been overwritten before, where the callee *)
(* is not the caller.                                                       *)
LEMMA CopiesItems ==
  ASSUME EvalInv, AtRun("call"), RunningOp.arg \in DOMAIN Sources, RunningOp.arg # Running.src,
         NEW k \in 1 .. RunningOp.ins, RunningOp.ins <= Sources[RunningOp.arg].alloc
  PROVE  CopiedInput(k, stackBottoms[RunningOp.arg]) = Item(k)
<1> DEFINE callee == RunningOp.arg
           bottom == stackBottoms[callee]
           alloc == Sources[callee].alloc
           own == Running.bottom
           room == Sources[Running.src].alloc
           top == Running.top
           ins == RunningOp.ins
           a == top + k - 1
           written == bottom - a
<1>1. /\ status = "eval" /\ ins \in Nat /\ ins <= own - top /\ ins <= alloc
      /\ bottom \in Nat /\ alloc \in Nat /\ top \in Nat /\ own \in Nat /\ room \in Nat
      /\ own = stackBottoms[Running.src] /\ Running.src \in DOMAIN Sources
      /\ own - room <= top
  BY RunningOpFacts, RunningFacts, RegionFacts
<1> SUFFICES written \notin 1 .. (k - 1)
  BY DEF CopiedInput
<1> SUFFICES ASSUME written \in 1 .. (k - 1) PROVE FALSE
  OBVIOUS
<1> HIDE DEF bottom, alloc, own, room, top, ins
<1>2. a \in (own - room) .. (own - 1) /\ a \in (bottom - alloc) .. (bottom - 1)
  BY <1>1 DEF ins
<1> HIDE DEF a
<1>3. a \notin (bottom - alloc) .. (bottom - 1)
  <2>1. a \in (stackBottoms[Running.src] - Sources[Running.src].alloc)
                 .. (stackBottoms[Running.src] - 1)
    BY <1>1, <1>2 DEF room
  <2> QED BY <1>1, <2>1, RegionsApart DEF bottom, alloc
<1> QED BY <1>2, <1>3

LEMMA CallSteps ==
  ASSUME EvalInv, EvalInv', RunCall, ~Recursive', UNCHANGED checkVars
  PROVE  Machine!Call
<1> DEFINE n == Len(frames)
           ins == RunningOp.ins
           h == Running.bottom - Running.top
           low == h - ins
           callee == RunningOp.arg
           b == stackBottoms[callee]
           s == Shown(Running, mem)
           t == Shown(CallerFrame, mem')
           c == Shown(CalleeFrame, mem')
<1>1. /\ AtRun("call") /\ status = "eval" /\ callee \in DOMAIN Sources
      /\ ins \in Nat /\ b \in Nat /\ Sources[callee].alloc \in Nat
      /\ ins <= Sources[callee].alloc
      /\ n \in Nat /\ n >= 1 /\ DOMAIN frames = 1 .. n /\ frames[n] = Running
      /\ DOMAIN frames' = 1 .. (n + 1) /\ frames'[n + 1] = CalleeFrame
      /\ \A d \in 1 .. n : frames'[d] = IF d = n THEN CallerFrame ELSE frames[d]
  BY CallFrames
<1>2. /\ UNCHANGED <<status, request, stateKV, result>> /\ UNCHANGED expression
      /\ mem' = [a \in DOMAIN mem |->
                   IF a \in (b - ins) .. (b - 1) THEN CopiedInput(b - a, b) ELSE mem[a]]
  BY DEF RunCall, CalleeBottom, checkVars
<1>3. /\ Running \in FrameType /\ HoldsWords(mem, Running) /\ Running.src \in DOMAIN Sources
      /\ Running.bottom \in Nat /\ Running.top \in Nat
  BY <1>1, RunningFacts
<1>4. /\ Machine!Running /\ Machine!RunningOp = RunningOp
      /\ Machine!Top.src = Running.src /\ Machine!Top.pc = Running.pc
      /\ ins \in 0 .. h /\ h \in Nat /\ low \in 0 .. h /\ low \in Nat
  <2>1. /\ Machine!Running /\ Machine!RunningOp = RunningOp
        /\ Machine!Top.src = Running.src /\ Machine!Top.pc = Running.pc
        /\ ins \in 0 .. h /\ h \in Nat
    BY <1>1, MachineRuns
  <2> HIDE DEF ins, h
  <2> QED BY <2>1
<1>5. /\ CallerFrame.src = Running.src /\ CallerFrame.pc = Running.pc
      /\ CallerFrame.bottom = Running.bottom /\ CallerFrame.top = Running.top + ins
      /\ CalleeFrame.src = callee /\ CalleeFrame.pc = 0
      /\ CalleeFrame.bottom = b /\ CalleeFrame.top = b - ins
  BY DEF CallerFrame, CalleeFrame, Frame
<1>6. /\ CallerFrame.bottom - CallerFrame.top = low /\ CalleeFrame.bottom - CalleeFrame.top = ins
  <2> DEFINE bottom == Running.bottom
             top == Running.top
  <2>1. low = bottom - top - ins /\ ins \in Nat /\ b \in Nat /\ bottom \in Nat /\ top \in Nat
    BY <1>1, <1>3
  <2>2. /\ CallerFrame.bottom = bottom /\ CallerFrame.top = top + ins
        /\ CalleeFrame.bottom = b /\ CalleeFrame.top = b - ins
    BY <1>5
  <2> HIDE DEF low, ins, b, bottom, top
  <2>3. bottom - (top + ins) = low /\ b - (b - ins) = ins
    BY <2>1
  <2> QED BY <2>2, <2>3
<1> HIDE DEF n, low, ins, b, h, callee
<1>7. callee # Running.src
  <2>1. frames'[n].src = Running.src /\ frames'[n + 1].src = callee
    BY <1>1, <1>5
  <2>2. n \in DOMAIN frames' /\ n + 1 \in DOMAIN frames' /\ n < n + 1
    BY <1>1
  <2> QED BY <2>1, <2>2 DEF Recursive
<1>8. \A d \in DOMAIN frames' : frames'[d].bottom - frames'[d].top \in Nat
  <2> SUFFICES ASSUME NEW d \in 1 .. (n + 1) PROVE frames'[d].bottom - frames'[d].top \in Nat
    BY <1>1
  <2>1. CASE d = n + 1
    BY <2>1, <1>1, <1>6
  <2>2. CASE d = n
    BY <2>2, <1>1, <1>4, <1>6
  <2>3. CASE d \notin {n, n + 1}
    <3>1. frames'[d] = frames[d] /\ d \in DOMAIN frames
      BY <2>3, <1>1
    <3> QED BY <3>1, <1>1, FrameStands
  <2> QED BY <2>1, <2>2, <2>3
<1>9. /\ PrivateStacks' \in Seq(ActType) /\ Len(PrivateStacks') = n + 1
      /\ CallerFrame \in FrameType /\ HoldsWords(mem', CallerFrame)
      /\ CalleeFrame \in FrameType /\ HoldsWords(mem', CalleeFrame)
  <2>1. /\ PrivateStacks' \in Seq(ActType) /\ Len(PrivateStacks') = Len(frames')
        /\ \A d \in DOMAIN frames' : frames'[d] \in FrameType /\ HoldsWords(mem', frames'[d])
    BY <1>1, <1>2, <1>8, StandsAfter
  <2>2. Len(frames') = n + 1
    <3>1. frames' \in Seq(FrameType)
      BY DEF EvalInv
    <3> QED BY <1>1, <3>1, LenProperties
  <2>3. frames'[n] = CallerFrame /\ n \in DOMAIN frames' /\ n + 1 \in DOMAIN frames'
    BY <1>1
  <2> QED BY <1>1, <2>1, <2>2, <2>3
<1>10. StaysInScope(n + 1) /\ n + 1 \in Nat
  <2>1. StaysInScope(n + 1)
    BY CallInScope DEF n
  <2>2. n + 1 \in Nat
    BY <1>1
  <2> QED BY <2>1, <2>2
<1>11. \A d \in 1 .. (n - 1) : PrivateStacks'[d] = PrivateStacks[d]
  <2> TAKE d \in 1 .. (n - 1)
  <2>1. d \in DOMAIN frames /\ d \in DOMAIN frames' /\ d # n + 1 /\ frames'[d] = frames[d]
    BY <1>1
  <2> QED BY <1>1, <1>10, <2>1, StandsUntouched
<1>12. /\ PrivateStacks'[n] = Stands(CallerFrame, mem')
       /\ PrivateStacks'[n + 1] = Stands(CalleeFrame, mem')
  <2>1. frames'[n] = CallerFrame /\ n \in DOMAIN frames' /\ n + 1 \in DOMAIN frames'
    BY <1>1
  <2> QED BY <1>1, <2>1, PrivateStacksAre
<1>13. s \in Seq(Value) /\ Len(s) = h /\ \A i \in 1 .. h : s[i] = mem[Running.bottom - i]
  BY <1>3, <1>4, StandsFacts DEF h
<1>14. /\ t \in Seq(Value) /\ Len(t) = low
       /\ \A i \in 1 .. low : t[i] = mem'[Running.bottom - i]
  BY <1>4, <1>5, <1>6, <1>9, StandsFacts
<1>15. /\ c \in Seq(Value) /\ Len(c) = ins
       /\ \A i \in 1 .. ins : c[i] = mem'[b - i]
  BY <1>1, <1>5, <1>6, <1>9, StandsFacts, ZenonT(60)
<1> HIDE DEF s, t, c
<1>16. t = Machine!Below(ins)
  <2>1. Machine!Below(ins) = SubSeq(s, 1, low)
    <3>1. Machine!Top.stack = s
      BY <1>1, MachineIs DEF s
    <3> QED BY <3>1, <1>13, Zenon DEF Machine!Below, low
  <2>2. low \in 0 .. Len(s)
    BY <1>4, <1>13
  <2>3. /\ SubSeq(s, 1, low) \in Seq(Value) /\ Len(SubSeq(s, 1, low)) = low
        /\ \A i \in 1 .. low : SubSeq(s, 1, low)[i] = s[i]
    BY <1>13, <2>2, Prefix
  <2>4. \A i \in 1 .. low : t[i] = s[i]
    <3> TAKE i \in 1 .. low
    <3>1. i \in 1 .. h
      BY <1>4
    <3>2. n \in DOMAIN frames /\ n \in DOMAIN frames' /\ n # n + 1
      BY <1>1
    <3>3. mem'[Running.bottom - i] = mem[Running.bottom - i]
      BY <1>1, <1>10, <3>1, <3>2, ItemsUntouched DEF h
    <3> QED BY <1>13, <1>14, <3>1, <3>3
  <2> QED BY <1>14, <2>1, <2>3, <2>4, SeqEqual
<1>17. c = Machine!Args(ins)
  <2>1. Machine!Args(ins) = Items(ins)
    BY <1>1, <1>4, ArgsAreItems DEF h
  <2>2. ASSUME NEW i \in 1 .. ins PROVE c[i] = Item(i)
    <3>1. b - i \in 1 .. (freePtr - 1) /\ b - i \in (b - ins) .. (b - 1) /\ b - (b - i) = i
      <4>1. b - Sources[callee].alloc - 1 >= 1 /\ b <= freePtr /\ freePtr \in Nat
        BY <1>1, RegionFacts DEF b
      <4> QED BY <1>1, <4>1
    <3>2. DOMAIN mem = 1 .. (freePtr - 1)
      BY DEF EvalInv
    <3>3. mem'[b - i] = CopiedInput(i, b)
      BY <1>2, <3>1, <3>2
    <3>4. CopiedInput(i, b) = Item(i)
      BY <1>1, <1>7, CopiesItems DEF callee, b, ins
    <3> QED BY <1>15, <3>3, <3>4
  <2>3. c = [i \in 1 .. ins |-> c[i]]
    BY <1>15, LenProperties, SeqDef
  <2>4. c = [i \in 1 .. ins |-> Item(i)]
    BY <2>2, <2>3, Zenon
  <2> QED BY <2>1, <2>4 DEF Items
<1>18. /\ PrivateStacks'[n] = Machine!Activation(Machine!Top.src, Machine!Top.pc, Machine!Below(ins))
       /\ PrivateStacks'[n + 1] = Machine!Activation(callee, 0, Machine!Args(ins))
  BY <1>4, <1>5, <1>12, <1>16, <1>17, Zenon DEF Stands, Machine!Activation, t, c
<1>19. PrivateStacks \in Seq(ActType) /\ Len(PrivateStacks) = n
  BY <1>1, MachineIs DEF n
<1>20. PrivateStacks' = Machine!Front(PrivateStacks) \o <<PrivateStacks'[n], PrivateStacks'[n + 1]>>
  <2>1. PrivateStacks' = SubSeq(PrivateStacks, 1, n - 1) \o <<PrivateStacks'[n], PrivateStacks'[n + 1]>>
    BY <1>1, <1>9, <1>11, <1>19, LastSplit
  <2> QED BY <1>19, <2>1, Zenon DEF Machine!Front
<1>21. RunningOp.code = "call" /\ RunningOp.ins = ins /\ RunningOp.arg = callee
  BY <1>1, RunningOpFacts DEF ins, callee
<1>22. UNCHANGED <<expression, Phase, request, Cache, Returned>>
  BY <1>1, <1>2 DEF Phase, Cache, Begun, Returned
<1> QED
  BY <1>4, <1>18, <1>20, <1>21, <1>22, Zenon DEF Machine!Call

(* Where a return puts the outputs of a callee: the stack of the caller had  *)
(* w items, that of the callee has h, from address r up.                     *)
LEMMA ReturnedItems ==
  ASSUME NEW bottom \in Nat, NEW top \in Nat, NEW outs \in Nat, NEW newTop \in Nat,
         NEW free \in Nat, newTop = top - outs, top <= bottom, bottom <= free, newTop >= 1,
         NEW end \in Nat, NEW r \in Nat, NEW h \in Nat, end - r = h, outs <= h,
         NEW w, w = bottom - top
  PROVE  /\ w \in Nat /\ bottom - newTop = w + outs /\ bottom - newTop \in Nat
         /\ \A i \in 1 .. w :
              /\ bottom - i \in 1 .. (free - 1) /\ bottom - i \notin newTop .. (top - 1)
              /\ i \in 1 .. (w + outs)
         /\ \A k \in 1 .. outs :
              /\ w + k \in 1 .. (w + outs) /\ bottom - (w + k) \in 1 .. (free - 1)
              /\ bottom - (w + k) \in newTop .. (top - 1)
              /\ (h - outs) + k \in 1 .. h
              /\ end - ((h - outs) + k) = r + ((bottom - (w + k)) - newTop)
         /\ h - outs \in 0 .. h
  OBVIOUS

LEMMA WholePrefix ==
  ASSUME NEW S, NEW s \in Seq(S)
  PROVE  SubSeq(s, 1, Len(s)) = s
<1>1. Len(s) \in 0 .. Len(s)
  BY LenProperties
<1>2. /\ SubSeq(s, 1, Len(s)) \in Seq(S) /\ Len(SubSeq(s, 1, Len(s))) = Len(s)
      /\ \A i \in 1 .. Len(s) : SubSeq(s, 1, Len(s))[i] = s[i]
  BY <1>1, Prefix
<1> QED BY <1>2, SeqEqual

LEMMA ReturnSteps ==
  ASSUME EvalInv, EvalInv', ReturnFromCall, ~Recursive', UNCHANGED checkVars
  PROVE  Machine!Return
<1> DEFINE n == Len(frames)
           outs == WaitingOp.outs
           newTop == Waiting.top - outs
           bottom == Waiting.bottom
           w == bottom - Waiting.top
           h == Running.bottom - Running.top
           s == Shown(Waiting, mem)
           u == Shown(Running, mem)
           t == Shown(ResumedFrame, mem')
<1>1. /\ AtReturn /\ status = "eval" /\ n \in Nat /\ n > 1 /\ DOMAIN frames = 1 .. n
      /\ DOMAIN frames' = 1 .. (n - 1) /\ frames'[n - 1] = ResumedFrame
      /\ frames[n - 1] = Waiting /\ frames[n] = Running
      /\ \A d \in 1 .. (n - 2) : frames'[d] = frames[d]
  BY ReturnFrames DEF Waiting, Running
<1>2. /\ UNCHANGED <<status, request, stateKV, result>> /\ UNCHANGED expression
      /\ mem' = [a \in 1 .. (freePtr - 1) |->
                   IF a \in newTop .. (Waiting.top - 1)
                   THEN mem[Running.top + (a - newTop)] ELSE mem[a]]
  <2>1. Traced = mem
    BY <1>1, RestoredIsMem DEF Traced
  <2>2. DOMAIN mem = 1 .. (freePtr - 1)
    BY DEF EvalInv
  <2> QED BY <2>1, <2>2 DEF ReturnFromCall, CallOutputs, checkVars, Waiting, WaitingOp
<1>3. /\ Running \in FrameType /\ HoldsWords(mem, Running)
      /\ Running.bottom \in Nat /\ Running.top \in Nat /\ h \in Nat
      /\ Running.pc = Len(Sources[Running.src].ops)
  BY <1>1, RunningFacts DEF AtReturn
<1>4. outs <= h
  <2>1. h = Sources[Running.src].outputs
    BY <1>1, AtReturnFacts
  <2>2. outs <= Sources[Running.src].outputs
    BY <1>1, WaitingFacts
  <2> QED BY <2>1, <2>2
<1>5. /\ outs \in Nat /\ newTop \in Nat /\ bottom \in Nat /\ Waiting.top \in Nat /\ freePtr \in Nat
      /\ Waiting.top <= bottom /\ bottom <= freePtr /\ Waiting \in FrameType
      /\ HoldsWords(mem, Waiting) /\ newTop >= 1
  <2>1. /\ Sources[Waiting.src].alloc \in Nat /\ bottom - Sources[Waiting.src].alloc - 1 >= 1
        /\ bottom - Sources[Waiting.src].alloc <= newTop /\ bottom \in Nat /\ newTop \in Nat
    BY <1>1, WaitingFacts
  <2>2. newTop >= 1
    <3> HIDE DEF newTop, bottom
    <3> QED BY <2>1
  <2> QED BY <2>2, <1>1, WaitingFacts
<1>6. /\ w \in Nat /\ bottom - newTop = w + outs /\ bottom - newTop \in Nat
      /\ \A i \in 1 .. w :
           /\ bottom - i \in 1 .. (freePtr - 1) /\ bottom - i \notin newTop .. (Waiting.top - 1)
           /\ i \in 1 .. (w + outs)
      /\ \A k \in 1 .. outs :
           /\ w + k \in 1 .. (w + outs) /\ bottom - (w + k) \in 1 .. (freePtr - 1)
           /\ bottom - (w + k) \in newTop .. (Waiting.top - 1)
           /\ (h - outs) + k \in 1 .. h
           /\ Running.bottom - ((h - outs) + k) = Running.top + ((bottom - (w + k)) - newTop)
      /\ h - outs \in 0 .. h
  <2> DEFINE top == Waiting.top
             end == Running.bottom
             r == Running.top
  <2>1. newTop = top - outs /\ w = bottom - top /\ end - r = h
    OBVIOUS
  <2>2. /\ top \in Nat /\ end \in Nat /\ r \in Nat /\ top <= bottom
    BY <1>3, <1>5
  <2> HIDE DEF newTop, outs, bottom, w, h, top, end, r
  <2>3. /\ w \in Nat /\ bottom - newTop = w + outs /\ bottom - newTop \in Nat
        /\ \A i \in 1 .. w :
             /\ bottom - i \in 1 .. (freePtr - 1) /\ bottom - i \notin newTop .. (top - 1)
             /\ i \in 1 .. (w + outs)
        /\ \A k \in 1 .. outs :
             /\ w + k \in 1 .. (w + outs) /\ bottom - (w + k) \in 1 .. (freePtr - 1)
             /\ bottom - (w + k) \in newTop .. (top - 1)
             /\ (h - outs) + k \in 1 .. h
             /\ end - ((h - outs) + k) = r + ((bottom - (w + k)) - newTop)
        /\ h - outs \in 0 .. h
    BY <1>3, <1>4, <1>5, <2>1, <2>2, ReturnedItems
  <2> QED BY <2>3 DEF top, end, r
<1>7. /\ ResumedFrame.src = Waiting.src /\ ResumedFrame.pc = Waiting.pc + 1
      /\ ResumedFrame.bottom = bottom /\ ResumedFrame.top = newTop
  BY DEF ResumedFrame, Frame
<1> HIDE DEF n, outs, newTop, bottom, w, h
<1>8. \A d \in 1 .. (n - 1) : d = n - 1 \/ d \in 1 .. (n - 2)
  BY <1>1
<1>9. \A d \in DOMAIN frames' : frames'[d].bottom - frames'[d].top \in Nat
  <2> SUFFICES ASSUME NEW d \in 1 .. (n - 1) PROVE frames'[d].bottom - frames'[d].top \in Nat
    BY <1>1
  <2>1. CASE d = n - 1
    BY <2>1, <1>1, <1>6, <1>7
  <2>2. CASE d \in 1 .. (n - 2)
    <3>1. frames'[d] = frames[d] /\ d \in DOMAIN frames
      BY <2>2, <1>1
    <3> QED BY <3>1, <1>1, FrameStands
  <2> QED BY <2>1, <2>2, <1>8
<1>10. /\ PrivateStacks' \in Seq(ActType) /\ Len(PrivateStacks') = n - 1
       /\ ResumedFrame \in FrameType /\ HoldsWords(mem', ResumedFrame)
  <2>1. /\ PrivateStacks' \in Seq(ActType) /\ Len(PrivateStacks') = Len(frames')
        /\ \A d \in DOMAIN frames' : frames'[d] \in FrameType /\ HoldsWords(mem', frames'[d])
    BY <1>1, <1>2, <1>9, StandsAfter
  <2>2. Len(frames') = n - 1
    <3>1. frames' \in Seq(FrameType)
      BY DEF EvalInv
    <3>2. n - 1 \in Nat
      BY <1>1
    <3> QED BY <1>1, <3>1, <3>2, LenProperties
  <2>3. n - 1 \in DOMAIN frames'
    BY <1>1
  <2> QED BY <1>1, <2>1, <2>2, <2>3
<1>11. StaysInScope(n - 1) /\ n - 1 \in Nat
  <2>1. StaysInScope(n - 1)
    BY ReturnInScope DEF n
  <2>2. n - 1 \in Nat
    BY <1>1
  <2> QED BY <2>1, <2>2
<1>12. \A d \in 1 .. (n - 2) : PrivateStacks'[d] = PrivateStacks[d]
  <2> TAKE d \in 1 .. (n - 2)
  <2>1. d \in DOMAIN frames /\ d \in DOMAIN frames' /\ d # n - 1 /\ frames'[d] = frames[d]
    BY <1>1
  <2> QED BY <1>1, <1>11, <2>1, StandsUntouched
<1>13. /\ PrivateStacks'[n - 1] = Stands(ResumedFrame, mem')
       /\ PrivateStacks[n - 1] = Stands(Waiting, mem)
  <2>1. n - 1 \in DOMAIN frames' /\ n - 1 \in DOMAIN frames
    BY <1>1
  <2> QED BY <1>1, <2>1, PrivateStacksAre
<1>14. s \in Seq(Value) /\ Len(s) = w /\ \A i \in 1 .. w : s[i] = mem[bottom - i]
  BY <1>5, <1>6, StandsFacts DEF w, bottom
<1>15. u \in Seq(Value) /\ Len(u) = h /\ \A i \in 1 .. h : u[i] = mem[Running.bottom - i]
  BY <1>3, StandsFacts DEF h
<1>16. /\ t \in Seq(Value) /\ Len(t) = w + outs
       /\ \A i \in 1 .. (w + outs) : t[i] = mem'[bottom - i]
  BY <1>6, <1>7, <1>10, StandsFacts
<1> HIDE DEF s, u, t
<1>17. \A i \in 1 .. w : t[i] = s[i]
  <2> TAKE i \in 1 .. w
  <2>1. mem'[bottom - i] = mem[bottom - i]
    BY <1>2, <1>6
  <2> QED BY <1>6, <1>14, <1>16, <2>1
<1>18. SubSeq(t, w + 1, Len(t)) = SubSeq(u, (h - outs) + 1, Len(u))
  <2> DEFINE high == SubSeq(t, w + 1, Len(t))
             outputs == SubSeq(u, (h - outs) + 1, Len(u))
             m == h - outs
  <2>1. w \in 0 .. Len(t) /\ m \in 0 .. Len(u)
    BY <1>5, <1>6, <1>15, <1>16
  <2>2. /\ high \in Seq(Value) /\ Len(high) = Len(t) - w
        /\ \A k \in 1 .. (Len(t) - w) : high[k] = t[w + k]
    BY <1>16, <2>1, Suffix
  <2>3. /\ outputs \in Seq(Value) /\ Len(outputs) = Len(u) - m
        /\ \A k \in 1 .. (Len(u) - m) : outputs[k] = u[m + k]
    <3>1. outputs = SubSeq(u, m + 1, Len(u))
      OBVIOUS
    <3> HIDE DEF outputs, m
    <3> QED BY <1>15, <2>1, <3>1, Suffix
  <2>4. Len(t) - w = outs /\ Len(u) - m = outs
    BY <1>3, <1>5, <1>6, <1>15, <1>16
  <2>5. ASSUME NEW k \in 1 .. outs PROVE t[w + k] = u[m + k]
    <3>1. mem'[bottom - (w + k)] = mem[Running.top + ((bottom - (w + k)) - newTop)]
      BY <1>2, <1>6
    <3>2. t[w + k] = mem'[bottom - (w + k)]
      BY <1>6, <1>16
    <3>3. u[m + k] = mem[Running.bottom - (m + k)]
      BY <1>6, <1>15
    <3>4. Running.bottom - (m + k) = Running.top + ((bottom - (w + k)) - newTop)
      BY <1>6
    <3> QED BY <3>1, <3>2, <3>3, <3>4
  <2> HIDE DEF high, outputs, m
  <2>6. \A k \in 1 .. outs : high[k] = outputs[k]
    BY <2>2, <2>3, <2>4, <2>5
  <2>7. high = outputs
    BY <2>2, <2>3, <2>4, <2>6, SeqEqual
  <2> QED BY <2>7 DEF high, outputs
<1>19. t = s \o SubSeq(u, (h - outs) + 1, Len(u))
  <2>1. w \in 0 .. Len(s) /\ w <= Len(t)
    BY <1>5, <1>6, <1>14, <1>16
  <2>2. t = SubSeq(s, 1, w) \o SubSeq(t, w + 1, Len(t))
    BY <1>14, <1>16, <1>17, <2>1, PoppedAndPushed
  <2>3. SubSeq(s, 1, w) = s
    BY <1>14, WholePrefix
  <2> QED BY <2>2, <2>3, <1>18
<1>20. PrivateStacks \in Seq(ActType) /\ Len(PrivateStacks) = n
  BY <1>1, MachineIs DEF n
<1>21. PrivateStacks' = Append(Machine!Front(Machine!Front(PrivateStacks)), PrivateStacks'[n - 1])
  <2> DEFINE front == SubSeq(PrivateStacks, 1, n - 1)
  <2>1. n - 1 \in 0 .. Len(PrivateStacks)
    BY <1>1, <1>20
  <2>2. Len(front) = n - 1
    BY <1>20, <2>1, Prefix
  <2>3. front = Machine!Front(PrivateStacks)
    BY <1>20, Zenon DEF Machine!Front
  <2>4. PrivateStacks' = Append(SubSeq(front, 1, n - 2), PrivateStacks'[n - 1])
    <3>1. n - 1 >= 1 /\ (n - 1) - 1 = n - 2
      BY <1>1
    <3>2. \A d \in 1 .. (Len(PrivateStacks') - 1) : PrivateStacks'[d] = PrivateStacks[d]
      BY <1>10, <1>12, <3>1
    <3> HIDE DEF front
    <3>3. PrivateStacks' = Append(SubSeq(SubSeq(PrivateStacks, 1, Len(PrivateStacks) - 1), 1,
                                         Len(PrivateStacks) - 2), PrivateStacks'[Len(PrivateStacks')])
      BY <1>10, <1>20, <3>1, <3>2, LastMerged
    <3> QED BY <1>10, <1>20, <3>3 DEF front
  <2>5. Machine!Front(front) = SubSeq(front, 1, (n - 1) - 1)
    <3> HIDE DEF front
    <3> QED BY <2>2, Zenon DEF Machine!Front
  <2>6. (n - 1) - 1 = n - 2
    BY <1>1
  <2> QED BY <2>3, <2>4, <2>5, <2>6
<1>22. /\ Machine!Top.src = Running.src /\ Machine!Top.pc = Running.pc
       /\ Machine!Top.stack = u /\ Machine!Ops = Sources[Running.src].ops
       /\ Phase = "eval" /\ Cache = stateKV
  BY <1>1, MachineIs DEF u
<1>23. /\ PrivateStacks[n - 1].src = Waiting.src /\ PrivateStacks[n - 1].pc = Waiting.pc
       /\ PrivateStacks[n - 1].stack = s
       /\ expression.sources[Waiting.src].ops[Waiting.pc + 1].outs = outs
  BY <1>13 DEF Stands, s, outs, WaitingOp, OpAt
<1>24. PrivateStacks'[n - 1] = Machine!Activation(Waiting.src, Waiting.pc + 1,
                                 s \o SubSeq(u, Len(u) - outs + 1, Len(u)))
  <2>1. PrivateStacks'[n - 1] = Machine!Activation(Waiting.src, Waiting.pc + 1, t)
    BY <1>7, <1>13, Zenon DEF Stands, Machine!Activation, t
  <2> QED BY <2>1, <1>15, <1>19
<1>25. UNCHANGED <<expression, Phase, request, Cache, Returned>>
  BY <1>1, <1>2 DEF Phase, Cache, Begun, Returned
<1>26. Len(PrivateStacks) > 1 /\ Machine!Top.pc = Len(Machine!Ops)
  BY <1>1, <1>3, <1>20, <1>22
<1> QED
  BY <1>20, <1>21, <1>22, <1>23, <1>24, <1>25, <1>26, Zenon DEF Machine!Return

-----------------------------------------------------------------------------
(* The end of an evaluation. *)

LEMMA SmallerOfTwo ==
  ASSUME NEW x \in Nat, NEW y \in Nat
  PROVE  Machine!Min({x, y}) = IF x < y THEN x ELSE y
<1> DEFINE m == IF x < y THEN x ELSE y
<1>1. m \in {x, y} /\ \A z \in {x, y} : m <= z
  OBVIOUS
<1>2. \A u \in {x, y} : (\A z \in {x, y} : u <= z) => u = m
  OBVIOUS
<1>3. Machine!Min({x, y}) = CHOOSE u \in {x, y} : \A z \in {x, y} : u <= z
  BY DEF Machine!Min
<1> QED BY <1>1, <1>2, <1>3

LEMMA FinishSteps ==
  ASSUME EvalInv, ReturnFromEval, UNCHANGED checkVars
  PROVE  Machine!Finish
<1> DEFINE h == Running.bottom - Running.top
           declared == Sources[sourceIndex].outputs
           outputs == IF MaxOutputs < declared THEN MaxOutputs ELSE declared
<1>1. /\ AtReturn /\ status = "eval" /\ status' = "ok" /\ Len(frames) = 1
      /\ mem' = [Traced EXCEPT ![Running.top - 1] = LengthWord(outputs)]
      /\ result' = [stack |-> Items(outputs), kvs |-> stateKV]
      /\ UNCHANGED <<request, stateKV, frames>> /\ UNCHANGED expression
  BY DEF ReturnFromEval, AtReturn, checkVars
<1>2. /\ Running.bottom \in Nat /\ Running.top \in Nat /\ h \in Nat /\ declared = h
      /\ Running \in FrameType /\ HoldsWords(mem, Running)
      /\ Running.pc = Len(Sources[Running.src].ops)
      /\ frames = <<Running>>
  <2>1. frames \in Seq(FrameType) /\ Running = frames[1]
    BY <1>1, RunningFacts DEF Running
  <2>2. frames = <<Running>>
    BY <1>1, <2>1
  <2>3. declared = h
    BY <1>1, AtReturnFacts, RunningFacts
  <2> QED BY <1>1, <2>2, <2>3, RunningFacts DEF AtReturn
<1>3. outputs = Machine!Min({MaxOutputs, h}) /\ outputs \in 0 .. h
  <2>1. outputs = IF MaxOutputs < h THEN MaxOutputs ELSE h
    BY <1>2
  <2> HIDE DEF h, outputs
  <2> QED BY <1>2, <2>1, SmallerOfTwo, MaxOutputsAssumption
<1> HIDE DEF outputs
<1>4. Machine!Args(outputs) = Items(outputs)
  BY <1>1, <1>3, ArgsAreItems
<1>5. /\ Machine!Top.src = Running.src /\ Machine!Top.pc = Running.pc
      /\ Machine!Top.stack = Shown(Running, mem) /\ Machine!Ops = Sources[Running.src].ops
      /\ Phase = "eval" /\ Cache = stateKV /\ Len(PrivateStacks) = 1
  BY <1>1, MachineIs
<1>6. Len(Shown(Running, mem)) = h
  BY <1>2, StandsFacts
<1>7. Phase' = "ok" /\ Cache' = stateKV' /\ Returned' = Items(outputs)
  BY <1>1 DEF Phase, EvalReverts, Cache, Begun, Returned
<1>8. PrivateStacks' = PrivateStacks
  <2>1. ASSUME NEW i \in 1 .. h
        PROVE  mem'[Running.bottom - i] = mem[Running.bottom - i]
    <3>1. Running.bottom - i # Running.top - 1
      BY <1>2
    <3>2. Traced = mem /\ mem = [a \in 1 .. (freePtr - 1) |-> mem[a]]
      BY <1>1, RestoredIsMem DEF EvalInv, Traced
    <3> QED BY <1>1, <3>1, <3>2
  <2>2. Stands(Running, mem') = Stands(Running, mem)
    BY <1>2, <2>1, SameShown
  <2>3. \A d \in DOMAIN frames : frames[d] = Running
    BY <1>2
  <2> QED BY <1>1, <2>2, <2>3, PrivateStacksAre
<1>9. Returned' = Machine!Args(Machine!Min({MaxOutputs, Len(Machine!Top.stack)}))
  BY <1>3, <1>4, <1>5, <1>6, <1>7
<1>10. Machine!Top.pc = Len(Machine!Ops)
  BY <1>2, <1>5
<1>11. UNCHANGED <<expression, request, PrivateStacks, Cache>>
  BY <1>1, <1>5, <1>7, <1>8
<1> QED
  BY <1>5, <1>7, <1>9, <1>10, <1>11, Zenon DEF Machine!Finish

-----------------------------------------------------------------------------
(* What precedes an evaluation: nothing is cached but the overlay so far. *)

(* The indices at which the first n words of the overlay write a key. *)
Writes(key, n) == {i \in 1 .. n : i % 2 = 1 /\ request.overlay[i] = key}

(* What a key has in the cache c after the first n words of the overlay. *)
OverlayIn(c, key, n) ==
  \/ Writes(key, n) = {} /\ c[key] = Missing
  \/ \E m \in Writes(key, n) :
       (\A i \in Writes(key, n) : m >= i) /\ c[key] = request.overlay[m + 1]

MachineInv ==
  /\ status \in {"unchecked", "allocate", "overlay"} => frames = << >>
  /\ status \in {"unchecked", "allocate"} =>
       overlaid = 0 /\ stateKV = [key \in Value |-> Missing]
  /\ status = "overlay" =>
       /\ sourceIndex = request.sourceIndex
       /\ \A key \in Value : OverlayIn(stateKV, key, overlaid)

LEMMA OverlayGrows ==
  ASSUME EvalInv, MachineInv, ApplyOverlay
  PROVE  \A key \in Value : OverlayIn(stateKV, key, overlaid)'
<1> DEFINE n == overlaid
           k == request.overlay[n + 1]
           v == request.overlay[n + 2]
<1>1. /\ status = "overlay" /\ Len(request.overlay) % 2 = 0 /\ n < Len(request.overlay)
      /\ stateKV' = [stateKV EXCEPT ![k] = v] /\ overlaid' = n + 2 /\ request' = request
  BY DEF ApplyOverlay
<1>2. n \in Nat /\ n % 2 = 0 /\ stateKV \in [Value -> Value \cup {Missing}]
  BY DEF EvalInv
<1> SUFFICES ASSUME NEW key \in Value PROVE OverlayIn(stateKV', key, n + 2)
  BY <1>1 DEF OverlayIn, Writes
<1>3. OverlayIn(stateKV, key, n)
  BY <1>1 DEF MachineInv
<1> HIDE DEF n
<1>4. /\ (n + 1) % 2 = 1 /\ (n + 2) % 2 = 0 /\ n + 1 \in 1 .. (n + 2)
      /\ \A i : i \in 1 .. (n + 2) <=> i \in 1 .. n \/ i = n + 1 \/ i = n + 2
  BY <1>2
<1>5. CASE k = key
  <2>1. \A i \in Writes(key, n + 2) : n + 1 >= i
    <3> SUFFICES ASSUME NEW i \in Writes(key, n + 2) PROVE n + 1 >= i
      OBVIOUS
    <3>1. i \in 1 .. (n + 2) /\ i % 2 = 1
      BY DEF Writes
    <3>2. i # n + 2
      BY <1>4, <3>1
    <3> QED BY <1>2, <3>1, <3>2
  <2>2. n + 1 \in Writes(key, n + 2)
    BY <1>4, <1>5 DEF Writes
  <2>3. stateKV'[key] = request.overlay[(n + 1) + 1]
    <3>1. (n + 1) + 1 = n + 2
      BY <1>2
    <3> QED BY <1>1, <1>2, <1>5, <3>1
  <2> QED BY <2>1, <2>2, <2>3 DEF OverlayIn
<1>6. CASE k # key
  <2>1. stateKV'[key] = stateKV[key]
    BY <1>1, <1>2, <1>6
  <2>2. Writes(key, n + 2) = Writes(key, n)
    BY <1>4, <1>6 DEF Writes
  <2> QED BY <1>3, <2>1, <2>2 DEF OverlayIn
<1> QED BY <1>5, <1>6

LEMMA OverlaysOnCache ==
  ASSUME EvalInv, MachineInv, Overlaid
  PROVE  Machine!Overlay(request.overlay) = stateKV
<1>1. status = "overlay" /\ overlaid = Len(request.overlay)
  BY DEF Overlaid
<1>2. request.overlay \in Seq(Value) /\ stateKV \in [Value -> Value \cup {Missing}]
  BY <1>1, RequestsAssumption DEF EvalInv
<1>3. DOMAIN request.overlay = 1 .. overlaid /\ overlaid \in Nat
  BY <1>1, <1>2, LenProperties
<1> DEFINE writes(key) == {i \in DOMAIN request.overlay : i % 2 = 1 /\ request.overlay[i] = key}
<1>4. \A key : writes(key) = Writes(key, overlaid)
  BY <1>3 DEF Writes
<1>5. Machine!Overlay(request.overlay) =
        [key \in Value |-> IF Writes(key, overlaid) = {} THEN Missing
                           ELSE request.overlay[Machine!Max(Writes(key, overlaid)) + 1]]
  BY <1>4 DEF Machine!Overlay
<1>6. ASSUME NEW key \in Value
      PROVE  stateKV[key] = IF Writes(key, overlaid) = {} THEN Missing
                            ELSE request.overlay[Machine!Max(Writes(key, overlaid)) + 1]
  <2>1. OverlayIn(stateKV, key, overlaid)
    BY <1>1 DEF MachineInv
  <2>2. CASE Writes(key, overlaid) = {}
    BY <2>1, <2>2 DEF OverlayIn
  <2>3. CASE Writes(key, overlaid) # {}
    <3>1. PICK m \in Writes(key, overlaid) :
            (\A i \in Writes(key, overlaid) : m >= i) /\ stateKV[key] = request.overlay[m + 1]
      BY <2>1, <2>3 DEF OverlayIn
    <3>2. Writes(key, overlaid) \subseteq Nat
      BY DEF Writes
    <3>3. Machine!Max(Writes(key, overlaid)) = m
      <4> DEFINE W == Writes(key, overlaid)
      <4>1. \A x \in W : (\A y \in W : x >= y) => x = m
        BY <3>1, <3>2
      <4> HIDE DEF W
      <4>2. Machine!Max(W) = CHOOSE x \in W : \A y \in W : x >= y
        BY DEF Machine!Max
      <4> QED BY <3>1, <4>1, <4>2 DEF W
    <3> QED BY <2>3, <3>1, <3>3
  <2> QED BY <2>2, <2>3
<1> QED BY <1>2, <1>5, <1>6

(* An evaluation begins with its inputs on the stack of the entry source and *)
(* its overlay in the cache.                                                 *)
LEMMA BeginSteps ==
  ASSUME EvalInv, EvalInv', MachineInv, EnterEval, UNCHANGED checkVars
  PROVE  Machine!Begin
<1> DEFINE inputs == request.inputs
           n == Len(inputs)
           bottom == stackBottoms[sourceIndex]
           top == bottom - n
           g == Frame(sourceIndex, sourceIndex, bottom, top, 0)
           t == Shown(g, mem')
<1>1. /\ status = "overlay" /\ status' = "eval" /\ Overlaid
      /\ sourceIndex \in DOMAIN Sources /\ n = Sources[sourceIndex].inputs
      /\ mem' = [a \in DOMAIN mem |->
                   IF a \in top .. (bottom - 1) THEN inputs[a - top + 1] ELSE mem[a]]
      /\ frames' = <<g>> /\ sourceIndex = request.sourceIndex
      /\ UNCHANGED <<request, freePtr, stateKV, result>> /\ UNCHANGED expression
  BY DEF EnterEval, Overlaid, MachineInv, checkVars
<1>2. /\ inputs \in Seq(Value) /\ n \in Nat
  BY <1>1, RequestsAssumption, LenProperties DEF EvalInv
<1>3. /\ bottom \in Nat /\ freePtr \in Nat /\ bottom <= freePtr
  BY <1>1, RegionFacts
<1>4. /\ g \in FrameType /\ HoldsWords(mem', g)
      /\ g.src = sourceIndex /\ g.pc = 0 /\ g.bottom = bottom /\ g.top = top
  <2>1. FramesFit(expression', profile', stackBottoms', mem', frames', sourceIndex')
    BY <1>1 DEF EvalInv
  <2> HIDE DEF g
  <2>2. Len(frames') = 1 /\ frames'[1] = g
    BY <1>1
  <2>3. frames' \in Seq(FrameType) /\ \A d \in 1 .. Len(frames') : HoldsWords(mem', frames'[d])
    BY <2>1, Zenon DEF FramesFit
  <2>4. g \in FrameType /\ HoldsWords(mem', g)
    BY <2>2, <2>3, ElementOfSeq
  <2>5. g.src = sourceIndex /\ g.pc = 0 /\ g.bottom = bottom /\ g.top = top
    BY DEF g, Frame
  <2> QED BY <2>4, <2>5
<1>5. bottom - top = n /\ top \in Nat
  <2>1. top \in Nat
    BY <1>4 DEF FrameType
  <2> HIDE DEF n, bottom
  <2> QED BY <1>2, <1>3, <2>1
<1>6. /\ t \in Seq(Value) /\ Len(t) = n /\ \A i \in 1 .. n : t[i] = mem'[bottom - i]
  <2> HIDE DEF g, n, bottom, top
  <2>1. g.bottom - g.top = n
    BY <1>4, <1>5
  <2>2. /\ t \in Seq(Value) /\ Len(t) = g.bottom - g.top
        /\ \A i \in 1 .. (g.bottom - g.top) : t[i] = mem'[g.bottom - i]
    BY <1>2, <1>4, <2>1, StandsFacts
  <2> QED BY <1>4, <2>1, <2>2
<1>7. t = Machine!Reverse(inputs)
  <2>1. DOMAIN mem = 1 .. (freePtr - 1)
    BY DEF EvalInv
  <2>2. ASSUME NEW i \in 1 .. n PROVE t[i] = inputs[(n - i) + 1]
    <3> HIDE DEF t, n, bottom, top
    <3>1. /\ bottom - i \in top .. (bottom - 1) /\ (bottom - i) - top + 1 = (n - i) + 1
          /\ bottom - i \in Int /\ bottom - i <= freePtr - 1
      BY <1>2, <1>3, <1>5
    <3>2. top >= 1
      <4>1. /\ stackBottoms[sourceIndex] - Sources[sourceIndex].alloc - 1 >= 1
            /\ Sources[sourceIndex].alloc \in Nat
        BY <1>1, RegionFacts
      <4>2. n <= Sources[sourceIndex].alloc
        <5>1. CheckInv /\ verdict = "ok"
          BY <1>1 DEF EvalInv
        <5>2. /\ profile[sourceIndex][1].height = Sources[sourceIndex].inputs
              /\ Len(Sources[sourceIndex].ops) \in Nat
              /\ \A k \in 1 .. (Len(Sources[sourceIndex].ops) + 1) :
                   profile[sourceIndex][k].height <= Sources[sourceIndex].alloc
          BY <5>1, <1>1, SourceFacts
        <5>3. 1 \in 1 .. (Len(Sources[sourceIndex].ops) + 1)
          BY <5>2
        <5> QED BY <5>2, <5>3, <1>1
      <4> QED BY <4>1, <4>2, <1>2, <1>3, <1>5 DEF bottom
    <3>3. bottom - i \in DOMAIN mem
      BY <1>3, <1>5, <2>1, <3>1, <3>2
    <3>4. mem'[bottom - i] = inputs[(bottom - i) - top + 1]
      BY <1>1, <3>1, <3>3
    <3> QED BY <1>6, <3>1, <3>4
  <2> HIDE DEF t, n, inputs
  <2>3. t = [i \in 1 .. n |-> t[i]]
    BY <1>6, LenProperties, SeqDef
  <2>4. t = [i \in 1 .. n |-> inputs[(n - i) + 1]]
    BY <2>2, <2>3, Zenon
  <2> QED BY <2>4 DEF Machine!Reverse, n
<1>8. PrivateStacks' = <<Machine!Activation(request.sourceIndex, 0, Machine!Reverse(inputs))>>
  <2>1. Stands(g, mem') = Machine!Activation(request.sourceIndex, 0, Machine!Reverse(inputs))
    <3> HIDE DEF g, inputs
    <3> QED BY <1>1, <1>4, <1>7, Zenon DEF Stands, Machine!Activation, t
  <2> HIDE DEF g, inputs
  <2>2. DOMAIN frames' = 1 .. 1 /\ frames'[1] = g
    BY <1>1
  <2> QED BY <2>1, <2>2, PrivateStacksAre
<1>9. Phase = "asked" /\ Phase' = "eval"
  BY <1>1 DEF Phase, EvalReverts
<1>10. Cache' = Machine!Overlay(request.overlay)
  BY <1>1, OverlaysOnCache DEF Cache, Begun
<1>11. UNCHANGED <<expression, request, Returned>>
  BY <1>1 DEF Returned
<1> HIDE DEF g, t, top, bottom
<1> QED
  BY <1>1, <1>8, <1>9, <1>10, <1>11, Zenon DEF Machine!Begin, Sources

-----------------------------------------------------------------------------
(* The other steps. *)

LEMMA RevertFails ==
  ASSUME MachineInv, NEW error \in EvalReverts, Revert(error), UNCHANGED checkVars,
         \/ status = "overlay"
         \/ EvalInv /\ \E code \in {"context", "add", "ensure", "extern", "call"} : AtRun(code)
         \/ EvalInv /\ AtRun("get") /\ stateKV[Item(1)] = Missing
  PROVE  Machine!Fail
<1>1. /\ status' \in EvalReverts
      /\ UNCHANGED <<request, mem, stateKV, frames, result>> /\ UNCHANGED expression
  BY DEF Revert, memVars, checkVars
<1>2. Phase' = "reverted" /\ status' \notin {"eval", "ok"}
  BY <1>1 DEF Phase, EvalReverts
<1>3. PrivateStacks' = PrivateStacks
  BY <1>1, PrivateStacksAre
<1>4. CASE status = "overlay"
  <2>1. Phase = "asked" /\ frames = << >> /\ status \notin {"eval", "ok"}
    BY <1>4 DEF Phase, EvalReverts, MachineInv
  <2>2. Cache' = Cache /\ Returned' = Returned
    BY <1>1, <1>2, <2>1 DEF Cache, Begun, Returned
  <2> QED BY <1>1, <1>2, <1>3, <2>1, <2>2 DEF Machine!Fail
<1>5. CASE EvalInv /\ \/ \E code \in {"context", "add", "ensure", "extern", "call"} : AtRun(code)
                      \/ AtRun("get") /\ stateKV[Item(1)] = Missing
  <2>1. PICK code \in {"context", "add", "ensure", "extern", "call", "get"} :
          AtRun(code) /\ (code = "get" => stateKV[Item(1)] = Missing)
    BY <1>5
  <2>2. /\ Machine!Running /\ Machine!RunningOp = RunningOp /\ status = "eval"
        /\ RunningOp.code = code
    BY <1>5, <2>1, MachineRuns, RunningOpFacts
  <2>3. frames # << >>
    <3>1. Len(frames) >= 1
      BY <1>5, <2>2, RunningFacts
    <3> QED BY <3>1
  <2>4. Cache' = Cache /\ Returned' = Returned
    BY <1>1, <1>2, <2>2, <2>3 DEF Cache, Begun, Returned
  <2>5. ASSUME code = "get" PROVE Cache[Machine!Args(1)[1]] = Missing
    <3>1. RunningOp.ins = 1
      BY <1>5, <2>1, <2>5, RunningIO
    <3>2. Machine!Args(1) = Items(1) /\ Cache = stateKV
      <4>1. /\ RunningOp.ins \in Nat /\ RunningOp.ins <= Running.bottom - Running.top
            /\ Running.bottom \in Nat /\ Running.top \in Nat
        BY <1>5, <2>1, <2>2, RunningOpFacts, RunningFacts
      <4>2. 1 \in 0 .. (Running.bottom - Running.top)
        BY <3>1, <4>1
      <4> QED BY <1>5, <2>2, <4>2, ArgsAreItems, MachineIs
    <3>3. Items(1)[1] = Item(1)
      BY DEF Items
    <3> QED BY <2>1, <2>5, <3>2, <3>3
  <2> QED BY <1>1, <1>2, <1>3, <2>1, <2>2, <2>4, <2>5 DEF Machine!Fail
<1> QED BY <1>4, <1>5

(* Each op is a step of the machine, a call or a failure. *)
LEMMA RunOpSteps ==
  ASSUME EvalInv, EvalInv', MachineInv, RunOp, UNCHANGED checkVars,
         status' = "eval" => ~Recursive'
  PROVE  Machine!Next
<1>1. CASE \/ RevertContext \/ RevertArithmetic \/ RevertEnsure \/ RevertStore
           \/ RevertExternCall \/ RevertExternOutputs \/ RevertGas
  <2>1. \E error \in EvalReverts : Revert(error)
    BY <1>1 DEF RevertContext, RevertArithmetic, RevertEnsure, RevertStore, RevertExternCall,
       RevertExternOutputs, RevertGas, EvalReverts
  <2>2. \/ \E code \in {"context", "add", "ensure", "extern", "call"} : AtRun(code)
        \/ AtRun("get") /\ stateKV[Item(1)] = Missing
    BY <1>1 DEF RevertContext, RevertArithmetic, RevertEnsure, RevertStore, RevertExternCall,
       RevertExternOutputs, RevertGas
  <2>3. Machine!Fail
    BY <2>1, <2>2, RevertFails
  <2> QED BY <2>3 DEF Machine!Next
<1>2. ASSUME NEW code, AtRun(code), status' = status
      PROVE  ~Recursive'
  BY <1>2 DEF AtRun
<1>3. CASE RunCall
  <2>1. ~Recursive'
    BY <1>2, <1>3 DEF RunCall
  <2> QED BY <1>3, <2>1, CallSteps DEF Machine!Next
<1>4. CASE RunStack \/ RunConstant \/ RunContext \/ RunPure \/ RunEnsure \/ RunGet \/ RunSet
           \/ RunExtern
  <2>1. ~Recursive'
    BY <1>2, <1>4 DEF RunStack, RunConstant, RunContext, RunPure, RunEnsure, RunGet, RunSet,
       RunExtern, PopPush, evalFixed
  <2>2. Machine!Step
    BY <1>4, <2>1, StackSteps, ConstantSteps, ContextSteps, PureSteps, EnsureSteps, GetSteps,
       SetSteps, ExternSteps
  <2> QED BY <2>2 DEF Machine!Next
<1> QED BY <1>1, <1>3, <1>4 DEF RunOp

(* What comes before the evaluation begins shows nothing. *)
LEMMA PreludeStutters ==
  ASSUME MachineInv, MachineInv', UNCHANGED checkVars,
         AllocateStack \/ Deserialized \/ ApplyOverlay
  PROVE  UNCHANGED Machine!vars
<1>1. /\ status \in {"allocate", "overlay"} /\ status' \in {"allocate", "overlay"}
      /\ UNCHANGED <<request, frames, result>> /\ UNCHANGED expression
  BY DEF AllocateStack, Deserialized, ApplyOverlay, checkVars
<1>2. frames = << >> /\ frames' = << >>
  BY <1>1 DEF MachineInv
<1>3. Phase = "asked" /\ Phase' = "asked"
  BY <1>1 DEF Phase, EvalReverts
<1>4. Cache' = Cache /\ Returned' = Returned
  BY <1>1, <1>2 DEF Cache, Begun, Returned
<1>5. PrivateStacks' = PrivateStacks
  BY <1>2, PrivateStacksAre
<1> QED BY <1>1, <1>3, <1>4, <1>5 DEF Machine!vars

LEMMA AskSteps ==
  ASSUME MachineInv, CallEval4, UNCHANGED checkVars
  PROVE  Machine!Ask
<1>1. /\ status = "unchecked" /\ status' = "allocate" /\ request' \in Requests
      /\ UNCHANGED <<mem, frames, stateKV, result>> /\ UNCHANGED expression
  BY DEF CallEval4, memVars, checkVars
<1>2. frames = << >>
  BY <1>1 DEF MachineInv
<1>3. Phase = "idle" /\ Phase' = "asked"
  BY <1>1 DEF Phase, EvalReverts
<1>4. Cache' = Cache /\ Returned' = Returned
  BY <1>1, <1>2 DEF Cache, Begun, Returned
<1>5. PrivateStacks' = PrivateStacks
  BY <1>1, PrivateStacksAre
<1> QED BY <1>1, <1>3, <1>4, <1>5 DEF Machine!Ask

LEMMA IdleStutters ==
  ASSUME UNCHANGED evalVars, expression' = expression
  PROVE  UNCHANGED Machine!vars
<1>1. UNCHANGED <<status, request, mem, frames, stateKV, result>>
  BY DEF evalVars, memVars
<1>2. PrivateStacks' = PrivateStacks
  BY <1>1, PrivateStacksAre
<1>3. Phase' = Phase /\ Cache' = Cache /\ Returned' = Returned
  BY <1>1 DEF Phase, Cache, Begun, Returned
<1> QED BY <1>1, <1>2, <1>3 DEF Machine!vars

(* MachineInv is kept, given EvalInv. *)
LEMMA MachineInvNext == EvalInv /\ MachineInv /\ [Next]_vars => MachineInv'
<1> SUFFICES ASSUME EvalInv, MachineInv, [Next]_vars
             PROVE  MachineInv'
  OBVIOUS
<1>1. CASE UNCHANGED evalVars
  BY <1>1 DEF evalVars, MachineInv, OverlayIn, Writes
<1>2. CASE ApplyOverlay
  <2>1. status = "overlay" /\ status' = "overlay" /\ UNCHANGED <<frames, sourceIndex, request>>
    BY <1>2 DEF ApplyOverlay
  <2> QED BY <1>2, <2>1, OverlayGrows DEF MachineInv
<1>3. CASE Deserialized
  <2>1. /\ status = "allocate" /\ status' = "overlay" /\ sourceIndex' = request.sourceIndex
        /\ UNCHANGED <<frames, request, stateKV, overlaid>>
    BY <1>3 DEF Deserialized
  <2>2. \A key \in Value : OverlayIn(stateKV, key, overlaid)'
    BY <2>1 DEF MachineInv, OverlayIn, Writes
  <2> QED BY <2>1, <2>2 DEF MachineInv
<1>4. CASE CallEval4
  BY <1>4 DEF CallEval4, MachineInv
<1>5. CASE AllocateStack
  BY <1>5 DEF AllocateStack, MachineInv
<1>6. CASE RejectOverlay \/ RejectSourceIndex \/ RejectInputs \/ EnterEval \/ RunOp
           \/ ReturnFromCall \/ ReturnFromEval
  <2>1. status' \notin {"unchecked", "allocate", "overlay"}
    BY <1>6 DEF RejectOverlay, RejectSourceIndex, RejectInputs, EnterEval, RunOp, Revert,
       ReturnFromCall, ReturnFromEval, AtReturn, AtRun, RunStack, RunConstant, RunContext, RunPure,
       RunEnsure, RunGet, RunSet, RunExtern, RunCall, RevertContext, RevertArithmetic,
       RevertEnsure, RevertStore, RevertExternCall, RevertExternOutputs, RevertGas, PopPush, evalFixed
  <2> QED BY <2>1 DEF MachineInv
<1> QED
  BY <1>1, <1>2, <1>3, <1>4, <1>5, <1>6 DEF Next, EvalNext, Stopped, vars

(* Each step of Eval is a step of the machine or shows nothing. *)
LEMMA NextRefines ==
  ASSUME EvalInv, EvalInv', MachineInv, MachineInv', [Next]_vars,
         status' = "eval" => ~Recursive'
  PROVE  [Machine!Next]_(Machine!vars)
<1>1. CASE UNCHANGED evalVars
  BY <1>1, IdleStutters, ExpressionStays
<1>2. CASE EvalNext /\ UNCHANGED checkVars
  <2>1. CASE CallEval4
    BY <1>2, <2>1, AskSteps DEF Machine!Next
  <2>2. CASE AllocateStack \/ Deserialized \/ ApplyOverlay
    BY <1>2, <2>2, PreludeStutters
  <2>3. CASE RejectOverlay \/ RejectSourceIndex \/ RejectInputs
    <3>1. status = "overlay" /\ \E error \in EvalReverts : Revert(error)
      BY <2>3 DEF RejectOverlay, RejectSourceIndex, RejectInputs, Overlaid, EvalReverts
    <3> QED BY <1>2, <3>1, RevertFails DEF Machine!Next
  <2>4. CASE EnterEval
    BY <1>2, <2>4, BeginSteps DEF Machine!Next
  <2>5. CASE RunOp
    BY <1>2, <2>5, RunOpSteps
  <2>6. CASE ReturnFromCall
    <3>1. ~Recursive'
      BY <2>6 DEF ReturnFromCall, AtReturn
    <3> QED BY <1>2, <2>6, <3>1, ReturnSteps DEF Machine!Next
  <2>7. CASE ReturnFromEval
    BY <1>2, <2>7, FinishSteps DEF Machine!Next
  <2> QED
    BY <1>2, <2>1, <2>2, <2>3, <2>4, <2>5, <2>6, <2>7 DEF EvalNext
<1> QED
  BY <1>1, <1>2 DEF Next, Stopped, vars

LEMMA InitRefines == Init => MachineInv /\ Machine!Init
<1> SUFFICES ASSUME Init PROVE MachineInv /\ Machine!Init
  OBVIOUS
<1>1. /\ status = "unchecked" /\ frames = << >> /\ overlaid = 0
      /\ stateKV = [key \in Value |-> Missing]
  BY DEF Init, EvalInit
<1>2. MachineInv
  BY <1>1 DEF MachineInv
<1>3. Phase = "idle" /\ Cache = [key \in Value |-> Missing] /\ Returned = << >>
  BY <1>1 DEF Phase, EvalReverts, Cache, Begun, Returned
<1>4. PrivateStacks = << >>
  BY <1>1, PrivateStacksAre
<1> QED BY <1>2, <1>3, <1>4 DEF Machine!Init

(* So long as no source is called from within itself, an evaluation computes *)
(* with pointers into one memory what the machine of private stacks computes. *)
THEOREM RunsAsStackMachine == Spec /\ []~Recursive => ImplementsStackMachine
<1>1. ASSUME EvalInv, EvalInv', MachineInv, MachineInv', [Next]_vars, ~Recursive'
      PROVE  [Machine!Next]_(Machine!vars)
  BY <1>1, NextRefines
<1> QED
  BY <1>1, InitRefines, MachineInvNext, EvalInvariant, PTL DEF Spec, ImplementsStackMachine,
     Machine!Spec

(* Where calls go down in rank, no source is active twice. *)
LEMMA LayeredNeverRecurs ==
  ASSUME \A e \in Expressions : CallsAreLayered(e), expression \in Expressions, EvalInv, status = "eval"
  PROVE  ~Recursive
<1> DEFINE n == Len(frames)
<1>1. PICK rank \in [DOMAIN Sources -> 0 .. Len(Sources)] :
        \A s \in DOMAIN Sources : \A k \in DOMAIN Sources[s].ops :
          LET op == Sources[s].ops[k]
          IN  op.code = "call" /\ op.arg \in DOMAIN Sources => rank[op.arg] < rank[s]
  BY DEF CallsAreLayered, Sources
<1>2. /\ n \in Nat /\ DOMAIN frames = 1 .. n /\ CheckInv /\ verdict = "ok"
  BY RunningFacts, LenProperties DEF EvalInv
<1> DEFINE r(d) == rank[frames[d].src]
<1>3. \A d \in 1 .. n : r(d) \in Nat
  BY <1>1, <1>2, FrameStands
<1>4. ASSUME NEW d \in 1 .. (n - 1) PROVE r(d + 1) < r(d)
  <2>1. WaitsFor(expression, frames[d], frames[d + 1])
    BY SuspendedFacts
  <2>2. d \in DOMAIN frames /\ d + 1 \in DOMAIN frames
    BY <1>2
  <2>3. frames[d] \in FrameType /\ frames[d].src \in DOMAIN Sources
        /\ frames[d + 1].src \in DOMAIN Sources
    BY <2>2, FrameStands
  <2>4. frames[d].pc + 1 \in DOMAIN Sources[frames[d].src].ops
    <3>1. frames[d].pc \in Nat /\ frames[d].pc < Len(Sources[frames[d].src].ops)
      BY <2>1, <2>3 DEF WaitsFor, FrameType, Sources
    <3>2. Sources[frames[d].src].ops \in Seq(Op) /\ Len(Sources[frames[d].src].ops) \in Nat
      BY <1>2, <2>3, SourceFacts DEF Source
    <3> QED BY <3>1, <3>2, LenProperties
  <2>5. /\ Sources[frames[d].src].ops[frames[d].pc + 1].code = "call"
        /\ Sources[frames[d].src].ops[frames[d].pc + 1].arg = frames[d + 1].src
    BY <2>1 DEF WaitsFor, OpAt, Sources
  <2> QED BY <1>1, <2>3, <2>4, <2>5
<1> HIDE DEF n, r
<1> SUFFICES ASSUME NEW d \in 1 .. n, NEW c \in 1 .. n, d < c PROVE r(c) < r(d)
  <2>1. \A d, c \in 1 .. n : d < c => r(c) # r(d)
    <3> SUFFICES ASSUME NEW d \in 1 .. n, NEW c \in 1 .. n, d < c PROVE r(c) # r(d)
      OBVIOUS
    <3>1. r(c) < r(d)
      OBVIOUS
    <3> QED BY <3>1, <1>3
  <2> QED BY <1>2, <2>1 DEF Recursive, r
<1> DEFINE S == {j \in Nat : d + 1 + j <= n => r(d + 1 + j) < r(d)}
<1>5. 0 \in S
  <2>1. d + 1 <= n => r(d + 1) < r(d)
    BY <1>2, <1>4
  <2> QED BY <2>1
<1>6. ASSUME NEW j \in Nat, j \in S PROVE j + 1 \in S
  <2> SUFFICES ASSUME d + 1 + (j + 1) <= n PROVE r(d + 1 + (j + 1)) < r(d)
    OBVIOUS
  <2>1. d + 1 + j \in 1 .. (n - 1) /\ d + 1 + (j + 1) = (d + 1 + j) + 1
        /\ d + 1 + j \in 1 .. n /\ d + 1 + (j + 1) \in 1 .. n
    BY <1>2
  <2>2. r((d + 1 + j) + 1) < r(d + 1 + j)
    BY <1>4, <2>1
  <2>3. r(d + 1 + j) < r(d)
    BY <1>2, <1>6, <2>1
  <2> QED BY <1>3, <2>1, <2>2, <2>3
<1> HIDE DEF S
<1>7. \A j \in Nat : j \in S
  BY <1>5, <1>6, NatSetInduction
<1>8. c - d - 1 \in Nat /\ d + 1 + (c - d - 1) = c /\ c <= n
  BY <1>2
<1>9. c - d - 1 \in S
  BY <1>7, <1>8
<1> QED BY <1>8, <1>9 DEF S

(* Where no source can call itself, every evaluation computes what the *)
(* machine computes.                                                   *)
THEOREM LayeredRunsAsStackMachine ==
  ASSUME \A e \in Expressions : CallsAreLayered(e)
  PROVE  Spec => ImplementsStackMachine
<1> DEFINE Straight == status = "eval" => ~Recursive
<1>1. Init => expression \in Expressions
  BY DEF Init, CheckInit
<1>2. expression \in Expressions /\ [Next]_vars => (expression \in Expressions)'
  BY ExpressionStays
<1>3. expression \in Expressions /\ EvalInv => Straight
  BY LayeredNeverRecurs
<1>4. ASSUME EvalInv, EvalInv', MachineInv, MachineInv', [Next]_vars, Straight'
      PROVE  [Machine!Next]_(Machine!vars)
  BY <1>4, NextRefines
<1> HIDE DEF Straight
<1> QED
  BY <1>1, <1>2, <1>3, <1>4, InitRefines, MachineInvNext, EvalInvariant, PTL
  DEF Spec, ImplementsStackMachine, Machine!Spec
=============================================================================
