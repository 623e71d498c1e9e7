----------------------------- MODULE MCDeployer -----------------------------
(***************************************************************************)
(* Small instances of the deployer: texts of lines from a stock that uses  *)
(* names, nesting, words with several or no outputs, and words of sub      *)
(* parsers, and texts that are wrong in one way each.                      *)
(***************************************************************************)
EXTENDS MCRainlang

Sum == Call("add", <<N(0), N(1)>>)

(* Lines without and with a word, in the order in which they make sense. *)
InputLines == {Line(<< >>, << >>), Line(<<W("a")>>, << >>), Line(<<W("b"), Anon>>, << >>)}

WordLines ==
  {Line(<<W("a")>>, <<N(1)>>),
   Line(<<W("b")>>, <<Call("add", <<Sum, W("a")>>)>>),
   Line(<<Anon>>, <<W("a")>>),
   Line(<<W("a"), W("b")>>, <<N(0), Sum>>),
   Line(<<Anon, W("b")>>, <<W("a"), Call("hash", << >>)>>),
   Line(<<W("b"), W("a")>>, <<Call("callB", << >>)>>),
   Line(<<Anon>>, <<Call("callB", <<N(1)>>)>>),
   Line(<< >>, <<Call("ensure", <<N(1), N(0)>>)>>),
   Line(<<W("b")>>, <<Call("ext", <<N(0), W("b")>>)>>),
   Line(<<Anon>>, <<Call("con", << >>)>>),
   Line(<<W("a"), Anon>>, <<Call("ctx", << >>), N(0)>>),
   Line(<<Anon>>, <<Call("con", <<N(1)>>)>>)}

Pragma == W(PragmaKeyword) \o Space \o A(Parser1) \o T("comment") \o Space \o A(Parser2) \o Space

OneLine == {<<line>> : line \in InputLines \cup WordLines}
TwoLines == {<<first, second>> : first \in InputLines \cup WordLines, second \in InputLines \cup WordLines}
ThreeLines ==
  {<<first, second, third>> : first \in InputLines \cup WordLines,
                              second \in WordLines, third \in WordLines}

OneSource == {Pragma \o Source1(lines) : lines \in OneLine \cup TwoLines \cup ThreeLines}

TwoSources ==
  {Pragma \o Source1(lines) \o Source1(<<line>>) : lines \in TwoLines, line \in InputLines \cup WordLines}

-----------------------------------------------------------------------------
(* Texts at and beyond the limits. *)

Nested(n) ==
  LET f[k \in 0 .. n] == IF k = 0 THEN N(0) ELSE Call("hash", <<f[k - 1]>>) IN f[n]

AtLimits ==
  {Source1(<<Line(<<Anon>>, <<Nested(n)>>)>>) : n \in 0 .. (ParensMax + 1)} \cup
  {Source1(<<Line(<<Anon>>, <<Call("hash", Zeros(n))>>)>>) : n \in 0 .. (ByteMax + 1)} \cup
  {Source1(<<Line(Anons(n), Zeros(m)), Line(<<Anon>>, <<N(1)>>)>>) :
     n \in 0 .. (LineItemsMax + 2), m \in 1 .. (LineItemsMax + 2)} \cup
  {Source1(<<Line(Anons(n), <<Call("callB", << >>)>>)>>) : n \in 0 .. (ByteMax + 1)} \cup
  {Source1(<<Line(Anons(n), << >>)>>) : n \in 0 .. (ByteMax + 1)} \cup
  {Source1(<<Line(Anons(n), << >>), Line(Anons(m), Zeros(m))>>) :
     n \in 0 .. TopLevelMax, m \in 1 .. (LineItemsMax + 1)} \cup
  {Source1([i \in 1 .. n |-> Line(<<Anon>>, <<Call("hash", Zeros(m))>>)]) :
     n \in 1 .. (TopLevelMax + 1), m \in 0 .. 3} \cup
  {Source1([i \in 1 .. n |-> Line(<< >>, <<Call("ensure", Zeros(1))>>)]) :
     n \in 1 .. (TopLevelMax + 1)} \cup
  {FlattenSeq([i \in 1 .. n |-> Source1(<<Line(<< >>, << >>)>>)]) : n \in 1 .. (SourcesMax + 1)}

(* Lines of tokens that a line may be made of. *)
Grammatical == OneSource \cup TwoSources \cup AtLimits \cup
  {Source1(<<line>>) : line \in WordLines} \cup
  {Pragma \o Source1(<<Line(<<Anon>>, <<item>>)>>) :
     item \in {S("one"), S("two"), S("three"), W("a"), Call("mal", << >>), Call("none", << >>)}} \cup
  {W(PragmaKeyword) \o Space \o A(V(1)) \o Space \o Source1(<<Line(<<Anon>>, <<N(1)>>)>>),
   T("comment") \o Space \o Source1(<<Line(<<Anon>>, <<N(1)>>)>>), << >>}

(* Texts with a token too many, too few or in the wrong place. *)
Ungrammatical ==
  {W(PragmaKeyword) \o T("comment"), W(PragmaKeyword) \o Space \o A(Parser1) \o Space \o S("one"),
   W(PragmaKeyword) \o Space \o A(Parser1) \o Space \o S("none"),
   T("comment") \o W(PragmaKeyword) \o Space \o Source1(<<Line(<<Anon>>, <<N(1)>>)>>),
   T("comma"), N(1), Anon \o T("comment"), Anon \o Anon, W("a") \o W("b"), T("comment") \o Anon,
   T("colon") \o T("comment"), T("colon") \o Anon, T("colon") \o W("add") \o Space,
   T("colon") \o N(1) \o W("a"), T("colon") \o T("rparen"), T("colon") \o T("lparen"),
   T("colon") \o W("add") \o T("lparen") \o T("semi"), T("colon") \o N(1),
   T("colon") \o S("one"), T("colon") \o W("a") \o T("lparen") \o T("rparen") \o T("semi"),
   W("a") \o T("colon") \o N(1) \o T("comma") \o T("colon") \o W("a") \o Paren(<< >>) \o T("semi")}

MCTexts == Grammatical \cup Ungrammatical

(* Of the texts that are lines of the right tokens, the parser takes exactly *)
(* those that mean something within its limits.                              *)
TakesTheWellFormed ==
  text \in Grammatical =>
    /\ phase = "reverted" => ~(WellFormed(text) /\ WithinLimits)
    /\ phase = "parsed" /\ verdict = "unparsed" => WellFormed(text) /\ WithinLimits
=============================================================================
