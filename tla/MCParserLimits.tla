--------------------------- MODULE MCParserLimits ---------------------------
(***************************************************************************)
(* The parser with the limits of the code and texts as long as they allow. *)
(***************************************************************************)
EXTENDS MCRainlang

(* A source of n lines with an item each, and one that is nothing but n     *)
(* inputs.                                                                  *)
LinesOfItems(n) == Source1([i \in 1 .. n |-> Line(<<Anon>>, <<N(1)>>)])
LineOfInputs(n) == Source1(<<Line(Anons(n), << >>)>>)

LongTexts == UNION {{LinesOfItems(n), LineOfInputs(n)} : n \in (TopLevelMax - 1) .. TopLevelMax}

(* No text of at most TopLevelMax top level items to a source is refused or *)
(* leads the parser out of its memory: ParseState's counters are documented *)
(* as "allowing for 62 top level stack items total per source".             *)
CountersSuffice == ~Failed(state)
=============================================================================
