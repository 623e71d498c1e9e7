----------------------------- MODULE AlloyCalls -----------------------------
(***************************************************************************)
(* What the Forker's alloy_call and alloy_call_committing make of the      *)
(* result of a call.  decode is the caller's wish to have reverts decoded, *)
(* registry whether the registry of selectors answers, typed whether the   *)
(* returned bytes are what the caller expects.                             *)
(***************************************************************************)
Exits == {"ok", "Revert", "Halt"}

(* Mutant of Outcome: the wish to have reverts decoded decides, not the exit. *)
OutcomeDecoded(exit, decode, registry, typed) ==
  IF decode THEN IF registry THEN "AbiDecodedError" ELSE "AbiDecodeFailed"
  ELSE IF exit # "ok" THEN "Failed"
  ELSE IF typed THEN "ok" ELSE "TypedError"

Outcome(exit, decode, registry, typed) ==
  IF exit = "Revert" /\ decode THEN IF registry THEN "AbiDecodedError" ELSE "AbiDecodeFailed"
  ELSE IF exit # "ok" THEN "Failed"
  ELSE IF typed THEN "ok" ELSE "TypedError"

OutcomesOf(exit) == {Outcome(exit, decode, registry, typed) : decode, registry, typed \in BOOLEAN}
=============================================================================
