-------------------------- MODULE ForkerRefinement --------------------------
(***************************************************************************)
(* The Forker keeps what ForkViews promises.  The view of a record is the  *)
(* fork of the backend that the record names; the current view is that of  *)
(* the active fork.                                                        *)
(***************************************************************************)
EXTENDS Forker

View(id) ==
  LET fork == backend[forks[id].local + 1]
  IN  [origin |-> forks[id].block, block |-> fork.block, accounts |-> fork.accounts]

Views == IF lost = {} THEN [id \in DOMAIN forks |-> View(id)] ELSE << >>

Current == IF lost = {} /\ active # None
           THEN CHOOSE id \in DOMAIN forks : forks[id].local = active
           ELSE None

AllBlocks == [url \in Url |-> BlockNumbers(url)]

(* The first transactions of a block, or one of a user. *)
RunsOf(url) ==
  UNION {{SubSeq(txs, 1, k) : k \in 0 .. Len(txs)} : txs \in TxsIn(Chain[url])}

AllRuns ==
  {<<UserTx(a)>> : a \in Account} \cup
  UNION {RunsOf(url) : url \in Url}

Promised == INSTANCE ForkViews WITH
  Blocks  <- AllBlocks,
  Targets <- RollTargets,
  Runs    <- AllRuns,
  kept    <- lost = {},
  views   <- Views,
  current <- Current

(* So long as the backend creates every fork it is asked for, the map of    *)
(* records and the backend together are a separate, lasting view for each   *)
(* fork: selected again as it was left (fork.rs:179-228), written only while*)
(* it is current, rolled back to where it came from (fork.rs:386-423).      *)
ImplementsForkViews == Promised!Spec
=============================================================================
