------------------------------ MODULE ForkViews ------------------------------
(***************************************************************************)
(* What a Forker promises: a view of its own for each fork that was asked  *)
(* for, one of them current.  A view starts empty at a block of its chain. *)
(* Transactions run on the current view and are seen in no other; rolling  *)
(* puts the current view, empty again, at another block or back where it   *)
(* came from.  Asking for a fork again finds the view as it was left.      *)
(*                                                                         *)
(* The promise ends when the creation of a fork fails in the backend.      *)
(***************************************************************************)
EXTENDS Integers, Sequences

CONSTANTS
  Account,  (* Accounts, under the same address on all chains.             *)
  Url,      (* Chains.                                                     *)
  Blocks,   (* For each chain its block numbers.                           *)
  None,     (* The block of an id that asks for the latest; no id.         *)
  Targets,  (* Where views are rolled to: block numbers, None for back.    *)
  Runs      (* The sequences of transactions that may run together.        *)

VARIABLES
  kept,     (* Does the promise hold still?                                *)
  views,    (* Fork id |-> [origin, block, accounts].                      *)
  current   (* The id of the current view, or None.                        *)

Empty(id, number) == [a \in Account |-> [url |-> id.url, block |-> number, txs |-> << >>]]

Init == kept = TRUE /\ views = << >> /\ current = None

(* A fork is asked for, of one block or of the latest, which may have moved *)
(* on from origin when the view is opened.                                  *)
Open(id, origin, number) ==
  /\ id \notin DOMAIN views
  /\ IF id.block = None THEN origin <= number ELSE origin = number
  /\ current' \in {id, current}
  /\ views' = [known \in DOMAIN views \cup {id} |->
                 IF known = id
                 THEN [origin |-> origin, block |-> number, accounts |-> Empty(id, number)]
                 ELSE views[known]]

(* A view that is there is found as it was left. *)
Select(id) ==
  /\ current' = id
  /\ UNCHANGED views

After(accounts, txs) == [a \in Account |-> [accounts[a] EXCEPT !.txs = @ \o txs]]

(* Some transactions run on the current view. *)
Run(txs) ==
  /\ views' = [views EXCEPT ![current].accounts = After(@, txs)]
  /\ UNCHANGED current

(* The current view goes back to its origin, or to the block asked for. *)
Roll(asked) ==
  LET number == IF asked = None THEN views[current].origin ELSE asked IN
    /\ views' = [views EXCEPT ![current] =
                   [origin |-> @.origin, block |-> number, accounts |-> Empty(current, number)]]
    /\ UNCHANGED current

(* The backend has failed to create a fork. *)
Forget ==
  /\ kept' = FALSE
  /\ views' = << >>
  /\ current' = None

Next ==
  /\ kept = TRUE
  /\ \/ /\ UNCHANGED kept
        /\ \/ \E url \in Url : \E origin, number \in Blocks[url] :
                \E asked \in {None, number} : Open([url |-> url, block |-> asked], origin, number)
           \/ \E id \in DOMAIN views : Select(id)
           \/ /\ current # None
              /\ \/ \E txs \in Runs : Run(txs)
                 \/ \E asked \in Targets : Roll(asked)
     \/ Forget

Spec == Init /\ [][Next]_<<kept, views, current>>
=============================================================================
