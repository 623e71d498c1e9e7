------------------------------ MODULE MCForker ------------------------------
(***************************************************************************)
(* Two chains.  The first block after genesis of the first has two         *)
(* transactions to one account, and its third block a deployment; the      *)
(* second has a transaction in its genesis block, which no fork precedes.  *)
(***************************************************************************)
EXTENDS ForkerRefinement

CONSTANTS urlA, urlB, token

Tx(hash, kind, to) == [hash |-> hash, kind |-> kind, to |-> to]

MCChain ==
  [url \in Url |->
     IF url = urlA
     THEN << << >>, <<Tx("t1", "call", token), Tx("t2", "call", token)>>, <<Tx("t3", "create", token)>> >>
     ELSE << <<Tx("t0", "call", token)>> >>]

MCRequested == {ForkId(urlA, None), ForkId(urlA, 1), ForkId(urlB, None)}

(* Forks at given blocks only. *)
MCPinned == {ForkId(urlA, 1), ForkId(urlB, 0)}

MCRollTargets == {None, 2}

=============================================================================
