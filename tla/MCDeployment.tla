---------------------------- MODULE MCDeployment ----------------------------
(***************************************************************************)
(* A supported network and a local one, that the script leaves alone.      *)
(***************************************************************************)
EXTENDS Deployment

CONSTANTS mainnet, anvil
=============================================================================
