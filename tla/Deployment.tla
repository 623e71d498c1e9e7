----------------------------- MODULE Deployment -----------------------------
(***************************************************************************)
(* The five contracts on the networks where clients look for them.         *)
(*                                                                         *)
(* Deploy.sol puts one contract per run on every supported network, at the *)
(* address that its creation code determines.  The deployer and Rainlang   *)
(* hold the addresses of other contracts as constants, so that the order   *)
(* of the runs matters; the script leaves it to the list of dependencies   *)
(* that it gives to LibRainDeploy, which is external.  A run may stop half *)
(* way, and be repeated.                                                   *)
(*                                                                         *)
(* The log tables and the token decimals, contracts of other repositories, *)
(* are taken to be there.                                                  *)
(***************************************************************************)
EXTENDS Integers, Sequences

CONSTANTS
  Supported,  (* The networks of Deploy.sol.                               *)
  Local,      (* The test networks, that LocalEvm provides for.            *)
  MaxBlocks,  (* A bound on the blocks of a network.                       *)
  MaxHeld     (* A bound on the changes to a store.                        *)

ASSUME NetworkAssumption == Supported \cap Local = {}

VARIABLES
  chain,   (* For each network the state after each of its blocks.         *)
  script   (* The run of Deploy.sol under way, and the networks left to it. *)

Parts == {"parser", "store", "interpreter", "deployer", "rainlang"}
Nothing == "nothing"

(* The address that the Zoltu factory gives to a contract, the same on all *)
(* networks, and the one it gets from an account that creates it.          *)
Zoltu(part) == [from |-> "factory", part |-> part]
Own(part) == [from |-> "account", part |-> part]
Address == [from : {"factory", "account"}, part : Parts]

(* A block: the contract at each address, and what one key holds in the *)
(* store at the address.                                                *)
Block == [code : [Address -> Parts \cup {Nothing}], held : [Address -> Nat]]
Genesis == [code |-> [a \in Address |-> Nothing], held |-> [a \in Address |-> 0]]

Latest(network) == chain[network][Len(chain[network])]

WithCode(block, address, contract) ==
  [code |-> [block.code EXCEPT ![address] = contract], held |-> block.held]

WithHeld(block, address, value) ==
  [code |-> block.code, held |-> [block.held EXCEPT ![address] = value]]

Mined(network, block) ==
  /\ Len(chain[network]) < MaxBlocks
  /\ chain' = [chain EXCEPT ![network] = Append(chain[network], block)]

NoScript == [suite |-> Nothing, left |-> {}]

ChainInit ==
  /\ chain = [network \in Supported \cup Local |-> <<Genesis>>]
  /\ script = NoScript

-----------------------------------------------------------------------------
(* Mutant of Dependencies: only what a contract calls itself, or is asked first. *)
DependenciesShort(suite) ==
  CASE suite = "deployer" -> {"parser"}
    [] suite = "rainlang" -> {"deployer"}
    [] OTHER              -> {}

(* Mutant of Dependencies: the interpreter waits for Rainlang. *)
DependenciesCircular(suite) ==
  CASE suite = "interpreter" -> {"rainlang"}
    [] suite = "deployer"    -> {"parser", "store", "interpreter"}
    [] suite = "rainlang"    -> {"parser", "store", "interpreter", "deployer"}
    [] OTHER                 -> {}

Dependencies(suite) ==
  CASE suite = "deployer" -> {"parser", "store", "interpreter"}
    [] suite = "rainlang" -> {"parser", "store", "interpreter", "deployer"}
    [] OTHER              -> {}

Run(suite) ==
  /\ script.left = {}
  /\ Supported # {}
  /\ script' = [suite |-> suite, left |-> Supported]
  /\ UNCHANGED chain

(* External: on one of its networks deployAndBroadcast finds all that the *)
(* contract depends on, and deploys it unless it is there already.        *)
DependenciesThere(block) ==
  \A part \in Dependencies(script.suite) : block.code[Zoltu(part)] # Nothing

Broadcast(network) ==
  /\ network \in script.left
  /\ DependenciesThere(Latest(network))
  /\ IF Latest(network).code[Zoltu(script.suite)] = Nothing
     THEN Mined(network, WithCode(Latest(network), Zoltu(script.suite), script.suite))
     ELSE UNCHANGED chain
  /\ script' = [suite |-> script.suite, left |-> script.left \ {network}]

(* It reverts, or the connection is lost: the networks left stay without. *)
Stops ==
  /\ script.left # {}
  /\ script' = NoScript
  /\ UNCHANGED chain

(* Someone sets a key in a store. *)
Persist(network, address) ==
  LET block == Latest(network) IN
    /\ block.code[address] = "store"
    /\ block.held[address] < MaxHeld
    /\ Mined(network, WithHeld(block, address, block.held[address] + 1))
    /\ UNCHANGED script

ScriptStep ==
  \/ \E suite \in Parts : Run(suite)
  \/ \E network \in Supported : Broadcast(network)
  \/ Stops

ChainNext ==
  \/ ScriptStep
  \/ \E network \in Supported, address \in Address : Persist(network, address)

ChainSpec == ChainInit /\ [][ChainNext]_<<chain, script>>

-----------------------------------------------------------------------------
(* Properties. *)

(* The chains and the script have their types: every network has a block, and *)
(* the script is at supported networks only, never at a local one.            *)
ChainTypeOK ==
  /\ DOMAIN chain = Supported \cup Local
  /\ \A network \in Supported \cup Local :
       chain[network] \in Seq(Block) /\ chain[network] # << >>
  /\ script \in [suite : Parts \cup {Nothing}, left : SUBSET Supported]

(* The contracts that one calls, or tells its clients to call. *)
Names(part) ==
  CASE part = "deployer" -> {"parser"}
    [] part = "rainlang" -> {"deployer", "interpreter", "store", "parser"}
    [] OTHER             -> {}

WholeIn(block) ==
  \A part \in Parts : block.code[Zoltu(part)] # Nothing =>
    \A named \in Names(part) : block.code[Zoltu(named)] = named

(* At every block of every supported network each contract finds those that *)
(* it names under the addresses it has for them, whatever the order of the  *)
(* runs and wherever they stopped.                                          *)
NoneNamedInVain ==
  \A network \in Supported : \A i \in DOMAIN chain[network] : WholeIn(chain[network][i])

(* Someone repeats the run of each contract, and no run always stops. *)
Repeated ==
  /\ \A suite \in Parts : SF_<<chain, script>>(Run(suite))
  /\ \A suite \in Parts, network \in Supported :
       SF_<<chain, script>>(script.suite = suite /\ Broadcast(network))
  /\ WF_<<chain, script>>(Stops)

RepeatedSpec == ChainSpec /\ Repeated

Whole(block) == \A part \in Parts : block.code[Zoltu(part)] = part

(* The dependencies are not in each other's way: whoever repeats the run of *)
(* each contract gets all of them everywhere, in whatever order, though any *)
(* run may stop.                                                            *)
EventuallyWhole == <>[](\A network \in Supported : Whole(Latest(network)))
=============================================================================
