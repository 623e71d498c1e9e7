------------------------------ MODULE LocalEvm ------------------------------
(***************************************************************************)
(* The test fixture: an Anvil instance on which the contracts are created  *)
(* from an account, so that they are not where Rainlang says.  LocalEvm    *)
(* copies their code to the addresses that Rainlang names.  Every step is  *)
(* awaited and unwrapped: when one fails the fixture panics, and nobody    *)
(* gets to know the network.                                               *)
(***************************************************************************)
EXTENDS Contracts

VARIABLE fixture   (* For each local network: the steps done, and what they returned. *)

Each(op, parts) == [i \in DOMAIN parts |-> [op |-> op, part |-> parts[i]]]

(* The four contracts, in the order in which each kind of step takes them. *)
Copied == <<"parser", "store", "interpreter", "deployer">>
Created == <<"interpreter", "store", "parser", "deployer">>

Steps ==
  Each("deploy", <<"rainlang">>) \o Each("discover", Copied)
    \o Each("deploy", Created) \o Each("getCode", Copied) \o Each("setCode", Copied)

Ready(network) == network \in Local => fixture[network].done = Len(Steps)

FixtureInit ==
  fixture = [network \in Local |-> [done |-> 0, named |-> << >>, codes |-> << >>]]

AtStep(network, op) ==
  /\ ~Ready(network)
  /\ Steps[fixture[network].done + 1].op = op

ThePart(network) == Steps[fixture[network].done + 1].part

With(known, part, value) ==
  [p \in DOMAIN known \cup {part} |-> IF p = part THEN value ELSE known[p]]

Done(network, named, codes) ==
  fixture' = [fixture EXCEPT ![network] =
                [done |-> fixture[network].done + 1, named |-> named, codes |-> codes]]

DeployContract(network) ==
  LET part == ThePart(network) IN
    /\ AtStep(network, "deploy")
    /\ Mined(network, WithCode(Latest(network), Own(part), part))
    /\ Done(network, fixture[network].named, fixture[network].codes)
    /\ UNCHANGED script

(* Rainlang is asked for an address. *)
Discover(network) ==
  LET part == ThePart(network)
      reply == CallAt(Latest(network), Own("rainlang"), AddressOf(part))
  IN
    /\ AtStep(network, "discover")
    /\ reply.exit = "ok"
    /\ Done(network, With(fixture[network].named, part, reply.data.address),
            fixture[network].codes)
    /\ UNCHANGED <<chain, script>>

GetCode(network) ==
  LET part == ThePart(network) IN
    /\ AtStep(network, "getCode")
    /\ Done(network, fixture[network].named,
            With(fixture[network].codes, part, Latest(network).code[Own(part)]))
    /\ UNCHANGED <<chain, script>>

(* Mutant of CodeFor: the store and the interpreter are mixed up. *)
CodeForOther(network, part) ==
  fixture[network].codes[CASE part = "store"       -> "interpreter"
                           [] part = "interpreter" -> "store"
                           [] OTHER                -> part]

CodeFor(network, part) == fixture[network].codes[part]

(* anvil_set_code changes the state without a block. *)
SetCode(network) ==
  LET part == ThePart(network)
      amended == WithCode(Latest(network), fixture[network].named[part], CodeFor(network, part))
  IN
    /\ AtStep(network, "setCode")
    /\ chain' = [chain EXCEPT ![network][Len(chain[network])] = amended]
    /\ Done(network, fixture[network].named, fixture[network].codes)
    /\ UNCHANGED script

FixtureStep(network) ==
  DeployContract(network) \/ Discover(network) \/ GetCode(network) \/ SetCode(network)

-----------------------------------------------------------------------------
(* Whoever has a LocalEvm finds on it, through the address of its Rainlang, *)
(* all that a supported network has.                                        *)
FixtureServes ==
  \A network \in Local : Ready(network) =>
    LET block == Latest(network) IN
      /\ block.code[Own("rainlang")] = "rainlang"
      /\ \A part \in Names("rainlang") : block.code[Zoltu(part)] = part
=============================================================================
