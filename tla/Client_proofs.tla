---------------------------- MODULE Client_proofs ----------------------------
(***************************************************************************)
(* For every set of networks: no contract on a supported network ever      *)
(* names one that is not there; a test network has, once its fixture is    *)
(* built, what a supported one has; and for every set of invocations what  *)
(* a command answers is what its text gives at one block.                  *)
(*                                                                         *)
(* That the contracts named by the deployer and Rainlang are there is not  *)
(* inductive: the script only looks whether there is code at an address.   *)
(* The invariant of the deployment says besides that the factory's address *)
(* for a contract never holds another (Placed), and that the script has a  *)
(* contract to deploy while networks are left (HasSuite); a step only      *)
(* appends a block that has all that the latest one had.                   *)
(*                                                                         *)
(* The fixture's invariant is what each of its steps has left behind       *)
(* (Left), the client's what its process knows of the block it forked      *)
(* (Underway).  That the rest of the world goes on does not disturb it:    *)
(* the blocks of a network that a command may use stay as they are         *)
(* (BlocksStay).                                                           *)
(***************************************************************************)
EXTENDS Client, SequenceTheorems, TLAPS

Placed(block) == \A part \in Parts : block.code[Zoltu(part)] \in {part, Nothing}

Good(block) == WholeIn(block) /\ Placed(block)

AllGood == \A network \in Supported : \A i \in DOMAIN chain[network] : Good(chain[network][i])

(* While networks are left to the script it has a contract for them. *)
HasSuite == script.left # {} => script.suite \in Parts

Inv == ChainTypeOK /\ HasSuite /\ AllGood

-----------------------------------------------------------------------------
(* Addresses tell the contracts apart. *)
LEMMA ZoltuFacts ==
  /\ \A part \in Parts : Zoltu(part) \in Address /\ Own(part) \in Address
  /\ \A p, q \in Parts : Zoltu(p) = Zoltu(q) => p = q
  /\ Nothing \notin Parts
BY DEF Zoltu, Own, Address, Parts, Nothing

(* A block with one more contract is a block. *)
LEMMA WithCodeType ==
  ASSUME NEW block \in Block, NEW part \in Parts
  PROVE  WithCode(block, Zoltu(part), part) \in Block
BY ZoltuFacts DEF WithCode, Block

(* So is one with another value in a store. *)
LEMMA WithHeldType ==
  ASSUME NEW block \in Block, NEW address \in Address, NEW value \in Nat
  PROVE  WithHeld(block, address, value) \in Block
BY DEF WithHeld, Block

(* What a contract depends on covers what it names. *)
LEMMA DependenciesCover ==
  ASSUME NEW part \in Parts
  PROVE  Names(part) \subseteq Dependencies(part) /\ Dependencies(part) \subseteq Parts \ {part}
BY DEF Names, Dependencies, Parts

(* To put a contract where there is none, with its dependencies there, *)
(* leaves a good block good.                                           *)
LEMMA DeployedGood ==
  ASSUME NEW block \in Block, NEW suite \in Parts, Good(block),
         \A part \in Dependencies(suite) : block.code[Zoltu(part)] # Nothing
  PROVE  Good(WithCode(block, Zoltu(suite), suite))
<1> DEFINE after == WithCode(block, Zoltu(suite), suite)
<1>1. \A part \in Parts :
        after.code[Zoltu(part)] = IF part = suite THEN suite ELSE block.code[Zoltu(part)]
  BY ZoltuFacts DEF WithCode, Block
<1>2. \A part \in Parts : Names(part) \subseteq Parts
  BY DependenciesCover
<1> HIDE DEF after
<1>3. Placed(after)
  BY <1>1 DEF Placed, Good
<1>4. ASSUME NEW part \in Parts, after.code[Zoltu(part)] # Nothing, NEW named \in Names(part)
      PROVE  after.code[Zoltu(named)] = named
  <2>1. CASE part = suite
    <3>1. named \in Parts /\ block.code[Zoltu(named)] # Nothing
      BY <2>1, <1>2, DependenciesCover
    <3>2. block.code[Zoltu(named)] = named
      BY <3>1 DEF Good, Placed
    <3>3. QED BY <3>1, <3>2, <1>1
  <2>2. CASE part # suite
    <3>1. block.code[Zoltu(part)] # Nothing
      BY <2>2, <1>1, <1>4
    <3>2. named \in Parts /\ block.code[Zoltu(named)] = named
      BY <3>1, <1>2 DEF Good, WholeIn
    <3>3. QED BY <3>2, <1>1
  <2>3. QED BY <2>1, <2>2
<1>5. WholeIn(after)
  BY <1>4 DEF WholeIn
<1>6. QED BY <1>3, <1>5 DEF Good, after

(* A write to a store moves no contract. *)
LEMMA HeldGood ==
  ASSUME NEW block, NEW address, NEW value, Good(block)
  PROVE  Good(WithHeld(block, address, value))
BY DEF Good, WholeIn, Placed, WithHeld

(* A new block on one network. *)
LEMMA MinedGood ==
  ASSUME Inv, NEW network \in Supported, NEW block \in Block, Mined(network, block), Good(block)
  PROVE  /\ DOMAIN chain' = Supported \cup Local
         /\ \A n \in Supported \cup Local : chain'[n] \in Seq(Block) /\ chain'[n] # << >>
         /\ AllGood'
<1>1. DOMAIN chain = Supported \cup Local
      /\ \A n \in Supported \cup Local : chain[n] \in Seq(Block) /\ chain[n] # << >>
  BY DEF Inv, ChainTypeOK
<1>2. chain' = [chain EXCEPT ![network] = Append(chain[network], block)]
  BY DEF Mined
<1>3. DOMAIN chain' = Supported \cup Local
  BY <1>1, <1>2
<1>4. \A n \in Supported \cup Local :
        chain'[n] = IF n = network THEN Append(chain[network], block) ELSE chain[n]
  BY <1>1, <1>2
<1>5. ASSUME NEW s \in Seq(Block) PROVE Append(s, block) \in Seq(Block) /\ Append(s, block) # << >>
  BY AppendProperties, <1>5
<1>6. \A n \in Supported \cup Local : chain'[n] \in Seq(Block) /\ chain'[n] # << >>
  BY <1>1, <1>4, <1>5
<1>7. ASSUME NEW n \in Supported, NEW i \in DOMAIN chain'[n] PROVE Good(chain'[n][i])
  <2>1. CASE n = network
    <3>1. chain[network] \in Seq(Block) /\ chain'[n] = Append(chain[network], block)
      BY <1>1, <1>4, <2>1
    <3>2. i \in 1 .. Len(chain[network]) + 1
      BY <3>1, <1>7
    <3>3. CASE i = Len(chain[network]) + 1
      BY <3>1, <3>3
    <3>4. CASE i # Len(chain[network]) + 1
      <4>1. i \in DOMAIN chain[network] /\ chain'[n][i] = chain[network][i]
        BY <3>1, <3>2, <3>4
      <4>2. QED BY <4>1 DEF Inv, AllGood
    <3>5. QED BY <3>3, <3>4
  <2>2. CASE n # network
    BY <2>2, <1>4, <1>7 DEF Inv, AllGood
  <2>3. QED BY <2>1, <2>2
<1>8. QED BY <1>3, <1>6, <1>7 DEF AllGood

(* What holds of all blocks of a network holds of its latest. *)
LEMMA LatestFacts ==
  ASSUME Inv, NEW network \in Supported
  PROVE  Latest(network) \in Block /\ Good(Latest(network))
<1>1. chain[network] \in Seq(Block) /\ chain[network] # << >>
  BY DEF Inv, ChainTypeOK
<1>2. Len(chain[network]) \in DOMAIN chain[network]
  BY <1>1
<1>3. QED BY <1>1, <1>2 DEF Latest, Inv, AllGood

-----------------------------------------------------------------------------
(* Inv holds of networks on which there is nothing. *)
LEMMA InitInv == ChainInit => Inv
<1> SUFFICES ASSUME ChainInit PROVE Inv
  OBVIOUS
<1>1. Genesis \in Block
  BY DEF Genesis, Block
<1>2. ChainTypeOK
  BY <1>1 DEF ChainInit, ChainTypeOK, NoScript, Nothing
<1>3. Good(Genesis)
  BY ZoltuFacts DEF Genesis, Good, WholeIn, Placed
<1>4. AllGood
  BY <1>3 DEF ChainInit, AllGood
<1>5. QED BY <1>2, <1>4 DEF Inv, HasSuite, ChainInit, NoScript

(* Every step of the script, and of the users of a store, keeps Inv. *)
LEMMA NextInv == Inv /\ [ChainNext]_<<chain, script>> => Inv'
<1> SUFFICES ASSUME Inv, [ChainNext]_<<chain, script>> PROVE Inv'
  OBVIOUS
<1> USE DEF Inv
<1>1. CASE UNCHANGED <<chain, script>>
  BY <1>1 DEF ChainTypeOK, HasSuite, AllGood
<1>2. ASSUME NEW suite \in Parts, Run(suite) PROVE Inv'
  BY <1>2 DEF Run, ChainTypeOK, HasSuite, AllGood
<1>3. ASSUME NEW network \in Supported, Broadcast(network) PROVE Inv'
  <2>1. script' \in [suite : Parts \cup {Nothing}, left : SUBSET Supported]
    BY <1>3 DEF Broadcast, ChainTypeOK
  <2>2. HasSuite'
    BY <1>3 DEF Broadcast, HasSuite
  <2>3. CASE UNCHANGED chain
    BY <2>1, <2>2, <2>3 DEF ChainTypeOK, AllGood
  <2>4. CASE Mined(network, WithCode(Latest(network), Zoltu(script.suite), script.suite))
    <3>1. script.suite \in Parts
      BY <1>3 DEF HasSuite, Broadcast
    <3>2. Latest(network) \in Block /\ Good(Latest(network))
      BY LatestFacts
    <3>3. Good(WithCode(Latest(network), Zoltu(script.suite), script.suite))
      BY <3>1, <3>2, <1>3, DeployedGood DEF Broadcast, DependenciesThere
    <3>4. WithCode(Latest(network), Zoltu(script.suite), script.suite) \in Block
      BY <3>1, <3>2, WithCodeType
    <3>5. QED BY <3>3, <3>4, <2>1, <2>2, <2>4, MinedGood DEF ChainTypeOK
  <2>5. QED BY <1>3, <2>3, <2>4 DEF Broadcast
<1>4. CASE Stops
  BY <1>4 DEF Stops, NoScript, HasSuite, ChainTypeOK, AllGood
<1>5. ASSUME NEW network \in Supported, NEW address \in Address, Persist(network, address)
      PROVE  Inv'
  <2> DEFINE value == Latest(network).held[address] + 1
  <2>1. Latest(network) \in Block /\ Good(Latest(network))
    BY LatestFacts
  <2>2. value \in Nat
    BY <2>1 DEF Block
  <2>3. WithHeld(Latest(network), address, value) \in Block
    BY <2>1, <2>2, WithHeldType
  <2>4. Good(WithHeld(Latest(network), address, value))
    BY <2>1, HeldGood
  <2>5. Mined(network, WithHeld(Latest(network), address, value)) /\ UNCHANGED script
    BY <1>5 DEF Persist
  <2> HIDE DEF value
  <2>6. QED BY <2>3, <2>4, <2>5, MinedGood DEF ChainTypeOK, HasSuite
<1>6. QED BY <1>1, <1>2, <1>3, <1>4, <1>5 DEF ChainNext, ScriptStep

(* The invariant holds always. *)
THEOREM DeploymentInvariance == ChainSpec => []Inv
BY InitInv, NextInv, PTL DEF ChainSpec

(* Every variable of the deployment has its type. *)
THEOREM DeploymentTypeOK == ChainSpec => []ChainTypeOK
<1>1. Inv => ChainTypeOK
  BY DEF Inv
<1>2. QED BY <1>1, DeploymentInvariance, PTL

(* On any number of networks, in whatever order Deploy.sol is run for the *)
(* contracts and wherever a run stops, no contract is deployed before     *)
(* those it names: a client that finds Rainlang finds the rest.           *)
THEOREM DeploymentWhole == ChainSpec => []NoneNamedInVain
<1>1. Inv => NoneNamedInVain
  BY DEF Inv, AllGood, Good, NoneNamedInVain
<1>2. QED BY <1>1, DeploymentInvariance, PTL

-----------------------------------------------------------------------------
(* All networks, with the rest of the world. *)

(* An address is for one contract, and has it or nothing. *)
PlacedAll(block) == \A a \in Address : block.code[a] \in {a.part, Nothing}

(* No address with a contract loses it. *)
Covers(before, after) ==
  \A a \in Address : before.code[a] # Nothing => after.code[a] # Nothing

AllNetworks == Supported \cup Local

AllPlaced ==
  \A network \in AllNetworks : \A i \in DOMAIN chain[network] : PlacedAll(chain[network][i])

Lasting ==
  \A network \in AllNetworks : \A i \in DOMAIN chain[network] :
    Covers(chain[network][i], Latest(network))

(* What a step of the fixture leaves behind. *)
LeftBy(network, step) ==
  LET known == fixture[network]
      block == Latest(network)
      part == step.part
  IN
    /\ step.op = "deploy" => block.code[Own(part)] = part
    /\ step.op = "discover" => part \in DOMAIN known.named /\ known.named[part] = Zoltu(part)
    /\ step.op = "getCode" => part \in DOMAIN known.codes /\ known.codes[part] = part
    /\ step.op = "setCode" => block.code[Zoltu(part)] = part

Left(network) ==
  /\ fixture[network] = [done  |-> fixture[network].done, named |-> fixture[network].named,
                         codes |-> fixture[network].codes]
  /\ fixture[network].done \in 0 .. Len(Steps)
  /\ \A i \in 1 .. fixture[network].done : LeftBy(network, Steps[i])

FixtureInv == DOMAIN fixture = Local /\ \A network \in Local : Left(network)

World == Inv /\ AllPlaced /\ Lasting /\ FixtureInv

-----------------------------------------------------------------------------
(* Every address is the factory's or the account's for its contract. *)
LEMMA AddressFacts ==
  /\ \A a \in Address : a.part \in Parts /\ a.part # Nothing
  /\ \A p \in Parts : Zoltu(p).part = p /\ Own(p).part = p
  /\ \A p, q \in Parts : Own(p) # Zoltu(q) /\ (Own(p) = Own(q) => p = q)
BY DEF Zoltu, Own, Address, Parts, Nothing

(* To put at an address the contract that it is for. *)
LEMMA PutFacts ==
  ASSUME NEW block \in Block, PlacedAll(block), NEW address \in Address, NEW part,
         part = address.part
  PROVE  LET after == WithCode(block, address, part) IN
           /\ after \in Block /\ PlacedAll(after) /\ Covers(block, after)
           /\ after.code[address] = part
           /\ \A a \in Address : block.code[a] = a.part => after.code[a] = a.part
<1> DEFINE after == WithCode(block, address, part)
<1>1. part \in Parts /\ part # Nothing
  BY AddressFacts
<1>2. after = [code |-> [block.code EXCEPT ![address] = part], held |-> block.held]
  BY DEF WithCode
<1>3. block.code \in [Address -> Parts \cup {Nothing}] /\ block.held \in [Address -> Nat]
  BY DEF Block
<1>4. after.code \in [Address -> Parts \cup {Nothing}] /\ after.held = block.held
  BY <1>1, <1>2, <1>3
<1>5. after \in Block
  BY <1>2, <1>3, <1>4 DEF Block
<1>6. \A a \in Address : after.code[a] = IF a = address THEN part ELSE block.code[a]
  BY <1>2, <1>3
<1> HIDE DEF after
<1>7. PlacedAll(after)
  BY <1>6 DEF PlacedAll
<1>8. Covers(block, after)
  BY <1>1, <1>6 DEF Covers
<1>9. \A a \in Address : block.code[a] = a.part => after.code[a] = a.part
  BY <1>6
<1> QED BY <1>5, <1>6, <1>7, <1>8, <1>9 DEF after

(* To write to a store. *)
LEMMA HeldFacts ==
  ASSUME NEW block \in Block, PlacedAll(block), NEW address \in Address, NEW value \in Nat
  PROVE  LET after == WithHeld(block, address, value) IN
           /\ after \in Block /\ PlacedAll(after) /\ Covers(block, after)
           /\ after.code = block.code
<1>1. WithHeld(block, address, value).code = block.code
  BY DEF WithHeld
<1>2. WithHeld(block, address, value) \in Block
  BY WithHeldType
<1> QED BY <1>1, <1>2 DEF PlacedAll, Covers

ChainsTyped ==
  /\ DOMAIN chain = AllNetworks
  /\ \A network \in AllNetworks : chain[network] \in Seq(Block) /\ chain[network] # << >>

LEMMA LatestOf ==
  ASSUME ChainsTyped, NEW network \in AllNetworks
  PROVE  /\ Len(chain[network]) \in Nat \ {0} /\ Len(chain[network]) \in DOMAIN chain[network]
         /\ DOMAIN chain[network] = 1 .. Len(chain[network])
         /\ Latest(network) = chain[network][Len(chain[network])]
         /\ Latest(network) \in Block
         /\ AllPlaced => PlacedAll(Latest(network))
<1>1. chain[network] \in Seq(Block) /\ chain[network] # << >>
  BY DEF ChainsTyped
<1>2. Len(chain[network]) \in DOMAIN chain[network] /\ Len(chain[network]) \in Nat \ {0}
      /\ DOMAIN chain[network] = 1 .. Len(chain[network])
  BY <1>1
<1> QED BY <1>1, <1>2 DEF Latest, AllPlaced

(* A step of one network that adds a block. *)
Grown(network, block) == chain' = [chain EXCEPT ![network] = Append(chain[network], block)]

(* One that changes its latest block. *)
Amended(network, block) == chain' = [chain EXCEPT ![network][Len(chain[network])] = block]

LEMMA GrownFacts ==
  ASSUME ChainsTyped, NEW network \in AllNetworks, NEW block \in Block, Grown(network, block)
  PROVE  /\ ChainsTyped'
         /\ \A n \in AllNetworks \ {network} : chain'[n] = chain[n] /\ Latest(n)' = Latest(n)
         /\ chain'[network] = Append(chain[network], block)
         /\ Len(chain'[network]) = Len(chain[network]) + 1
         /\ \A i \in DOMAIN chain[network] : chain'[network][i] = chain[network][i]
         /\ chain'[network][Len(chain[network]) + 1] = block
         /\ Latest(network)' = block
<1> DEFINE old == chain[network]
<1>1. old \in Seq(Block) /\ old # << >> /\ DOMAIN chain = AllNetworks
  BY DEF ChainsTyped
<1>2. DOMAIN chain' = AllNetworks /\ chain'[network] = Append(old, block)
      /\ \A n \in AllNetworks \ {network} : chain'[n] = chain[n]
  BY <1>1 DEF Grown
<1>3. /\ Append(old, block) \in Seq(Block) /\ Append(old, block) # << >>
      /\ Len(Append(old, block)) = Len(old) + 1
      /\ \A i \in DOMAIN old : Append(old, block)[i] = old[i]
      /\ Append(old, block)[Len(old) + 1] = block
  <2> HIDE DEF old
  <2> QED BY <1>1, AppendProperties
<1>4. ChainsTyped'
  BY <1>2, <1>3 DEF ChainsTyped
<1>5. Latest(network)' = block
  BY <1>2, <1>3 DEF Latest
<1>6. \A n \in AllNetworks \ {network} : Latest(n)' = Latest(n)
  BY <1>2 DEF Latest
<1> QED BY <1>2, <1>3, <1>4, <1>5, <1>6

LEMMA AmendedFacts ==
  ASSUME ChainsTyped, NEW network \in AllNetworks, NEW block \in Block, Amended(network, block)
  PROVE  /\ ChainsTyped'
         /\ \A n \in AllNetworks \ {network} : chain'[n] = chain[n] /\ Latest(n)' = Latest(n)
         /\ Len(chain'[network]) = Len(chain[network])
         /\ \A i \in DOMAIN chain[network] :
              chain'[network][i] = IF i = Len(chain[network]) THEN block ELSE chain[network][i]
         /\ Latest(network)' = block
<1> DEFINE old == chain[network]
           new == [old EXCEPT ![Len(old)] = block]
<1>1. old \in Seq(Block) /\ old # << >> /\ DOMAIN chain = AllNetworks
  BY DEF ChainsTyped
<1>2. DOMAIN chain' = AllNetworks /\ chain'[network] = new
      /\ \A n \in AllNetworks \ {network} : chain'[n] = chain[n]
  BY <1>1 DEF Amended
<1>3. /\ new \in Seq(Block) /\ new # << >> /\ Len(new) = Len(old)
      /\ \A i \in DOMAIN old : new[i] = IF i = Len(old) THEN block ELSE old[i]
      /\ Len(old) \in DOMAIN old
  <2>1. Len(old) \in 1 .. Len(old) /\ Len(old) \in Nat /\ DOMAIN old = 1 .. Len(old)
    BY <1>1
  <2>2. \A i \in DOMAIN old : new[i] = IF i = Len(old) THEN block ELSE old[i]
    BY <1>1, <2>1
  <2>3. new \in Seq(Block) /\ Len(new) = Len(old)
    <3> HIDE DEF old
    <3> QED BY <1>1, <2>1, ExceptSeq
  <2> QED BY <1>1, <2>1, <2>2, <2>3
<1>4. ChainsTyped'
  BY <1>2, <1>3 DEF ChainsTyped
<1>5. Latest(network)' = block
  BY <1>2, <1>3 DEF Latest
<1>6. \A n \in AllNetworks \ {network} : Latest(n)' = Latest(n)
  BY <1>2 DEF Latest
<1> QED BY <1>2, <1>3, <1>4, <1>5, <1>6

(* Both keep contracts in their places. *)
LEMMA GrownPlaced ==
  ASSUME ChainsTyped, AllPlaced, Lasting, NEW network \in AllNetworks, NEW block \in Block,
         Grown(network, block), PlacedAll(block), Covers(Latest(network), block)
  PROVE  (AllPlaced /\ Lasting)'
<1>1. ASSUME NEW n \in AllNetworks, NEW i \in DOMAIN chain'[n]
      PROVE  PlacedAll(chain'[n][i]) /\ Covers(chain'[n][i], Latest(n)')
  <2>1. CASE n # network
    BY <1>1, <2>1, GrownFacts DEF AllPlaced, Lasting
  <2>2. CASE n = network /\ i \in DOMAIN chain[network]
    <3>1. chain'[n][i] = chain[network][i] /\ Latest(n)' = block
      BY <2>2, GrownFacts
    <3>2. PlacedAll(chain[network][i]) /\ Covers(chain[network][i], Latest(network))
      BY <2>2 DEF AllPlaced, Lasting
    <3> QED BY <3>1, <3>2 DEF Covers
  <2>3. CASE n = network /\ i \notin DOMAIN chain[network]
    <3>1. Len(chain[network]) \in Nat /\ DOMAIN chain[network] = 1 .. Len(chain[network])
      BY LatestOf
    <3>2. DOMAIN chain'[n] = 1 .. Len(chain'[n]) /\ Len(chain'[n]) = Len(chain[network]) + 1
      BY <2>3, GrownFacts DEF ChainsTyped
    <3>3. i = Len(chain[network]) + 1
      BY <1>1, <2>3, <3>1, <3>2
    <3>4. chain'[n][i] = block /\ Latest(n)' = block
      BY <2>3, <3>3, GrownFacts
    <3> QED BY <3>4 DEF Covers
  <2> QED BY <2>1, <2>2, <2>3
<1> QED BY <1>1 DEF AllPlaced, Lasting

LEMMA AmendedPlaced ==
  ASSUME ChainsTyped, AllPlaced, Lasting, NEW network \in AllNetworks, NEW block \in Block,
         Amended(network, block), PlacedAll(block), Covers(Latest(network), block)
  PROVE  (AllPlaced /\ Lasting)'
<1>1. ASSUME NEW n \in AllNetworks, NEW i \in DOMAIN chain'[n]
      PROVE  PlacedAll(chain'[n][i]) /\ Covers(chain'[n][i], Latest(n)')
  <2>1. CASE n # network
    BY <1>1, <2>1, AmendedFacts DEF AllPlaced, Lasting
  <2>2. CASE n = network
    <3>1. i \in DOMAIN chain[network]
      BY <1>1, <2>2, LatestOf, AmendedFacts DEF ChainsTyped
    <3>2. PlacedAll(chain[network][i]) /\ Covers(chain[network][i], Latest(network))
      BY <3>1 DEF AllPlaced, Lasting
    <3>3. chain'[n][i] \in {chain[network][i], block} /\ Latest(n)' = block
      BY <2>2, <3>1, AmendedFacts
    <3> QED BY <3>2, <3>3 DEF Covers
  <2> QED BY <2>1, <2>2
<1> QED BY <1>1 DEF AllPlaced, Lasting

-----------------------------------------------------------------------------
(* The fixture. *)

Step(op, part) == [op |-> op, part |-> part]

(* What a step takes has been left by steps before it. *)
LEMMA StepsFacts ==
  /\ Len(Steps) = 17
  /\ Steps[1] = Step("deploy", "rainlang")
  /\ \A i \in 1 .. 17 :
       /\ Steps[i].part \in Parts
       /\ Steps[i].op \in {"deploy", "discover", "getCode", "setCode"}
       /\ Steps[i].op # "deploy" => i > 1
       /\ Steps[i].op = "getCode" =>
            \E j \in 1 .. (i - 1) : Steps[j] = Step("deploy", Steps[i].part)
       /\ Steps[i].op = "setCode" =>
            /\ \E j \in 1 .. (i - 1) : Steps[j] = Step("discover", Steps[i].part)
            /\ \E j \in 1 .. (i - 1) : Steps[j] = Step("getCode", Steps[i].part)
  /\ \A part \in Names("rainlang") : \E i \in 1 .. 17 : Steps[i] = Step("setCode", part)
<1> DEFINE Ops == {"deploy", "discover", "getCode", "setCode"}
           S == [op : Ops, part : Parts]
           a == Each("deploy", <<"rainlang">>)
           b == Each("discover", Copied)
           c == Each("deploy", Created)
           d == Each("getCode", Copied)
           e == Each("setCode", Copied)
           ab == a \o b
           abc == ab \o c
           abcd == abc \o d
<1>1. a \in Seq(S) /\ b \in Seq(S) /\ c \in Seq(S) /\ d \in Seq(S) /\ e \in Seq(S)
  <2>1. ASSUME NEW op \in Ops, NEW parts \in Seq(Parts) PROVE Each(op, parts) \in Seq(S)
    <3> DEFINE f == Each(op, parts)
    <3>1. DOMAIN parts = 1 .. Len(parts) /\ Len(parts) \in Nat
      OBVIOUS
    <3>2. f \in [1 .. Len(parts) -> S]
      BY <3>1 DEF Each
    <3> HIDE DEF f, S
    <3> QED BY <3>1, <3>2 DEF f
  <2>2. Copied \in Seq(Parts) /\ Created \in Seq(Parts) /\ <<"rainlang">> \in Seq(Parts)
    BY DEF Copied, Created, Parts
  <2> QED BY <2>1, <2>2
<1>2. /\ Len(a) = 1 /\ a[1] = Step("deploy", "rainlang")
      /\ Len(b) = 4
      /\ b[1] = Step("discover", "parser") /\ b[2] = Step("discover", "store")
      /\ b[3] = Step("discover", "interpreter") /\ b[4] = Step("discover", "deployer")
      /\ Len(c) = 4
      /\ c[1] = Step("deploy", "interpreter") /\ c[2] = Step("deploy", "store")
      /\ c[3] = Step("deploy", "parser") /\ c[4] = Step("deploy", "deployer")
      /\ Len(d) = 4
      /\ d[1] = Step("getCode", "parser") /\ d[2] = Step("getCode", "store")
      /\ d[3] = Step("getCode", "interpreter") /\ d[4] = Step("getCode", "deployer")
      /\ Len(e) = 4
      /\ e[1] = Step("setCode", "parser") /\ e[2] = Step("setCode", "store")
      /\ e[3] = Step("setCode", "interpreter") /\ e[4] = Step("setCode", "deployer")
  BY DEF Each, Step, Copied, Created
<1>3. Steps = abcd \o e
  BY DEF Steps
<1> HIDE DEF a, b, c, d, e, S, ab, abc, abcd
<1>4. ab \in Seq(S) /\ abc \in Seq(S) /\ abcd \in Seq(S)
  <2>1. ab \in Seq(S)
    BY <1>1, ConcatProperties DEF ab
  <2>2. abc \in Seq(S)
    BY <1>1, <2>1, ConcatProperties DEF abc
  <2>3. abcd \in Seq(S)
    BY <1>1, <2>2, ConcatProperties DEF abcd
  <2> QED BY <2>1, <2>2, <2>3
<1>5. /\ Len(ab) = Len(a) + Len(b)
      /\ \A i \in 1 .. Len(a) + Len(b) : ab[i] = IF i <= Len(a) THEN a[i] ELSE b[i - Len(a)]
  BY <1>1, ConcatProperties DEF ab
<1>6. /\ Len(abc) = Len(ab) + Len(c)
      /\ \A i \in 1 .. Len(ab) + Len(c) : abc[i] = IF i <= Len(ab) THEN ab[i] ELSE c[i - Len(ab)]
  BY <1>1, <1>4, ConcatProperties DEF abc
<1>7. /\ /\ Len(abcd) = Len(abc) + Len(d)
         /\ \A i \in 1 .. Len(abc) + Len(d) :
              abcd[i] = IF i <= Len(abc) THEN abc[i] ELSE d[i - Len(abc)]
      /\ /\ Len(Steps) = Len(abcd) + Len(e)
         /\ \A i \in 1 .. Len(abcd) + Len(e) :
              Steps[i] = IF i <= Len(abcd) THEN abcd[i] ELSE e[i - Len(abcd)]
  <2>1. /\ Len(abcd) = Len(abc) + Len(d)
        /\ \A i \in 1 .. Len(abc) + Len(d) :
             abcd[i] = IF i <= Len(abc) THEN abc[i] ELSE d[i - Len(abc)]
    BY <1>1, <1>4, ConcatProperties DEF abcd
  <2>2. /\ Len(Steps) = Len(abcd) + Len(e)
        /\ \A i \in 1 .. Len(abcd) + Len(e) :
             Steps[i] = IF i <= Len(abcd) THEN abcd[i] ELSE e[i - Len(abcd)]
    BY <1>1, <1>3, <1>4, ConcatProperties
  <2> QED BY <2>1, <2>2
<1>8. /\ Len(Steps) = 17
      /\ Steps[1] = Step("deploy", "rainlang")
      /\ Steps[2] = Step("discover", "parser") /\ Steps[3] = Step("discover", "store")
      /\ Steps[4] = Step("discover", "interpreter") /\ Steps[5] = Step("discover", "deployer")
      /\ Steps[6] = Step("deploy", "interpreter") /\ Steps[7] = Step("deploy", "store")
      /\ Steps[8] = Step("deploy", "parser") /\ Steps[9] = Step("deploy", "deployer")
      /\ Steps[10] = Step("getCode", "parser") /\ Steps[11] = Step("getCode", "store")
      /\ Steps[12] = Step("getCode", "interpreter") /\ Steps[13] = Step("getCode", "deployer")
      /\ Steps[14] = Step("setCode", "parser") /\ Steps[15] = Step("setCode", "store")
      /\ Steps[16] = Step("setCode", "interpreter") /\ Steps[17] = Step("setCode", "deployer")
  <2>1. /\ Len(ab) = 5 /\ ab[1] = a[1]
        /\ ab[2] = b[1] /\ ab[3] = b[2] /\ ab[4] = b[3] /\ ab[5] = b[4]
    BY <1>2, <1>5
  <2>2. /\ Len(abc) = 9 /\ \A i \in 1 .. 5 : abc[i] = ab[i]
        /\ abc[6] = c[1] /\ abc[7] = c[2] /\ abc[8] = c[3] /\ abc[9] = c[4]
    BY <1>2, <1>6, <2>1
  <2>3. /\ Len(abcd) = 13 /\ \A i \in 1 .. 9 : abcd[i] = abc[i]
        /\ abcd[10] = d[1] /\ abcd[11] = d[2] /\ abcd[12] = d[3] /\ abcd[13] = d[4]
    BY <1>2, <1>7, <2>2
  <2>4. /\ Len(Steps) = 17 /\ \A i \in 1 .. 13 : Steps[i] = abcd[i]
        /\ Steps[14] = e[1] /\ Steps[15] = e[2] /\ Steps[16] = e[3] /\ Steps[17] = e[4]
    <3>1. Len(abcd) = 13 /\ Len(e) = 4
      BY <1>2, <2>3
    <3>2. /\ Len(Steps) = Len(abcd) + Len(e)
          /\ \A i \in 1 .. Len(abcd) + Len(e) :
               Steps[i] = IF i <= Len(abcd) THEN abcd[i] ELSE e[i - Len(abcd)]
      BY <1>7, Zenon
    <3> QED BY <3>1, <3>2
  <2> QED BY <1>2, <2>1, <2>2, <2>3, <2>4
<1>9. \A op, p : Step(op, p).op = op /\ Step(op, p).part = p
  BY DEF Step
<1>10. \A i \in 1 .. 17 : \/ i = 1 \/ i = 2 \/ i = 3 \/ i = 4 \/ i = 5 \/ i = 6 \/ i = 7 \/ i = 8
                         \/ i = 9 \/ i = 10 \/ i = 11 \/ i = 12 \/ i = 13 \/ i = 14 \/ i = 15
                         \/ i = 16 \/ i = 17
  OBVIOUS
<1>11. ASSUME NEW i \in 1 .. 17
      PROVE  /\ Steps[i].part \in Parts
             /\ Steps[i].op \in {"deploy", "discover", "getCode", "setCode"}
             /\ Steps[i].op # "deploy" => i > 1
  BY <1>8, <1>9, <1>10 DEF Parts
<1>12. ASSUME NEW i \in 1 .. 17, Steps[i].op = "getCode"
      PROVE  \E j \in 1 .. (i - 1) : Steps[j] = Step("deploy", Steps[i].part)
  <2>1. i \in {10, 11, 12, 13}
    BY <1>8, <1>9, <1>10, <1>12
  <2>2. CASE i = 10
    <3>1. 8 \in 1 .. (i - 1) /\ Steps[8] = Step("deploy", Steps[i].part)
      BY <1>8, <1>9, <2>2
    <3> QED BY <3>1
  <2>3. CASE i = 11
    <3>1. 7 \in 1 .. (i - 1) /\ Steps[7] = Step("deploy", Steps[i].part)
      BY <1>8, <1>9, <2>3
    <3> QED BY <3>1
  <2>4. CASE i = 12
    <3>1. 6 \in 1 .. (i - 1) /\ Steps[6] = Step("deploy", Steps[i].part)
      BY <1>8, <1>9, <2>4
    <3> QED BY <3>1
  <2>5. CASE i = 13
    <3>1. 9 \in 1 .. (i - 1) /\ Steps[9] = Step("deploy", Steps[i].part)
      BY <1>8, <1>9, <2>5
    <3> QED BY <3>1
  <2> QED BY <2>1, <2>2, <2>3, <2>4, <2>5
<1>13. ASSUME NEW i \in 1 .. 17, Steps[i].op = "setCode"
      PROVE  /\ \E j \in 1 .. (i - 1) : Steps[j] = Step("discover", Steps[i].part)
             /\ \E j \in 1 .. (i - 1) : Steps[j] = Step("getCode", Steps[i].part)
  <2>1. i \in {14, 15, 16, 17}
    BY <1>8, <1>9, <1>10, <1>13
  <2>2. i - 12 \in 1 .. (i - 1) /\ i - 4 \in 1 .. (i - 1)
    BY <2>1
  <2>3. Steps[i - 12] = Step("discover", Steps[i].part) /\ Steps[i - 4] = Step("getCode", Steps[i].part)
    BY <1>8, <1>9, <2>1
  <2> QED BY <2>2, <2>3
<1>14. ASSUME NEW part \in Names("rainlang")
      PROVE  \E i \in 1 .. 17 : Steps[i] = Step("setCode", part)
  <2>1. part \in {"deployer", "interpreter", "store", "parser"}
    BY DEF Names
  <2>2. CASE part = "parser"
    <3>1. 14 \in 1 .. 17 /\ Steps[14] = Step("setCode", part)
      BY <1>8, <2>2
    <3> QED BY <3>1
  <2>3. CASE part = "store"
    <3>1. 15 \in 1 .. 17 /\ Steps[15] = Step("setCode", part)
      BY <1>8, <2>3
    <3> QED BY <3>1
  <2>4. CASE part = "interpreter"
    <3>1. 16 \in 1 .. 17 /\ Steps[16] = Step("setCode", part)
      BY <1>8, <2>4
    <3> QED BY <3>1
  <2>5. CASE part = "deployer"
    <3>1. 17 \in 1 .. 17 /\ Steps[17] = Step("setCode", part)
      BY <1>8, <2>5
    <3> QED BY <3>1
  <2> QED BY <2>1, <2>2, <2>3, <2>4, <2>5
<1> QED BY <1>8, <1>11, <1>12, <1>13, <1>14

(* Contracts that are in their places stay there. *)
Keeps(network) ==
  \A a \in Address : Latest(network).code[a] = a.part => Latest(network)'.code[a] = a.part

(* A fixture that does nothing keeps what it has left behind. *)
LEMMA LeftStays ==
  ASSUME NEW network \in Local, Left(network), fixture'[network] = fixture[network], Keeps(network)
  PROVE  Left(network)'
<1>1. fixture[network].done \in 0 .. 17
  BY StepsFacts DEF Left
<1>2. ASSUME NEW i \in 1 .. fixture[network].done PROVE LeftBy(network, Steps[i])'
  <2>1. Steps[i].part \in Parts /\ LeftBy(network, Steps[i])
    BY <1>1, StepsFacts DEF Left
  <2>2. Own(Steps[i].part) \in Address /\ Zoltu(Steps[i].part) \in Address
        /\ Own(Steps[i].part).part = Steps[i].part /\ Zoltu(Steps[i].part).part = Steps[i].part
    BY <2>1, ZoltuFacts, AddressFacts
  <2> QED BY <2>1, <2>2 DEF LeftBy, Keeps
<1> QED BY <1>2 DEF Left

(* One step more. *)
LEMMA LeftGrows ==
  ASSUME NEW network \in Local, FixtureInv, ~Ready(network), Keeps(network),
         NEW named, NEW codes, Done(network, named, codes),
         \A p \in DOMAIN fixture[network].named :
           /\ p \in DOMAIN named
           /\ fixture[network].named[p] = Zoltu(p) => named[p] = Zoltu(p),
         \A p \in DOMAIN fixture[network].codes :
           /\ p \in DOMAIN codes
           /\ fixture[network].codes[p] = p => codes[p] = p,
         NEW step, step = Steps[fixture[network].done + 1], LeftBy(network, step)',
         \A n \in Local \ {network} : Latest(n)' = Latest(n)
  PROVE  FixtureInv'
<1> DEFINE d == fixture[network].done
<1>1. d \in 0 .. 17 /\ d # 17 /\ Left(network)
  BY StepsFacts DEF FixtureInv, Left, Ready
<1>2. /\ DOMAIN fixture' = Local
      /\ fixture'[network] = [done |-> d + 1, named |-> named, codes |-> codes]
      /\ \A n \in Local \ {network} : fixture'[n] = fixture[n]
  BY DEF Done, FixtureInv
<1> HIDE DEF d
<1>3. fixture'[network].done = d + 1 /\ fixture'[network].named = named
      /\ fixture'[network].codes = codes
  BY <1>2
<1>4. ASSUME NEW i \in 1 .. d + 1 PROVE LeftBy(network, Steps[i])'
  <2>1. CASE i = d + 1
    BY <2>1 DEF d
  <2>2. CASE i # d + 1
    <3>1. i \in 1 .. d /\ i \in 1 .. 17
      BY <1>1, <2>2
    <3>2. LeftBy(network, Steps[i]) /\ Steps[i].part \in Parts
      BY <1>1, <3>1, StepsFacts DEF Left, d
    <3>3. Own(Steps[i].part) \in Address /\ Zoltu(Steps[i].part) \in Address
          /\ Own(Steps[i].part).part = Steps[i].part /\ Zoltu(Steps[i].part).part = Steps[i].part
      BY <3>2, ZoltuFacts, AddressFacts
    <3> QED BY <1>3, <3>2, <3>3 DEF LeftBy, Keeps
  <2> QED BY <2>1, <2>2
<1>5. Left(network)'
  BY <1>1, <1>2, <1>3, <1>4, StepsFacts DEF Left
<1>6. ASSUME NEW n \in Local \ {network} PROVE Left(n)'
  BY <1>2, LeftStays DEF FixtureInv, Keeps
<1> QED BY <1>2, <1>5, <1>6 DEF FixtureInv

-----------------------------------------------------------------------------
(* The rest of the world. *)

(* The blocks that a command may read stay, and so does what it may read them on. *)
BlocksStay ==
  \A network \in AllNetworks : Ready(network) =>
    /\ Ready(network)'
    /\ Len(chain[network]) <= Len(chain'[network])
    /\ \A i \in DOMAIN chain[network] :
         i \in DOMAIN chain'[network] /\ chain'[network][i] = chain[network][i]

LEMMA WorldTyped == World => ChainsTyped
BY DEF World, Inv, ChainTypeOK, ChainsTyped, AllNetworks

(* What happens on a test network does not matter to the script. *)
LEMMA LocalKeepsInv ==
  ASSUME Inv, ChainsTyped', UNCHANGED script, \A n \in Supported : chain'[n] = chain[n]
  PROVE  Inv'
BY DEF Inv, ChainTypeOK, ChainsTyped, AllNetworks, HasSuite, AllGood

LEMMA GrownStays ==
  ASSUME ChainsTyped, NEW network \in AllNetworks, NEW block \in Block, Grown(network, block),
         \A n \in AllNetworks : Ready(n) => Ready(n)'
  PROVE  BlocksStay
<1>1. ChainsTyped'
  BY GrownFacts
<1>2. ASSUME NEW n \in AllNetworks
      PROVE  /\ Len(chain[n]) <= Len(chain'[n])
             /\ \A i \in DOMAIN chain[n] : i \in DOMAIN chain'[n] /\ chain'[n][i] = chain[n][i]
  <2>1. /\ Len(chain[n]) \in Nat /\ DOMAIN chain[n] = 1 .. Len(chain[n])
        /\ Len(chain'[n]) \in Nat /\ DOMAIN chain'[n] = 1 .. Len(chain'[n])
    BY <1>1 DEF ChainsTyped
  <2>2. CASE n = network
    <3>1. Len(chain'[n]) = Len(chain[n]) + 1
          /\ \A i \in DOMAIN chain[n] : chain'[n][i] = chain[n][i]
      BY <2>2, GrownFacts
    <3> QED BY <2>1, <3>1
  <2>3. CASE n # network
    <3>1. chain'[n] = chain[n]
      BY <2>3, GrownFacts
    <3> QED BY <2>1, <3>1
  <2> QED BY <2>2, <2>3
<1> QED BY <1>2 DEF BlocksStay

(* A block for the network, the fixtures doing nothing. *)
LEMMA GrownWorld ==
  ASSUME World, NEW network \in AllNetworks, NEW block \in Block, Grown(network, block),
         PlacedAll(block), Covers(Latest(network), block),
         \A a \in Address : Latest(network).code[a] = a.part => block.code[a] = a.part,
         UNCHANGED fixture
  PROVE  /\ ChainsTyped' /\ AllPlaced' /\ Lasting' /\ FixtureInv' /\ BlocksStay
         /\ \A n \in AllNetworks \ {network} : chain'[n] = chain[n]
<1>1. ChainsTyped
  BY WorldTyped
<1>2. ChainsTyped' /\ AllPlaced' /\ Lasting'
  BY <1>1, GrownFacts, GrownPlaced DEF World
<1>3. ASSUME NEW n \in Local PROVE Keeps(n)
  <2>1. CASE n = network
    BY <1>1, <2>1, GrownFacts DEF Keeps
  <2>2. CASE n # network
    BY <1>1, <2>2, GrownFacts DEF Keeps, AllNetworks
  <2> QED BY <2>1, <2>2
<1>4. FixtureInv'
  BY <1>3, LeftStays DEF World, FixtureInv
<1>5. BlocksStay
  BY <1>1, GrownStays DEF Ready
<1> QED BY <1>1, <1>2, <1>4, <1>5, GrownFacts

LEMMA MinedIsGrown ==
  ASSUME NEW network, NEW block, Mined(network, block)
  PROVE  Grown(network, block)
BY DEF Mined, Grown

(* The script. *)
LEMMA ScriptWorld ==
  ASSUME World, ScriptStep, UNCHANGED fixture
  PROVE  World' /\ BlocksStay
<1>1. Inv'
  BY NextInv DEF World, ChainNext
<1>2. CASE UNCHANGED chain
  <2>1. (AllPlaced /\ Lasting)'
    BY <1>2 DEF World, AllPlaced, Lasting, Latest
  <2>2. \A n \in Local : Keeps(n)
    BY <1>2 DEF Keeps, Latest
  <2>3. FixtureInv'
    BY <2>2, LeftStays DEF World, FixtureInv
  <2>4. BlocksStay
    <3>1. \A n \in AllNetworks : Len(chain[n]) <= Len(chain[n])
      BY WorldTyped DEF ChainsTyped
    <3> QED BY <1>2, <3>1 DEF BlocksStay, Ready
  <2> QED BY <1>1, <2>1, <2>3, <2>4 DEF World
<1>3. ASSUME NEW network \in Supported, Broadcast(network), ~UNCHANGED chain
      PROVE  World' /\ BlocksStay
  <2> DEFINE suite == script.suite
             before == Latest(network)
             block == WithCode(before, Zoltu(suite), suite)
  <2>1. suite \in Parts
    BY <1>3 DEF World, Inv, HasSuite, Broadcast
  <2>2. network \in AllNetworks /\ before \in Block /\ PlacedAll(before)
    BY WorldTyped, LatestOf DEF AllNetworks, World
  <2>3. Mined(network, block)
    BY <1>3 DEF Broadcast
  <2>4. Zoltu(suite) \in Address /\ Zoltu(suite).part = suite
    BY <2>1, ZoltuFacts, AddressFacts
  <2>5. /\ block \in Block /\ PlacedAll(block) /\ Covers(before, block)
        /\ \A a \in Address : before.code[a] = a.part => block.code[a] = a.part
    BY <2>2, <2>4, PutFacts
  <2> HIDE DEF block, suite
  <2>6. AllPlaced' /\ Lasting' /\ FixtureInv' /\ BlocksStay
    BY <2>2, <2>3, <2>5, MinedIsGrown, GrownWorld
  <2> QED BY <1>1, <2>6 DEF World
<1> QED BY <1>2, <1>3 DEF ScriptStep, Run, Stops

(* Someone who writes to a store. *)
LEMMA PersistWorld ==
  ASSUME World, NEW network \in AllNetworks, NEW address \in Address, Persist(network, address),
         UNCHANGED fixture
  PROVE  World' /\ BlocksStay
<1> DEFINE before == Latest(network)
           value == before.held[address] + 1
           block == WithHeld(before, address, value)
<1>1. ChainsTyped /\ before \in Block /\ PlacedAll(before)
  BY WorldTyped, LatestOf DEF World
<1>2. value \in Nat
  BY <1>1 DEF Block
<1>3. Mined(network, block) /\ UNCHANGED script
  BY DEF Persist
<1>4. block \in Block /\ PlacedAll(block) /\ Covers(before, block) /\ block.code = before.code
  <2> HIDE DEF value, before
  <2> QED BY <1>1, <1>2, HeldFacts
<1>5. /\ ChainsTyped' /\ AllPlaced' /\ Lasting' /\ FixtureInv' /\ BlocksStay
      /\ \A n \in AllNetworks \ {network} : chain'[n] = chain[n]
  <2>1. \A a \in Address : before.code[a] = a.part => block.code[a] = a.part
    BY <1>4
  <2> HIDE DEF block
  <2> QED BY <1>3, <1>4, <2>1, MinedIsGrown, GrownWorld
<1>6. Inv'
  <2>1. CASE network \in Supported
    BY <2>1, NextInv DEF World, ChainNext
  <2>2. CASE network \notin Supported
    BY <1>3, <1>5, <2>2, LocalKeepsInv DEF World, AllNetworks
  <2> QED BY <2>1, <2>2
<1> QED BY <1>5, <1>6 DEF World

(* What a fixture knows before a step. *)
LEMMA StepFacts ==
  ASSUME World, NEW network \in Local, NEW op, AtStep(network, op)
  PROVE  LET d == fixture[network].done
             part == ThePart(network)
         IN
           /\ d \in 0 .. 16 /\ ~Ready(network) /\ Left(network)
           /\ part \in Parts /\ Steps[d + 1].op = op /\ Steps[d + 1].part = part
           /\ Zoltu(part) \in Address /\ Own(part) \in Address
           /\ Zoltu(part).part = part /\ Own(part).part = part
           /\ \A j \in 1 .. d : LeftBy(network, Steps[j])
           /\ op # "deploy" => 1 \in 1 .. d
           /\ op = "getCode" => \E j \in 1 .. d : Steps[j] = Step("deploy", part)
           /\ op = "setCode" => /\ \E j \in 1 .. d : Steps[j] = Step("discover", part)
                               /\ \E j \in 1 .. d : Steps[j] = Step("getCode", part)
           /\ network \in AllNetworks /\ network \notin Supported
<1> DEFINE d == fixture[network].done
<1>1. Left(network) /\ d \in 0 .. 17 /\ \A j \in 1 .. d : LeftBy(network, Steps[j])
  BY StepsFacts DEF World, FixtureInv, Left
<1>2. ~Ready(network) /\ d # 17 /\ Steps[d + 1].op = op
  BY StepsFacts DEF AtStep, Ready
<1>3. d \in 0 .. 16 /\ d + 1 \in 1 .. 17
  BY <1>1, <1>2
<1>4. ThePart(network) = Steps[d + 1].part /\ ThePart(network) \in Parts
  BY <1>3, StepsFacts DEF ThePart
<1> HIDE DEF d
<1>5. /\ op # "deploy" => 1 \in 1 .. d
      /\ op = "getCode" => \E j \in 1 .. d : Steps[j] = Step("deploy", ThePart(network))
      /\ op = "setCode" => /\ \E j \in 1 .. d : Steps[j] = Step("discover", ThePart(network))
                          /\ \E j \in 1 .. d : Steps[j] = Step("getCode", ThePart(network))
  <2> DEFINE i == d + 1
  <2>1. i \in 1 .. 17 /\ i - 1 = d /\ Steps[i].op = op /\ Steps[i].part = ThePart(network)
    BY <1>2, <1>3, <1>4
  <2>2. 1 .. (i - 1) = 1 .. d /\ (i > 1 => 1 \in 1 .. d)
    BY <1>3
  <2> HIDE DEF i
  <2>3. /\ op # "deploy" => i > 1
        /\ op = "getCode" => \E j \in 1 .. (i - 1) : Steps[j] = Step("deploy", ThePart(network))
        /\ op = "setCode" => /\ \E j \in 1 .. (i - 1) : Steps[j] = Step("discover", ThePart(network))
                            /\ \E j \in 1 .. (i - 1) : Steps[j] = Step("getCode", ThePart(network))
    BY <2>1, StepsFacts, ZenonT(60)
  <2> QED BY <2>2, <2>3
<1> QED BY <1>1, <1>2, <1>3, <1>4, <1>5, ZoltuFacts, AddressFacts, NetworkAssumption DEF AllNetworks, d

LEMMA WithFacts ==
  ASSUME NEW known, NEW part, NEW value
  PROVE  /\ DOMAIN With(known, part, value) = DOMAIN known \cup {part}
         /\ With(known, part, value)[part] = value
         /\ \A p \in DOMAIN known : p # part => With(known, part, value)[p] = known[p]
BY DEF With

(* A step of a fixture that is not ready takes nothing from those who are. *)
LEMMA ReadyStays ==
  ASSUME NEW network \in Local, ~Ready(network), NEW named, NEW codes, Done(network, named, codes)
  PROVE  \A n \in AllNetworks : Ready(n) => Ready(n)'
BY DEF Ready, Done

LEMMA DeployWorld ==
  ASSUME World, NEW network \in Local, DeployContract(network)
  PROVE  World' /\ BlocksStay
<1> DEFINE known == fixture[network]
           part == ThePart(network)
           before == Latest(network)
           block == WithCode(before, Own(part), part)
<1>1. PICK step : step = Steps[known.done + 1]
  OBVIOUS
<1>2. /\ ~Ready(network) /\ Left(network) /\ part \in Parts
      /\ step.op = "deploy" /\ step.part = part /\ Own(part) \in Address /\ Own(part).part = part
      /\ network \in AllNetworks /\ network \notin Supported
  BY <1>1, StepFacts DEF DeployContract
<1>3. ChainsTyped /\ before \in Block /\ PlacedAll(before)
  BY <1>2, WorldTyped, LatestOf DEF World
<1>4. /\ Mined(network, block) /\ UNCHANGED script
      /\ Done(network, known.named, known.codes)
  BY DEF DeployContract
<1>5. /\ block \in Block /\ PlacedAll(block) /\ Covers(before, block)
      /\ block.code[Own(part)] = part
      /\ \A a \in Address : before.code[a] = a.part => block.code[a] = a.part
  BY <1>2, <1>3, PutFacts
<1> HIDE DEF block, part, known
<1>6. /\ ChainsTyped' /\ Latest(network)' = block
      /\ \A n \in AllNetworks \ {network} : chain'[n] = chain[n] /\ Latest(n)' = Latest(n)
  BY <1>2, <1>3, <1>4, <1>5, MinedIsGrown, GrownFacts
<1>7. AllPlaced' /\ Lasting'
  BY <1>2, <1>3, <1>4, <1>5, MinedIsGrown, GrownPlaced DEF World
<1>8. Keeps(network)
  BY <1>5, <1>6 DEF Keeps
<1>9. LeftBy(network, step)'
  <2>1. Latest(network)'.code[Own(step.part)] = step.part
    BY <1>2, <1>5, <1>6
  <2> QED BY <1>2, <2>1 DEF LeftBy
<1>10. FixtureInv'
  <2>1. \A n \in Local \ {network} : Latest(n)' = Latest(n)
    BY <1>6 DEF AllNetworks
  <2>2. /\ \A p \in DOMAIN known.named :
             p \in DOMAIN known.named /\ (known.named[p] = Zoltu(p) => known.named[p] = Zoltu(p))
        /\ \A p \in DOMAIN known.codes :
             p \in DOMAIN known.codes /\ (known.codes[p] = p => known.codes[p] = p)
    OBVIOUS
  <2> QED BY <1>2, <1>4, <1>8, <1>9, <2>1, <2>2, <1>1, LeftGrows DEF World, known
<1>11. BlocksStay
  <2>1. \A n \in AllNetworks : Ready(n) => Ready(n)'
    BY <1>2, <1>4, ReadyStays
  <2> QED BY <1>2, <1>3, <1>4, <1>5, <2>1, MinedIsGrown, GrownStays
<1>12. Inv'
  <2>1. \A n \in Supported : chain'[n] = chain[n]
    BY <1>2, <1>6 DEF AllNetworks
  <2> QED BY <1>4, <1>6, <2>1, LocalKeepsInv DEF World
<1> QED BY <1>7, <1>10, <1>11, <1>12 DEF World

(* A step that only reads. *)
LEMMA ReadingWorld ==
  ASSUME World, NEW network \in Local, ~Ready(network), UNCHANGED <<chain, script>>,
         NEW named, NEW codes, Done(network, named, codes),
         \A p \in DOMAIN fixture[network].named :
           /\ p \in DOMAIN named
           /\ fixture[network].named[p] = Zoltu(p) => named[p] = Zoltu(p),
         \A p \in DOMAIN fixture[network].codes :
           /\ p \in DOMAIN codes
           /\ fixture[network].codes[p] = p => codes[p] = p,
         NEW step, step = Steps[fixture[network].done + 1], LeftBy(network, step)'
  PROVE  World' /\ BlocksStay
<1>1. Inv'
  BY NextInv DEF World
<1>2. AllPlaced' /\ Lasting'
  BY DEF World, AllPlaced, Lasting, Latest
<1>3. Keeps(network) /\ \A n \in Local \ {network} : Latest(n)' = Latest(n)
  BY DEF Keeps, Latest
<1>4. FixtureInv'
  BY <1>3, LeftGrows DEF World
<1>5. BlocksStay
  <2>1. \A n \in AllNetworks : Len(chain[n]) <= Len(chain[n])
    BY WorldTyped DEF ChainsTyped
  <2>2. \A n \in AllNetworks : Ready(n) => Ready(n)'
    BY ReadyStays
  <2> QED BY <2>1, <2>2 DEF BlocksStay
<1> QED BY <1>1, <1>2, <1>4, <1>5 DEF World

(* Rainlang, once created, answers with the factory's addresses. *)
LEMMA RainlangAnswers ==
  ASSUME NEW block, NEW to, NEW part, block.code[to] = "rainlang"
  PROVE  CallAt(block, to, AddressOf(part)) = Reply("ok", [address |-> Zoltu(part)])
BY DEF CallAt, OnRainlang, AddressOf, Nothing

LEMMA DiscoverWorld ==
  ASSUME World, NEW network \in Local, Discover(network)
  PROVE  World' /\ BlocksStay
<1> DEFINE known == fixture[network]
           part == ThePart(network)
           reply == CallAt(Latest(network), Own("rainlang"), AddressOf(part))
           named == With(known.named, part, reply.data.address)
<1>1. PICK step : step = Steps[known.done + 1]
  OBVIOUS
<1>2. /\ ~Ready(network) /\ known.done \in 0 .. 16
      /\ step.op = "discover" /\ step.part = part
      /\ \A j \in 1 .. known.done : LeftBy(network, Steps[j])
      /\ 1 \in 1 .. known.done
  BY <1>1, StepFacts DEF Discover
<1>3. UNCHANGED <<chain, script>> /\ Done(network, named, known.codes)
  BY DEF Discover
<1>4. reply.data.address = Zoltu(part)
  <2>1. 1 \in 1 .. known.done
    BY <1>2
  <2>2. LeftBy(network, Steps[1]) /\ Steps[1].op = "deploy" /\ Steps[1].part = "rainlang"
    BY <1>2, <2>1, StepsFacts DEF Step
  <2>3. Latest(network).code[Own("rainlang")] = "rainlang"
    BY <2>2 DEF LeftBy
  <2>4. reply = Reply("ok", [address |-> Zoltu(part)])
    BY <2>3, RainlangAnswers
  <2> QED BY <2>4 DEF Reply
<1> HIDE DEF reply, part, known
<1>5. /\ DOMAIN named = DOMAIN known.named \cup {part} /\ named[part] = Zoltu(part)
      /\ \A p \in DOMAIN known.named : p # part => named[p] = known.named[p]
  <2>1. LET value == reply.data.address IN
          /\ DOMAIN named = DOMAIN known.named \cup {part} /\ named[part] = value
          /\ \A p \in DOMAIN known.named : p # part => named[p] = known.named[p]
    BY DEF With
  <2> QED BY <1>4, <2>1
<1> HIDE DEF named
<1>6. known' = [done |-> known.done + 1, named |-> named, codes |-> known.codes]
  BY <1>3 DEF Done, World, FixtureInv, known
<1>7. LeftBy(network, step)'
  <2>1. fixture'[network].named = named
    BY <1>6 DEF known
  <2> QED BY <1>2, <1>5, <2>1 DEF LeftBy
<1>8. /\ \A p \in DOMAIN known.named :
           p \in DOMAIN named /\ (known.named[p] = Zoltu(p) => named[p] = Zoltu(p))
      /\ \A p \in DOMAIN known.codes :
           p \in DOMAIN known.codes /\ (known.codes[p] = p => known.codes[p] = p)
  BY <1>5
<1> QED BY <1>2, <1>3, <1>7, <1>8, <1>1, ReadingWorld DEF known

LEMMA GetCodeWorld ==
  ASSUME World, NEW network \in Local, GetCode(network)
  PROVE  World' /\ BlocksStay
<1> DEFINE known == fixture[network]
           part == ThePart(network)
           code == Latest(network).code[Own(part)]
           codes == With(known.codes, part, code)
<1>1. PICK step : step = Steps[known.done + 1]
  OBVIOUS
<1>2. /\ ~Ready(network) /\ known.done \in 0 .. 16
      /\ step.op = "getCode" /\ step.part = part
      /\ \A j \in 1 .. known.done : LeftBy(network, Steps[j])
      /\ \E j \in 1 .. known.done : Steps[j] = Step("deploy", part)
  BY <1>1, StepFacts DEF GetCode
<1>3. UNCHANGED <<chain, script>> /\ Done(network, known.named, codes)
  BY DEF GetCode
<1>4. code = part
  <2>1. PICK j \in 1 .. known.done : Steps[j] = Step("deploy", part)
    BY <1>2
  <2>2. LeftBy(network, Step("deploy", part))
    BY <1>2, <2>1
  <2> QED BY <2>2 DEF LeftBy, Step
<1> HIDE DEF code, part, known
<1>5. /\ DOMAIN codes = DOMAIN known.codes \cup {part} /\ codes[part] = part
      /\ \A p \in DOMAIN known.codes : p # part => codes[p] = known.codes[p]
  <2>1. /\ DOMAIN codes = DOMAIN known.codes \cup {part} /\ codes[part] = code
        /\ \A p \in DOMAIN known.codes : p # part => codes[p] = known.codes[p]
    BY DEF With
  <2> QED BY <1>4, <2>1
<1> HIDE DEF codes
<1>6. known' = [done |-> known.done + 1, named |-> known.named, codes |-> codes]
  BY <1>3 DEF Done, World, FixtureInv, known
<1>7. LeftBy(network, step)'
  <2>1. fixture'[network].codes = codes
    BY <1>6 DEF known
  <2> QED BY <1>2, <1>5, <2>1 DEF LeftBy
<1>8. /\ \A p \in DOMAIN known.named :
           p \in DOMAIN known.named /\ (known.named[p] = Zoltu(p) => known.named[p] = Zoltu(p))
      /\ \A p \in DOMAIN known.codes :
           p \in DOMAIN codes /\ (known.codes[p] = p => codes[p] = p)
  BY <1>5
<1> QED BY <1>2, <1>3, <1>7, <1>8, <1>1, ReadingWorld DEF known

LEMMA SetCodeWorld ==
  ASSUME World, NEW network \in Local, SetCode(network)
  PROVE  World' /\ BlocksStay
<1> DEFINE known == fixture[network]
           part == ThePart(network)
           before == Latest(network)
           block == WithCode(before, known.named[part], CodeFor(network, part))
<1>1. PICK step : step = Steps[known.done + 1]
  OBVIOUS
<1>2. /\ ~Ready(network) /\ known.done \in 0 .. 16
      /\ step.op = "setCode" /\ step.part = part
      /\ \A j \in 1 .. known.done : LeftBy(network, Steps[j])
      /\ \E j \in 1 .. known.done : Steps[j] = Step("discover", part)
      /\ \E j \in 1 .. known.done : Steps[j] = Step("getCode", part)
      /\ Zoltu(part) \in Address /\ Zoltu(part).part = part
      /\ network \in AllNetworks /\ network \notin Supported
  BY <1>1, StepFacts DEF SetCode
<1>3. ChainsTyped /\ before \in Block /\ PlacedAll(before)
  BY <1>2, WorldTyped, LatestOf DEF World
<1>4. /\ Amended(network, block) /\ UNCHANGED script
      /\ Done(network, known.named, known.codes)
  BY DEF SetCode, Amended
<1>5. known.named[part] = Zoltu(part) /\ CodeFor(network, part) = part
  <2>1. LeftBy(network, Step("discover", part)) /\ LeftBy(network, Step("getCode", part))
    BY <1>2
  <2> QED BY <2>1 DEF LeftBy, Step, CodeFor
<1>6. /\ block \in Block /\ PlacedAll(block) /\ Covers(before, block)
      /\ block.code[Zoltu(part)] = part
      /\ \A a \in Address : before.code[a] = a.part => block.code[a] = a.part
  BY <1>2, <1>3, <1>5, PutFacts
<1> HIDE DEF block, part, known
<1>7. /\ ChainsTyped' /\ Latest(network)' = block
      /\ \A n \in AllNetworks \ {network} : chain'[n] = chain[n] /\ Latest(n)' = Latest(n)
  BY <1>2, <1>3, <1>4, <1>6, AmendedFacts
<1>8. AllPlaced' /\ Lasting'
  BY <1>2, <1>3, <1>4, <1>6, AmendedPlaced DEF World
<1>9. Keeps(network)
  BY <1>6, <1>7 DEF Keeps
<1>10. LeftBy(network, step)'
  <2>1. Latest(network)'.code[Zoltu(step.part)] = step.part
    BY <1>2, <1>6, <1>7
  <2> QED BY <1>2, <2>1 DEF LeftBy
<1>11. FixtureInv'
  <2>1. \A n \in Local \ {network} : Latest(n)' = Latest(n)
    BY <1>7 DEF AllNetworks
  <2>2. /\ \A p \in DOMAIN known.named :
             p \in DOMAIN known.named /\ (known.named[p] = Zoltu(p) => known.named[p] = Zoltu(p))
        /\ \A p \in DOMAIN known.codes :
             p \in DOMAIN known.codes /\ (known.codes[p] = p => known.codes[p] = p)
    OBVIOUS
  <2> QED BY <1>2, <1>4, <1>9, <1>10, <2>1, <2>2, <1>1, LeftGrows DEF World, known
<1>12. BlocksStay
  <2>1. \A n \in AllNetworks : Ready(n) => Ready(n)'
    BY <1>2, <1>4, ReadyStays
  <2>2. \A n \in AllNetworks \ {network} : Len(chain[n]) \in Nat
    BY <1>3, LatestOf
  <2> QED BY <1>2, <1>7, <2>1, <2>2 DEF BlocksStay
<1>13. Inv'
  <2>1. \A n \in Supported : chain'[n] = chain[n]
    BY <1>2, <1>7 DEF AllNetworks
  <2> QED BY <1>4, <1>7, <2>1, LocalKeepsInv DEF World
<1> QED BY <1>8, <1>11, <1>12, <1>13 DEF World

(* At first there is nothing. *)
LEMMA InitWorld == ChainInit /\ FixtureInit => World
<1> SUFFICES ASSUME ChainInit, FixtureInit PROVE World
  OBVIOUS
<1>1. Inv
  BY InitInv
<1>2. \A network \in AllNetworks :
        DOMAIN chain[network] = {1} /\ chain[network][1] = Genesis /\ Latest(network) = Genesis
  BY DEF ChainInit, AllNetworks, Latest
<1>3. PlacedAll(Genesis) /\ Covers(Genesis, Genesis)
  BY DEF PlacedAll, Covers, Genesis
<1>4. AllPlaced /\ Lasting
  BY <1>2, <1>3 DEF AllPlaced, Lasting
<1>5. FixtureInv
  BY StepsFacts DEF FixtureInit, FixtureInv, Left
<1> QED BY <1>1, <1>4, <1>5 DEF World

(* The steps of the command change nothing of this. *)
LEMMA StutterWorld ==
  ASSUME World, UNCHANGED <<chain, script, fixture>>
  PROVE  World' /\ BlocksStay
<1>1. Inv'
  BY NextInv DEF World
<1>2. AllPlaced' /\ Lasting'
  BY DEF World, AllPlaced, Lasting, Latest
<1>3. FixtureInv'
  BY LeftStays DEF World, FixtureInv, Keeps, Latest
<1>4. BlocksStay
  <2>1. \A n \in AllNetworks : Len(chain[n]) <= Len(chain[n])
    BY WorldTyped DEF ChainsTyped
  <2> QED BY <2>1 DEF BlocksStay, Ready
<1> QED BY <1>1, <1>2, <1>3, <1>4 DEF World

LEMMA OthersWorld ==
  ASSUME World, Others
  PROVE  World' /\ BlocksStay
<1>1. CASE ScriptStep /\ UNCHANGED fixture
  BY <1>1, ScriptWorld
<1>2. ASSUME NEW network \in Supported \cup Local, NEW address \in Address,
             Persist(network, address), UNCHANGED fixture
      PROVE  World' /\ BlocksStay
  BY <1>2, PersistWorld DEF AllNetworks
<1>3. ASSUME NEW network \in Local, FixtureStep(network) PROVE World' /\ BlocksStay
  BY <1>3, DeployWorld, DiscoverWorld, GetCodeWorld, SetCodeWorld DEF FixtureStep
<1> QED BY <1>1, <1>2, <1>3 DEF Others

-----------------------------------------------------------------------------
(* The command's process. *)

OffersAll(block) == \A part \in Names("rainlang") : block.code[Zoltu(part)] = part
HasRainlang(block, run) == block.code[RainlangAt(run.network)] = "rainlang"
Located(p, part) == part \in DOMAIN p.found /\ p.found[part] = Zoltu(part)
Faulty(run) == ~run.text.parses \/ (run.cmd = "eval" /\ run.text.exit # "ok")
Written(p) == IF p.run.cmd = "parse" THEN AbiEncoded(p.result) ELSE Debug(p.result)

(* What the status of a process says of the block that it forked. *)
Answered(p, block, out) ==
  /\ p.status = "ok" =>
       Serves(block, p.run) /\ out = Encoded(p.run.encoding, Promised(block, p.run))
  /\ p.status \in {"TypedError"} \cup Reverted => ~Serves(block, p.run)
  /\ p.status = "TypedError" /\ HasRainlang(block, p.run) => ~OffersAll(block)
  /\ p.status \in Reverted =>
       HasRainlang(block, p.run) /\ (OffersAll(block) => Faulty(p.run))
  /\ p.status \in {"AbiDecodedError", "AbiDecodeFailed"} =>
       p.run.decode /\ (OffersAll(block) /\ p.run.text.parses => p.run.text.exit = "Revert")

(* What it has found out of that block on its way. *)
Knows(p, block, out) ==
  /\ p.at \in {"interpreter", "store", "parse", "eval"} =>
       HasRainlang(block, p.run) /\ Located(p, "deployer")
  /\ p.at \in {"interpreter", "store", "eval"} => p.run.cmd = "eval"
  /\ p.at = "store" => Located(p, "interpreter")
  /\ p.at \in {"parse", "eval"} =>
       p.run.cmd = "parse" \/ (Located(p, "interpreter") /\ Located(p, "store"))
  /\ p.at = "eval" =>
       /\ block.code[Zoltu("deployer")] = "deployer" /\ block.code[Zoltu("parser")] = "parser"
       /\ p.run.text.parses /\ p.result = [bytecode |-> p.run.text]
  /\ p.at = "output" => Serves(block, p.run) /\ Written(p) = Promised(block, p.run)
  /\ p.at = "exit" => Answered(p, block, out)

Shape(p) ==
  p = [at |-> p.at, run |-> p.run, began |-> p.began, fork |-> p.fork, found |-> p.found,
       result |-> p.result, status |-> p.status]

(* The block it forked, unless it did not come so far. *)
HasForked(p) == p.at # "fork" /\ (p.at = "exit" => p.status # "ExecutorError")

ForkOf(p) ==
  /\ p.fork \in DOMAIN chain[p.run.network]
  /\ IF p.run.block = None THEN p.began <= p.fork ELSE p.fork = p.run.block + 1
  /\ p.run.network \in Local /\ p.run.block = None => OffersAll(chain[p.run.network][p.fork])
  /\ Knows(p, chain[p.run.network][p.fork], file)

Begun(p) ==
  /\ Shape(p) /\ p.run \in Invocations /\ Ready(p.run.network)
  /\ p.began \in 1 .. Len(chain[p.run.network])

Underway == proc.at = "idle" \/ (Begun(proc) /\ (HasForked(proc) => ForkOf(proc)))

-----------------------------------------------------------------------------
(* The rest of the world leaves the process and the block it reads alone. *)
LEMMA OthersUnderway ==
  ASSUME World, World', BlocksStay, Underway, UNCHANGED <<proc, file>>
  PROVE  Underway'
<1> SUFFICES ASSUME proc.at # "idle" PROVE (Begun(proc) /\ (HasForked(proc) => ForkOf(proc)))'
  BY DEF Underway
<1> DEFINE network == proc.run.network
<1>1. Begun(proc) /\ network \in AllNetworks /\ Ready(network)
  BY InvocationsAssumption DEF Underway, Begun, Invocation, AllNetworks
<1>2. /\ Ready(network)' /\ Len(chain[network]) <= Len(chain'[network])
      /\ \A i \in DOMAIN chain[network] :
           i \in DOMAIN chain'[network] /\ chain'[network][i] = chain[network][i]
  BY <1>1 DEF BlocksStay
<1>3. Len(chain[network]) \in Nat /\ Len(chain'[network]) \in Nat
  <2>1. ChainsTyped /\ ChainsTyped'
    BY WorldTyped, WorldTyped, PTL
  <2> QED BY <1>1, <2>1 DEF ChainsTyped
<1>4. Begun(proc)'
  BY <1>1, <1>2, <1>3 DEF Begun
<1>5. ASSUME HasForked(proc) PROVE ForkOf(proc)'
  <2>1. ForkOf(proc)
    BY <1>5 DEF Underway
  <2> QED BY <1>2, <2>1 DEF ForkOf
<1> QED BY <1>4, <1>5

(* A call succeeds with what is expected, or ends the command with the fault. *)
LEMMA CallCases ==
  ASSUME NEW to, NEW message, NEW type, NEW after, Calls(to, message, type, after)
  PROVE  LET reply == ReplyOf(to, message) IN
           /\ UNCHANGED file
           /\ \/ reply.exit = "ok" /\ type \in DOMAIN reply.data /\ proc' = after
              \/ reply.exit = "ok" /\ type \notin DOMAIN reply.data /\ Ends("TypedError")
              \/ /\ reply.exit # "ok"
                 /\ \E status \in Reverted :
                      /\ Ends(status)
                      /\ status # "Failed" => proc.run.decode /\ reply.exit = "Revert"
<1> DEFINE reply == ReplyOf(to, message)
           typed == type \in DOMAIN reply.data
           decode == proc.run.decode
<1>1. PICK registry \in BOOLEAN :
        LET outcome == Outcome(reply.exit, decode, registry, typed) IN
          /\ IF outcome = "ok" THEN proc' = after ELSE Ends(outcome)
          /\ UNCHANGED file
  BY DEF Calls
<1> DEFINE outcome == Outcome(reply.exit, decode, registry, typed)
<1>2. (IF outcome = "ok" THEN proc' = after ELSE Ends(outcome)) /\ UNCHANGED file
  BY <1>1
<1>3. \/ reply.exit = "ok" /\ outcome = (IF typed THEN "ok" ELSE "TypedError")
      \/ /\ reply.exit # "ok" /\ outcome \in Reverted
         /\ outcome # "Failed" => decode /\ reply.exit = "Revert"
  BY DEF Outcome, Reverted
<1>4. \A status \in Reverted : status # "ok"
  BY DEF Reverted
<1> HIDE DEF outcome, typed, decode, reply
<1>5. CASE reply.exit = "ok"
  BY <1>2, <1>3, <1>5 DEF typed, reply
<1>6. CASE reply.exit # "ok"
  BY <1>2, <1>3, <1>4, <1>6 DEF decode, reply
<1> QED BY <1>5, <1>6

(* On its way, with the fork that it has. *)
OnItsWay ==
  /\ proc.at \notin {"idle", "fork", "exit"} /\ Begun(proc) /\ ForkOf(proc)
  /\ proc.run.network \in AllNetworks
  /\ Forked \in Block /\ PlacedAll(Forked) /\ Knows(proc, Forked, file)

LEMMA WayFacts ==
  ASSUME World, Underway, proc.at \notin {"idle", "fork", "exit"}
  PROVE  OnItsWay
<1>1. Begun(proc) /\ ForkOf(proc)
  BY DEF Underway, HasForked
<1>2. proc.run.network \in AllNetworks
  BY <1>1, InvocationsAssumption DEF Begun, Invocation, AllNetworks
<1>3. chain[proc.run.network] \in Seq(Block)
  BY <1>2, WorldTyped DEF ChainsTyped
<1>4. Forked \in Block
  BY <1>1, <1>3 DEF ForkOf, Forked, Network
<1>5. PlacedAll(Forked)
  BY <1>1, <1>2 DEF World, AllPlaced, ForkOf, Forked, Network
<1> QED BY <1>1, <1>2, <1>4, <1>5 DEF OnItsWay, ForkOf, Forked, Network

(* A step keeps Underway that takes the process on, *)
LEMMA GoesOn ==
  ASSUME OnItsWay, UNCHANGED <<chain, script, fixture>>,
         NEW at, NEW found, NEW result, at # "exit",
         proc' = [at |-> at, run |-> proc.run, began |-> proc.began, fork |-> proc.fork,
                  found |-> found, result |-> result, status |-> proc.status],
         Knows(proc', Forked, file')
  PROVE  Underway'
<1>1. Shape(proc')
  BY DEF Shape
<1>2. proc'.run = proc.run /\ proc'.began = proc.began /\ proc'.fork = proc.fork
  OBVIOUS
<1>3. Begun(proc)'
  BY <1>1, <1>2 DEF Begun, OnItsWay, Ready
<1>4. ForkOf(proc)'
  BY <1>2 DEF ForkOf, OnItsWay, Forked, Network
<1> QED BY <1>3, <1>4 DEF Underway

(* and one that ends it with a status that tells the truth. *)
LEMMA EndsTruly ==
  ASSUME OnItsWay, UNCHANGED <<chain, script, fixture>>, NEW status, Ends(status),
         Answered([status |-> status, run |-> proc.run], Forked, file')
  PROVE  Underway'
<1>1. proc' = [at |-> "exit", run |-> proc.run, began |-> proc.began, fork |-> proc.fork,
               found |-> proc.found, result |-> proc.result, status |-> status]
  BY DEF Ends, OnItsWay, Begun, Shape
<1>2. Shape(proc')
  BY <1>1 DEF Shape
<1>3. proc'.run = proc.run /\ proc'.began = proc.began /\ proc'.fork = proc.fork
      /\ proc'.at = "exit" /\ proc'.status = status
  BY <1>1
<1>4. Begun(proc)'
  BY <1>2, <1>3 DEF Begun, OnItsWay, Ready
<1>5. Knows(proc', Forked, file')
  BY <1>3 DEF Knows, Answered
<1>6. ForkOf(proc)'
  BY <1>3, <1>5 DEF ForkOf, OnItsWay, Forked, Network
<1> QED BY <1>4, <1>6 DEF Underway

LEMMA InvokeUnderway ==
  ASSUME World, NEW run \in Invocations, Invoke(run)
  PROVE  Underway'
<1>1. proc' = [at |-> "fork", run |-> run, began |-> Len(chain[run.network]), fork |-> 0,
               found |-> << >>, result |-> None, status |-> "running"]
      /\ Ready(run.network)' /\ UNCHANGED chain
  BY DEF Invoke, Ready
<1>2. Shape(proc') /\ ~HasForked(proc')
  BY <1>1 DEF Shape, HasForked
<1>3. run.network \in AllNetworks
  BY InvocationsAssumption DEF Invocation, AllNetworks
<1>4. Len(chain[run.network]) \in 1 .. Len(chain[run.network])
  BY <1>3, WorldTyped, LatestOf
<1>5. Begun(proc)'
  BY <1>1, <1>2, <1>4 DEF Begun
<1> QED BY <1>2, <1>5 DEF Underway

(* A test network that is ready offers all that Rainlang names. *)
LEMMA FixtureOffers ==
  ASSUME World, NEW network \in Local, Ready(network)
  PROVE  Latest(network).code[Own("rainlang")] = "rainlang" /\ OffersAll(Latest(network))
<1>1. \A i \in 1 .. 17 : LeftBy(network, Steps[i])
  BY StepsFacts DEF World, FixtureInv, Left, Ready
<1>2. LeftBy(network, Step("deploy", "rainlang"))
  BY <1>1, StepsFacts
<1>3. \A part \in Names("rainlang") : LeftBy(network, Step("setCode", part))
  <2>1. ASSUME NEW part \in Names("rainlang") PROVE LeftBy(network, Step("setCode", part))
    <3>1. PICK i \in 1 .. 17 : Steps[i] = Step("setCode", part)
      BY StepsFacts
    <3> QED BY <1>1, <3>1
  <2> QED BY <2>1
<1> QED BY <1>2, <1>3 DEF LeftBy, Step, OffersAll

LEMMA ForksUnderway ==
  ASSUME World, Underway, Forks
  PROVE  Underway'
<1> DEFINE network == proc.run.network
<1>1. proc.at = "fork" /\ UNCHANGED <<chain, script, fixture, file>>
  BY DEF Forks, Running
<1>2. PICK i \in DOMAIN chain[network] :
        /\ i = IF proc.run.block = None THEN Len(chain[network]) ELSE proc.run.block + 1
        /\ proc' = [proc EXCEPT !.at = "convert", !.fork = i]
  BY DEF Forks, Network
<1>3. Begun(proc)
  BY <1>1 DEF Underway
<1>4. proc' = [at |-> "convert", run |-> proc.run, began |-> proc.began, fork |-> i,
               found |-> proc.found, result |-> proc.result, status |-> proc.status]
  BY <1>2, <1>3 DEF Begun, Shape
<1>5. /\ proc'.at = "convert" /\ proc'.run = proc.run /\ proc'.began = proc.began
      /\ proc'.fork = i /\ Shape(proc')
  BY <1>4 DEF Shape
<1>6. Begun(proc)'
  BY <1>1, <1>3, <1>5 DEF Begun, Ready
<1>7. Knows(proc', chain[network][i], file')
  BY <1>5 DEF Knows
<1>8. network \in Local /\ proc.run.block = None => OffersAll(chain[network][i])
  BY <1>2, <1>3, FixtureOffers DEF Begun, Latest
<1>9. IF proc.run.block = None THEN proc.began <= i ELSE i = proc.run.block + 1
  BY <1>2, <1>3 DEF Begun
<1>10. ForkOf(proc)'
  BY <1>1, <1>2, <1>5, <1>7, <1>8, <1>9 DEF ForkOf
<1> QED BY <1>6, <1>10 DEF Underway

LEMMA ConvertUnderway ==
  ASSUME World, Underway, ConvertArguments
  PROVE  Underway'
<1>1. proc.at = "convert" /\ UNCHANGED <<chain, script, fixture, file>> /\ OnItsWay
  BY WayFacts DEF ConvertArguments, Running
<1>2. CASE Ends("arguments")
  <2>1. Answered([status |-> "arguments", run |-> proc.run], Forked, file')
    BY DEF Answered, Reverted
  <2> QED BY <1>1, <1>2, <2>1, EndsTruly
<1>3. CASE proc' = [proc EXCEPT !.at = "deployer"]
  <2>1. proc' = [at |-> "deployer", run |-> proc.run, began |-> proc.began, fork |-> proc.fork,
                 found |-> proc.found, result |-> proc.result, status |-> proc.status]
    BY <1>1, <1>3 DEF OnItsWay, Begun, Shape
  <2>2. Knows(proc', Forked, file')
    BY <2>1 DEF Knows
  <2> QED BY <1>1, <2>1, <2>2, GoesOn
<1> QED BY <1>2, <1>3 DEF ConvertArguments

LEMMA UnansweredUnderway ==
  ASSUME World, Underway, Unanswered
  PROVE  Underway'
<1>1. Begun(proc) /\ UNCHANGED <<chain, fixture>>
  BY DEF Underway, Unanswered
<1>2. proc' = [at |-> "exit", run |-> proc.run, began |-> proc.began, fork |-> proc.fork,
               found |-> proc.found, result |-> proc.result, status |-> "ExecutorError"]
  BY <1>1 DEF Unanswered, Ends, Begun, Shape
<1>3. Shape(proc') /\ ~HasForked(proc') /\ proc'.run = proc.run /\ proc'.began = proc.began
  BY <1>2 DEF Shape, HasForked
<1>4. Begun(proc)'
  BY <1>1, <1>3 DEF Begun, Ready
<1> QED BY <1>3, <1>4 DEF Underway

(* Where nobody is the call returns no bytes. *)
LEMMA NobodyAnswers ==
  ASSUME NEW block, NEW to, NEW message, block.code[to] = Nothing
  PROVE  CallAt(block, to, message) = Reply("ok", NoBytes)
BY DEF CallAt, Nothing

(* To ask Rainlang for an address ends the command only where it is not. *)
LEMMA FindsUnderway ==
  ASSUME World, Underway, NEW part \in {"deployer", "interpreter", "store"}, NEW after,
         Finds(part, after), after # "exit"
  PROVE  /\ OnItsWay /\ proc.at = part /\ UNCHANGED <<chain, script, fixture, file>>
         /\ \/ Underway'
            \/ /\ HasRainlang(Forked, proc.run)
               /\ proc' = [at |-> after, run |-> proc.run, began |-> proc.began, fork |-> proc.fork,
                           found |-> With(proc.found, part, Zoltu(part)),
                           result |-> proc.result, status |-> proc.status]
<1> DEFINE to == RainlangAt(Network)
           reply == ReplyOf(to, AddressOf(part))
           next == [proc EXCEPT !.at = after, !.found = With(@, part, reply.data.address)]
<1>1. proc.at = part /\ UNCHANGED <<chain, script, fixture>>
      /\ Calls(to, AddressOf(part), "address", next)
  BY DEF Finds, Running
<1>2. OnItsWay
  BY <1>1, WayFacts
<1>3. to \in Address /\ to.part = "rainlang"
  BY DEF RainlangAt, Zoltu, Own, Address, Parts
<1>4. Forked.code[to] \in {"rainlang", Nothing}
  BY <1>2, <1>3 DEF OnItsWay, PlacedAll
<1>5. CASE Forked.code[to] = "rainlang"
  <2>1. reply = Reply("ok", [address |-> Zoltu(part)])
    BY <1>5, RainlangAnswers DEF ReplyOf
  <2>2. reply.exit = "ok" /\ "address" \in DOMAIN reply.data /\ reply.data.address = Zoltu(part)
    BY <2>1 DEF Reply
  <2>3. UNCHANGED file /\ proc' = next
    BY <1>1, <2>2, CallCases
  <2>4. next = [proc EXCEPT !.at = after, !.found = With(@, part, Zoltu(part))]
    BY <2>2
  <2>5. proc' = [at |-> after, run |-> proc.run, began |-> proc.began, fork |-> proc.fork,
                 found |-> With(proc.found, part, Zoltu(part)),
                 result |-> proc.result, status |-> proc.status]
    BY <1>2, <2>3, <2>4 DEF OnItsWay, Begun, Shape
  <2>6. HasRainlang(Forked, proc.run)
    BY <1>5 DEF HasRainlang, Network
  <2> QED BY <1>1, <1>2, <2>3, <2>5, <2>6
<1>6. CASE Forked.code[to] = Nothing
  <2>1. reply = Reply("ok", NoBytes)
    BY <1>6, NobodyAnswers DEF ReplyOf
  <2>2. reply.exit = "ok" /\ "address" \notin DOMAIN reply.data
    BY <2>1 DEF Reply, NoBytes
  <2>3. UNCHANGED file /\ Ends("TypedError")
    <3> HIDE DEF reply, next
    <3> QED BY <1>1, <2>2, CallCases DEF reply
  <2>4. ~HasRainlang(Forked, proc.run)
    BY <1>6 DEF HasRainlang, Network, Nothing
  <2>5. Answered([status |-> "TypedError", run |-> proc.run], Forked, file')
    BY <2>4 DEF Answered, Reverted, Serves, HasRainlang
  <2>6. Underway'
    BY <1>1, <1>2, <2>3, <2>5, EndsTruly
  <2> QED BY <1>1, <1>2, <2>3, <2>6
<1> QED BY <1>4, <1>5, <1>6

LEMMA FindDeployerUnderway ==
  ASSUME World, Underway, FindDeployer
  PROVE  Underway'
<1> DEFINE after == IF proc.run.cmd = "parse" THEN "parse" ELSE "interpreter"
           found == With(proc.found, "deployer", Zoltu("deployer"))
<1>1. Finds("deployer", after) /\ after \in {"parse", "interpreter"}
  BY DEF FindDeployer
<1>2. /\ OnItsWay /\ UNCHANGED <<chain, script, fixture, file>>
      /\ \/ Underway'
         \/ /\ HasRainlang(Forked, proc.run)
            /\ proc' = [at |-> after, run |-> proc.run, began |-> proc.began, fork |-> proc.fork,
                        found |-> found, result |-> proc.result, status |-> proc.status]
  <2> HIDE DEF after
  <2> QED BY <1>1, FindsUnderway
<1>3. "deployer" \in DOMAIN found /\ found["deployer"] = Zoltu("deployer")
  BY DEF With
<1> HIDE DEF found
<1>4. ASSUME HasRainlang(Forked, proc.run),
             proc' = [at |-> after, run |-> proc.run, began |-> proc.began, fork |-> proc.fork,
                      found |-> found, result |-> proc.result, status |-> proc.status]
      PROVE  Underway'
  <2>1. proc.run.cmd \in {"parse", "eval"}
    BY <1>2, InvocationsAssumption DEF OnItsWay, Begun, Invocation
  <2>2. Knows(proc', Forked, file')
    BY <1>3, <1>4, <2>1 DEF Knows, Located
  <2> QED BY <1>1, <1>2, <1>4, <2>2, GoesOn
<1> QED BY <1>2, <1>4

LEMMA FindInterpreterUnderway ==
  ASSUME World, Underway, FindInterpreter
  PROVE  Underway'
<1> DEFINE found == With(proc.found, "interpreter", Zoltu("interpreter"))
<1>1. /\ OnItsWay /\ proc.at = "interpreter" /\ UNCHANGED <<chain, script, fixture, file>>
      /\ \/ Underway'
         \/ /\ HasRainlang(Forked, proc.run)
            /\ proc' = [at |-> "store", run |-> proc.run, began |-> proc.began, fork |-> proc.fork,
                        found |-> found, result |-> proc.result, status |-> proc.status]
  BY FindsUnderway DEF FindInterpreter
<1>2. /\ "interpreter" \in DOMAIN found /\ found["interpreter"] = Zoltu("interpreter")
      /\ "deployer" \in DOMAIN proc.found =>
           "deployer" \in DOMAIN found /\ found["deployer"] = proc.found["deployer"]
  BY DEF With
<1> HIDE DEF found
<1>3. Located(proc, "deployer") /\ proc.run.cmd = "eval"
  BY <1>1 DEF OnItsWay, Knows
<1>4. ASSUME HasRainlang(Forked, proc.run),
             proc' = [at |-> "store", run |-> proc.run, began |-> proc.began, fork |-> proc.fork,
                      found |-> found, result |-> proc.result, status |-> proc.status]
      PROVE  Underway'
  <2>1. Knows(proc', Forked, file')
    BY <1>2, <1>3, <1>4 DEF Knows, Located
  <2> QED BY <1>1, <1>4, <2>1, GoesOn
<1> QED BY <1>1, <1>4

LEMMA FindStoreUnderway ==
  ASSUME World, Underway, FindStore
  PROVE  Underway'
<1> DEFINE found == With(proc.found, "store", Zoltu("store"))
<1>1. /\ OnItsWay /\ proc.at = "store" /\ UNCHANGED <<chain, script, fixture, file>>
      /\ \/ Underway'
         \/ /\ HasRainlang(Forked, proc.run)
            /\ proc' = [at |-> "parse", run |-> proc.run, began |-> proc.began, fork |-> proc.fork,
                        found |-> found, result |-> proc.result, status |-> proc.status]
  BY FindsUnderway DEF FindStore
<1>2. /\ "store" \in DOMAIN found /\ found["store"] = Zoltu("store")
      /\ \A part \in {"deployer", "interpreter"} : part \in DOMAIN proc.found =>
           part \in DOMAIN found /\ found[part] = proc.found[part]
  BY DEF With
<1> HIDE DEF found
<1>3. Located(proc, "deployer") /\ Located(proc, "interpreter")
  BY <1>1 DEF OnItsWay, Knows
<1>4. ASSUME HasRainlang(Forked, proc.run),
             proc' = [at |-> "parse", run |-> proc.run, began |-> proc.began, fork |-> proc.fork,
                      found |-> found, result |-> proc.result, status |-> proc.status]
      PROVE  Underway'
  <2>1. Knows(proc', Forked, file')
    BY <1>2, <1>3, <1>4 DEF Knows, Located
  <2> QED BY <1>1, <1>4, <2>1, GoesOn
<1> QED BY <1>1, <1>4

(* The deployer's answer to a text. *)
LEMMA ParserAnswers ==
  ASSUME NEW block \in Block, PlacedAll(block), NEW text
  PROVE  LET reply == CallAt(block, Zoltu("deployer"), Parse2(text)) IN
           \/ block.code[Zoltu("deployer")] = Nothing /\ reply = Reply("ok", NoBytes)
           \/ /\ block.code[Zoltu("deployer")] = "deployer"
              /\ block.code[Zoltu("parser")] # "parser" \/ ~text.parses
              /\ reply = Reverts
           \/ /\ block.code[Zoltu("deployer")] = "deployer"
              /\ block.code[Zoltu("parser")] = "parser" /\ text.parses
              /\ reply = Reply("ok", [bytecode |-> text])
<1>1. block.code[Zoltu("deployer")] \in {"deployer", Nothing}
  BY ZoltuFacts, AddressFacts DEF PlacedAll, Parts
<1>2. CASE block.code[Zoltu("deployer")] = Nothing
  BY <1>2, NobodyAnswers
<1>3. CASE block.code[Zoltu("deployer")] = "deployer"
  <2>1. CallAt(block, Zoltu("deployer"), Parse2(text)) = OnDeployer(block, Parse2(text))
    BY <1>3 DEF CallAt, Nothing
  <2>2. CASE block.code[Zoltu("parser")] # "parser"
    <3>1. OnDeployer(block, Parse2(text)) = Reverts
      BY <2>2 DEF OnDeployer
    <3> QED BY <1>3, <2>1, <2>2, <3>1
  <2>3. CASE block.code[Zoltu("parser")] = "parser" /\ text.parses
    <3>1. OnDeployer(block, Parse2(text)) = Reply("ok", [bytecode |-> text])
      BY <2>3 DEF OnDeployer, Parse2
    <3> QED BY <1>3, <2>1, <2>3, <3>1
  <2>4. CASE block.code[Zoltu("parser")] = "parser" /\ ~text.parses
    <3>1. OnDeployer(block, Parse2(text)) = Reverts
      BY <2>4 DEF OnDeployer, Parse2
    <3> QED BY <1>3, <2>1, <2>4, <3>1
  <2> QED BY <2>2, <2>3, <2>4
<1> QED BY <1>1, <1>2, <1>3

(* The interpreter's. *)
LEMMA InterpreterAnswers ==
  ASSUME NEW block \in Block, PlacedAll(block), NEW text, NEW context
  PROVE  LET reply == CallAt(block, Zoltu("interpreter"), Eval4(text, Zoltu("store"), context))
             stored == text.reads => block.code[Zoltu("store")] = "store"
         IN
           \/ block.code[Zoltu("interpreter")] = Nothing /\ reply = Reply("ok", NoBytes)
           \/ block.code[Zoltu("interpreter")] = "interpreter" /\ ~stored /\ reply = Reverts
           \/ /\ block.code[Zoltu("interpreter")] = "interpreter" /\ stored /\ text.exit # "ok"
              /\ reply = Reply(text.exit, NoBytes)
           \/ /\ block.code[Zoltu("interpreter")] = "interpreter" /\ stored /\ text.exit = "ok"
              /\ reply = Reply("ok", [read    |-> IF text.reads THEN block.held[Zoltu("store")]
                                                  ELSE 0,
                                      context |-> context])
<1> DEFINE message == Eval4(text, Zoltu("store"), context)
           stored == text.reads => block.code[Zoltu("store")] = "store"
<1>1. block.code[Zoltu("interpreter")] \in {"interpreter", Nothing}
  BY ZoltuFacts, AddressFacts DEF PlacedAll, Parts
<1>2. CASE block.code[Zoltu("interpreter")] = Nothing
  BY <1>2, NobodyAnswers
<1>3. CASE block.code[Zoltu("interpreter")] = "interpreter"
  <2>1. CallAt(block, Zoltu("interpreter"), message) = OnInterpreter(block, message)
    BY <1>3 DEF CallAt, Nothing
  <2>2. /\ message.call = "eval4" /\ message.text = text /\ message.store = Zoltu("store")
        /\ message.context = context
    BY DEF Eval4
  <2> HIDE DEF message
  <2>3. CASE ~stored
    <3>1. OnInterpreter(block, message) = Reverts
      BY <2>2, <2>3 DEF OnInterpreter
    <3> QED BY <1>3, <2>1, <2>3, <3>1 DEF message
  <2>4. CASE stored /\ text.exit # "ok"
    <3>1. OnInterpreter(block, message) = Reply(text.exit, NoBytes)
      BY <2>2, <2>4 DEF OnInterpreter
    <3> QED BY <1>3, <2>1, <2>4, <3>1 DEF message
  <2>5. CASE stored /\ text.exit = "ok"
    <3>1. OnInterpreter(block, message) =
            Reply("ok", [read |-> IF text.reads THEN block.held[Zoltu("store")] ELSE 0,
                         context |-> context])
      BY <2>2, <2>5 DEF OnInterpreter
    <3> QED BY <1>3, <2>1, <2>5, <3>1 DEF message
  <2> QED BY <2>3, <2>4, <2>5
<1> QED BY <1>1, <1>2, <1>3

LEMMA ParseUnderway ==
  ASSUME World, Underway, ParseText
  PROVE  Underway'
<1> DEFINE to == proc.found["deployer"]
           run == proc.run
           message == Parse2(run.text)
           reply == ReplyOf(to, message)
           at == IF run.cmd = "parse" THEN "output" ELSE "eval"
           next == [proc EXCEPT !.at = at, !.result = reply.data]
<1>1. /\ proc.at = "parse" /\ UNCHANGED <<chain, script, fixture>>
      /\ Calls(to, message, "bytecode", next)
  BY DEF ParseText, Running
<1>2. OnItsWay /\ run \in Invocation
  BY <1>1, WayFacts, InvocationsAssumption DEF OnItsWay, Begun
<1>3. /\ HasRainlang(Forked, run) /\ to = Zoltu("deployer")
      /\ run.cmd = "parse" \/ (Located(proc, "interpreter") /\ Located(proc, "store"))
  BY <1>1, <1>2 DEF OnItsWay, Knows, Located
<1>4. /\ \/ Forked.code[Zoltu("deployer")] = Nothing /\ reply = Reply("ok", NoBytes)
         \/ /\ Forked.code[Zoltu("deployer")] = "deployer"
            /\ Forked.code[Zoltu("parser")] # "parser" \/ ~run.text.parses
            /\ reply = Reverts
         \/ /\ Forked.code[Zoltu("deployer")] = "deployer"
            /\ Forked.code[Zoltu("parser")] = "parser" /\ run.text.parses
            /\ reply = Reply("ok", [bytecode |-> run.text])
      /\ UNCHANGED file
  BY <1>1, <1>2, <1>3, ParserAnswers, CallCases DEF ReplyOf, OnItsWay
<1>5. /\ Serves(Forked, run) =>
           /\ Forked.code[Zoltu("deployer")] = "deployer"
           /\ Forked.code[Zoltu("parser")] = "parser" /\ run.text.parses
      /\ OffersAll(Forked) =>
           /\ Forked.code[Zoltu("deployer")] = "deployer"
           /\ Forked.code[Zoltu("parser")] = "parser"
  BY DEF Serves, Needed, OffersAll, Names
<1> HIDE DEF to, message, reply, next
<1>6. CASE Forked.code[Zoltu("deployer")] = Nothing /\ reply = Reply("ok", NoBytes)
  <2>1. reply.exit = "ok" /\ "bytecode" \notin DOMAIN reply.data
    BY <1>6 DEF Reply, NoBytes
  <2>2. Ends("TypedError")
    BY <1>1, <2>1, CallCases DEF reply
  <2>3. Nothing # "deployer"
    BY DEF Nothing
  <2>4. Answered([status |-> "TypedError", run |-> run], Forked, file')
    BY <1>5, <1>6, <2>3 DEF Answered, Reverted
  <2> QED BY <1>1, <1>2, <2>2, <2>4, EndsTruly
<1>7. CASE /\ Forked.code[Zoltu("parser")] # "parser" \/ ~run.text.parses
           /\ reply = Reverts
  <2>1. reply.exit = "Revert"
    BY <1>7 DEF Reverts, Reply
  <2>2. PICK status \in Reverted : Ends(status) /\ (status # "Failed" => run.decode)
    BY <1>1, <2>1, CallCases DEF reply
  <2>3. Answered([status |-> status, run |-> run], Forked, file')
    BY <1>3, <1>5, <1>7, <2>2 DEF Answered, Reverted, Faulty
  <2> QED BY <1>1, <1>2, <2>2, <2>3, EndsTruly
<1>8. CASE /\ Forked.code[Zoltu("deployer")] = "deployer"
           /\ Forked.code[Zoltu("parser")] = "parser" /\ run.text.parses
           /\ reply = Reply("ok", [bytecode |-> run.text])
  <2>1. reply.exit = "ok" /\ "bytecode" \in DOMAIN reply.data
        /\ reply.data = [bytecode |-> run.text]
    BY <1>8 DEF Reply
  <2>2. proc' = next
    BY <1>1, <2>1, CallCases DEF reply
  <2>3. proc' = [at |-> at, run |-> run, began |-> proc.began, fork |-> proc.fork,
                 found |-> proc.found, result |-> [bytecode |-> run.text],
                 status |-> proc.status]
    BY <1>2, <2>1, <2>2 DEF OnItsWay, Begun, Shape, next
  <2>4. CASE run.cmd = "parse"
    <3>1. Serves(Forked, run)
      BY <1>3, <1>8, <2>4 DEF Serves, Needed, HasRainlang
    <3>2. Written(proc') = Promised(Forked, run)
      BY <2>3, <2>4 DEF Written, Promised
    <3>3. proc'.at = "output" /\ proc'.run = run
      BY <2>3, <2>4
    <3>4. Knows(proc', Forked, file')
      BY <3>1, <3>2, <3>3 DEF Knows
    <3> QED BY <1>1, <1>2, <2>3, <3>4, GoesOn
  <2>5. CASE run.cmd # "parse"
    <3>1. run.cmd = "eval"
      BY <1>2, <2>5 DEF Invocation
    <3>2. /\ proc'.at = "eval" /\ proc'.run = run /\ proc'.found = proc.found
          /\ proc'.result = [bytecode |-> run.text]
      BY <2>3, <2>5
    <3>3. Located(proc, "deployer")
      BY <1>1, <1>2 DEF OnItsWay, Knows
    <3>4. Knows(proc', Forked, file')
      BY <1>3, <1>8, <3>1, <3>2, <3>3 DEF Knows, Located
    <3> QED BY <1>1, <1>2, <2>3, <3>4, GoesOn
  <2> QED BY <2>4, <2>5
<1> QED BY <1>4, <1>6, <1>7, <1>8

LEMMA EvaluateUnderway ==
  ASSUME World, Underway, Evaluate
  PROVE  Underway'
<1> DEFINE to == proc.found["interpreter"]
           run == proc.run
           context == Matrix(run.context)
           message == Eval4(proc.result.bytecode, proc.found["store"], context)
           reply == ReplyOf(to, message)
           next == [proc EXCEPT !.at = "output", !.result = reply.data]
           stored == run.text.reads => Forked.code[Zoltu("store")] = "store"
           data == [read    |-> IF run.text.reads THEN Forked.held[Zoltu("store")] ELSE 0,
                    context |-> context]
<1>1. /\ proc.at = "eval" /\ UNCHANGED <<chain, script, fixture>>
      /\ Calls(to, message, "read", next)
  BY DEF Evaluate, Running
<1>2. OnItsWay /\ run \in Invocation
  BY <1>1, WayFacts, InvocationsAssumption DEF OnItsWay, Begun
<1>3. /\ HasRainlang(Forked, run) /\ run.cmd = "eval"
      /\ Located(proc, "interpreter") /\ Located(proc, "store")
      /\ Forked.code[Zoltu("deployer")] = "deployer" /\ Forked.code[Zoltu("parser")] = "parser"
      /\ run.text.parses /\ proc.result = [bytecode |-> run.text]
  BY <1>1, <1>2 DEF OnItsWay, Knows
<1>4. to = Zoltu("interpreter") /\ message = Eval4(run.text, Zoltu("store"), context)
  BY <1>3 DEF Located
<1>5. /\ \/ Forked.code[Zoltu("interpreter")] = Nothing /\ reply = Reply("ok", NoBytes)
         \/ /\ Forked.code[Zoltu("interpreter")] = "interpreter" /\ ~stored
            /\ reply = Reverts
         \/ /\ Forked.code[Zoltu("interpreter")] = "interpreter" /\ stored
            /\ run.text.exit # "ok" /\ reply = Reply(run.text.exit, NoBytes)
         \/ /\ Forked.code[Zoltu("interpreter")] = "interpreter" /\ stored
            /\ run.text.exit = "ok" /\ reply = Reply("ok", data)
      /\ UNCHANGED file
  <2>1. reply = CallAt(Forked, Zoltu("interpreter"), Eval4(run.text, Zoltu("store"), context))
    BY <1>4 DEF ReplyOf
  <2>2. UNCHANGED file
    BY <1>1, CallCases
  <2> HIDE DEF reply, message, to, next, context
  <2> QED BY <1>2, <2>1, <2>2, InterpreterAnswers DEF OnItsWay
<1>6. /\ Serves(Forked, run) =>
           /\ Forked.code[Zoltu("interpreter")] = "interpreter" /\ stored
           /\ run.text.exit = "ok"
      /\ OffersAll(Forked) =>
           Forked.code[Zoltu("interpreter")] = "interpreter" /\ stored
  BY <1>3 DEF Serves, Needed, OffersAll, Names
<1> HIDE DEF to, message, reply, next, stored, context
<1>7. CASE Forked.code[Zoltu("interpreter")] = Nothing /\ reply = Reply("ok", NoBytes)
  <2>1. reply.exit = "ok" /\ "read" \notin DOMAIN reply.data
    BY <1>7 DEF Reply, NoBytes
  <2>2. Ends("TypedError")
    BY <1>1, <2>1, CallCases DEF reply
  <2>3. Nothing # "interpreter"
    BY DEF Nothing
  <2>4. Answered([status |-> "TypedError", run |-> run], Forked, file')
    BY <1>6, <1>7, <2>3 DEF Answered, Reverted
  <2> QED BY <1>1, <1>2, <2>2, <2>4, EndsTruly
<1>8. CASE ~stored /\ reply = Reverts
  <2>1. reply.exit = "Revert"
    BY <1>8 DEF Reverts, Reply
  <2>2. PICK status \in Reverted : Ends(status) /\ (status # "Failed" => run.decode)
    BY <1>1, <2>1, CallCases DEF reply
  <2>3. Answered([status |-> status, run |-> run], Forked, file')
    BY <1>3, <1>6, <1>8, <2>2 DEF Answered, Reverted
  <2> QED BY <1>1, <1>2, <2>2, <2>3, EndsTruly
<1>9. CASE run.text.exit # "ok" /\ reply = Reply(run.text.exit, NoBytes)
  <2>1. reply.exit = run.text.exit
    BY <1>9 DEF Reply
  <2>2. PICK status \in Reverted :
          Ends(status) /\ (status # "Failed" => run.decode /\ run.text.exit = "Revert")
    BY <1>1, <1>9, <2>1, CallCases DEF reply
  <2>3. Answered([status |-> status, run |-> run], Forked, file')
    BY <1>3, <1>6, <1>9, <2>2 DEF Answered, Reverted, Faulty
  <2> QED BY <1>1, <1>2, <2>2, <2>3, EndsTruly
<1>10. CASE /\ Forked.code[Zoltu("interpreter")] = "interpreter" /\ stored
            /\ run.text.exit = "ok" /\ reply = Reply("ok", data)
  <2>1. reply.exit = "ok" /\ "read" \in DOMAIN reply.data /\ reply.data = data
    BY <1>10 DEF Reply
  <2>2. proc' = next
    BY <1>1, <2>1, CallCases DEF reply
  <2>3. proc' = [at |-> "output", run |-> run, began |-> proc.began, fork |-> proc.fork,
                 found |-> proc.found, result |-> data, status |-> proc.status]
    BY <1>2, <2>1, <2>2 DEF OnItsWay, Begun, Shape, next
  <2>4. Serves(Forked, run)
    BY <1>3, <1>10 DEF Serves, Needed, HasRainlang, stored
  <2>5. Written(proc') = Promised(Forked, run)
    BY <1>3, <2>3 DEF Written, Promised, context
  <2>6. proc'.at = "output" /\ proc'.run = run
    BY <2>3
  <2>7. Knows(proc', Forked, file')
    BY <2>4, <2>5, <2>6 DEF Knows
  <2> QED BY <1>1, <1>2, <2>3, <2>7, GoesOn
<1> QED BY <1>5, <1>7, <1>8, <1>9, <1>10

LEMMA WriteUnderway ==
  ASSUME World, Underway, Write \/ WriteFails
  PROVE  Underway'
<1>1. proc.at = "output" /\ UNCHANGED <<chain, script, fixture>>
  BY DEF Write, WriteFails, Running
<1>2. OnItsWay
  BY <1>1, WayFacts
<1>3. Serves(Forked, proc.run) /\ Written(proc) = Promised(Forked, proc.run)
  BY <1>1, <1>2 DEF OnItsWay, Knows
<1>4. CASE Write
  <2>1. Ends("ok") /\ file' = Encoded(proc.run.encoding, Written(proc))
    BY <1>4 DEF Write, Output, Written
  <2>2. Answered([status |-> "ok", run |-> proc.run], Forked, file')
    BY <1>3, <2>1 DEF Answered, Reverted
  <2> QED BY <1>1, <1>2, <2>1, <2>2, EndsTruly
<1>5. CASE WriteFails
  <2>1. Ends("output")
    BY <1>5 DEF WriteFails
  <2>2. Answered([status |-> "output", run |-> proc.run], Forked, file')
    BY DEF Answered, Reverted
  <2> QED BY <1>1, <1>2, <2>1, <2>2, EndsTruly
<1> QED BY <1>4, <1>5

-----------------------------------------------------------------------------
ClientInv == World /\ Underway

LEMMA ProcessUnderway ==
  ASSUME World, Underway, Process
  PROVE  Underway'
BY InvokeUnderway, ForksUnderway, ConvertUnderway, FindDeployerUnderway, FindInterpreterUnderway,
   FindStoreUnderway, ParseUnderway, EvaluateUnderway, UnansweredUnderway, WriteUnderway
DEF Process

LEMMA ProcessQuiet == Process => UNCHANGED <<chain, script, fixture>>
BY DEF Process, Invoke, Forks, ConvertArguments, FindDeployer, FindInterpreter, FindStore, Finds,
       ParseText, Evaluate, Unanswered, Write, WriteFails, Running

LEMMA ClientNext ==
  ASSUME ClientInv, [Next]_vars
  PROVE  ClientInv'
<1>1. CASE Process
  BY <1>1, ProcessQuiet, StutterWorld, ProcessUnderway DEF ClientInv
<1>2. CASE Others
  BY <1>2, OthersWorld, OthersUnderway DEF ClientInv, Others
<1>3. CASE UNCHANGED vars
  BY <1>3, StutterWorld, OthersUnderway DEF ClientInv, vars
<1> QED BY <1>1, <1>2, <1>3 DEF Next

THEOREM ClientInvariance == Spec => []ClientInv
<1>1. Init => ClientInv
  BY InitWorld DEF Init, ClientInv, Underway
<1> QED BY <1>1, ClientNext, PTL DEF Spec

(* However the steps of the fixture and the blocks of other networks mix, *)
(* whoever gets a LocalEvm finds all contracts where Rainlang says.       *)
THEOREM FixtureIsWhole == Spec => []FixtureServes
<1>1. ClientInv => FixtureServes
  BY FixtureOffers DEF ClientInv, FixtureServes, OffersAll
<1> QED BY <1>1, ClientInvariance, PTL

(* The calls of a command, whatever it is asked and whatever happens on    *)
(* the network between them, answer together what its text gives at the    *)
(* block it forked, and it fails only where that is nothing.               *)
THEOREM ClientAnswers == Spec => []AnswersFromOneBlock
<1>1. ASSUME ClientInv, proc.at = "exit", proc.status \in {"ok", "TypedError"} \cup Reverted
      PROVE  \E i \in IF proc.run.block = None THEN proc.began .. Len(chain[Network])
                      ELSE {proc.run.block + 1} :
               LET block == chain[Network][i] IN
                 IF proc.status = "ok"
                 THEN /\ Serves(block, proc.run)
                      /\ file = Encoded(proc.run.encoding, Promised(block, proc.run))
                 ELSE ~Serves(block, proc.run)
  <2>1. Begun(proc) /\ ForkOf(proc)
    BY <1>1 DEF ClientInv, Underway, HasForked, Reverted
  <2>2. Answered(proc, chain[Network][proc.fork], file)
    BY <1>1, <2>1 DEF ForkOf, Knows, Network
  <2>3. Network \in AllNetworks
    BY <2>1, InvocationsAssumption DEF Begun, Invocation, AllNetworks, Network
  <2>4. Len(chain[Network]) \in Nat /\ DOMAIN chain[Network] = 1 .. Len(chain[Network])
    BY <1>1, <2>3, WorldTyped, LatestOf DEF ClientInv
  <2>5. proc.fork \in IF proc.run.block = None THEN proc.began .. Len(chain[Network])
                      ELSE {proc.run.block + 1}
    BY <2>1, <2>4 DEF ForkOf, Begun, Network
  <2> QED BY <1>1, <2>2, <2>5 DEF Answered
<1>2. ClientInv => AnswersFromOneBlock
  BY <1>1 DEF AnswersFromOneBlock
<1> QED BY <1>2, ClientInvariance, PTL

(* A supported network at any block, and a test network at its latest, has *)
(* all contracts where it has Rainlang.                                    *)
LEMMA RainlangOffers ==
  ASSUME World, NEW network \in Supported, NEW i \in DOMAIN chain[network],
         chain[network][i].code[Zoltu("rainlang")] = "rainlang"
  PROVE  OffersAll(chain[network][i])
<1>1. WholeIn(chain[network][i])
  BY DEF World, Inv, AllGood, Good
<1> QED BY <1>1 DEF WholeIn, OffersAll, Parts, Nothing

(* Test networks are asked for their latest block.  At an older one, of the *)
(* time when the fixture was not built, Rainlang is alone.                  *)
LatestOfTests == \A run \in Invocations : run.network \in Local => run.block = None

(* The kind of an error tells whose fault it is. *)
THEOREM ClientErrors ==
  ASSUME LatestOfTests
  PROVE  Spec => []ErrorsTellTheCause
<1>1. ASSUME ClientInv, proc.at = "exit", proc.status \in {"TypedError"} \cup Reverted
      PROVE  /\ proc.status = "TypedError" => Forked.code[RainlangAt(Network)] = Nothing
             /\ proc.status \in Reverted => Faulty(proc.run)
             /\ proc.status \in {"AbiDecodedError", "AbiDecodeFailed"} =>
                  proc.run.decode /\ (proc.run.text.parses => proc.run.text.exit = "Revert")
  <2>1. Begun(proc) /\ ForkOf(proc)
    BY <1>1 DEF ClientInv, Underway, HasForked, Reverted
  <2>2. Answered(proc, Forked, file)
    BY <1>1, <2>1 DEF ForkOf, Knows, Forked, Network
  <2>3. Network \in AllNetworks
    BY <2>1, InvocationsAssumption DEF Begun, Invocation, AllNetworks, Network
  <2>4. HasRainlang(Forked, proc.run) => OffersAll(Forked)
    <3>1. CASE Network \in Local
      BY <2>1, <3>1 DEF LatestOfTests, Begun, ForkOf, Forked, Network
    <3>2. CASE Network \in Supported \ Local
      BY <1>1, <2>1, <3>2, RainlangOffers
      DEF ClientInv, HasRainlang, RainlangAt, Forked, Network, ForkOf
    <3> QED BY <2>3, <3>1, <3>2 DEF AllNetworks
  <2>5. Forked.code[RainlangAt(Network)] \in {"rainlang", Nothing}
    <3>1. PlacedAll(Forked)
      BY <1>1, <2>1, <2>3 DEF ClientInv, World, AllPlaced, ForkOf, Forked, Network
    <3>2. RainlangAt(Network) \in Address /\ RainlangAt(Network).part = "rainlang"
      BY DEF RainlangAt, Zoltu, Own, Address, Parts
    <3> QED BY <3>1, <3>2 DEF PlacedAll
  <2>6. proc.status = "TypedError" => Forked.code[RainlangAt(Network)] = Nothing
    BY <2>2, <2>4, <2>5 DEF Answered, HasRainlang, Network
  <2>7. proc.status \in Reverted => Faulty(proc.run) /\ OffersAll(Forked)
    BY <2>2, <2>4 DEF Answered
  <2> QED BY <2>2, <2>6, <2>7 DEF Answered, Reverted
<1>2. ClientInv => ErrorsTellTheCause
  BY <1>1 DEF ErrorsTellTheCause, Faulty, Reverted
<1> QED BY <1>2, ClientInvariance, PTL

(* The parser's client, built at any block, answers at all later ones. *)
THEOREM ClientsOfTheParser == Spec => []ClientsAgree
<1>1. ASSUME ClientInv, NEW network \in AllNetworks, Ready(network),
             NEW i \in DOMAIN chain[network],
             chain[network][i].code[RainlangAt(network)] = "rainlang",
             NEW run \in Invocations, run.cmd = "parse"
      PROVE  LET client == ParserV2(DISPaiR(chain[network][i], RainlangAt(network)))
                 block == Latest(network)
             IN /\ Serves(block, [run EXCEPT !.network = network]) =>
                     Parse(block, client, run.text).data = [bytecode |-> run.text]
                /\ ParsePragma(block, client, run.text) =
                     CallAt(block, Zoltu("parser"), ParsePragma1(run.text))
  <2> DEFINE client == ParserV2(DISPaiR(chain[network][i], RainlangAt(network)))
             block == Latest(network)
             message == ParsePragma1(run.text)
  <2>1. client = Zoltu("deployer")
    <3>1. CallAt(chain[network][i], RainlangAt(network), AddressOf("deployer"))
            = Reply("ok", [address |-> Zoltu("deployer")])
      BY <1>1, RainlangAnswers
    <3> QED BY <3>1 DEF ParserV2, DISPaiR, Reply
  <2>2. ChainsTyped /\ block \in Block /\ PlacedAll(block)
    BY <1>1, WorldTyped, LatestOf DEF ClientInv, World
  <2>3. block.code[Zoltu("deployer")] = "deployer" /\ block.code[Zoltu("parser")] = "parser"
    <3>1. CASE network \in Local
      BY <1>1, <3>1, FixtureOffers DEF ClientInv, OffersAll, Names
    <3>2. CASE network \in Supported \ Local
      <4>1. OffersAll(chain[network][i])
        BY <1>1, <3>2, RainlangOffers DEF ClientInv, RainlangAt
      <4>2. Covers(chain[network][i], block)
        BY <1>1 DEF ClientInv, World, Lasting
      <4>3. \A part \in {"deployer", "parser"} :
              Zoltu(part) \in Address /\ chain[network][i].code[Zoltu(part)] = part
              /\ part # Nothing /\ Zoltu(part).part = part
        BY <4>1, ZoltuFacts, AddressFacts DEF OffersAll, Names, Parts, Nothing
      <4> HIDE DEF block
      <4> QED BY <2>2, <4>2, <4>3 DEF Covers, PlacedAll
    <3> QED BY <3>1, <3>2 DEF AllNetworks
  <2> HIDE DEF client, block
  <2>4. ASSUME Serves(block, [run EXCEPT !.network = network])
        PROVE  Parse(block, client, run.text).data = [bytecode |-> run.text]
    <3>1. run.text.parses
      <4>1. [run EXCEPT !.network = network].text = run.text
        BY InvocationsAssumption DEF Invocation
      <4> QED BY <2>4, <4>1 DEF Serves
    <3>2. CallAt(block, Zoltu("deployer"), Parse2(run.text)) = Reply("ok", [bytecode |-> run.text])
      BY <2>2, <2>3, <3>1, ParserAnswers DEF Nothing
    <3> QED BY <2>1, <3>2 DEF Parse, Reply
  <2>5. CallAt(block, Zoltu("deployer"), message) = OnParser(message)
    <3>1. CallAt(block, Zoltu("deployer"), message) = OnDeployer(block, message)
      BY <2>3 DEF CallAt, Nothing
    <3>2. message.call = "parsePragma1"
      BY DEF ParsePragma1
    <3> HIDE DEF message
    <3> QED BY <2>3, <3>1, <3>2 DEF OnDeployer
  <2>6. CallAt(block, Zoltu("parser"), message) = OnParser(message)
    BY <2>3 DEF CallAt, Nothing
  <2> QED BY <2>1, <2>4, <2>5, <2>6 DEF ParsePragma, client, block
<1>2. ClientInv => ClientsAgree
  BY <1>1 DEF ClientsAgree, AllNetworks
<1> QED BY <1>2, ClientInvariance, PTL
=============================================================================
