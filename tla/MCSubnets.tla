----------------------------- MODULE MCSubnets -----------------------------
(***************************************************************************)
(* What the subtensor pallet computes for a subnet, for TLC: the epoch,    *)
(* the stake that parents lend and the dividends that come back, the terms *)
(* a block sets, the hyperparameters with the views and precompiles that   *)
(* read them, and the bitmap in which the swap pallet finds ticks.         *)
(*                                                                         *)
(* As in MCPallets a behaviour moves one part, chosen first, and the       *)
(* others are not there.  "Evm" is the hyperparameters together with the   *)
(* precompiles, which write them too.                                      *)
(***************************************************************************)
EXTENDS TickBitmap, Epoch, Dividends, BlockTerms, Precompiles

CONSTANTS
    MaxSteps,       \* bound on what a behaviour spends, by part
    MaxEvmBlock     \* bound on the block number where precompiles are called

VARIABLES part, steps

vars == <<part, steps, words, answer, yuma, kin, terms, hyper, evm>>

\* The initial states of the chosen part; another one is not there.
StatesOf(names, initial) == IF part \in names THEN initial ELSE {"absent"}

\* The bitmap is always there, empty, as the set it implements is.
Init ==
    /\ part \in DOMAIN MaxSteps
    /\ steps = 0
    /\ TickInit
    /\ yuma \in StatesOf({"Epoch"}, EpochInitial)
    /\ kin \in StatesOf({"Dividends"}, DividendsInitial)
    /\ terms \in StatesOf({"Terms", "Emission"}, BlockTermsInitial)
    /\ part = "Terms" => terms.issuance = 0
    /\ part = "Emission" => terms.maxDifficulty # [n \in TermNets |-> U64Max]
    /\ hyper \in StatesOf({"Hyper", "Evm"}, {HyperInitial})
    /\ evm \in StatesOf({"Evm"}, {EvmInitial})

\* Parameters that guard one another, of which two may change in a behaviour.
Paired == {"WeightsVersionKey", "LiquidAlphaOn", "AlphaValues", "Tempo", "MaxAllowedUids"}

\* Registration terms and emission have only the block in common, and are moved
\* by calls one at a time.
OfEmission == {"price", "firstEmission", "closed"}
OfTerms == {"pow", "burned", "difficulty", "minBurn", "maxBurn", "minDifficulty", "maxDifficulty"}
Kept(fields) == terms'.block = terms.block => \A f \in fields : terms'[f] = terms[f]

\* What a step spends: blocks and networks are free; a change of a term costs
\* as much as three registrations.
Cost == CASE
    part = "Epoch" -> IF yuma'.block = yuma.block THEN 1 ELSE 0
 [] part = "Terms" ->
        IF terms'.block # terms.block THEN 0
        ELSE IF \E f \in {"pow", "burned"} : terms'[f] # terms[f] THEN 1 ELSE 3
 [] part = "Hyper" ->
        IF hyper'.block # hyper.block \/ hyper'.exists # hyper.exists THEN 0
        ELSE IF hyper'.registrations # hyper.registrations THEN 1
        ELSE IF \E n \in HyperNetuids, p \in Paired : Changed(n, p) THEN 1 ELSE 2
 [] part = "Evm" ->
        IF hyper'.block # hyper.block \/ hyper'.exists # hyper.exists THEN 0
        ELSE IF hyper' = hyper \/ hyper'.global.PrecompileEnable # hyper.global.PrecompileEnable THEN 1 ELSE 2
 [] OTHER -> 0

PayStep == steps' = steps + Cost /\ steps' <= MaxSteps[part] /\ UNCHANGED part

BitmapMoves == part = "Bitmap" /\ TickNext /\ PayStep /\ UNCHANGED <<yuma, kin, terms, hyper, evm>>
EpochMoves == part = "Epoch" /\ EpochNext /\ PayStep /\ UNCHANGED <<words, answer, kin, terms, hyper, evm>>
DividendsMove == part = "Dividends" /\ DividendsNext /\ PayStep /\ UNCHANGED <<words, answer, yuma, terms, hyper, evm>>
TermsMove == part = "Terms" /\ terms.block < MaxTermBlock /\ BlockTermsNext /\ Kept(OfEmission) /\ PayStep /\ UNCHANGED <<words, answer, yuma, kin, hyper, evm>>
EmissionMoves == part = "Emission" /\ terms.block < MaxTermBlock /\ BlockTermsNext /\ Kept(OfTerms) /\ PayStep /\ UNCHANGED <<words, answer, yuma, kin, hyper, evm>>
HyperMoves == part = "Hyper" /\ HyperNext /\ PayStep /\ UNCHANGED <<words, answer, yuma, kin, terms, evm>>
EvmMoves == part = "Evm" /\ steps < MaxSteps["Evm"] /\ PrecompilesNext /\ hyper'.block <= MaxEvmBlock /\ PayStep
            /\ UNCHANGED <<words, answer, yuma, kin, terms>>

Next == BitmapMoves \/ EpochMoves \/ DividendsMove \/ TermsMove \/ EmissionMoves \/ HyperMoves \/ EvmMoves

Spec == Init /\ [][Next]_vars

-----------------------------------------------------------------------------
(* What is checked: the properties of each module, which states and explains
   them one by one, for the behaviours that move it. *)

\* The upper layers of the tick bitmap mark exactly the words below that are
\* not empty, over any inserts and removals (tick.rs, ActiveTickIndexManager).
LayersSound == part = "Bitmap" => UpperLayersExact

\* The bitmap with its three layers implements a set of ticks: what is found is
\* the nearest active tick (find_closest).
ImplementsTickSet == BitmapIsASet

\* The epoch on matrices and on sparse rows is one function, pays no more than
\* the emission, and gives bonds to permitted validators only (run_epoch.rs).
EpochSound == part = "Epoch" => DenseAndSparseAgree /\ EpochPaysAtMostEmission /\ BondsNeedAPermit

\* Incentive needs the weight of an active, permitted validator set since the
\* miner registered, and permits go to the highest stakes (epoch).
EpochStepsSound == [][part = "Epoch" => IncentiveComesFromLiveWeights /\ PermitsGoToTopStake]_vars

\* Inherited stake neither appears nor vanishes while children and parents list
\* one another, dividends never do, parents listed twice or not, and validators
\* rank by the stake the epoch saw (get_inherited_for_hotkey_on_subnet,
\* run_coinbase.rs).
KinSound == part = "Dividends" => InheritanceConserves /\ DividendsConserve /\ PaysWithinPending /\ ValidatorsByTableWeight

\* Block after block, emission stays within the supply, burn and difficulty
\* are brought within the bounds in force and moved by the demand, and the moving
\* price stays between the old one and the spot (block_emission.rs, block_step.rs,
\* stake_utils.rs).
TermsSound == part \in {"Terms", "Emission"} => SupplyNeverExceeded /\ TermsWithinBounds /\ DemandSetsTerms /\ MovingPriceBetween

\* Whoever signs what: parameters keep within the limits that relate them,
\* signers change only what is theirs to change, a version key waits its
\* epochs, what the code resets for a new subnet does not depend on the last one,
\* and the price of a network decays (admin-utils, owner hyperparameters,
\* coinbase/root.rs).
ParametersSound == [][part = "Hyper" =>
    /\ LimitsHold'
    /\ SignersKeepToTheirSubnets /\ VersionKeyChangesAreApart /\ ResetParametersAreFresh /\ LockCostOnlyDecays]_vars

\* What the owner or root gave a subnet goes with it, and does not configure the
\* next subnet under its netuid (coinbase/root.rs, "Explicitly erase the network
\* and all its parameters").
ParametersErased == [][part = "Hyper" => NothingLeftBehind]_vars

\* The views that read the same storage by different ways agree with one
\* another and with the selective one (rpc_info).
ViewsSound == part = "Hyper" => SelectiveIsTheFull /\ SubnetViewsAgree /\ NeuronViewsAgree

\* The precompiles that pass value on keep none of it, and precompiles read what
\* the RPC reads (staking.rs, balance_transfer.rs, subnet.rs, metagraph.rs).
PrecompilesSound == part = "Evm" => PrecompilesKeepNothing /\ EvmViewsAgree

\* What a contract calls moves the caller's funds alone and sets the parameter
\* the method is named after (precompiles, staking.rs and subnet.rs).
CallsSound == [][part = "Evm" => FundsMoveForTheirOwner /\ SettersSetTheirOwn]_vars
-----------------------------------------------------------------------------
(* The constants of the parts. *)

MCMaxSteps == [name \in {"Bitmap", "Epoch", "Dividends", "Terms", "Emission", "Hyper", "Evm"} |-> IF name = "Terms" THEN 9 ELSE 2]

MCPrice == [t \in -TickMax .. TickMax |-> 100 + 10 * t]

\* A rational stand-in for the exponential, of its first terms.
MCExp(x) == IF x >= 0 THEN One + x + (x * x) \div (2 * One) ELSE (One * One) \div (One - x + (x * x) \div (2 * One))

\* Subnets of each kind of epoch, the last with liquid alpha and reset bonds.
Kind(yuma3, liquid, owner, penalty) ==
    [kappa |-> 8, bonds_penalty |-> penalty, bonds_moving_average |-> 9, yuma3 |-> yuma3, liquid_alpha |-> liquid,
     alpha_low |-> 5, alpha_high |-> 12, steepness |-> 100, owner_uid |-> owner, bonds_reset |-> liquid,
     max_weight_limit |-> IF liquid THEN 11 ELSE 15]
MCParams == {Kind(FALSE, FALSE, 0, 15), Kind(TRUE, FALSE, 1, 5), Kind(TRUE, TRUE, 1, 0)}
MCStakes == {<<1, 4, 3>>, <<5, 0, 0>>}
MCRows == {<<<<1, 5>>, <<3, 15>>>>, <<<<2, 15>>, <<3, 7>>>>, <<<<3, 9>>, <<1, 3>>, <<2, 9>>>>, <<<<1, 9>>>>}
MCPairs == {<<1, 6>>, <<7, 2>>}

\* Two hotkeys of one owner and one of another, with their stakes on the
\* subnet and on root.
By(a, b, c) == "k1" :> a @@ "k2" :> b @@ "k3" :> c
MCOwner == By("x", "x", "y")
NoFamily == By(<<>>, <<>>, <<>>)
\* Of the families the second is what a swap of a parent to another parent of
\* the same child leaves (run ChildKeysDuplicates).
MCStarts ==
  {[alpha |-> By(10, 3, 0), root |-> By(0, 6, 9), children |-> NoFamily, parents |-> NoFamily],
   [alpha |-> By(7, 0, 11), root |-> By(20, 0, 0),
    children |-> By(<<<<2, "k2">>>>, <<>>, <<>>), parents |-> By(<<>>, <<<<1, "k1">>, <<2, "k1">>>>, <<>>)]}
MCOrder == <<"k2", "none", "k1", "k3">>
MCPays == {<<5, 0, 7, 0>>, <<8, 7, 3, 1>>}

\* Whatever has been issued, of TAO and of alpha alike.
MCIssuances == {<<i, i>> : i \in 0 .. TotalSupply}

\* The values calls carry: the other one of a switch, and for a number one or
\* the two around the limit its setter checks.
MCValues == [p \in Parameters \cup DOMAIN GlobalDefaults |->
  CASE p \in {"BondsResetOn", "CommitRevealWeightsEnabled", "LiquidAlphaOn", "Yuma3On",
              "TransferToggle", "SubtokenEnabled", "NetworkRegistrationAllowed",
              "NetworkPowRegistrationAllowed"} ->
         {~ DefaultParameters[p]}
    [] p = "PrecompileEnable" -> {FALSE}
    [] p = "AlphaValues" -> {<<1638, 1638>>, <<1637, 2000>>, <<2000, 1999>>}
    [] p = "SubnetOwnerHotkey" -> {"h"}
    [] p = "MaxAllowedUids" -> {1, 2}
    [] p = "MaxAllowedValidators" -> {1, 257}
    [] p = "ActivityCutoff" -> {359, 360}
    [] p = "BondsMovingAverage" -> {975000, 975001}
    [] p = "AlphaSigmoidSteepness" -> {-1, 0}
    [] p = "Tempo" -> {2}
    [] p = "WeightsVersionKey" -> {7, 8}
    [] p = "NetworkRateLimit" -> {2}
    [] p = "NetworkLockReductionInterval" -> {0}
    [] p = "TotalIssuance" -> {7, TotalSupply}
    [] OTHER -> {7}]
=============================================================================
