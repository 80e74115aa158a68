---------------------------- MODULE Precompiles ----------------------------
(***************************************************************************)
(* The EVM precompiles (precompiles/src): contracts at fixed addresses     *)
(* through which Ethereum accounts read the chain and dispatch runtime     *)
(* calls, over the parameters and views of SubnetViews.                    *)
(*                                                                         *)
(* The account an Ethereum address maps to is the address.  A method that  *)
(* fails, runs out of gas or is refused is reverted: no step.  Amounts of  *)
(* the EVM are in units of 1/Wei of the chain's; converting rounds down.   *)
(* Calls into staking, balances, proxies and neurons are modelled by what  *)
(* they do to the signer's funds and proxies, or by being dispatched.      *)
(***************************************************************************)
EXTENDS SubnetViews

CONSTANTS
  Wei,            \* EVM units per unit of the chain (10^9)
  EvmValues,      \* bound: the value sent with a method, in EVM units
  StakeAmounts,   \* bound: amounts of stake named by a method
  EvmFunds        \* the balance of every caller in the initial state

ASSUME EvmConstants == Wei \in Nat \ {0} /\ EvmValues \subseteq Nat /\ EvmFunds \in Nat

VARIABLE evm

\* The address of each precompile of this repository (INDEX).
Index ==
  [Ed25519Verify |-> 1026, Sr25519Verify |-> 1027, BalanceTransfer |-> 2048, Staking |-> 2049,
   Metagraph |-> 2050, Subnet |-> 2051, Neuron |-> 2052, StakingV2 |-> 2053,
   UidLookup |-> 2054, StorageQuery |-> 2055, Alpha |-> 2056]

used_addresses ==
  {1, 2, 3, 4, 5, 6, 1024, 1025, Index.Ed25519Verify, Index.Sr25519Verify, Index.BalanceTransfer,
   Index.Staking, Index.Subnet, Index.Metagraph, Index.Neuron, Index.StakingV2,
   Index.StorageQuery, Index.UidLookup, Index.Alpha}

\* The first arm that matches answers.
execute(address) ==
  IF address \in {1, 2, 3, 4, 5, 6, 1024, 1025} THEN "Ethereum"
  ELSE IF address = Index.Ed25519Verify THEN "Ed25519Verify"
  ELSE IF address = Index.Sr25519Verify THEN "Sr25519Verify"
  ELSE IF address = Index.BalanceTransfer THEN "BalanceTransfer"
  ELSE IF address = Index.Staking THEN "Staking"
  ELSE IF address = Index.StakingV2 THEN "StakingV2"
  ELSE IF address = Index.Subnet THEN "Subnet"
  ELSE IF address = Index.Metagraph THEN "Metagraph"
  ELSE IF address = Index.Neuron THEN "Neuron"
  ELSE IF address = Index.UidLookup THEN "UidLookup"
  ELSE IF address = Index.StorageQuery THEN "StorageQuery"
  ELSE IF address = Index.Alpha THEN "Alpha"
  ELSE "None"

is_precompile(address) == address \in used_addresses

----------------------------------------------------------------------------
\* ---- views: SubnetPrecompile, in its order; a getter under the name of its setter ----

\* An i16 shown as a u16.
AsU16(v) == IF v < 0 THEN v + 65536 ELSE v

LimitReads(n) ==
  LET p == Parameter(n)
  IN [serving_rate_limit |-> p.ServingRateLimit, min_difficulty |-> p.MinDifficulty,
      max_difficulty |-> p.MaxDifficulty, weights_version_key |-> p.WeightsVersionKey,
      weights_set_rate_limit |-> p.WeightsSetRateLimit, adjustment_alpha |-> p.AdjustmentAlpha]

ConsensusReads_kappa_twice(n) ==
  LET p == Parameter(n)
  IN [max_weight_limit |-> p.MaxWeightsLimit, immunity_period |-> p.ImmunityPeriod,
      min_allowed_weights |-> p.MinAllowedWeights, kappa |-> p.Kappa, rho |-> p.Kappa,
      alpha_sigmoid_steepness |-> AsU16(p.AlphaSigmoidSteepness)]

ConsensusReads(n) ==
  LET p == Parameter(n)
  IN [max_weight_limit |-> p.MaxWeightsLimit, immunity_period |-> p.ImmunityPeriod,
      min_allowed_weights |-> p.MinAllowedWeights, kappa |-> p.Kappa, rho |-> p.Rho,
      alpha_sigmoid_steepness |-> AsU16(p.AlphaSigmoidSteepness)]

RegistrationReads(n) ==
  LET p == Parameter(n)
  IN [activity_cutoff |-> p.ActivityCutoff,
      network_registration_allowed |-> p.NetworkRegistrationAllowed,
      network_pow_registration_allowed |-> p.NetworkPowRegistrationAllowed,
      min_burn |-> p.MinBurn, max_burn |-> p.MaxBurn, difficulty |-> p.Difficulty]

SwitchReads(n) ==
  LET p == Parameter(n)
  IN [bonds_moving_average |-> p.BondsMovingAverage,
      commit_reveal_weights_enabled |-> p.CommitRevealWeightsEnabled,
      liquid_alpha_enabled |-> p.LiquidAlphaOn, yuma3_enabled |-> p.Yuma3On,
      bonds_reset_enabled |-> p.BondsResetOn, alpha_values |-> p.AlphaValues,
      commit_reveal_weights_interval |-> p.RevealPeriodEpochs]

SubnetReads(n) == LimitReads(n) @@ ConsensusReads(n) @@ RegistrationReads(n) @@ SwitchReads(n)

\* ---- views: MetagraphPrecompile; without the neuron some of them fail, others show 0 ----

Of(option, Read(_)) == IF option = None THEN None ELSE Some(Read(option[1]))

MetagraphReads(n, u) ==
  LET hotkey == get_hotkey_for_net_and_uid(n, u)
  IN [uid_count |-> hyper.n[n],
      stake |-> Of(hotkey, LAMBDA h : Held("TotalStakeForHotkey", h)),
      rank |-> ElementOf("Rank", n, u, 0), trust |-> ElementOf("Trust", n, u, 0),
      consensus |-> ElementOf("Consensus", n, u, 0), incentive |-> ElementOf("Incentive", n, u, 0),
      dividends |-> ElementOf("Dividends", n, u, 0), emission |-> ElementOf("Emission", n, u, 0),
      vtrust |-> ElementOf("ValidatorTrust", n, u, 0),
      validator_status |-> ElementOf("ValidatorPermit", n, u, FALSE),
      last_update |-> ElementOf("LastUpdate", n, u, 0),
      is_active |-> ElementOf("Active", n, u, FALSE),
      axon |-> Of(hotkey, LAMBDA h : get_axon_info(n, h)), hotkey |-> hotkey,
      coldkey |-> Of(hotkey, LAMBDA h : ColdkeyOf(h))]

\* ---- views: AlphaPrecompile, its reserves ------------------------------------

PoolReads(n) ==
  [tao_in |-> Held("SubnetTAO", n), alpha_in |-> Held("SubnetAlphaIn", n),
   alpha_out |-> Held("SubnetAlphaOut", n)]

----------------------------------------------------------------------------
\* ---- running a method -------------------------------------------------------

\* The accounts that belong to precompiles (PrecompileExt::account_id).
account_id == {"BalanceTransfer", "Staking", "StakingV2", "Subnet", "Neuron"}
EvmAccounts == HyperColdkeys \cup account_id

into_substrate_balance(value) == value \div Wei

\* pallet-balances transfer_allow_death: the results, none when it fails.
transfer_allow_death(e, from, to, amount) ==
  IF e.balance[from] < amount THEN {}
  ELSE {[e EXCEPT !.balance = [a \in EvmAccounts |->
          @[a] + (IF a = to THEN amount ELSE 0) - (IF a = from THEN amount ELSE 0)]]}

caller_account_id(caller) == caller

\* A disabled precompile answers with an error; the two staking precompiles have one flag.
FlagOf(precompile) == IF precompile = "StakingV2" THEN "Staking" ELSE precompile
try_execute(precompile) ==
  execute(Index[precompile]) = precompile /\ FlagOf(precompile) \in hyper.global.PrecompileEnable

\* The executor hands the value over first; a method that is not payable refuses one.
Entered(caller, precompile, value, payable) ==
  IF value > 0 /\ ~payable THEN {}
  ELSE transfer_allow_death(evm, caller_account_id(caller), precompile,
                            into_substrate_balance(value))

Finished(precompile, method, caller, results) ==
  /\ try_execute(precompile)
  /\ \E e \in results : evm' = [e EXCEPT !.last = [method |-> method, caller |-> caller]]

\* try_dispatch_runtime_call of a call that changes parameters, signed by the caller.
try_dispatch_runtime_call(caller, precompile, method, value, call) ==
  /\ Finished(precompile, method, caller, Entered(caller, precompile, value, TRUE))
  /\ call

\* ---- SubnetPrecompile: one method per owner call of admin-utils --------------

Configures(caller, method, call) ==
  \E value \in EvmValues :
    try_dispatch_runtime_call(caller, "Subnet", method, value, call)

\* Deprecated methods succeed and do nothing.
Ignored(caller, method) ==
  \E value \in EvmValues :
    Finished("Subnet", method, caller, Entered(caller, "Subnet", value, TRUE)) /\ UNCHANGED hyper

\* register_network and its two versions with an identity, which is not kept here.
RegisterMethods(m, c) ==
  \E h \in HyperValues["SubnetOwnerHotkey"] :
    Configures(c, m, do_register_network(caller_account_id(c), h))

\* The setters, in the groups of the getters.
LimitMethods(m, c, n) ==
  LET o == caller_account_id(c) IN
  CASE m = "serving_rate_limit" -> Configures(c, m, sudo_set_serving_rate_limit(o, n))
    [] m = "min_difficulty" -> Configures(c, m, sudo_set_min_difficulty(o, n))
    [] m = "max_difficulty" -> Configures(c, m, sudo_set_max_difficulty(o, n))
    [] m = "weights_version_key" -> Configures(c, m, sudo_set_weights_version_key(o, n))
    [] m = "weights_set_rate_limit" -> Ignored(c, m)
    [] m = "adjustment_alpha" -> Configures(c, m, sudo_set_adjustment_alpha(o, n))

\* The u16 of alpha_sigmoid_steepness becomes an i16: the upper half of the range arrives negative.
ConsensusMethods(m, c, n) ==
  LET o == caller_account_id(c) IN
  CASE m = "max_weight_limit" -> Configures(c, m, sudo_set_max_weight_limit(o, n))
    [] m = "immunity_period" -> Configures(c, m, sudo_set_immunity_period(o, n))
    [] m = "min_allowed_weights" -> Configures(c, m, sudo_set_min_allowed_weights(o, n))
    [] m = "kappa" -> Configures(c, m, sudo_set_kappa(o, n))
    [] m = "rho" -> Configures(c, m, sudo_set_rho(o, n))
    [] m = "alpha_sigmoid_steepness" -> Configures(c, m, sudo_set_alpha_sigmoid_steepness(o, n))

RegistrationMethods(m, c, n) ==
  LET o == caller_account_id(c) IN
  CASE m = "activity_cutoff" -> Configures(c, m, sudo_set_activity_cutoff(o, n))
    [] m = "network_registration_allowed" ->
         Configures(c, m, sudo_set_network_registration_allowed(o, n))
    [] m = "network_pow_registration_allowed" ->
         Configures(c, m, sudo_set_network_pow_registration_allowed(o, n))
    [] m \in {"min_burn", "max_burn"} -> Ignored(c, m)
    [] m = "difficulty" -> Configures(c, m, sudo_set_difficulty(o, n))

ToggleMethods_yuma3_crossed(m, c, n) ==
  LET o == caller_account_id(c) IN
  CASE m = "yuma3_enabled" -> Configures(c, m, sudo_set_liquid_alpha_enabled(o, n))
    [] m = "liquid_alpha_enabled" -> Configures(c, m, sudo_set_yuma3_enabled(o, n))
    [] OTHER -> FALSE

ToggleMethods(m, c, n) ==
  LET o == caller_account_id(c) IN
  CASE m = "bonds_moving_average" -> Configures(c, m, sudo_set_bonds_moving_average(o, n))
    [] m = "commit_reveal_weights_enabled" ->
         Configures(c, m, sudo_set_commit_reveal_weights_enabled(o, n))
    [] m = "liquid_alpha_enabled" -> Configures(c, m, sudo_set_liquid_alpha_enabled(o, n))
    [] m = "yuma3_enabled" -> Configures(c, m, sudo_set_yuma3_enabled(o, n))
    [] m = "bonds_reset_enabled" -> Configures(c, m, sudo_set_bonds_reset_enabled(o, n))
    [] m = "alpha_values" -> Configures(c, m, sudo_set_alpha_values(o, n))
    [] m = "commit_reveal_weights_interval" ->
         Configures(c, m, sudo_set_commit_reveal_weights_interval(o, n))
    [] m = "transfers" -> Configures(c, m, sudo_set_toggle_transfer(o, n))

RegisterNames ==
  {"register_network", "register_network_with_identity", "register_network_with_identity_v2"}

\* The selector of a call picks the method.
SubnetMethod(c, n) ==
  \/ \E m \in RegisterNames : RegisterMethods(m, c)
  \/ \E m \in DOMAIN LimitReads(n) : LimitMethods(m, c, n)
  \/ \E m \in DOMAIN ConsensusReads(n) : ConsensusMethods(m, c, n)
  \/ \E m \in DOMAIN RegistrationReads(n) : RegistrationMethods(m, c, n)
  \/ \E m \in DOMAIN SwitchReads(n) \cup {"transfers"} : ToggleMethods(m, c, n)

----------------------------------------------------------------------------
\* ---- BalanceTransferPrecompile and the two StakingPrecompiles ------------------

\* The pallet's staking calls: what they do to the funds of the coldkey that signs.
Stakes(e, coldkey, amount) ==
  IF amount = 0 \/ e.balance[coldkey] < amount THEN {}
  ELSE {[e EXCEPT !.balance[coldkey] = @ - amount, !.stake[coldkey] = @ + amount]}
Unstakes(e, coldkey, amount) ==
  IF amount = 0 \/ e.stake[coldkey] < amount THEN {}
  ELSE {[e EXCEPT !.balance[coldkey] = @ + amount, !.stake[coldkey] = @ - amount]}

\* A transfer of nothing succeeds at once.
evm_transfer(c) ==
  /\ UNCHANGED hyper
  /\ \E value \in EvmValues, dest \in HyperColdkeys :
       Finished("BalanceTransfer", "transfer", c,
         UNION {IF into_substrate_balance(value) = 0 THEN {e}
                ELSE transfer_allow_death(e, "BalanceTransfer", dest, into_substrate_balance(value)) :
                  e \in Entered(c, "BalanceTransfer", value, TRUE)})

\* The first staking precompile stakes the value it is sent, out of the caller's balance.
evm_v1_add_stake_keeping_value(c) ==
  /\ UNCHANGED hyper
  /\ \E value \in EvmValues :
       Finished("Staking", "v1_add_stake", c,
         UNION {Stakes(e, caller_account_id(c), into_substrate_balance(value)) :
                  e \in Entered(c, "Staking", value, TRUE)})

transfer_back_to_caller(e, c, value) ==
  transfer_allow_death(e, "Staking", caller_account_id(c), into_substrate_balance(value))

evm_v1_add_stake(c) ==
  /\ UNCHANGED hyper
  /\ \E value \in EvmValues :
       Finished("Staking", "v1_add_stake", c,
         UNION {UNION {Stakes(b, caller_account_id(c), into_substrate_balance(value)) :
                         b \in IF value = 0 THEN {e} ELSE transfer_back_to_caller(e, c, value)} :
                  e \in Entered(c, "Staking", value, TRUE)})

evm_v1_remove_stake(c) ==
  /\ UNCHANGED hyper
  /\ \E amount \in EvmValues :
       Finished("Staking", "v1_remove_stake", c,
                Unstakes(evm, caller_account_id(c), into_substrate_balance(amount)))

\* The second one names the amount in units of the chain.
evm_add_stake(c) ==
  /\ UNCHANGED hyper
  /\ \E amount \in StakeAmounts, value \in EvmValues :
       Finished("StakingV2", "add_stake", c, UNION {Stakes(e, caller_account_id(c), amount) :
                                         e \in Entered(c, "StakingV2", value, TRUE)})

evm_add_stake_limit(c) ==
  /\ UNCHANGED hyper
  /\ \E asked \in StakeAmounts : \E amount \in 1 .. asked :   \* a price limit may stop it early
       Finished("StakingV2", "add_stake_limit", c, Stakes(evm, caller_account_id(c), amount))

evm_remove_stake(c) ==
  /\ UNCHANGED hyper
  /\ \E amount \in StakeAmounts :
       Finished("StakingV2", "remove_stake", c, Unstakes(evm, caller_account_id(c), amount))

evm_remove_stake_limit(c) ==
  /\ UNCHANGED hyper
  /\ \E asked \in StakeAmounts : \E amount \in 1 .. asked :
       Finished("StakingV2", "remove_stake_limit", c, Unstakes(evm, caller_account_id(c), amount))

\* remove_stake_full has no limit; one with a limit may stop early.
call_remove_stake_full_limit(c, method, amounts) ==
  /\ UNCHANGED hyper
  /\ \E amount \in amounts : Finished("StakingV2", method, c, Unstakes(evm, caller_account_id(c), amount))
evm_remove_stake_full(c) ==
  call_remove_stake_full_limit(c, "remove_stake_full", {evm.stake[c]})
evm_remove_stake_full_limit(c) ==
  call_remove_stake_full_limit(c, "remove_stake_full_limit", 1 .. evm.stake[c])

\* Between hotkeys and subnets the coldkey keeps its stake.
evm_move_stake(c) ==
  /\ UNCHANGED hyper
  /\ \E amount \in StakeAmounts :
       Finished("StakingV2", "move_stake", c, IF evm.stake[caller_account_id(c)] < amount THEN {} ELSE {evm})

evm_transfer_stake_from_destination(c) ==
  /\ UNCHANGED hyper
  /\ \E amount \in StakeAmounts, destination_coldkey \in HyperColdkeys :
       Finished("StakingV2", "transfer_stake", c,
         IF evm.stake[destination_coldkey] < amount THEN {}
         ELSE {[evm EXCEPT !.stake = [a \in HyperColdkeys |->
                  @[a] - (IF a = destination_coldkey THEN amount ELSE 0)
                       + (IF a = caller_account_id(c) THEN amount ELSE 0)]]})

evm_transfer_stake(c) ==
  /\ UNCHANGED hyper
  /\ \E amount \in StakeAmounts, destination_coldkey \in HyperColdkeys :
       Finished("StakingV2", "transfer_stake", c,
         IF evm.stake[caller_account_id(c)] < amount THEN {}
         ELSE {[evm EXCEPT !.stake = [a \in HyperColdkeys |->
                  @[a] + (IF a = destination_coldkey THEN amount ELSE 0)
                       - (IF a = caller_account_id(c) THEN amount ELSE 0)]]})

\* A proxy of type Staking without delay, the same in both staking precompiles.
evm_add_proxy(c) ==
  /\ UNCHANGED hyper
  /\ \E p \in {"Staking", "StakingV2"}, d \in HyperColdkeys \ {c} :
       Finished(p, "add_proxy", c, {[evm EXCEPT !.proxies = @ \cup {<<caller_account_id(c), d>>}]})
evm_remove_proxy(c) ==
  /\ UNCHANGED hyper
  /\ \E p \in {"Staking", "StakingV2"}, d \in HyperColdkeys : <<caller_account_id(c), d>> \in evm.proxies
       /\ Finished(p, "remove_proxy", c, {[evm EXCEPT !.proxies = @ \ {<<caller_account_id(c), d>>}]})

\* ---- NeuronPrecompile: calls dispatched with the caller as their signer ----------

Neuron(method, c) ==
  /\ UNCHANGED hyper
  /\ \E value \in EvmValues :
       Finished("Neuron", method, c, Entered(c, "Neuron", value, TRUE))
evm_weights(c) == \E m \in {"set_weights", "commit_weights", "reveal_weights"} : Neuron(m, c)
evm_serve(c) == \E m \in {"serve_axon", "serve_axon_tls", "serve_prometheus"} : Neuron(m, c)

\* The burn leaves the coldkey's balance.
evm_burned_register(c) ==
  /\ UNCHANGED hyper
  /\ \E value \in EvmValues, burn \in StakeAmounts :
       Finished("Neuron", "burned_register", c,
         {[e EXCEPT !.balance[c] = @ - burn, !.burned = @ + burn] :
            e \in {d \in Entered(c, "Neuron", value, TRUE) : d.balance[c] >= burn}})

----------------------------------------------------------------------------

NoMethod == [method |-> "", caller |-> ""]
EvmInitial ==
  [balance |-> [a \in EvmAccounts |-> IF a \in HyperColdkeys THEN EvmFunds ELSE 0],
   stake |-> [c \in HyperColdkeys |-> 0], proxies |-> {}, burned |-> 0, last |-> NoMethod]

PrecompilesInit == HyperInit /\ evm = EvmInitial

FundMethods(c) ==
  \/ evm_transfer(c)
  \/ evm_v1_add_stake(c)
  \/ evm_v1_remove_stake(c)
  \/ evm_add_stake(c)
  \/ evm_add_stake_limit(c)
  \/ evm_remove_stake(c)
  \/ evm_remove_stake_limit(c)
  \/ evm_remove_stake_full(c)
  \/ evm_remove_stake_full_limit(c)
  \/ evm_move_stake(c)
  \/ evm_transfer_stake(c)
  \/ evm_add_proxy(c)
  \/ evm_remove_proxy(c)
  \/ evm_burned_register(c)

PrecompilesNext ==
  \/ \E c \in HyperColdkeys :
       \/ FundMethods(c)
       \/ evm_weights(c)
       \/ evm_serve(c)
       \/ \E n \in HyperNetuids : SubnetMethod(c, n)
  \/ /\ LifecycleCalls \/ HyperBlock \/ sudo_toggle_evm_precompile(Root)
     /\ evm' = [evm EXCEPT !.last = NoMethod]

PrecompilesSpec == PrecompilesInit /\ [][PrecompilesNext]_<<hyper, evm>>

----------------------------------------------------------------------------

\* The two precompiles that pass funds on keep none of what is sent with their methods:
\* addStake of the first staking precompile transfers its value back to the caller before it
\* stakes (StakingPrecompile::transfer_back_to_caller) and the balance transfer sends all of
\* it on (BalanceTransferPrecompile::transfer), rounding of the EVM's units included.  Of the
\* others a payable method keeps what is sent; balance given to a precompile's account by a
\* plain transfer is no method's and not moved here.
PrecompilesKeepNothing ==
  evm.balance["Staking"] = 0 /\ evm.balance["BalanceTransfer"] = 0

\* A method disposes of nobody's funds, stake or proxies but its caller's: every dispatch is
\* signed with caller_account_id, and the only funds a precompile's own account pays out are
\* those its caller sent along.
Wealth(e, a) == e.balance[a] + e.stake[a]
FundsMoveForTheirOwner ==
    /\ \A a \in HyperColdkeys : Wealth(evm', a) < Wealth(evm, a) => evm'.last.caller = a
    /\ \A p \in (evm.proxies \ evm'.proxies) \cup (evm'.proxies \ evm.proxies) :
         evm'.last.caller = p[1]
    /\ \A a \in account_id : evm'.balance[a] >= evm.balance[a]
    /\ evm'.burned >= evm.burned

\* A parameter read through a getter of the subnet precompile changes, when a method of it
\* runs, only through the setter of the same name; the deprecated setters change nothing.
SettersSetTheirOwn ==
    \A n \in HyperNetuids :
      /\ if_subnet_exist(n) /\ evm'.last.method \in DOMAIN SubnetReads(n)
      => \A m \in DOMAIN SubnetReads(n) :
           SubnetReads(n)[m] # SubnetReads(n)'[m]
             => /\ m = evm'.last.method
                /\ m \notin {"weights_set_rate_limit", "min_burn", "max_burn"}
                /\ hyper.owner[n] = evm'.last.caller

\* A contract and an RPC client read the same values: the getters of the precompiles agree
\* with get_subnet_hyperparams, get_neuron_lite and get_dynamic_info, which read the same
\* storage through other accessors.
EvmViewsAgree ==
  \A n \in HyperNetuids : if_subnet_exist(n) =>
    LET h == get_subnet_hyperparams_v2(n)[1] IN
    /\ SubnetReads(n) =
         [SubnetReads(n) EXCEPT
            !.serving_rate_limit = h.serving_rate_limit, !.min_difficulty = h.min_difficulty,
            !.max_difficulty = h.max_difficulty, !.weights_version_key = h.weights_version,
            !.weights_set_rate_limit = h.weights_rate_limit,
            !.adjustment_alpha = h.adjustment_alpha, !.max_weight_limit = h.max_weights_limit,
            !.immunity_period = h.immunity_period,
            !.min_allowed_weights = h.min_allowed_weights, !.kappa = h.kappa, !.rho = h.rho,
            !.alpha_sigmoid_steepness = AsU16(h.alpha_sigmoid_steepness),
            !.activity_cutoff = h.activity_cutoff,
            !.network_registration_allowed = h.registration_allowed,
            !.min_burn = h.min_burn, !.max_burn = h.max_burn, !.difficulty = h.difficulty,
            !.bonds_moving_average = h.bonds_moving_avg,
            !.commit_reveal_weights_enabled = h.commit_reveal_weights_enabled,
            !.liquid_alpha_enabled = h.liquid_alpha_enabled,
            !.yuma3_enabled = (h.yuma_version = 3),
            !.bonds_reset_enabled = h.bonds_reset_enabled,
            !.alpha_values = <<h.alpha_low, h.alpha_high>>,
            !.commit_reveal_weights_interval = h.commit_reveal_period]
    /\ \A u \in Uids0(n) :
         LET shown == MetagraphReads(n, u)
             neuron == get_neuron_lite(n, u)[1]
         IN shown.hotkey # None => /\ shown.emission = neuron.emission
                                   /\ shown.validator_status = neuron.validator_permit
                                   /\ shown.coldkey = Some(neuron.coldkey)
    /\ LET d == get_dynamic_info(n)[1]
       IN PoolReads(n) = [tao_in |-> d.tao_in, alpha_in |-> d.alpha_in, alpha_out |-> d.alpha_out]

=============================================================================
