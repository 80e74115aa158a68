---------------------------- MODULE SubnetViews ----------------------------
(***************************************************************************)
(* What the runtime tells clients about a subnet and its neurons:          *)
(* rpc_info/metagraph.rs, subnet_info.rs, dynamic_info.rs, show_subnet.rs  *)
(* and neuron_info.rs, over the parameters of Hyperparameters.             *)
(*                                                                         *)
(* The same storage is shown by eight views, each with its own list of     *)
(* reads.  A map that Hyperparameters keeps is read from its state; any    *)
(* other map is read symbolically: Held(map, key) is the value the map     *)
(* holds at the key, different for different maps and keys, so that a view *)
(* reading the wrong map shows.  Compact encoding and text are left out.   *)
(***************************************************************************)
EXTENDS Hyperparameters, Sequences

LOCAL INSTANCE SequencesExt

CONSTANT ViewBlocks    \* the blocks at which clients ask: a bound on what is compared

Held(map, key) == <<map, key>>

\* Optional results: Some(v) is <<v>>.
None == <<>>
Some(v) == <<v>>

----------------------------------------------------------------------------
\* ---- getters of utils/misc.rs, subnets/weights.rs and staking/helpers.rs ----

get_blocks_since_last_step(n) == Held("BlocksSinceLastStep", n)
is_user_liquidity_enabled(n) == Held("EnabledUserLiquidity", n)
get_scaling_law_power(n) == Held("ScalingLawPower", n)

\* The name in the identity, or where that is absent or empty one from a table.
get_name_for_subnet(n) == [identity |-> Held("SubnetIdentitiesV3", n), otherwise |-> n]
\* From a table alone.
get_symbol_for_subnet(n) == [symbol |-> n]

\* ---- what is kept per neuron ----

Uids0(n) == 0 .. get_subnetwork_n(n) - 1
PerUid(n, Of(_)) == [u \in Uids0(n) |-> Of(u)]

\* The vectors of the epoch, as long as the subnet, for append_neuron extends them all:
\* get_rank(n) is VectorHeld("Rank", n).
VectorHeld(map, n) == PerUid(n, LAMBDA u : Held(map, <<n, u>>))
\* One element, vec.get(uid).copied().unwrap_or(default): get_rank_for_uid(n, u) is
\* ElementOf("Rank", n, u, 0).
ElementOf(map, n, u, default) == IF u \in Uids0(n) THEN VectorHeld(map, n)[u] ELSE default


get_neuron_block_at_registration(n, u) == Held("BlockAtRegistration", <<n, u>>)

get_hotkey_for_net_and_uid_short(n, u) ==
  IF u + 1 \in Uids0(n) THEN Some(Held("Keys", <<n, u>>)) ELSE None

\* Keys holds a hotkey for the uids below SubnetworkN and for no other.
get_hotkey_for_net_and_uid(n, u) ==
  IF u \in Uids0(n) THEN Some(Held("Keys", <<n, u>>)) ELSE None
KeyOf(n, u) == Held("Keys", <<n, u>>)
ColdkeyOf(hotkey) == Held("Owner", hotkey)
get_axon_info(n, hotkey) == Held("Axons", <<n, hotkey>>)
get_prometheus_info(n, hotkey) == Held("Prometheus", <<n, hotkey>>)

\* get_stake_weights_for_network: total, alpha and tao weight of every neuron.
get_stake_weights_for_network(n) ==
  <<VectorHeld("TotalStakeWeight", n), VectorHeld("AlphaStakeWeight", n),
    VectorHeld("TaoStakeWeight", n)>>

get_all_subnet_netuids == hyper.exists

----------------------------------------------------------------------------
\* ---- the metagraph -------------------------------------------------------

BlocksSince(n) == <<"blocks since", hyper.block, Held("LastMechansimStepBlock", n)>>

MetagraphVectors(n) ==
  LET weights == get_stake_weights_for_network(n)
      keys == PerUid(n, LAMBDA u : KeyOf(n, u))
      cold == PerUid(n, LAMBDA u : ColdkeyOf(keys[u]))
  IN [hotkeys |-> keys, coldkeys |-> cold,
      axons |-> PerUid(n, LAMBDA u : get_axon_info(n, keys[u])),
      identities |-> PerUid(n, LAMBDA u : Held("IdentitiesV2", cold[u])),
      block_at_registration |-> PerUid(n, LAMBDA u : get_neuron_block_at_registration(n, u)),
      active |-> VectorHeld("Active", n), validator_permit |-> VectorHeld("ValidatorPermit", n),
      pruning_score |-> VectorHeld("PruningScores", n), last_update |-> VectorHeld("LastUpdate", n),
      emission |-> VectorHeld("Emission", n), dividends |-> VectorHeld("Dividends", n),
      incentives |-> VectorHeld("Incentive", n), consensus |-> VectorHeld("Consensus", n),
      trust |-> VectorHeld("Trust", n), rank |-> VectorHeld("Rank", n),
      alpha_stake |-> weights[2], tao_stake |-> weights[3], total_stake |-> weights[1],
      tao_dividends_per_hotkey |->
        PerUid(n, LAMBDA u : <<keys[u], Held("TaoDividendsPerSubnet", <<n, keys[u]>>)>>),
      alpha_dividends_per_hotkey |->
        PerUid(n, LAMBDA u : <<keys[u], Held("AlphaDividendsPerSubnet", <<n, keys[u]>>)>>)]

\* The fields of Metagraph that describe the subnet as a whole.
MetagraphScalars(n) ==
  [netuid |-> n, name |-> get_name_for_subnet(n), symbol |-> get_symbol_for_subnet(n),
   identity |-> Held("SubnetIdentitiesV3", n), network_registered_at |-> hyper.registeredAt[n],
   owner_hotkey |-> hyper.net[n].SubnetOwnerHotkey, owner_coldkey |-> hyper.owner[n],
   block |-> hyper.block, tempo |-> Parameter(n).Tempo,
   last_step |-> Held("LastMechansimStepBlock", n), blocks_since_last_step |-> BlocksSince(n),
   subnet_emission |-> 0, alpha_in |-> Held("SubnetAlphaIn", n),
   alpha_out |-> Held("SubnetAlphaOut", n), tao_in |-> Held("SubnetTAO", n),
   alpha_out_emission |-> Held("SubnetAlphaOutEmission", n),
   alpha_in_emission |-> Held("SubnetAlphaInEmission", n),
   tao_in_emission |-> Held("SubnetTaoInEmission", n),
   pending_alpha_emission |-> Held("PendingEmission", n),
   pending_root_emission |-> Held("PendingRootDivs", n),
   subnet_volume |-> Held("SubnetVolume", n), moving_price |-> Held("SubnetMovingPrice", n),
   rho |-> Parameter(n).Rho, kappa |-> Parameter(n).Kappa,
   min_allowed_weights |-> Parameter(n).MinAllowedWeights,
   max_weights_limit |-> Parameter(n).MaxWeightsLimit,
   weights_version |-> Parameter(n).WeightsVersionKey,
   weights_rate_limit |-> Parameter(n).WeightsSetRateLimit,
   activity_cutoff |-> Parameter(n).ActivityCutoff, max_validators |-> Parameter(n).MaxAllowedValidators,
   num_uids |-> get_subnetwork_n(n), max_uids |-> get_max_allowed_uids(n),
   registration_allowed |-> Parameter(n).NetworkRegistrationAllowed,
   pow_registration_allowed |-> Parameter(n).NetworkPowRegistrationAllowed,
   difficulty |-> Parameter(n).Difficulty, burn |-> Parameter(n).Burn,
   immunity_period |-> Parameter(n).ImmunityPeriod,
   min_difficulty |-> Parameter(n).MinDifficulty, max_difficulty |-> Parameter(n).MaxDifficulty,
   min_burn |-> Parameter(n).MinBurn, max_burn |-> Parameter(n).MaxBurn,
   adjustment_alpha |-> Parameter(n).AdjustmentAlpha,
   adjustment_interval |-> Parameter(n).AdjustmentInterval,
   target_regs_per_interval |-> Parameter(n).TargetRegistrationsPerInterval,
   max_regs_per_block |-> Parameter(n).MaxRegistrationsPerBlock,
   serving_rate_limit |-> Parameter(n).ServingRateLimit,
   commit_reveal_weights_enabled |-> Parameter(n).CommitRevealWeightsEnabled,
   commit_reveal_period |-> Parameter(n).RevealPeriodEpochs,
   liquid_alpha_enabled |-> Parameter(n).LiquidAlphaOn,
   alpha_high |-> Parameter(n).AlphaValues[2], alpha_low |-> Parameter(n).AlphaValues[1],
   bonds_moving_avg |-> Parameter(n).BondsMovingAverage]

get_metagraph(n) ==
  IF ~if_subnet_exist(n) THEN None ELSE Some(MetagraphScalars(n) @@ MetagraphVectors(n))

get_all_metagraphs == [n \in get_all_subnet_netuids |-> get_metagraph(n)]

\* ---- the selective metagraph: only the requested fields -----------------

\* SelectiveMetagraphIndex::from_index; a variant is named by the field it selects.
from_index ==
  <<"netuid", "name", "symbol", "identity", "network_registered_at", "owner_hotkey",
    "owner_coldkey", "block", "tempo", "last_step", "blocks_since_last_step",
    "subnet_emission", "alpha_in", "alpha_out", "tao_in", "alpha_out_emission",
    "alpha_in_emission", "tao_in_emission", "pending_alpha_emission",
    "pending_root_emission", "subnet_volume", "moving_price", "rho", "kappa",
    "min_allowed_weights", "max_weights_limit", "weights_version", "weights_rate_limit",
    "activity_cutoff", "max_validators", "num_uids", "max_uids", "burn", "difficulty",
    "registration_allowed", "pow_registration_allowed", "immunity_period",
    "min_difficulty", "max_difficulty", "min_burn", "max_burn", "adjustment_alpha",
    "adjustment_interval",
    "target_regs_per_interval", "max_regs_per_block", "serving_rate_limit",
    "commit_reveal_weights_enabled", "commit_reveal_period", "liquid_alpha_enabled",
    "alpha_high", "alpha_low", "bonds_moving_avg", "hotkeys", "coldkeys", "identities",
    "axons", "active", "validator_permit", "pruning_score", "last_update", "emission",
    "dividends", "incentives", "consensus", "trust", "rank", "block_at_registration",
    "alpha_stake", "tao_stake", "total_stake", "tao_dividends_per_hotkey",
    "alpha_dividends_per_hotkey", "validators">>

IndexField(i) == IF i + 1 \in DOMAIN from_index THEN Some(from_index[i + 1]) ELSE None

SelectiveFields == {from_index[i] : i \in DOMAIN from_index}

\* SelectiveMetagraph::default: nothing but a netuid, and that is the root's.
SelectiveDefault == [f \in SelectiveFields |-> IF f = "netuid" THEN 0 ELSE None]

\* The arms of get_single_selective_metagraph, in its groups.
SelectiveNames(n) ==
  [name |-> get_name_for_subnet(n), symbol |-> get_symbol_for_subnet(n),
   identity |-> Held("SubnetIdentitiesV3", n), network_registered_at |-> hyper.registeredAt[n],
   owner_hotkey |-> hyper.net[n].SubnetOwnerHotkey, owner_coldkey |-> hyper.owner[n],
   block |-> hyper.block, tempo |-> Parameter(n).Tempo,
   last_step |-> Held("LastMechansimStepBlock", n), blocks_since_last_step |-> BlocksSince(n)]

SelectiveEmission(n) ==
  [subnet_emission |-> 0, alpha_in |-> Held("SubnetAlphaIn", n),
   alpha_out |-> Held("SubnetAlphaOut", n), tao_in |-> Held("SubnetTAO", n),
   alpha_out_emission |-> Held("SubnetAlphaOutEmission", n),
   alpha_in_emission |-> Held("SubnetAlphaInEmission", n),
   tao_in_emission |-> Held("SubnetTaoInEmission", n),
   pending_alpha_emission |-> Held("PendingEmission", n),
   pending_root_emission |-> Held("PendingRootDivs", n),
   subnet_volume |-> Held("SubnetVolume", n), moving_price |-> Held("SubnetMovingPrice", n)]

SelectiveParameters(n) ==
  [rho |-> Parameter(n).Rho, kappa |-> Parameter(n).Kappa,
   min_allowed_weights |-> Parameter(n).MinAllowedWeights,
   max_weights_limit |-> Parameter(n).MaxWeightsLimit,
   weights_version |-> Parameter(n).WeightsVersionKey,
   weights_rate_limit |-> Parameter(n).WeightsSetRateLimit,
   activity_cutoff |-> Parameter(n).ActivityCutoff, max_validators |-> Parameter(n).MaxAllowedValidators]

SelectiveRegistration(n) ==
  [num_uids |-> get_subnetwork_n(n), max_uids |-> get_max_allowed_uids(n),
   registration_allowed |-> Parameter(n).NetworkRegistrationAllowed,
   pow_registration_allowed |-> Parameter(n).NetworkPowRegistrationAllowed,
   difficulty |-> Parameter(n).Difficulty, burn |-> Parameter(n).Burn,
   immunity_period |-> Parameter(n).ImmunityPeriod,
   min_difficulty |-> Parameter(n).MinDifficulty, max_difficulty |-> Parameter(n).MaxDifficulty,
   min_burn |-> Parameter(n).MinBurn, max_burn |-> Parameter(n).MaxBurn,
   adjustment_alpha |-> Parameter(n).AdjustmentAlpha,
   adjustment_interval |-> Parameter(n).AdjustmentInterval,
   target_regs_per_interval |-> Parameter(n).TargetRegistrationsPerInterval,
   max_regs_per_block |-> Parameter(n).MaxRegistrationsPerBlock,
   serving_rate_limit |-> Parameter(n).ServingRateLimit]

SelectiveBonds_swapped(n) ==
  [commit_reveal_weights_enabled |-> Parameter(n).CommitRevealWeightsEnabled,
   commit_reveal_period |-> Parameter(n).RevealPeriodEpochs,
   liquid_alpha_enabled |-> Parameter(n).LiquidAlphaOn,
   alpha_high |-> Parameter(n).AlphaValues[1], alpha_low |-> Parameter(n).AlphaValues[2],
   bonds_moving_avg |-> Parameter(n).BondsMovingAverage]

SelectiveBonds(n) ==
  [commit_reveal_weights_enabled |-> Parameter(n).CommitRevealWeightsEnabled,
   commit_reveal_period |-> Parameter(n).RevealPeriodEpochs,
   liquid_alpha_enabled |-> Parameter(n).LiquidAlphaOn,
   alpha_high |-> Parameter(n).AlphaValues[2], alpha_low |-> Parameter(n).AlphaValues[1],
   bonds_moving_avg |-> Parameter(n).BondsMovingAverage]

SelectiveNeurons(n) ==
  [hotkeys |-> PerUid(n, LAMBDA u : KeyOf(n, u)),
   coldkeys |-> PerUid(n, LAMBDA u : ColdkeyOf(KeyOf(n, u))),
   identities |-> PerUid(n, LAMBDA u : Held("IdentitiesV2", ColdkeyOf(KeyOf(n, u)))),
   axons |-> PerUid(n, LAMBDA u : get_axon_info(n, KeyOf(n, u))),
   active |-> VectorHeld("Active", n), validator_permit |-> VectorHeld("ValidatorPermit", n),
   pruning_score |-> VectorHeld("PruningScores", n), last_update |-> VectorHeld("LastUpdate", n),
   emission |-> VectorHeld("Emission", n), dividends |-> VectorHeld("Dividends", n),
   incentives |-> VectorHeld("Incentive", n), consensus |-> VectorHeld("Consensus", n),
   trust |-> VectorHeld("Trust", n), rank |-> VectorHeld("Rank", n)]

\* Each arm asks for the stake weights, or walks the keys, again.
SelectiveStake(n) ==
  [block_at_registration |-> PerUid(n, LAMBDA u : get_neuron_block_at_registration(n, u)),
   alpha_stake |-> get_stake_weights_for_network(n)[2],
   tao_stake |-> get_stake_weights_for_network(n)[3],
   total_stake |-> get_stake_weights_for_network(n)[1],
   tao_dividends_per_hotkey |->
     PerUid(n, LAMBDA u : <<KeyOf(n, u), Held("TaoDividendsPerSubnet", <<n, KeyOf(n, u)>>)>>),
   alpha_dividends_per_hotkey |->
     PerUid(n, LAMBDA u : <<KeyOf(n, u), Held("AlphaDividendsPerSubnet", <<n, KeyOf(n, u)>>)>>),
   validators |-> Held("validators", n)]

SelectiveArm(n, i) ==
  CASE i \in 1 .. 10 -> SelectiveNames(n)
    [] i \in 11 .. 21 -> SelectiveEmission(n)
    [] i \in 22 .. 29 -> SelectiveParameters(n)
    [] i \in 30 .. 45 -> SelectiveRegistration(n)
    [] i \in 46 .. 51 -> SelectiveBonds(n)
    [] i \in 52 .. 65 -> SelectiveNeurons(n)
    [] i \in 66 .. 72 -> SelectiveStake(n)

get_single_selective_metagraph(n, i) ==
  LET f == IndexField(i)
      named == [SelectiveDefault EXCEPT !["netuid"] = n]
  IN IF f \in {None, Some("netuid")} THEN named
     ELSE [named EXCEPT ![f[1]] = Some(SelectiveArm(n, i)[f[1]])]

\* An index that names no field changes nothing.
merge_value(result, value, i) ==
  LET f == IndexField(i)
  IN IF f = None THEN result ELSE [result EXCEPT ![f[1]] = value[f[1]]]

get_selective_metagraph(n, indexes) ==
  IF ~if_subnet_exist(n) THEN None
  ELSE Some(FoldLeft(LAMBDA r, i : merge_value(r, get_single_selective_metagraph(n, i), i),
                     SelectiveDefault, indexes))

----------------------------------------------------------------------------
\* ---- subnet_info.rs ------------------------------------------------------

SubnetInfo(n) ==
  [rho |-> Parameter(n).Rho, kappa |-> Parameter(n).Kappa, difficulty |-> Parameter(n).Difficulty,
   immunity_period |-> Parameter(n).ImmunityPeriod, netuid |-> n,
   max_allowed_validators |-> Parameter(n).MaxAllowedValidators,
   min_allowed_weights |-> Parameter(n).MinAllowedWeights,
   max_weights_limit |-> Parameter(n).MaxWeightsLimit,
   scaling_law_power |-> get_scaling_law_power(n), subnetwork_n |-> get_subnetwork_n(n),
   max_allowed_uids |-> get_max_allowed_uids(n),
   blocks_since_last_step |-> get_blocks_since_last_step(n), tempo |-> Parameter(n).Tempo,
   network_modality |-> Held("NetworkModality", n), network_connect |-> {},
   burn |-> Parameter(n).Burn, owner |-> hyper.owner[n]]

get_subnet_info(n) ==
  IF ~if_subnet_exist(n) THEN None ELSE Some(SubnetInfo(n) @@ [emission_values |-> 0])

get_subnet_info_v2(n) ==
  IF ~if_subnet_exist(n) THEN None
  ELSE Some([rho |-> Parameter(n).Rho, kappa |-> Parameter(n).Kappa,
             difficulty |-> Parameter(n).Difficulty,
             immunity_period |-> Parameter(n).ImmunityPeriod, netuid |-> n,
             max_allowed_validators |-> Parameter(n).MaxAllowedValidators,
             min_allowed_weights |-> Parameter(n).MinAllowedWeights,
             max_weights_limit |-> Parameter(n).MaxWeightsLimit,
             scaling_law_power |-> get_scaling_law_power(n),
             subnetwork_n |-> get_subnetwork_n(n),
             max_allowed_uids |-> get_max_allowed_uids(n),
             blocks_since_last_step |-> get_blocks_since_last_step(n), tempo |-> Parameter(n).Tempo,
             network_modality |-> Held("NetworkModality", n), network_connect |-> {},
             emission_value |-> 0, burn |-> Parameter(n).Burn,
             owner |-> hyper.owner[n], identity |-> Held("SubnetIdentitiesV3", n)])

\* The infos of 0 ..= max_netuid, netuids without a subnet skipped.
InfoOfAll(Info(_)) ==
  LET top == CHOOSE m \in get_all_subnet_netuids \cup {0} :
               \A k \in get_all_subnet_netuids : k <= m
  IN FoldLeft(LAMBDA infos, k : IF k \in get_all_subnet_netuids
                                THEN Append(infos, Info(k)) ELSE infos,
              <<>>, [k \in 1 .. top + 1 |-> k - 1])

get_subnets_info == InfoOfAll(get_subnet_info)
get_subnets_info_v2 == InfoOfAll(get_subnet_info_v2)

get_subnet_hyperparams(n) ==
  IF ~if_subnet_exist(n) THEN None
  ELSE Some([rho |-> Parameter(n).Rho, kappa |-> Parameter(n).Kappa,
             immunity_period |-> Parameter(n).ImmunityPeriod,
             min_allowed_weights |-> Parameter(n).MinAllowedWeights,
             max_weights_limit |-> Parameter(n).MaxWeightsLimit, tempo |-> Parameter(n).Tempo,
             min_difficulty |-> Parameter(n).MinDifficulty, max_difficulty |-> Parameter(n).MaxDifficulty,
             weights_version |-> Parameter(n).WeightsVersionKey,
             weights_rate_limit |-> Parameter(n).WeightsSetRateLimit,
             adjustment_interval |-> Parameter(n).AdjustmentInterval,
             activity_cutoff |-> Parameter(n).ActivityCutoff,
             registration_allowed |-> Parameter(n).NetworkRegistrationAllowed,
             target_regs_per_interval |-> Parameter(n).TargetRegistrationsPerInterval,
             min_burn |-> Parameter(n).MinBurn, max_burn |-> Parameter(n).MaxBurn,
             bonds_moving_avg |-> Parameter(n).BondsMovingAverage,
             max_regs_per_block |-> Parameter(n).MaxRegistrationsPerBlock,
             serving_rate_limit |-> Parameter(n).ServingRateLimit,
             max_validators |-> Parameter(n).MaxAllowedValidators,
             adjustment_alpha |-> Parameter(n).AdjustmentAlpha,
             difficulty |-> Parameter(n).Difficulty,
             commit_reveal_period |-> Parameter(n).RevealPeriodEpochs,
             commit_reveal_weights_enabled |-> Parameter(n).CommitRevealWeightsEnabled,
             alpha_high |-> Parameter(n).AlphaValues[2], alpha_low |-> Parameter(n).AlphaValues[1],
             liquid_alpha_enabled |-> Parameter(n).LiquidAlphaOn])

\* The fields version 2 shares with version 1, read again.
HyperparamsV2Shared_crossed(n) ==
  [min_difficulty |-> Parameter(n).MaxDifficulty, max_difficulty |-> Parameter(n).MinDifficulty]
    @@ get_subnet_hyperparams(n)[1]

HyperparamsV2Shared(n) ==
  [rho |-> Parameter(n).Rho, kappa |-> Parameter(n).Kappa, immunity_period |-> Parameter(n).ImmunityPeriod,
   min_allowed_weights |-> Parameter(n).MinAllowedWeights,
   max_weights_limit |-> Parameter(n).MaxWeightsLimit, tempo |-> Parameter(n).Tempo,
   min_difficulty |-> Parameter(n).MinDifficulty, max_difficulty |-> Parameter(n).MaxDifficulty,
   weights_version |-> Parameter(n).WeightsVersionKey,
   weights_rate_limit |-> Parameter(n).WeightsSetRateLimit,
   adjustment_interval |-> Parameter(n).AdjustmentInterval,
   activity_cutoff |-> Parameter(n).ActivityCutoff,
   registration_allowed |-> Parameter(n).NetworkRegistrationAllowed,
   target_regs_per_interval |-> Parameter(n).TargetRegistrationsPerInterval,
   min_burn |-> Parameter(n).MinBurn, max_burn |-> Parameter(n).MaxBurn,
   bonds_moving_avg |-> Parameter(n).BondsMovingAverage,
   max_regs_per_block |-> Parameter(n).MaxRegistrationsPerBlock,
   serving_rate_limit |-> Parameter(n).ServingRateLimit,
   max_validators |-> Parameter(n).MaxAllowedValidators,
   adjustment_alpha |-> Parameter(n).AdjustmentAlpha, difficulty |-> Parameter(n).Difficulty,
   commit_reveal_period |-> Parameter(n).RevealPeriodEpochs,
   commit_reveal_weights_enabled |-> Parameter(n).CommitRevealWeightsEnabled,
   alpha_high |-> Parameter(n).AlphaValues[2], alpha_low |-> Parameter(n).AlphaValues[1],
   liquid_alpha_enabled |-> Parameter(n).LiquidAlphaOn]

get_subnet_hyperparams_v2(n) ==
  IF ~if_subnet_exist(n) THEN None
  ELSE Some(HyperparamsV2Shared(n) @@
            [alpha_sigmoid_steepness |-> Parameter(n).AlphaSigmoidSteepness,
             yuma_version |-> IF Parameter(n).Yuma3On THEN 3 ELSE 2,
             subnet_is_active |-> Parameter(n).SubtokenEnabled,
             transfers_enabled |-> Parameter(n).TransferToggle,
             bonds_reset_enabled |-> Parameter(n).BondsResetOn,
             user_liquidity_enabled |-> is_user_liquidity_enabled(n)])

\* ---- dynamic_info.rs, show_subnet.rs -------------------------------------

get_dynamic_info(n) ==
  IF ~if_subnet_exist(n) THEN None
  ELSE Some([netuid |-> n, owner_hotkey |-> hyper.net[n].SubnetOwnerHotkey,
             owner_coldkey |-> hyper.owner[n], subnet_name |-> get_name_for_subnet(n),
             token_symbol |-> get_symbol_for_subnet(n), tempo |-> hyper.net[n].Tempo,
             last_step |-> Held("LastMechansimStepBlock", n),
             blocks_since_last_step |-> BlocksSince(n), emission |-> 0,
             alpha_in |-> Held("SubnetAlphaIn", n), alpha_out |-> Held("SubnetAlphaOut", n),
             tao_in |-> Held("SubnetTAO", n),
             alpha_out_emission |-> Held("SubnetAlphaOutEmission", n),
             alpha_in_emission |-> Held("SubnetAlphaInEmission", n),
             tao_in_emission |-> Held("SubnetTaoInEmission", n),
             pending_alpha_emission |-> Held("PendingEmission", n),
             pending_root_emission |-> Held("PendingRootDivs", n),
             subnet_volume |-> Held("SubnetVolume", n),
             network_registered_at |-> hyper.registeredAt[n],
             subnet_identity |-> Held("SubnetIdentitiesV3", n),
             moving_price |-> Held("SubnetMovingPrice", n)])

get_all_dynamic_info == [n \in get_all_subnet_netuids |-> get_dynamic_info(n)]

get_emissions_history(hotkeys) ==
  [k \in get_all_subnet_netuids |->
     [u \in DOMAIN hotkeys |-> Held("LastHotkeyEmissionOnNetuid", <<hotkeys[u], k>>)]]

get_subnet_state(n) ==
  LET weights == get_stake_weights_for_network(n)
      keys == PerUid(n, LAMBDA u : KeyOf(n, u))
  IN IF ~if_subnet_exist(n) THEN None
     ELSE Some([netuid |-> n, hotkeys |-> keys,
                coldkeys |-> PerUid(n, LAMBDA u : ColdkeyOf(keys[u])),
                active |-> VectorHeld("Active", n), validator_permit |-> VectorHeld("ValidatorPermit", n),
                pruning_score |-> VectorHeld("PruningScores", n), last_update |-> VectorHeld("LastUpdate", n),
                emission |-> VectorHeld("Emission", n), dividends |-> VectorHeld("Dividends", n),
                incentives |-> VectorHeld("Incentive", n), consensus |-> VectorHeld("Consensus", n),
                trust |-> VectorHeld("Trust", n), rank |-> VectorHeld("Rank", n),
                block_at_registration |->
                  PerUid(n, LAMBDA u : get_neuron_block_at_registration(n, u)),
                alpha_stake |-> weights[2], tao_stake |-> weights[3],
                total_stake |-> weights[1],
                emission_history |-> get_emissions_history(keys)])

----------------------------------------------------------------------------
\* ---- neuron_info.rs ------------------------------------------------------

\* Weights and bonds are shown without their zero entries.
get_neuron_subnet_exists(n, u) ==
  LET found == get_hotkey_for_net_and_uid(n, u)
      hotkey == found[1]
      coldkey == ColdkeyOf(hotkey)
  IN IF found = None THEN None
     ELSE Some([hotkey |-> hotkey, coldkey |-> coldkey, uid |-> u, netuid |-> n,
                active |-> ElementOf("Active", n, u, FALSE),
                axon_info |-> get_axon_info(n, hotkey),
                prometheus_info |-> get_prometheus_info(n, hotkey),
                stake |-> <<coldkey, Held("TotalHotkeyAlpha", <<hotkey, n>>)>>,
                rank |-> ElementOf("Rank", n, u, 0), emission |-> ElementOf("Emission", n, u, 0),
                incentive |-> ElementOf("Incentive", n, u, 0),
                consensus |-> ElementOf("Consensus", n, u, 0), trust |-> ElementOf("Trust", n, u, 0),
                validator_trust |-> ElementOf("ValidatorTrust", n, u, 0),
                dividends |-> ElementOf("Dividends", n, u, 0),
                last_update |-> ElementOf("LastUpdate", n, u, 0),
                validator_permit |-> ElementOf("ValidatorPermit", n, u, FALSE),
                weights |-> Held("Weights", <<n, u>>), bonds |-> Held("Bonds", <<n, u>>),
                pruning_score |-> ElementOf("PruningScores", n, u, U16Max)])

get_neuron_lite_subnet_exists(n, u) ==
  LET found == get_hotkey_for_net_and_uid(n, u)
      hotkey == found[1]
      coldkey == ColdkeyOf(hotkey)
  IN IF found = None THEN None
     ELSE Some([hotkey |-> hotkey, coldkey |-> coldkey, uid |-> u, netuid |-> n,
                active |-> ElementOf("Active", n, u, FALSE),
                axon_info |-> get_axon_info(n, hotkey),
                prometheus_info |-> get_prometheus_info(n, hotkey),
                stake |-> <<coldkey, Held("TotalHotkeyAlpha", <<hotkey, n>>)>>,
                rank |-> ElementOf("Rank", n, u, 0), emission |-> ElementOf("Emission", n, u, 0),
                incentive |-> ElementOf("Incentive", n, u, 0),
                consensus |-> ElementOf("Consensus", n, u, 0), trust |-> ElementOf("Trust", n, u, 0),
                validator_trust |-> ElementOf("ValidatorTrust", n, u, 0),
                dividends |-> ElementOf("Dividends", n, u, 0),
                last_update |-> ElementOf("LastUpdate", n, u, 0),
                validator_permit |-> ElementOf("ValidatorPermit", n, u, FALSE),
                pruning_score |-> ElementOf("PruningScores", n, u, U16Max)])

get_neuron(n, u) == IF ~if_subnet_exist(n) THEN None ELSE get_neuron_subnet_exists(n, u)
get_neuron_lite(n, u) ==
  IF ~if_subnet_exist(n) THEN None ELSE get_neuron_lite_subnet_exists(n, u)

\* The loop over 0 .. n - 1 stops at the first uid that has no hotkey.
NeuronsUpTo(n, Neuron(_, _)) ==
  FoldLeft(LAMBDA acc, u : IF Len(acc) = u /\ Neuron(n, u) # None
                           THEN acc \o Neuron(n, u) ELSE acc,
           <<>>, [k \in 1 .. get_subnetwork_n(n) |-> k - 1])

get_neurons(n) ==
  IF ~if_subnet_exist(n) THEN <<>> ELSE NeuronsUpTo(n, get_neuron_subnet_exists)
get_neurons_lite(n) ==
  IF ~if_subnet_exist(n) THEN <<>> ELSE NeuronsUpTo(n, get_neuron_lite_subnet_exists)

----------------------------------------------------------------------------
\* ---- properties ----------------------------------------------------------

\* Two records agree wherever both have the field, but for some fields.
ConsistentBut(a, b, but) == \A f \in (DOMAIN a \cap DOMAIN b) \ but : a[f] = b[f]
Consistent(a, b) == ConsistentBut(a, b, {})

\* The requests asked in SelectiveIsTheFull: nothing, every field in runs of ten (the last
\* run reaches past the known indexes), and one field twice.
Requests ==
  {<<>>, <<8, 0, 8>>} \cup {[k \in 1 .. 10 |-> 10 * j + k - 1] : j \in 0 .. 7}

\* A selective metagraph holds exactly the fields that were requested, each with the value
\* the full metagraph shows, whatever the order, the duplicates and the unknown indexes of
\* the request: the arms of get_single_selective_metagraph and of merge_value stay in step
\* with get_metagraph through every change of the parameters.
SelectiveIsTheFull ==
  hyper.block \in ViewBlocks => \A n \in hyper.exists : \A request \in Requests :
    LET full == get_metagraph(n)[1]
        shown == get_selective_metagraph(n, request)[1]
        asked == UNION {{from_index[i + 1]} : i \in {request[k] : k \in DOMAIN request}
                                                      \cap 0 .. Len(from_index) - 1}
    IN \A f \in DOMAIN shown :
         /\ f = "netuid" => shown[f] = IF f \in asked THEN n ELSE 0
         /\ f # "netuid" => (shown[f] # None <=> f \in asked)
         /\ f \in (asked \cap DOMAIN full) \ {"netuid"} => shown[f] = Some(full[f])

\* get_metagraph, get_subnet_info and its second version, both get_subnet_hyperparams and
\* get_dynamic_info read the same storage with their own lists of reads: after any sequence
\* of parameter changes no two of them show a field of one name with two values, and all of
\* them stop showing the subnet when it is removed.  (get_subnet_info counts the blocks
\* since the last step in another map, and the emission of get_dynamic_info is not that of
\* the neurons: they are compared without these fields.)
SubnetViewsAgree ==
  hyper.block \in ViewBlocks => \A n \in HyperNetuids :
    LET meta == get_metagraph(n)
        others == {get_subnet_hyperparams(n), get_subnet_hyperparams_v2(n),
                   get_subnet_state(n)}
        dynamic == get_dynamic_info(n)
        info == get_subnet_info(n)
        info2 == get_subnet_info_v2(n)
    IN IF n \notin hyper.exists
       THEN meta = None /\ info = None /\ info2 = None /\ dynamic = None
            /\ \A v \in others : v = None
       ELSE /\ \A v \in others : Consistent(v[1], meta[1])
            /\ Consistent(info[1], info2[1])
            /\ ConsistentBut(dynamic[1], meta[1], {"emission"})
            /\ ConsistentBut(info[1], meta[1], {"blocks_since_last_step"})
            /\ <<dynamic[1].subnet_name, dynamic[1].token_symbol, dynamic[1].subnet_identity>>
                 = <<meta[1].name, meta[1].symbol, meta[1].identity>>
            /\ <<info[1].subnetwork_n, info[1].max_allowed_uids,
                 info[1].max_allowed_validators, info[1].owner>>
                 = <<meta[1].num_uids, meta[1].max_uids, meta[1].max_validators,
                     meta[1].owner_coldkey>>

\* The neuron list has one entry per uid of the subnet, in uid order, the lite list the same
\* neurons, and each agrees with the vectors of the metagraph at its uid: get_neurons and
\* get_neurons_lite never stop early while registrations append uids.
NeuronViewsAgree ==
  hyper.block \in ViewBlocks => \A n \in hyper.exists :
    LET meta == get_metagraph(n)[1]
        full == get_neurons(n)
        lite == get_neurons_lite(n)
    IN /\ Len(full) = meta.num_uids /\ Len(lite) = Len(full)
       /\ \A k \in DOMAIN full :
            /\ Consistent(full[k], lite[k]) /\ full[k].uid = k - 1
            /\ <<full[k].hotkey, full[k].coldkey, full[k].rank, full[k].dividends,
                 full[k].validator_permit, full[k].pruning_score, full[k].last_update>>
                 = <<meta.hotkeys[k - 1], meta.coldkeys[k - 1], meta.rank[k - 1],
                     meta.dividends[k - 1], meta.validator_permit[k - 1],
                     meta.pruning_score[k - 1], meta.last_update[k - 1]>>
============================================================================
