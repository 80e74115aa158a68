-------------------------- MODULE Hyperparameters --------------------------
(***************************************************************************)
(* The parameters of the chain and of its subnets, and the calls that      *)
(* change them: pallets/admin-utils (every sudo_set_* call), the setters   *)
(* of utils/misc.rs they go through, and the operations that give a subnet *)
(* its parameters and take them away (do_register_network,                 *)
(* init_new_network, dissolve_network, remove_network, do_start_call).     *)
(*                                                                         *)
(* A storage map keyed by netuid is a field of hyper.net[netuid], under    *)
(* the name of the map; a storage value is a field of hyper.global.  A     *)
(* missing key reads as the default of the map, so removing a key writes   *)
(* the default.  Defaults are the ones of runtime/src/lib.rs; those that   *)
(* count blocks are constants, to be small.  u64::MAX, u64::MAX / 4 and    *)
(* the two large RAO amounts do not fit TLC's integers and are stood in    *)
(* for by Huge, at which the lock cost saturates.                          *)
(***************************************************************************)
EXTENDS BlockEmission, FiniteSets, TLC

CONSTANTS
  HyperNetuids,        \* the netuids in use, a set 1..k
  HyperColdkeys,       \* the signed callers
  HyperValues,         \* parameter name -> the values a call may pass
  InitialTempo,        \* SubtensorInitialTempo
  InitialNetworkRateLimit,
  InitialLock,         \* SubtensorInitialMinLockCost
  InitialLockReductionInterval,
  InitialIssuance,     \* the balances of the genesis
  OwnerHotkeyRateLimit,    \* DefaultSetSNOwnerHotkeyRateLimit
  VersionKeyRateLimit,     \* WeightsVersionKeyRateLimit, in tempos
  DurationOfStartCall,
  MaxHyperBlock,
  Huge

ASSUME HyperConstants ==
  /\ HyperNetuids = 1 .. Cardinality(HyperNetuids)
  /\ {InitialTempo, InitialLock, OwnerHotkeyRateLimit, MaxHyperBlock, InitialIssuance} \subseteq Nat
  /\ DefaultBlockEmission > 0

VARIABLE hyper

Root == "root"
NoOwner == "nobody"     \* DefaultSubnetOwner, the zero account: nobody signs for it
Origins == {Root} \cup HyperColdkeys
U16Max == 65535
MaxHyperUids == 2      \* a bound on the uids a subnet reaches here
MinActivityCutoff == 360
OwnerBondsLimit == 975000
MinAlpha == U16Max \div 40

\* What the maps of the registration terms return for a subnet nobody has configured.
RegistrationDefaults ==
  [EMAPriceHalvingBlocks |-> 201600,
   Burn |-> 100000000, MinBurn |-> 500000, MaxBurn |-> Huge,
   Difficulty |-> 10000000, MinDifficulty |-> 10000000, MaxDifficulty |-> Huge,
   MaxRegistrationsPerBlock |-> 1, RAORecycledForRegistration |-> 0]

\* The same for the maps the epoch reads.
ConsensusDefaults ==
  [Tempo |-> InitialTempo, WeightsSetRateLimit |-> 100,
   Rho |-> 10, AlphaSigmoidSteepness |-> 1000, Kappa |-> 32767,
   MaxAllowedUids |-> 4096, ImmunityPeriod |-> 4096, ActivityCutoff |-> 5000,
   MaxWeightsLimit |-> 1000, WeightsVersionKey |-> 0, MinAllowedWeights |-> 1024,
   MaxAllowedValidators |-> 128, AdjustmentInterval |-> 100,
   BondsMovingAverage |-> 900000, BondsPenalty |-> U16Max, BondsResetOn |-> FALSE,
   TargetRegistrationsPerInterval |-> 2, AdjustmentAlpha |-> 0, RevealPeriodEpochs |-> 1]

SwitchDefaults ==
  [ServingRateLimit |-> 50, CommitRevealWeightsEnabled |-> FALSE,
   LiquidAlphaOn |-> FALSE, Yuma3On |-> FALSE, AlphaValues |-> <<45875, 58982>>]

LifecycleDefaults ==
  [TransferToggle |-> TRUE, SubtokenEnabled |-> FALSE,
   NetworkRegistrationAllowed |-> FALSE, NetworkPowRegistrationAllowed |-> FALSE,
   FirstEmissionBlockNumber |-> 0, SubnetOwnerHotkey |-> NoOwner]

\* Every map of the pallet that is keyed by netuid and holds a parameter.
DefaultParameters ==
  RegistrationDefaults @@ ConsensusDefaults @@ SwitchDefaults @@ LifecycleDefaults

PrecompileEnum == {"BalanceTransfer", "Staking", "Subnet", "Metagraph", "Neuron", "UidLookup", "Alpha"}

GlobalDefaults ==
  [MaxDelegateTake |-> 11796, MinDelegateTake |-> 0,
   MinChildkeyTake |-> 0, MaxChildkeyTake |-> 11796,
   TxRateLimit |-> 1000, TxDelegateTakeRateLimit |-> 216000, TxChildkeyTakeRateLimit |-> 216000,
   SubnetOwnerCut |-> 11796, NetworkRateLimit |-> InitialNetworkRateLimit,
   TotalIssuance |-> InitialIssuance, NetworkImmunityPeriod |-> 50400,
   NetworkMinLockCost |-> InitialLock, NetworkLastLockCost |-> InitialLock,
   NetworkLockReductionInterval |-> InitialLockReductionInterval,
   StakeThreshold |-> 0, NominatorMinRequiredStake |-> 0,
   ColdkeySwapScheduleDuration |-> 36000, DissolveNetworkScheduleDuration |-> 36000,
   SubnetMovingAlpha |-> 3, EvmChainId |-> 0, PrecompileEnable |-> PrecompileEnum,
   Authorities |-> 0, GrandpaAuthorities |-> 0, NetworkLastRegistered |-> 0]

Parameters == DOMAIN DefaultParameters

----------------------------------------------------------------------------
\* ---- reading -------------------------------------------------------------

if_subnet_exist(netuid) == netuid \in hyper.exists
get_subnetwork_n(netuid) == hyper.n[netuid]
get_max_allowed_uids(netuid) == hyper.net[netuid].MaxAllowedUids

\* The getters of utils/misc.rs: get_rho(netuid) is Parameter(netuid).Rho.
Parameter(netuid) == hyper.net[netuid]

ensure_root(o) == o = Root
ensure_subnet_owner(o, netuid) == o # Root /\ hyper.owner[netuid] = o
ensure_subnet_owner_or_root(o, netuid) == o = Root \/ hyper.owner[netuid] = o

\* get_rate_limit_on_subnet and check_passes_rate_limit: block 0 stands for "never".
get_rate_limit_on_subnet(type, netuid) ==
  CASE type = "SetWeightsVersionKey" -> hyper.net[netuid].Tempo * VersionKeyRateLimit
    [] type = "SetSNOwnerHotkey" -> OwnerHotkeyRateLimit

check_passes_rate_limit(limit, block, last) == last = 0 \/ block - last >= limit

passes_rate_limit_on_subnet(type, key, netuid) ==
  check_passes_rate_limit(get_rate_limit_on_subnet(type, netuid), hyper.block,
                          hyper.lastTransaction[key, netuid, type])

\* safe_div: dividing by zero gives zero.
SafeQuotient(a, b) == IF b = 0 THEN 0 ELSE a \div b
SaturatingSub(a, b) == IF a > b THEN a - b ELSE 0
SaturatingMul(a, k) == IF a > Huge \div k THEN Huge ELSE a * k

get_block_emission(g) == get_block_emission_for_issuance(g.TotalIssuance)

\* Halved with the emission, and zero once nothing is left to emit.
get_lock_reduction_interval(g) ==
  (g.NetworkLockReductionInterval * get_block_emission(g)) \div DefaultBlockEmission

get_network_lock_cost_rising(h) ==
  LET g == h.global
      last == g.NetworkLastLockCost
      mult == IF g.NetworkLastRegistered = 0 THEN 1 ELSE 2
      cost == last * mult + SafeQuotient(last, get_lock_reduction_interval(g))
                              * (h.block - g.NetworkLastRegistered)
  IN IF cost < g.NetworkMinLockCost THEN g.NetworkMinLockCost ELSE cost

get_network_lock_cost(h) ==
  LET g == h.global
      last == g.NetworkLastLockCost
      mult == IF g.NetworkLastRegistered = 0 THEN 1 ELSE 2
      cost == SaturatingSub(SaturatingMul(last, mult),
                            SafeQuotient(last, get_lock_reduction_interval(g))
                              * (h.block - g.NetworkLastRegistered))
  IN IF cost < g.NetworkMinLockCost THEN g.NetworkMinLockCost ELSE cost

----------------------------------------------------------------------------
\* ---- writing: the setters of utils/misc.rs ---------------------------------

\* Each setter writes the map of its name: set_rho(netuid, v) is Put(h, "Rho", netuid, v).
Put(h, p, netuid, v) == [h EXCEPT !.net[netuid][p] = v]
PutGlobal(p, v) == [hyper EXCEPT !.global[p] = v]


set_last_transaction_block_on_subnet(h, key, n, type) ==
  [h EXCEPT !.lastTransaction[key, n, type] = h.block]

\* The new state of a successful call, and who made it.
Called(o, h) == hyper' = [h EXCEPT !.by = o]

----------------------------------------------------------------------------
\* ---- the calls of admin-utils: the root key only, for the whole chain ------

RootSets(o, p) ==
  /\ ensure_root(o)
  /\ \E v \in HyperValues[p] : Called(o, PutGlobal(p, v))

\* swap_authorities, sudo_set_default_take, sudo_set_tx_rate_limit
ChainTerms(o) == \E p \in {"Authorities", "MaxDelegateTake", "TxRateLimit"} : RootSets(o, p)

\* sudo_set_subnet_owner_cut, sudo_set_network_rate_limit
OwnerTerms(o) == \E p \in {"SubnetOwnerCut", "NetworkRateLimit"} : RootSets(o, p)

\* sudo_set_total_issuance and the three terms of a network's price and immunity
NetworkTerms(o) ==
  \E p \in {"TotalIssuance", "NetworkImmunityPeriod", "NetworkMinLockCost",
            "NetworkLockReductionInterval"} : RootSets(o, p)

\* sudo_set_stake_threshold
sudo_set_stake_threshold(o) == RootSets(o, "StakeThreshold")

\* sudo_set_tx_delegate_take_rate_limit, sudo_set_min_delegate_take
DelegateTerms(o) == \E p \in {"TxDelegateTakeRateLimit", "MinDelegateTake"} : RootSets(o, p)

\* sudo_set_coldkey_swap_schedule_duration, sudo_set_dissolve_network_schedule_duration
ScheduleTerms(o) ==
  \E p \in {"ColdkeySwapScheduleDuration", "DissolveNetworkScheduleDuration"} : RootSets(o, p)

\* sudo_set_evm_chain_id, schedule_grandpa_change
NodeTerms(o) == \E p \in {"EvmChainId", "GrandpaAuthorities"} : RootSets(o, p)

sudo_set_subnet_moving_alpha(o) == RootSets(o, "SubnetMovingAlpha")

\* sudo_set_tx_childkey_take_rate_limit, sudo_set_min_childkey_take, sudo_set_max_childkey_take
ChildkeyTerms(o) ==
  \E p \in {"TxChildkeyTakeRateLimit", "MinChildkeyTake", "MaxChildkeyTake"} : RootSets(o, p)

\* Two calls whose parameter was retired: they check the origin and change nothing.
sudo_set_subnet_limit(o) == ensure_root(o) /\ Called(o, hyper)
sudo_set_network_max_stake(o) == ensure_root(o) /\ Called(o, hyper)

\* Each precompile has a flag, TRUE at first: the ones that are set.
sudo_toggle_evm_precompile(o) ==
  /\ ensure_root(o)
  /\ \E precompile_id \in PrecompileEnum, enabled \in HyperValues["PrecompileEnable"] :
        Called(o, PutGlobal("PrecompileEnable",
          IF enabled THEN hyper.global.PrecompileEnable \cup {precompile_id}
          ELSE hyper.global.PrecompileEnable \ {precompile_id}))

\* ---- the root key only, for one subnet ----------------------------------------

RootConfigures(o, netuid, p) ==
  /\ ensure_root(o)
  /\ if_subnet_exist(netuid)
  /\ \E v \in HyperValues[p] : Called(o, Put(hyper, p, netuid, v))

sudo_set_min_difficulty(o, n) == RootConfigures(o, n, "MinDifficulty")
sudo_set_weights_set_rate_limit(o, n) == RootConfigures(o, n, "WeightsSetRateLimit")
sudo_set_adjustment_interval(o, n) == RootConfigures(o, n, "AdjustmentInterval")
sudo_set_target_registrations_per_interval(o, n) == RootConfigures(o, n, "TargetRegistrationsPerInterval")
sudo_set_min_burn(o, n) == RootConfigures(o, n, "MinBurn")
sudo_set_max_burn(o, n) == RootConfigures(o, n, "MaxBurn")
sudo_set_difficulty(o, n) == RootConfigures(o, n, "Difficulty")
sudo_set_max_registrations_per_block(o, n) == RootConfigures(o, n, "MaxRegistrationsPerBlock")
sudo_set_tempo(o, n) == RootConfigures(o, n, "Tempo")
sudo_set_rao_recycled(o, n) == RootConfigures(o, n, "RAORecycledForRegistration")

sudo_set_max_allowed_uids_unchecked(o, n) == RootConfigures(o, n, "MaxAllowedUids")

sudo_set_max_allowed_uids(o, n) ==
  /\ ensure_root(o)
  /\ if_subnet_exist(n)
  /\ \E v \in HyperValues["MaxAllowedUids"] :
        /\ get_subnetwork_n(n) < v
        /\ Called(o, Put(hyper, "MaxAllowedUids", n, v))

sudo_set_max_allowed_validators(o, n) ==
  /\ ensure_root(o)
  /\ if_subnet_exist(n)
  /\ \E v \in HyperValues["MaxAllowedValidators"] :
        /\ v <= get_max_allowed_uids(n)
        /\ Called(o, Put(hyper, "MaxAllowedValidators", n, v))

\* These two do not ask whether the subnet exists.
sudo_set_ema_price_halving_period(o, n) ==
  /\ ensure_root(o)
  /\ \E v \in HyperValues["EMAPriceHalvingBlocks"] :
        Called(o, Put(hyper, "EMAPriceHalvingBlocks", n, v))

sudo_set_subtoken_enabled(o, n) ==
  /\ ensure_root(o)
  /\ \E v \in HyperValues["SubtokenEnabled"] : Called(o, Put(hyper, "SubtokenEnabled", n, v))

\* ---- the subnet's owner or the root key ------------------------------------

OwnerOrRootConfigures(o, netuid, p) ==
  /\ ensure_subnet_owner_or_root(o, netuid)
  /\ if_subnet_exist(netuid)
  /\ \E v \in HyperValues[p] : Called(o, Put(hyper, p, netuid, v))

sudo_set_max_difficulty(o, n) == OwnerOrRootConfigures(o, n, "MaxDifficulty")
sudo_set_adjustment_alpha(o, n) == OwnerOrRootConfigures(o, n, "AdjustmentAlpha")
sudo_set_max_weight_limit(o, n) == OwnerOrRootConfigures(o, n, "MaxWeightsLimit")
sudo_set_immunity_period(o, n) == OwnerOrRootConfigures(o, n, "ImmunityPeriod")
sudo_set_min_allowed_weights(o, n) == OwnerOrRootConfigures(o, n, "MinAllowedWeights")
sudo_set_kappa(o, n) == OwnerOrRootConfigures(o, n, "Kappa")
sudo_set_rho(o, n) == OwnerOrRootConfigures(o, n, "Rho")
sudo_set_bonds_penalty(o, n) == OwnerOrRootConfigures(o, n, "BondsPenalty")
sudo_set_commit_reveal_weights_enabled(o, n) == OwnerOrRootConfigures(o, n, "CommitRevealWeightsEnabled")
sudo_set_commit_reveal_weights_interval(o, n) == OwnerOrRootConfigures(o, n, "RevealPeriodEpochs")

sudo_set_activity_cutoff(o, n) ==
  /\ ensure_subnet_owner_or_root(o, n)
  /\ if_subnet_exist(n)
  /\ \E v \in HyperValues["ActivityCutoff"] :
        /\ v >= MinActivityCutoff
        /\ Called(o, Put(hyper, "ActivityCutoff", n, v))

sudo_set_bonds_moving_average(o, n) ==
  /\ ensure_subnet_owner_or_root(o, n)
  /\ if_subnet_exist(n)
  /\ \E v \in HyperValues["BondsMovingAverage"] :
        /\ ensure_subnet_owner(o, n) => v <= OwnerBondsLimit
        /\ Called(o, Put(hyper, "BondsMovingAverage", n, v))

sudo_set_alpha_sigmoid_steepness(o, n) ==
  /\ ensure_subnet_owner_or_root(o, n)
  /\ if_subnet_exist(n)
  /\ \E v \in HyperValues["AlphaSigmoidSteepness"] :
        /\ ensure_root(o) \/ v >= 0
        /\ Called(o, Put(hyper, "AlphaSigmoidSteepness", n, v))

sudo_set_weights_version_key_forgetful(o, n) ==
  /\ ensure_subnet_owner_or_root(o, n)
  /\ if_subnet_exist(n)
  /\ o # Root => passes_rate_limit_on_subnet("SetWeightsVersionKey", o, n)
  /\ \E v \in HyperValues["WeightsVersionKey"] :
        Called(o, [Put(hyper, "WeightsVersionKey", n, v) EXCEPT !.changed[o, n] = hyper.block])

\* The root key may change the version key at any time, the owner once in
\* so many tempos.
sudo_set_weights_version_key(o, n) ==
  /\ ensure_subnet_owner_or_root(o, n)
  /\ if_subnet_exist(n)
  /\ o # Root => passes_rate_limit_on_subnet("SetWeightsVersionKey", o, n)
  /\ \E v \in HyperValues["WeightsVersionKey"] :
       LET h == IF o = Root THEN hyper
                ELSE [set_last_transaction_block_on_subnet(hyper, o, n, "SetWeightsVersionKey")
                        EXCEPT !.changed[o, n] = hyper.block]
       IN Called(o, Put(h, "WeightsVersionKey", n, v))

\* These do not ask whether the subnet exists.
OwnerOrRootSets(o, netuid, p) ==
  /\ ensure_subnet_owner_or_root(o, netuid)
  /\ \E v \in HyperValues[p] : Called(o, Put(hyper, p, netuid, v))

sudo_set_serving_rate_limit(o, n) == OwnerOrRootSets(o, n, "ServingRateLimit")
sudo_set_network_registration_allowed(o, n) == OwnerOrRootSets(o, n, "NetworkRegistrationAllowed")
sudo_set_network_pow_registration_allowed(o, n) == OwnerOrRootSets(o, n, "NetworkPowRegistrationAllowed")
sudo_set_liquid_alpha_enabled(o, n) == OwnerOrRootSets(o, n, "LiquidAlphaOn")
sudo_set_toggle_transfer(o, n) == OwnerOrRootSets(o, n, "TransferToggle")
sudo_set_yuma3_enabled(o, n) == OwnerOrRootSets(o, n, "Yuma3On")
sudo_set_bonds_reset_enabled(o, n) == OwnerOrRootSets(o, n, "BondsResetOn")

\* do_set_alpha_values asks for a signed origin first, so the root key is refused.
sudo_set_alpha_values(o, n) ==
  /\ ensure_subnet_owner_or_root(o, n)
  /\ o # Root
  /\ hyper.net[n].LiquidAlphaOn
  /\ \E v \in HyperValues["AlphaValues"] :
        /\ v[2] >= MinAlpha
        /\ v[1] >= MinAlpha /\ v[1] <= v[2]
        /\ Called(o, Put(hyper, "AlphaValues", n, v))

\* The owner only, at any time ...
sudo_set_subnet_owner_hotkey(o, n) ==
  /\ ensure_subnet_owner(o, n)
  /\ \E v \in HyperValues["SubnetOwnerHotkey"] : Called(o, Put(hyper, "SubnetOwnerHotkey", n, v))

\* ... or the owner or the root key, once per interval and subnet.
sudo_set_sn_owner_hotkey(o, n) ==
  /\ ensure_subnet_owner_or_root(o, n)
  /\ if_subnet_exist(n)
  /\ passes_rate_limit_on_subnet("SetSNOwnerHotkey", NoOwner, n)
  /\ \E v \in HyperValues["SubnetOwnerHotkey"] :
       Called(o, Put(set_last_transaction_block_on_subnet(hyper, NoOwner, n, "SetSNOwnerHotkey"),
                     "SubnetOwnerHotkey", n, v))

----------------------------------------------------------------------------
\* ---- the life of a subnet ----------------------------------------------------

\* The parameters init_new_network writes whatever was there before, and
\* those that remove_network erases (the two lists of the code).
WrittenAtCreation ==
  [NetworkRegistrationAllowed |-> TRUE, MaxAllowedUids |-> 256, MaxAllowedValidators |-> 64,
   MinAllowedWeights |-> 1, MaxWeightsLimit |-> U16Max, AdjustmentInterval |-> 360,
   TargetRegistrationsPerInterval |-> 1, AdjustmentAlpha |-> Huge, ImmunityPeriod |-> 5000,
   MinDifficulty |-> Huge, MaxDifficulty |-> Huge, Tempo |-> InitialTempo]

ErasedAtRemoval ==
  {"Tempo", "Kappa", "Difficulty", "MaxAllowedUids", "ImmunityPeriod", "ActivityCutoff",
   "MaxWeightsLimit", "MinAllowedWeights"}

init_new_network_keeping(h, netuid) ==
  [h EXCEPT !.exists = @ \cup {netuid}, !.n[netuid] = 0,
            !.net[netuid].Tempo = InitialTempo]

init_new_network(h, netuid) ==
  [h EXCEPT !.exists = @ \cup {netuid}, !.n[netuid] = 0,
            !.net[netuid] = [p \in Parameters |-> IF p \in DOMAIN WrittenAtCreation
                                                  THEN WrittenAtCreation[p] ELSE @[p]]]

get_next_netuid == CHOOSE n \in HyperNetuids \ hyper.exists :
                     \A m \in HyperNetuids \ hyper.exists : n <= m

burn_tokens(h, amount) == [h EXCEPT !.global.TotalIssuance = SaturatingSub(@, amount)]

\* The price of the network, less what its pool starts with, is burned.  Funds and
\* the owners of hotkeys are not modelled: the caller may have the price to pay, and
\* the hotkey is new or the caller's.
do_register_network(coldkey, hotkey) ==
  /\ HyperNetuids \ hyper.exists # {}
  /\ hyper.block - hyper.global.NetworkLastRegistered >= hyper.global.NetworkRateLimit
  /\ LET netuid == get_next_netuid
         h == init_new_network(hyper, netuid)
         lock == get_network_lock_cost(hyper)
         pool_initial_tao == hyper.global.NetworkMinLockCost
     IN Called(coldkey,
          [burn_tokens(h, SaturatingSub(lock, pool_initial_tao))
             EXCEPT !.global.NetworkLastLockCost = lock,
                    !.global.NetworkLastRegistered = hyper.block,
                    !.n[netuid] = 1,
                    !.registeredAt[netuid] = hyper.block,
                    !.owner[netuid] = coldkey,
                    !.net[netuid].SubnetOwnerHotkey = hotkey])

remove_network_keeping_owner(h, netuid) ==
  [h EXCEPT !.exists = @ \ {netuid}, !.n[netuid] = 0, !.registeredAt[netuid] = 0,
            !.registrations[netuid].interval = 0,
            !.net[netuid] = [p \in Parameters |-> IF p \in ErasedAtRemoval
                                                  THEN DefaultParameters[p] ELSE @[p]]]

remove_network(h, netuid) ==
  [h EXCEPT !.exists = @ \ {netuid}, !.n[netuid] = 0, !.registeredAt[netuid] = 0,
            !.registrations[netuid].interval = 0,
            !.owner[netuid] = NoOwner,
            !.net[netuid] = [p \in Parameters |-> IF p \in ErasedAtRemoval
                                                  THEN DefaultParameters[p] ELSE @[p]]]

\* dissolve_network is a root call that names the owner's coldkey.
dissolve_network(o, coldkey, netuid) ==
  /\ ensure_root(o)
  /\ if_subnet_exist(netuid)
  /\ hyper.owner[netuid] = coldkey
  /\ Called(o, remove_network(hyper, netuid))

start_call(o, netuid) ==
  /\ if_subnet_exist(netuid)
  /\ ensure_subnet_owner(o, netuid)
  /\ hyper.net[netuid].FirstEmissionBlockNumber = 0
  /\ hyper.block >= hyper.registeredAt[netuid] + DurationOfStartCall
  /\ Called(o, [hyper EXCEPT !.net[netuid].FirstEmissionBlockNumber = hyper.block + 1,
                             !.net[netuid].SubtokenEnabled = TRUE])

\* A registration adds a uid, or replaces one when all are taken, and adds what it
\* burned to the subnet's count.
do_burned_registration(coldkey, netuid) ==
  LET p == Parameter(netuid)
      n == get_subnetwork_n(netuid)
  IN /\ if_subnet_exist(netuid)
     /\ p.NetworkRegistrationAllowed
     /\ hyper.registrations[netuid].block < p.MaxRegistrationsPerBlock
     /\ hyper.registrations[netuid].interval < 3 * p.TargetRegistrationsPerInterval
     /\ p.MaxAllowedUids # 0
     /\ n < p.MaxAllowedUids => n < MaxHyperUids
     /\ Called(coldkey,
          [hyper EXCEPT !.n[netuid] = IF n < p.MaxAllowedUids THEN n + 1 ELSE n,
                        !.registrations[netuid] = [block |-> @.block + 1, interval |-> @.interval + 1],
                        !.net[netuid].RAORecycledForRegistration = @ + p.Burn])

\* A subnet is emitted to once it is started, while it admits registrations.
Emitting ==
  {n \in hyper.exists : /\ Parameter(n).FirstEmissionBlockNumber # 0
                        /\ \/ Parameter(n).NetworkRegistrationAllowed
                           \/ Parameter(n).NetworkPowRegistrationAllowed}

\* The block hook issues up to the block's emission, by the subnets' moving prices,
\* and forgets the registrations of the last block.  MaxHyperBlock is below every
\* adjustment interval: what happens at its end is in BlockTerms.
HyperBlock ==
  /\ hyper.block < MaxHyperBlock
  /\ \E issued \in IF Emitting = {} THEN {0} ELSE 0 .. get_block_emission(hyper.global) :
        hyper' = [hyper EXCEPT !.block = @ + 1, !.by = NoOwner,
                               !.global.TotalIssuance = @ + issued,
                               !.registrations = [n \in HyperNetuids |-> [@[n] EXCEPT !.block = 0]]]

----------------------------------------------------------------------------
GlobalCalls(o) ==
  \/ ChainTerms(o) \/ OwnerTerms(o) \/ NetworkTerms(o) \/ sudo_set_stake_threshold(o)
  \/ DelegateTerms(o) \/ ScheduleTerms(o) \/ NodeTerms(o) \/ sudo_set_subnet_moving_alpha(o)
  \/ ChildkeyTerms(o) \/ sudo_set_subnet_limit(o) \/ sudo_set_network_max_stake(o)
  \/ sudo_toggle_evm_precompile(o)

SubnetCalls(o, n) ==
  \/ sudo_set_min_difficulty(o, n) \/ sudo_set_weights_set_rate_limit(o, n)
  \/ sudo_set_adjustment_interval(o, n) \/ sudo_set_target_registrations_per_interval(o, n)
  \/ sudo_set_min_burn(o, n) \/ sudo_set_max_burn(o, n) \/ sudo_set_difficulty(o, n)
  \/ sudo_set_max_registrations_per_block(o, n) \/ sudo_set_tempo(o, n)
  \/ sudo_set_rao_recycled(o, n) \/ sudo_set_max_allowed_uids(o, n)
  \/ sudo_set_max_allowed_validators(o, n) \/ sudo_set_ema_price_halving_period(o, n)
  \/ sudo_set_subtoken_enabled(o, n) \/ sudo_set_max_difficulty(o, n)
  \/ sudo_set_adjustment_alpha(o, n) \/ sudo_set_max_weight_limit(o, n)
  \/ sudo_set_immunity_period(o, n) \/ sudo_set_min_allowed_weights(o, n)
  \/ sudo_set_kappa(o, n) \/ sudo_set_rho(o, n) \/ sudo_set_bonds_penalty(o, n)
  \/ sudo_set_commit_reveal_weights_enabled(o, n) \/ sudo_set_commit_reveal_weights_interval(o, n)
  \/ sudo_set_activity_cutoff(o, n) \/ sudo_set_bonds_moving_average(o, n)
  \/ sudo_set_alpha_sigmoid_steepness(o, n) \/ sudo_set_weights_version_key(o, n)
  \/ sudo_set_serving_rate_limit(o, n) \/ sudo_set_network_registration_allowed(o, n)
  \/ sudo_set_network_pow_registration_allowed(o, n) \/ sudo_set_liquid_alpha_enabled(o, n)
  \/ sudo_set_toggle_transfer(o, n) \/ sudo_set_yuma3_enabled(o, n)
  \/ sudo_set_bonds_reset_enabled(o, n) \/ sudo_set_alpha_values(o, n)
  \/ sudo_set_subnet_owner_hotkey(o, n) \/ sudo_set_sn_owner_hotkey(o, n)

LifecycleCalls ==
  \/ \E c \in HyperColdkeys, h \in HyperValues["SubnetOwnerHotkey"] : do_register_network(c, h)
  \/ \E c \in HyperColdkeys, n \in HyperNetuids : dissolve_network(Root, c, n)
  \/ \E c \in HyperColdkeys, n \in HyperNetuids : start_call(c, n)
  \/ \E c \in HyperColdkeys, n \in HyperNetuids : do_burned_registration(c, n)

HyperInitial ==
  [exists |-> {}, n |-> [n \in HyperNetuids |-> 0],
   net |-> [n \in HyperNetuids |-> DefaultParameters],
   global |-> GlobalDefaults,
   owner |-> [n \in HyperNetuids |-> NoOwner],
   registeredAt |-> [n \in HyperNetuids |-> 0],
   registrations |-> [n \in HyperNetuids |-> [block |-> 0, interval |-> 0]],
   lastTransaction |-> [k \in (Origins \cup {NoOwner}) \X HyperNetuids
                              \X {"SetWeightsVersionKey", "SetSNOwnerHotkey"} |-> 0],
   changed |-> [k \in Origins \X HyperNetuids |-> 0],   \* history: the owners' version-key changes
   block |-> 1, by |-> NoOwner]

HyperInit == hyper = HyperInitial

HyperNext ==
  \/ \E o \in Origins : GlobalCalls(o)
  \/ \E o \in Origins, n \in HyperNetuids : SubnetCalls(o, n)
  \/ LifecycleCalls
  \/ HyperBlock

HyperSpec == HyperInit /\ [][HyperNext]_hyper

----------------------------------------------------------------------------
(* Properties.                                                             *)

\* What the calls of admin-utils leave to the root key.
RootParameters ==
  {"MinDifficulty", "WeightsSetRateLimit", "AdjustmentInterval", "TargetRegistrationsPerInterval",
   "MinBurn", "MaxBurn", "Difficulty", "MaxRegistrationsPerBlock", "Tempo",
   "RAORecycledForRegistration", "MaxAllowedUids", "MaxAllowedValidators",
   "EMAPriceHalvingBlocks"}

Changed(n, p) == hyper'.net[n][p] # hyper.net[n][p]

\* ensure_subnet_owner_or_root, with SubnetOwner erased by remove_network, is
\* all that guards the calls that do not ask whether the subnet exists.  A step
\* signed by a coldkey changes parameters only of a subnet that exists and is
\* this coldkey's after the step, among them none of the root key's unless the
\* step creates the subnet; anybody's registration adds the burn to what the
\* subnet recycled.  The chain's parameters change only with the creation of a
\* subnet: the price of the next one, and the issuance, which is never raised.
SignersKeepToTheirSubnets ==
    hyper'.by \in HyperColdkeys =>
      /\ \A n \in HyperNetuids, p \in Parameters : Changed(n, p) =>
           \/ /\ n \in hyper'.exists
              /\ hyper'.owner[n] = hyper'.by
              /\ p \in RootParameters => n \notin hyper.exists
           \/ /\ p = "RAORecycledForRegistration"
              /\ n \in hyper.exists
              /\ hyper'.net[n][p] = hyper.net[n][p] + hyper.net[n].Burn
      /\ \A g \in DOMAIN hyper.global : hyper'.global[g] # hyper.global[g] =>
           /\ g \in {"NetworkLastLockCost", "NetworkLastRegistered", "TotalIssuance"}
           /\ hyper'.exists \ hyper.exists # {}
      /\ hyper'.global.TotalIssuance <= hyper.global.TotalIssuance

\* The uids of a subnet always fit MaxAllowedUids, and its activity cutoff never
\* falls below MinActivityCutoff, whoever set them, through registrations,
\* removal and re-creation (sudo_set_max_allowed_uids, sudo_set_activity_cutoff).
LimitsHold ==
  \A n \in hyper.exists :
    /\ hyper.n[n] <= hyper.net[n].MaxAllowedUids
    /\ hyper.net[n].ActivityCutoff >= MinActivityCutoff

\* Two changes of the weights version key by the same owner are at least the
\* rate limit apart: the limit in force at the second one, for root may change
\* Tempo in between (sudo_set_weights_version_key).
VersionKeyChangesAreApart ==
    \A o \in HyperColdkeys, n \in HyperNetuids :
      hyper'.changed[o, n] # hyper.changed[o, n] /\ hyper.changed[o, n] # 0 =>
        hyper.block - hyper.changed[o, n] >= hyper.net[n].Tempo * VersionKeyRateLimit

\* A subnet that is created under an old netuid starts with the values that
\* init_new_network writes, and with the default of what remove_network erased,
\* whatever the netuid was given before, with a subnet or without one.  These are
\* the parameters the code resets; every other one is inherited, see
\* NothingLeftBehind.
ResetParametersAreFresh ==
    \A n \in hyper'.exists \ hyper.exists :
      \A p \in DOMAIN WrittenAtCreation \cup ErasedAtRemoval :
        hyper'.net[n][p] = IF p \in DOMAIN WrittenAtCreation THEN WrittenAtCreation[p]
                                                             ELSE DefaultParameters[p]

\* get_network_lock_cost: while nobody registers a network and root leaves the
\* price alone, it never rises, whatever is issued, set or recycled in between, as long
\* as the interval of its reduction neither grows nor runs out: the interval follows
\* the emission, which grows when issuance falls below a halving and ends at the supply.
LockCostOnlyDecays ==
    LET interval == get_lock_reduction_interval(hyper.global)
    IN /\ \A g \in {"NetworkMinLockCost", "NetworkLastLockCost", "NetworkLastRegistered"} :
             hyper'.global[g] = hyper.global[g]
       /\ get_lock_reduction_interval(hyper'.global) <= interval
       /\ get_lock_reduction_interval(hyper'.global) = 0 => interval = 0
       => get_network_lock_cost(hyper') <= get_network_lock_cost(hyper)

\* "Explicitly erase the network and all its parameters" (user_remove_network): when
\* a subnet goes, every parameter that the creation of the next one would not write
\* anyway has its default again.
NothingLeftBehind ==
    \A n \in hyper.exists \ hyper'.exists :
      \A p \in Parameters \ (DOMAIN WrittenAtCreation \cup {"SubnetOwnerHotkey"}) :
        hyper'.net[n][p] = DefaultParameters[p]

\* "The maximum number of subnet validators must be less than the maximum number
\* of allowed UIDs in the subnet" (admin-utils, Error::MaxValidatorsLargerThanMaxUIds).
ValidatorsFitUids ==
  \A n \in hyper.exists : hyper.net[n].MaxAllowedValidators <= hyper.net[n].MaxAllowedUids
============================================================================
