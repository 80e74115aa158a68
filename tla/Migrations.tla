----------------------------- MODULE Migrations -----------------------------
(***************************************************************************)
(* Runtime upgrades.  on_runtime_upgrade (macros/hooks.rs) runs every      *)
(* migration the pallet ever had, in order, on each upgrade; each one is   *)
(* kept from running twice by the storage version, by its name in          *)
(* HasMigrationRun, or by looking whether there is anything to do.  A      *)
(* chain may come from any earlier point of that list, and lives on        *)
(* between two upgrades.                                                   *)
(*                                                                         *)
(* One record holds the storage the migrations touch.  The items a         *)
(* migration only erases are names in "dead"; amounts are small numbers.   *)
(***************************************************************************)
EXTENDS Integers, FiniteSets, Sequences, TLC
LOCAL INSTANCE Functions
LOCAL INSTANCE SequencesExt

CONSTANTS
    InitialMinBurn, MinDifficulty, MaxBonds, MaxBurnReset,   \* values written
    PoolInitialTao,           \* NetworkMinLockCost after migrate_rao
    ExistingChoices,          \* sets of networks the chain may have had
    MaxUpgrades, MaxMigBlock  \* bounds

VARIABLE chain

MigNets == {0, 1, 3, 11, 21}

Alice == "alice"

Foundation == "foundation"

(* The account a map without an entry answers with. *)
Nobody == "default account"

MigAccounts == {Alice, Foundation}

Put(f, k, v) == (k :> v) @@ f

Total(f) == FoldFunction(+, 0, f)

(* A network parameter written for every network but root. *)
OnSubnets(f, s, v) == [n \in MigNets |-> IF n \in s.added \ {0} THEN v ELSE f[n]]

create_account(s, cold, hot) ==
    IF hot \in DOMAIN s.owner THEN s
    ELSE [s EXCEPT !.owner = Put(@, hot, cold), !.owned[cold] = @ \cup {hot}]

(* Runs the body once and records its name. *)
HasRun(s, name) == name \in s.hasRun

Ran(s, name) == [s EXCEPT !.hasRun = @ \cup {name}]
----------------------------------------------------------------------------
(***************************************************************************)
(* Migrations guarded by the storage version.                              *)
(***************************************************************************)
migrate_to_v1_separate_emission(s) ==
    IF s.version < 1
    THEN [s EXCEPT !.loadedEmission = [n \in {n \in DOMAIN @ : @[n] # "undecodable"} |-> "triples"],
                   !.version = 1]
    ELSE s

(* The body is commented out, and the version stays. *)
migrate_to_v2_fixed_total_stake(s) == s

(* Mutant: the counter is forgotten. *)
migrate_create_root_network_uncounted(s) ==
    IF 0 \in s.added THEN s
    ELSE [s EXCEPT !.added = @ \cup {0}, !.params = @ \cup {0}, !.senate = {}]

migrate_create_root_network(s) ==
    IF 0 \in s.added THEN s
    ELSE [s EXCEPT !.added = @ \cup {0}, !.totalNetworks = @ + 1, !.params = @ \cup {0},
                   !.senate = {}]

migrate_transfer_ownership_to_foundation(s) ==
    IF s.version < 3
    THEN [s EXCEPT !.subnetOwner[1] = Foundation, !.subnetOwner[11] = Foundation,
                   !.registeredAt[1] = s.block + 13 * 7200, !.registeredAt[11] = s.block,
                   !.version = 3]
    ELSE s

(* What both deletions remove; the membership map and the lock stay. *)
DeleteNetwork(s, n) ==
    [s EXCEPT !.added = @ \ {n}, !.totalNetworks = @ - 1, !.params = @ \ {n},
              !.registeredAt[n] = 0, !.keys[n] = {}]

migrate_delete_subnet_21(s) ==
    IF s.version < 4 /\ 21 \in s.added
    THEN [DeleteNetwork(s, 21) EXCEPT !.version = 4] ELSE s

migrate_delete_subnet_3(s) ==
    IF s.version < 5 /\ 3 \in s.added
    THEN [DeleteNetwork(s, 3) EXCEPT !.version = 5] ELSE s

(* Mutant: the version is not raised. *)
migrate_total_issuance_unversioned(s) ==
    IF s.version = 5
    THEN [s EXCEPT !.totalIssuance =
              Total([k \in {k \in DOMAIN s.alpha : k[1] \in DOMAIN s.owner} |-> s.alpha[k]])
                + Total(s.balance) + Total(s.locked)]
    ELSE s

(* Stake of all owned hotkeys, every pool being at par or root's. *)
migrate_total_issuance(s) ==
    IF s.version = 5
    THEN [s EXCEPT !.totalIssuance =
              Total([k \in {k \in DOMAIN s.alpha : k[1] \in DOMAIN s.owner} |-> s.alpha[k]])
                + Total(s.balance) + Total(s.locked),
            !.version = 6]
    ELSE s

migrate_populate_owned(s) ==
    IF \A c \in MigAccounts : s.owned[c] = {}
    THEN [s EXCEPT !.owned = [c \in MigAccounts |-> {h \in DOMAIN s.owner : s.owner[h] = c}]]
    ELSE s
----------------------------------------------------------------------------
(***************************************************************************)
(* Accounts, identities and pools.                                         *)
(***************************************************************************)
(* The identities of a list of delegates, filed under their owners. *)
migrate_set_hotkey_identities(s) ==
    IF HasRun(s, "identities") THEN s
    ELSE Ran([s EXCEPT !.identities =
           [c \in {s.owner[h] : h \in s.delegateList \cap DOMAIN s.owner} |-> "own"] @@ @], "identities")

migrate_commit_reveal_2(s) ==
    IF HasRun(s, "commit_reveal_2") THEN s
    ELSE Ran([s EXCEPT !.dead = @ \ {"WeightCommitRevealInterval", "WeightCommits"}], "commit_reveal_2")

(* Total stake is the TAO of all pools, issuance that and all balances. *)
migrate_init_total_issuance(s) ==
    [s EXCEPT !.totalStake = Total(s.tao), !.totalIssuance = Total(s.balance) + Total(s.tao)]

(* One network of migrate_rao: its lock becomes the pool, the rest goes back
   to the owner, who becomes the owner hotkey, a neuron and has an identity. *)
RaoSubnet(s, n) ==
    LET owner == s.subnetOwner[n]
        lock == s.locked[n]
        pooled == [s EXCEPT
          !.totalIssuance = @ + (IF lock < PoolInitialTao THEN PoolInitialTao - lock ELSE 0),
          !.balance[owner] = @ + (IF lock > PoolInitialTao THEN lock - PoolInitialTao ELSE 0),
          !.locked[n] = 0, !.tao[n] = PoolInitialTao, !.totalStake = @ + PoolInitialTao,
          !.alphaIn[n] = PoolInitialTao, !.alphaOut[n] = 0, !.mechanism[n] = 1,
          !.symbol = @ \cup {n}]
    IN IF owner = Nobody THEN pooled
       ELSE [create_account(pooled, owner, owner) EXCEPT
              !.ownerHotkey[n] = owner,
              !.keys[n] = @ \cup {owner},
              !.member = @ \cup (IF owner \in s.keys[n] THEN {} ELSE {<<owner, n>>}),
              !.identitiesV2 = IF owner \in DOMAIN @ THEN @ ELSE Put(@, owner, "Owner")]

migrate_rao(s) ==
    IF HasRun(s, "rao") THEN s
    ELSE Ran(migrate_init_total_issuance(
               FoldSet(LAMBDA n, t : RaoSubnet(t, n),
                 [s EXCEPT !.minLock = PoolInitialTao, !.taoWeight = "18%",
                           !.alphaIn[0] = IF 0 \in s.added THEN 1 ELSE @,
                           !.symbol = IF 0 \in s.added THEN @ \cup {0} ELSE @],
                 s.added \ {0})), "rao")

(* Mutant: entries are added without clearing the map first. *)
migrate_fix_is_network_member_adds(s) ==
    IF HasRun(s, "fix_is_network_member") THEN s
    ELSE Ran([s EXCEPT !.member = @ \cup UNION {{<<h, n>> : h \in s.keys[n]} : n \in MigNets}],
             "fix_is_network_member")

migrate_fix_is_network_member(s) ==
    IF HasRun(s, "fix_is_network_member") THEN s
    ELSE Ran([s EXCEPT !.member = UNION {{<<h, n>> : h \in s.keys[n]} : n \in MigNets}],
             "fix_is_network_member")

migrate_subnet_volume(s) ==
    IF HasRun(s, "subnet_volume") THEN s
    ELSE Ran([s EXCEPT !.volumeBits = 128], "subnet_volume")

(* Mutant: an identity that is in the new map already wins. *)
migrate_identities_to_v2_keeps(s) ==
    IF HasRun(s, "identities_v2") THEN s
    ELSE Ran([s EXCEPT !.identitiesV2 = @ @@ s.identities, !.identities = <<>>,
                       !.subnetIdentitiesV2 = @ \cup s.subnetIdentities, !.subnetIdentities = {}],
             "identities_v2")

migrate_identities_to_v2(s) ==
    IF HasRun(s, "identities_v2") THEN s
    ELSE Ran([s EXCEPT !.identitiesV2 = s.identities @@ @, !.identities = <<>>,
                       !.subnetIdentitiesV2 = @ \cup s.subnetIdentities, !.subnetIdentities = {}],
             "identities_v2")
----------------------------------------------------------------------------
(***************************************************************************)
(* Parameters and storage that is no longer used.                          *)
(***************************************************************************)
migrate_set_min_burn(s) ==
    IF HasRun(s, "min_burn") THEN s
    ELSE Ran([s EXCEPT !.minBurn = OnSubnets(@, s, InitialMinBurn)], "min_burn")

migrate_set_min_difficulty(s) ==
    IF HasRun(s, "min_difficulty") THEN s
    ELSE Ran([s EXCEPT !.minDifficulty = OnSubnets(@, s, MinDifficulty)], "min_difficulty")

migrate_remove_stake_map(s) ==
    IF HasRun(s, "stake_map") THEN s ELSE Ran([s EXCEPT !.dead = @ \ {"Stake"}], "stake_map")

remove_prefix(s, old_map) == [s EXCEPT !.dead = @ \ {old_map}]

(* SubnetLimit is cleared under a key that is no hash, so it stays. *)
migrate_remove_unused_maps_and_values(s) ==
    IF HasRun(s, "unused_maps") THEN s
    ELSE Ran(remove_prefix(remove_prefix(s, "EmissionValues"), "NetworkMaxStake"), "unused_maps")

migrate_set_first_emission_block_number(s) ==
    IF HasRun(s, "first_emission") THEN s
    ELSE Ran([s EXCEPT !.firstEmission = @ \cup (s.added \ {0})], "first_emission")

migrate_remove_zero_total_hotkey_alpha(s) ==
    IF HasRun(s, "zero_alpha") THEN s
    ELSE Ran([s EXCEPT !.alpha = Restrict(@, {k \in DOMAIN @ : @[k] # 0})], "zero_alpha")

migrate_upgrade_revealed_commitments(s) ==
    IF HasRun(s, "revealed_v2") THEN s
    ELSE Ran([s EXCEPT !.dead = @ \ {"RevealedCommitments"}], "revealed_v2")

(* Mutant: enabled only on root. *)
migrate_set_subtoken_enabled_keeps(s) ==
    IF HasRun(s, "subtoken") THEN s
    ELSE Ran([s EXCEPT !.subtoken = @ \cup ({0} \cap s.added)], "subtoken")

migrate_set_subtoken_enabled(s) ==
    IF HasRun(s, "subtoken") THEN s
    ELSE Ran([s EXCEPT !.subtoken = (@ \ s.added) \cup (({0} \cup s.firstEmission) \cap s.added)],
             "subtoken")

migrate_remove_total_hotkey_coldkey_stakes_this_interval(s) ==
    IF HasRun(s, "stakes_this_interval") THEN s
    ELSE Ran([s EXCEPT !.dead = @ \ {"TotalHotkeyColdkeyStakesThisInterval"}], "stakes_this_interval")

migrate_remove_commitments_rate_limit(s) ==
    IF HasRun(s, "commitments_rate_limit") THEN s
    ELSE Ran([s EXCEPT !.dead = @ \ {"RateLimit"}], "commitments_rate_limit")

migrate_storage(s, storage_name) ==
    IF HasRun(s, storage_name) THEN s
    ELSE Ran([s EXCEPT !.dead = @ \ {storage_name}], storage_name)

Orphans == {"LastHotkeyColdkeyEmissionOnNetuid", "SubnetAlphaEmissionSell",
            "NeuronsToPruneAtNextEpoch", "TotalStakeAtDynamic", "SubnetName",
            "NetworkMinAllowedUids", "DynamicBlock"}

(* Seven calls of migrate_storage, one per orphaned item. *)
migrate_orphaned_storage_items(s) ==
    FoldSet(LAMBDA name, t : migrate_storage(t, name), s, Orphans)

migrate_reset_bonds_moving_average(s) ==
    IF HasRun(s, "bonds") THEN s
    ELSE Ran([s EXCEPT !.bonds = [n \in MigNets |-> IF @[n] > MaxBonds THEN MaxBonds ELSE @[n]]], "bonds")

(* Only the networks that have an entry. *)
migrate_reset_max_burn(s) ==
    IF HasRun(s, "max_burn") THEN s
    ELSE Ran([s EXCEPT !.maxBurn = [n \in DOMAIN @ |-> MaxBurnReset]], "max_burn")

migrate_coldkey_swap_scheduled(s) ==
    IF HasRun(s, "swap_scheduled") THEN s
    ELSE Ran([s EXCEPT !.swapScheduled =
               [c \in {c \in DOMAIN @ : @[c] # "undecodable"} |-> "default"]], "swap_scheduled")

(* Mutant: the totals are not recomputed after root's TAO was. *)
migrate_fix_root_subnet_tao_no_totals(s) ==
    IF HasRun(s, "root_tao") THEN s
    ELSE Ran([s EXCEPT !.tao[0] =
           Total([k \in {k \in DOMAIN s.alpha : k[2] = 0 /\ k[1] \in DOMAIN s.owner} |-> s.alpha[k]])],
           "root_tao")

(* Root's TAO is the stake on root of all owned hotkeys. *)
migrate_fix_root_subnet_tao(s) ==
    IF HasRun(s, "root_tao") THEN s
    ELSE migrate_init_total_issuance(Ran([s EXCEPT !.tao[0] =
           Total([k \in {k \in DOMAIN s.alpha : k[2] = 0 /\ k[1] \in DOMAIN s.owner} |-> s.alpha[k]])],
           "root_tao"))

(* The crowdloan pallet: a loan of the old layout gets its contributors counted. *)
migrate_add_contributors_count(s) ==
    IF HasRun(s, "contributors_count") THEN s
    ELSE Ran([s EXCEPT !.loanCount = Cardinality(s.loanContributors)], "contributors_count")
----------------------------------------------------------------------------
(***************************************************************************)
(* The upgrade.  Migration i of the list, and the first k of them.         *)
(***************************************************************************)
Migrate(i, s) ==
    CASE i = 1 -> migrate_to_v1_separate_emission(s)
      [] i = 2 -> migrate_to_v2_fixed_total_stake(s)
      [] i = 3 -> migrate_create_root_network(s)
      [] i = 4 -> migrate_transfer_ownership_to_foundation(s)
      [] i = 5 -> migrate_delete_subnet_21(s)
      [] i = 6 -> migrate_delete_subnet_3(s)
      [] i = 7 -> migrate_total_issuance(s)
      [] i = 8 -> migrate_populate_owned(s)
      [] i = 9 -> migrate_set_hotkey_identities(s)
      [] i = 10 -> migrate_commit_reveal_2(s)
      [] i = 11 -> migrate_rao(s)
      [] i = 12 -> migrate_fix_is_network_member(s)
      [] i = 13 -> migrate_subnet_volume(s)
      [] i = 14 -> migrate_identities_to_v2(s)
      [] i = 15 -> migrate_set_min_burn(s)
      [] i = 16 -> migrate_set_min_difficulty(s)
      [] i = 17 -> migrate_remove_stake_map(s)
      [] i = 18 -> migrate_remove_unused_maps_and_values(s)
      [] i = 19 -> migrate_set_first_emission_block_number(s)
      [] i = 20 -> migrate_remove_zero_total_hotkey_alpha(s)
      [] i = 21 -> migrate_upgrade_revealed_commitments(s)
      [] i = 22 -> migrate_set_subtoken_enabled(s)
      [] i = 23 -> migrate_remove_total_hotkey_coldkey_stakes_this_interval(s)
      [] i = 24 -> migrate_remove_commitments_rate_limit(s)
      [] i = 25 -> migrate_orphaned_storage_items(s)
      [] i = 26 -> migrate_reset_bonds_moving_average(s)
      [] i = 27 -> migrate_reset_max_burn(s)
      [] i = 28 -> migrate_coldkey_swap_scheduled(s)
      [] i = 29 -> migrate_fix_root_subnet_tao(s)

MigrationCount == 29

(* Migrations lo to hi, as many as there are; none if lo > hi. *)
RunMigrations(lo, hi, s) ==
    LET after[i \in lo - 1 .. hi] ==
            IF i < lo THEN s ELSE CHOOSE t \in {Migrate(i, after[i - 1])} : TRUE
    IN IF lo > hi THEN s ELSE after[hi]

(* In three parts, which keeps TLC's recursion shallow. *)
FirstMigrations(k, s) ==
    LET upto(i) == IF k < i THEN k ELSE i
    IN CHOOSE c \in {RunMigrations(21, k, b) :
                b \in {RunMigrations(11, upto(20), a) : a \in {RunMigrations(1, upto(10), s)}}} : TRUE

(* The runtime's own migration first, then every pallet's. *)
on_runtime_upgrade(s) ==
    migrate_add_contributors_count(FirstMigrations(MigrationCount, migrate_init_total_issuance(s)))
----------------------------------------------------------------------------
(***************************************************************************)
(* A chain that ran the first k migrations in earlier upgrades, and what   *)
(* it does between upgrades.  "named" remembers the owners of delegates    *)
(* that had an identity of their own to carry over.                        *)
(***************************************************************************)
Genesis(existing) ==
    [version |-> 0, hasRun |-> {}, block |-> 1, upgrades |-> 0, upgraded |-> FALSE,
     added |-> existing, totalNetworks |-> Cardinality(existing), params |-> existing,
     subnetOwner |-> [n \in MigNets |-> IF n \in {3, 21} THEN Alice ELSE Nobody],
     registeredAt |-> [n \in MigNets |-> IF n \in existing THEN 1 ELSE 0],
     ownerHotkey |-> [n \in MigNets |-> Nobody],
     keys |-> [n \in MigNets |-> IF n \in existing \ {0} THEN {"hotkey"} ELSE {}],
     member |-> {<<"hotkey", n>> : n \in existing \ {0}},
     owner |-> "hotkey" :> Alice @@ "idle" :> Foundation,
     owned |-> [c \in MigAccounts |-> {}],
     senate |-> {"hotkey"}, delegateList |-> {"hotkey", "idle"}, named |-> MigAccounts,
     identities |-> <<>>, identitiesV2 |-> <<>>,
     subnetIdentities |-> {1}, subnetIdentitiesV2 |-> {},
     locked |-> [n \in MigNets |-> IF n = 1 THEN 3 ELSE IF n \in existing THEN 1 ELSE 0],
     tao |-> [n \in MigNets |-> 0], alphaIn |-> [n \in MigNets |-> 0],
     alphaOut |-> [n \in MigNets |-> 0],
     alpha |-> <<"hotkey", 0>> :> 5 @@ <<"idle", 0>> :> 0,
     balance |-> [a \in MigAccounts \cup {Nobody} |-> IF a = Alice THEN 4 ELSE 0],
     totalStake |-> 5, totalIssuance |-> 9,
     mechanism |-> [n \in MigNets |-> 0], symbol |-> {}, minLock |-> 0, taoWeight |-> "0%",
     firstEmission |-> {}, subtoken |-> {},
     minBurn |-> [n \in MigNets |-> 0], minDifficulty |-> [n \in MigNets |-> 0],
     bonds |-> [n \in MigNets |-> IF n = 1 THEN MaxBonds + 1 ELSE MaxBonds - 1],
     maxBurn |-> [n \in existing |-> MaxBurnReset + 1],
     loadedEmission |-> 1 :> "pairs" @@ 3 :> "undecodable",
     swapScheduled |-> Alice :> "unit", volumeBits |-> 64,
     dead |-> Orphans \cup {"WeightCommitRevealInterval", "WeightCommits", "Stake", "EmissionValues",
        "NetworkMaxStake", "RevealedCommitments", "TotalHotkeyColdkeyStakesThisInterval", "RateLimit"},
     loanContributors |-> {"c1", "c2"}, loanCount |-> 0]

MigrationsInitial ==
    {FirstMigrations(k, Genesis(e)) : k \in 0 .. MigrationCount, e \in ExistingChoices}

MigrationsInit == chain \in MigrationsInitial

Upgrade ==
    /\ chain.upgrades < MaxUpgrades
    /\ \E s \in {on_runtime_upgrade(chain)} :
         chain' = [s EXCEPT !.upgrades = @ + 1, !.upgraded = TRUE]

(* Between upgrades, on a chain that has this code. *)
RegisterNetwork(n) ==
    /\ chain.upgrades > 0
    /\ n \notin chain.added /\ n # 0
    /\ chain.balance[Alice] >= PoolInitialTao
    /\ chain' = [create_account(chain, Alice, "owner hotkey") EXCEPT
          !.added = @ \cup {n}, !.totalNetworks = @ + 1, !.params = @ \cup {n},
          !.subnetOwner[n] = Alice, !.registeredAt[n] = chain.block,
          !.ownerHotkey[n] = "owner hotkey",
          !.keys[n] = {"owner hotkey"}, !.member = @ \cup {<<"owner hotkey", n>>},
          !.balance[Alice] = @ - PoolInitialTao, !.locked[n] = PoolInitialTao,
          !.tao[n] = PoolInitialTao, !.alphaIn[n] = PoolInitialTao, !.alphaOut[n] = 0,
          !.totalStake = @ + PoolInitialTao, !.mechanism[n] = 1, !.symbol = @ \cup {n},
          !.upgraded = FALSE]

StartCall(n) ==
    /\ chain.upgrades > 0
    /\ n \in chain.added \ ({0} \cup chain.firstEmission)
    /\ chain' = [chain EXCEPT !.firstEmission = @ \cup {n}, !.subtoken = @ \cup {n},
                              !.upgraded = FALSE]

(* A block passes, and the pallet's count of all TAO rounds off by one. *)
RoundOff(d) ==
    /\ chain.upgrades > 0
    /\ chain.block < MaxMigBlock
    /\ chain' = [chain EXCEPT !.block = @ + 1, !.totalIssuance = @ + d, !.upgraded = FALSE]

MigrationsNext ==
    \/ Upgrade
    \/ \E n \in MigNets : RegisterNetwork(n)
    \/ \E n \in MigNets : StartCall(n)
    \/ \E d \in {-1, 0, 1} : RoundOff(d)

MigrationsSpec == MigrationsInit /\ [][MigrationsNext]_chain
----------------------------------------------------------------------------
(***************************************************************************)
(* Properties.                                                             *)
(***************************************************************************)
(* A second upgrade straight after an upgrade changes nothing, whatever part
   of the list the chain had run before: every migration's own guard holds. *)
UpgradeSettles ==
    chain.upgraded => on_runtime_upgrade(chain) = chain

(* After an upgrade the pallet's totals agree with the balances and the pools,
   which check_total_issuance asserts, whichever migrations moved TAO last. *)
TotalsAfterUpgrade ==
    chain.upgraded =>
        /\ chain.totalStake = Total(chain.tao)
        /\ chain.totalIssuance = Total(chain.balance) + chain.totalStake

(* After an upgrade alpha trades on a network exactly when its emission was
   started (or it is root): migration 19 has to come before migration 22. *)
TradingMatchesStart ==
    chain.upgraded =>
        chain.subtoken \cap chain.added = ({0} \cup chain.firstEmission) \cap chain.added

(* After an upgrade IsNetworkMember and Keys agree, the members that the two
   deleted networks left behind included. *)
MembershipMatchesKeys ==
    chain.upgraded =>
        chain.member = UNION {{<<h, n>> : h \in chain.keys[n]} : n \in MigNets}

(* After an upgrade every delegate that had an identity still has it: the
   name migrate_rao makes up for subnet owners does not take its place. *)
IdentitiesCarriedOver ==
    chain.upgraded =>
        \A c \in chain.named : c \in DOMAIN chain.identitiesV2 /\ chain.identitiesV2[c] = "own"

(* TotalNetworks counts the networks, across creation of root, the deletions
   and registrations. *)
NetworksCounted == chain.totalNetworks = Cardinality(chain.added)
=============================================================================
