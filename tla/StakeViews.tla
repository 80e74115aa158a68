----------------------------- MODULE StakeViews -----------------------------
(***************************************************************************)
(* What clients are told about stake: rpc_info/delegate_info.rs and        *)
(* rpc_info/stake_info.rs over the ledger of module Economy, and the       *)
(* totals of staking/helpers.rs.                                           *)
(***************************************************************************)
EXTENDS Economy

CONSTANTS
    Registered,   \* [netuid -> Seq([hotkey, permit, emission])]: who is registered
    Tempo,     \* [netuid -> epoch length]
    BlocksPerDay, PerThousand   \* 7200; 1000 TAO in the unit of stake

Position(h, c, n) == [hotkey |-> h, coldkey |-> c, netuid |-> n]

get_alpha_share_pool(h, n) == ledger.pool[h][n]

get_registered_networks_for_hotkey(h) ==
    {n \in NetuidSet : \E k \in DOMAIN Registered[n] : Registered[n][k].hotkey = h}

(* get_uid_for_net_and_hotkey, of a registered hotkey *)
NeuronOf(h, n) == Registered[n][CHOOSE k \in DOMAIN Registered[n] : Registered[n][k].hotkey = h]

get_coldkey_for_hotkey(h) == Owner[h]

return_per_1000_tao(take, total_stake, emissions_per_day) ==
    IF total_stake = 0 THEN 0
    ELSE (emissions_per_day * (TakeUnit - take) * PerThousand) \div (TakeUnit * total_stake)

\* Mutant: a share is shown as if it were the stake.
nominators_by_share(delegate) ==
    {<<s[1], s[2], ledger.pool[delegate][s[2]].share[s[1]] \div One>> :
        s \in {<<c, n>> \in Coldkeys \X NetuidSet : ledger.pool[delegate][n].share[c] /= 0}}

(* The pools are collected in the order of the subnets, and the pool of a
   stake is looked up by its netuid: a position past the end shows no stake. *)
nominators(delegate) ==
    LET alpha_share_pools == [k \in DOMAIN Netuids |-> get_alpha_share_pool(delegate, Netuids[k])]
        staked == {<<c, n>> \in Coldkeys \X NetuidSet :
                     /\ ledger.pool[delegate][n].share[c] /= 0
                     /\ n + 1 \in DOMAIN alpha_share_pools}
    IN  {<<s[1], s[2], get_value_from_shares(alpha_share_pools[s[2] + 1],
                                            ledger.pool[delegate][s[2]].share[s[1]])>> :
            s \in staked}

get_delegate_by_existing_account(delegate, skip_nominators) ==
    LET registrations == get_registered_networks_for_hotkey(delegate)
        emissions_per_day ==
            MapThenSumSet(LAMBDA n : IF Tempo[n] = 0 THEN 0
                                     ELSE (NeuronOf(delegate, n).emission * BlocksPerDay)
                                            \div Tempo[n], registrations)
        take == get_hotkey_take(delegate)
    IN  [delegate_ss58 |-> delegate, take |-> take,
         nominators |-> IF skip_nominators THEN {} ELSE nominators(delegate),
         owner_ss58 |-> Owner[delegate], registrations |-> registrations,
         validator_permits |-> {n \in registrations : NeuronOf(delegate, n).permit},
         return_per_1000 |->
            return_per_1000_tao(take, get_stake_for_hotkey_on_subnet(ledger, delegate, Root),
                                emissions_per_day),
         total_daily_return |-> emissions_per_day]

AllDelegates == {h \in Hotkeys : Delegates[h] /= NoTake}

get_delegate(h) ==
    IF h \notin AllDelegates THEN <<>> ELSE <<get_delegate_by_existing_account(h, FALSE)>>

get_delegates == {get_delegate_by_existing_account(h, FALSE) : h \in AllDelegates}

(* A delegate that cleared a share to zero has removed the key from Alpha. *)
get_delegated(delegatee) ==
    {<<get_delegate_by_existing_account(h, TRUE), n,
       get_stake_for_hotkey_and_coldkey_on_subnet(ledger, h, delegatee, n)>> :
        <<h, n>> \in {<<h, n>> \in AllDelegates \X NetuidSet :
                        ledger.pool[h][n].share[delegatee] /= 0}}

is_hotkey_registered_on_network(n, h) == n \in get_registered_networks_for_hotkey(h)

StakeInfo(h, c, n) ==
    Position(h, c, n) @@
    [stake |-> get_stake_for_hotkey_and_coldkey_on_subnet(ledger, h, c, n),
     locked |-> 0, drain |-> 0, is_registered |-> is_hotkey_registered_on_network(n, h)]

(* The hotkeys a coldkey lists, on every subnet, without empty stakes. *)
get_stake_info_for_coldkeys(coldkeys) ==
    [c \in coldkeys |->
        {StakeInfo(h, c, n) : <<h, n>> \in
            {<<h, n>> \in ledger.StakingHotkeys[c] \X NetuidSet :
                get_stake_for_hotkey_and_coldkey_on_subnet(ledger, h, c, n) /= 0}}]

get_stake_info_for_coldkey(c) == get_stake_info_for_coldkeys({c})[c]

get_stake_info_for_hotkey_coldkey_netuid(h, c, n) == StakeInfo(h, c, n)

-----------------------------------------------------------------------------

(* What get_stake_info_for_coldkey lists for a coldkey is all of its stake:
   the view walks StakingHotkeys instead of the stakes themselves, and shows
   each stake as the direct lookup does. *)
StakeInfoIsComplete ==
    \A c \in Coldkeys :
        get_stake_info_for_coldkey(c) =
            {get_stake_info_for_hotkey_coldkey_netuid(h, c, n) : <<h, n>> \in
                {<<h, n>> \in Hotkeys \X NetuidSet :
                    get_stake_for_hotkey_and_coldkey_on_subnet(ledger, h, c, n) /= 0}}

(* The nominators of a delegate are shown with the stake they have: "map of
   nominator_ss58 to netuid and stake amount", as get_delegated and
   get_stake_info_for_coldkey show it too. *)
NominatorsSeeTheirStake ==
    \A h \in AllDelegates :
        get_delegate(h)[1].nominators =
            {<<c, n, get_stake_for_hotkey_and_coldkey_on_subnet(ledger, h, c, n)>> :
                <<c, n>> \in {<<c, n>> \in Coldkeys \X NetuidSet :
                                 ledger.pool[h][n].share[c] /= 0}}
=============================================================================
