------------------------------- MODULE Economy -------------------------------
(***************************************************************************)
(* The ledger under everything that moves it: the staking calls of module  *)
(* Staking and the blocks of module Coinbase.                              *)
(***************************************************************************)
EXTENDS Coinbase, FiniteSets

CONSTANTS
    Balance, Reserve, RootStake, Staked,  \* the amounts of the initial state
    Starts,                               \* whether the subnet has started, the choices
    Takings,                              \* bound: takes asked for
    MaxCalls                              \* bound: calls explored

VARIABLES
    calls,     \* calls so far
    signer     \* who signed the last step, NoColdkey for a block or sudo

(* A dynamic subnet that has not started, or one where every coldkey
   staked under its owner's hotkey; the owner also has stake on root, as migrate_fix_root_subnet_tao leaves it. *)
Pool(started, h, n) ==
    IF h /= SubnetOwnerHotkey \/ (n /= Root /\ ~started) THEN EmptyPool(Coldkeys)
    ELSE IF n = Root THEN AddValue(EmptyPool(Coldkeys), SubnetOwner, RootStake).pool
    ELSE FoldSet(LAMBDA c, p : AddValue(p, c, Staked).pool, EmptyPool(Coldkeys), Coldkeys)

(* What a started subnet has gathered since its last epoch. *)
Gathered == [emission |-> 2, rootDivs |-> 1, swapped |-> 1, ownerCut |-> 1]

EconomyInit ==
    \E started \in Starts :
    /\ ledger = [balance |-> [c \in Coldkeys |-> Balance],
                 TotalIssuance |-> Cardinality(Coldkeys) * Balance + Reserve + RootStake
                                      + (IF started THEN Gathered.rootDivs ELSE 0),
                 TotalStake |-> Reserve + RootStake,
                 SubnetTAO |-> [n \in NetuidSet |-> IF n = Root THEN RootStake ELSE Reserve],
                 SubnetAlphaIn |-> [n \in NetuidSet |-> IF n = Root THEN 0 ELSE Reserve],
                 SubnetAlphaOut |-> [n \in NetuidSet |->
                                       IF n = Root \/ ~started THEN 0 ELSE
                                       Cardinality(Coldkeys) * Staked + Gathered.emission
                                         + Gathered.ownerCut],
                 pool |-> [h \in Hotkeys |-> [n \in NetuidSet |-> Pool(started, h, n)]],
                 StakingHotkeys |-> [c \in Coldkeys |-> IF c = SubnetOwner \/ started
                                                        THEN {SubnetOwnerHotkey} ELSE {}],
                 NominatorMinRequiredStake |-> Min(NominatorMinima)]
    /\ Owner = [h \in Hotkeys |-> IF h = SubnetOwnerHotkey THEN SubnetOwner ELSE NoColdkey]
    /\ Delegates = [h \in Hotkeys |-> NoTake]
    /\ SubtokenEnabled = IF started THEN NetuidSet ELSE {Root}
    /\ FirstEmission = IF started THEN NetuidSet \ {Root} ELSE {}
    /\ TransferToggle = NetuidSet
    /\ blocks = 0 /\ calls = 0 /\ signer = NoColdkey
    /\ pending = [n \in NetuidSet |-> IF n = Root \/ ~started THEN Nothing ELSE Gathered]

(***************************************************************************)
(* The calls a coldkey signs (macros/dispatches.rs), with any arguments.   *)
(***************************************************************************)
add_stake(c) ==
    \E h \in Hotkeys, n \in NetuidSet, amount \in Amounts : do_add_stake(c, h, n, amount)

add_stake_limit(c) ==
    \E h \in Hotkeys, n \in NetuidSet, amount \in Amounts, allow_partial \in BOOLEAN :
        do_add_stake_limit(c, h, n, amount, allow_partial)

remove_stake(c) ==
    \E h \in Hotkeys, n \in NetuidSet, amount \in Amounts : do_remove_stake(c, h, n, amount)

remove_stake_limit(c) ==
    \E h \in Hotkeys, n \in NetuidSet, amount \in Amounts, allow_partial \in BOOLEAN :
        do_remove_stake_limit(c, h, n, amount, allow_partial)

remove_stake_full_limit(c) ==
    \E h \in Hotkeys, n \in NetuidSet, limited \in BOOLEAN :
        do_remove_stake_full_limit(c, h, n, limited)

unstake_all(c) == \E h \in Hotkeys : do_unstake_all(c, h)

unstake_all_alpha(c) == \E h \in Hotkeys : do_unstake_all_alpha(c, h)

move_stake(c) ==
    \E h, k \in Hotkeys, n, m \in NetuidSet, amount \in Amounts : do_move_stake(c, h, k, n, m, amount)

transfer_stake(c) ==
    \E d \in Coldkeys, h \in Hotkeys, n, m \in NetuidSet, amount \in Amounts :
        do_transfer_stake(c, d, h, n, m, amount)

swap_stake(c) ==
    \E h \in Hotkeys, n, m \in NetuidSet, amount \in Amounts : do_swap_stake(c, h, n, m, amount)

swap_stake_limit(c) ==
    \E h \in Hotkeys, n, m \in NetuidSet, amount \in Amounts, allow_partial \in BOOLEAN :
        do_swap_stake_limit(c, h, n, m, amount, allow_partial)

recycle_alpha(c) ==
    \E h \in Hotkeys, n \in NetuidSet, amount \in Amounts : do_recycle_alpha(c, h, n, amount)

burn_alpha(c) ==
    \E h \in Hotkeys, n \in NetuidSet, amount \in Amounts : do_burn_alpha(c, h, n, amount)

try_associate_hotkey(c) == \E h \in Hotkeys : do_try_associate_hotkey(c, h)

increase_take(c) == \E h \in Hotkeys, take \in Takings : do_increase_take(c, h, take)

decrease_take(c) == \E h \in Hotkeys, take \in Takings : do_decrease_take(c, h, take)

start_call(c) == c = SubnetOwner /\ \E n \in NetuidSet : do_start_call(n)

Calls(c) ==
    \/ add_stake(c) \/ add_stake_limit(c)
    \/ remove_stake(c) \/ remove_stake_limit(c) \/ remove_stake_full_limit(c)
    \/ unstake_all(c) \/ unstake_all_alpha(c)
    \/ move_stake(c) \/ transfer_stake(c) \/ swap_stake(c) \/ swap_stake_limit(c)
    \/ recycle_alpha(c) \/ burn_alpha(c)
    \/ try_associate_hotkey(c) \/ increase_take(c) \/ decrease_take(c)

sudo_set_toggle_transfer == \E n \in NetuidSet, on \in BOOLEAN : toggle_transfer(n, on)

Sudo ==
    \/ sudo_set_toggle_transfer
    \/ \E m \in NominatorMinima : sudo_set_nominator_min_required_stake(m)

EconomyNext ==
    \/ /\ calls < MaxCalls /\ calls' = calls + 1
       /\ \/ /\ \/ \E c \in Coldkeys : Calls(c) /\ signer' = c
                \/ Sudo /\ signer' = NoColdkey
             /\ UNCHANGED <<blocks, pending, FirstEmission>>
          \/ \E c \in Coldkeys : start_call(c) /\ signer' = c
    \/ \E due \in SUBSET Dynamic :
          run_coinbase(due) /\ signer' = NoColdkey /\ UNCHANGED calls

EconomySpec == EconomyInit /\ [][EconomyNext]_<<coinbaseVars, calls, signer>>

-----------------------------------------------------------------------------

Total(f) == MapThenSumSet(LAMBDA x : f[x], DOMAIN f)

StakeOn(n) == MapThenSumSet(LAMBDA h : ledger.pool[h][n].value, Hotkeys)

RootDivs == MapThenSumSet(LAMBDA n : pending[n].rootDivs, NetuidSet)

TaoClaims ==
    Total(ledger.balance) + Total([n \in Dynamic |-> ledger.SubnetTAO[n]]) + StakeOn(Root) + RootDivs

(* The ledger, the accounts and what is pending keep their types. *)
EconomyTypeOK ==
    /\ ledger \in Ledger
    /\ Owner \in [Hotkeys -> Coldkeys \cup {NoColdkey}]
    /\ Delegates \in [Hotkeys -> (0..TakeUnit) \cup {NoTake}]
    /\ SubtokenEnabled \subseteq NetuidSet /\ TransferToggle \subseteq NetuidSet
    /\ FirstEmission \subseteq Dynamic
    /\ pending \in [NetuidSet -> Pending]

(* The TAO that anybody can ask for (balances, the reserves of dynamic
   subnets, stake on root and root dividends not paid yet) never exceeds the
   TAO that was issued: no order of staking, moving, clearing and block
   emission makes TAO out of nothing. *)
NoTaoFromNothing == TaoClaims <= ledger.TotalIssuance

(* The alpha staked under hotkeys and the alpha still to be paid at the
   epoch are backed by SubnetAlphaOut, although the root part of the emission
   is sold block by block and the epoch pays from counters. *)
AlphaBacked ==
    \A n \in Dynamic :
        StakeOn(n) + pending[n].emission + pending[n].ownerCut <= ledger.SubnetAlphaOut[n]

(* The denominator of every share pool is the sum of its shares, so that
   nobody's share is diluted by shares nobody holds. *)
SharesAddUp ==
    \A h \in Hotkeys, n \in NetuidSet :
        TotalShares(ledger.pool[h][n]) = ledger.pool[h][n].denominator

(* Holders can never draw more from a pool than its value, roundings included. *)
HoldersWithinPool ==
    \A h \in Hotkeys, n \in NetuidSet :
        TotalValue(ledger.pool[h][n]) <= ledger.pool[h][n].value

(* A coldkey with a share under a hotkey lists the hotkey in StakingHotkeys:
   the coldkey swap and the stake views walk that list to find stake. *)
StakersListed ==
    \A h \in Hotkeys, c \in Coldkeys, n \in NetuidSet :
        ledger.pool[h][n].share[c] /= 0 => h \in ledger.StakingHotkeys[c]

(* The alpha sold for root since the last epoch is at most the alpha pending:
   pending_validator_alpha subtracts it from half of their sum with a
   saturating subtraction, which is exact only then. *)
SwappedWithinPending ==
    \A n \in NetuidSet : pending[n].swapped <= pending[n].emission

(* TotalStake covers the TAO in the pools of the dynamic subnets and the
   stake on root it started with: what swaps and blocks put into a pool, they
   also count in TotalStake, fees included. *)
TotalStakeCoversPools ==
    ledger.TotalStake >= RootStake + Total([n \in Dynamic |-> ledger.SubnetTAO[n]])

(* A call one coldkey signs lowers no other coldkey's stake, but for the unit
   that rounding may take. *)
OthersKeepStake ==
    [][\A c \in Coldkeys \ {signer'}, h \in Hotkeys, n \in NetuidSet :
         signer' /= NoColdkey =>
            get_stake_for_hotkey_and_coldkey_on_subnet(ledger, h, c, n)
                <= get_stake_for_hotkey_and_coldkey_on_subnet(ledger', h, c, n) + 1]_ledger

(* TotalIssuance is the currency issued plus TotalStake, as
   check_total_issuance of try_state.rs asserts after every upgrade. *)
check_total_issuance ==
    ledger.TotalIssuance = Total(ledger.balance) + ledger.TotalStake
=============================================================================
