------------------------------- MODULE Staking -------------------------------
(***************************************************************************)
(* Staking: coldkeys move TAO between their balance and the stake pools of *)
(* hotkeys on subnets, and stake between pools.                            *)
(*                                                                         *)
(* All amounts live in one record, the ledger.  An operation that ends in  *)
(* a swap has several outcomes, because the price is not modelled here     *)
(* (module Swap models the pool's curve): such an operator returns the set *)
(* of possible results.  A failing call is rolled back and is no result.   *)
(* Unit of account: the model's 1 stands for an amount well above the      *)
(* 1000 rao that try_state.rs tolerates.                                   *)
(***************************************************************************)
EXTENDS SharePool, Sequences, SequencesExt

CONSTANTS
    Hotkeys, Coldkeys, NoColdkey,
    Netuids,             \* the existing subnets, in the order storage iterates them
    Root,                \* the root network, with the stable mechanism
    MinStake,            \* DefaultMinStake
    MinimumReserve,      \* reserves below this refuse to swap
    MinTake, MaxTake, TakeUnit,   \* delegate take, in parts of TakeUnit (u16::MAX)
    NoTake,              \* no entry in Delegates
    NominatorMinima,     \* values for NominatorMinRequiredStake
    Slippage,            \* bound: paid out minus paid in of a swap
    SwapFees,            \* bound: fees of a swap
    Amounts              \* bound: amounts callers name

ASSUME StakingAssumption ==
    /\ NoColdkey \notin Coldkeys
    /\ Root \in Range(Netuids)
    /\ MinStake \in Nat /\ MinimumReserve \in Nat
    /\ MinTake <= MaxTake /\ MaxTake <= TakeUnit /\ MinTake \in Nat
    /\ SwapFees \subseteq Nat /\ Slippage \subseteq Int /\ Amounts \subseteq Nat

VARIABLES
    ledger,       \* the amounts, see Ledger
    Owner,        \* [hotkey -> coldkey or NoColdkey]
    Delegates,    \* [hotkey -> take or NoTake]
    SubtokenEnabled, TransferToggle  \* sets of netuids

stakingVars ==
    <<ledger, Owner, Delegates, SubtokenEnabled, TransferToggle>>

NetuidSet == Range(Netuids)
Dynamic == NetuidSet \ {Root}       \* SubnetMechanism = 1

(* The balances pallet's accounts, TotalIssuance, TotalStake, the reserves
   SubnetTAO and SubnetAlphaIn (with what users provide), the alpha outside
   the pool, per hotkey and subnet the pool Alpha / TotalHotkeyShares /
   TotalHotkeyAlpha, the hotkeys a coldkey stakes to, and a minimum. *)
Ledger ==
    [balance : [Coldkeys -> Nat], TotalIssuance : Nat, TotalStake : Nat,
     SubnetTAO : [NetuidSet -> Nat], SubnetAlphaIn : [NetuidSet -> Nat],
     SubnetAlphaOut : [NetuidSet -> Nat],
     pool : [Hotkeys -> [NetuidSet ->
                [value : Nat, denominator : Nat, share : [Coldkeys -> Nat]]]],
     StakingHotkeys : [Coldkeys -> SUBSET Hotkeys],
     NominatorMinRequiredStake : Nat]

hotkey_account_exists(h) == Owner[h] /= NoColdkey
coldkey_owns_hotkey(c, h) == Owner[h] = c
if_subnet_exist(n) == n \in NetuidSet

(***************************************************************************)
(* Stake of a coldkey under a hotkey.                                      *)
(***************************************************************************)
get_stake_for_hotkey_and_coldkey_on_subnet(L, h, c, n) ==
    IF L.pool[h][n].share[c] = 0 THEN 0 ELSE get_value(L.pool[h][n], c)

get_stake_for_hotkey_on_subnet(L, h, n) == L.pool[h][n].value

has_enough_stake_on_subnet(L, h, c, n, decrement) ==
    get_stake_for_hotkey_and_coldkey_on_subnet(L, h, c, n) >= decrement

increase_stake_for_hotkey_on_subnet(L, h, n, amount) ==
    [L EXCEPT !.pool[h][n] = update_value_for_all(@, amount)]

\* Mutant: only staking lists the hotkey, not every increase.
increase_stake_without_listing(L, h, c, n, amount) ==
    [L EXCEPT !.pool[h][n] = update_value_for_one(@, c, amount).pool]

increase_stake_for_hotkey_and_coldkey_on_subnet(L, h, c, n, amount) ==
    [L EXCEPT !.StakingHotkeys[c] = IF amount > 0 THEN @ \cup {h} ELSE @,
              !.pool[h][n] = update_value_for_one(@, c, amount).pool]

try_increase_stake_for_hotkey_and_coldkey_on_subnet(L, h, n, amount) ==
    sim_update_value_for_one(L.pool[h][n], amount)

(* The ledger and the stake really removed: none when there is not enough. *)
decrease_stake_for_hotkey_and_coldkey_on_subnet(L, h, c, n, amount) ==
    IF L.pool[h][n].share[c] /= 0 /\ has_enough_stake_on_subnet(L, h, c, n, amount)
    THEN LET u == update_value_for_one(L.pool[h][n], c, -amount)
         IN  [ledger |-> [L EXCEPT !.pool[h][n] = u.pool], removed |-> Monus(-u.actual, 0)]
    ELSE [ledger |-> L, removed |-> 0]

add_balance_to_coldkey_account(L, c, amount) == [L EXCEPT !.balance[c] = @ + amount]

can_remove_balance_from_coldkey_account(L, c, amount) == amount <= L.balance[c]

remove_balance_from_coldkey_account(L, c, amount) == [L EXCEPT !.balance[c] = @ - amount]

\* Mutant: the reserve is not lowered.
decrease_provided_tao_reserve_never(L, n, tao) == L

(***************************************************************************)
(* Swaps.  A stable subnet swaps one to one and keeps no book of it.       *)
(***************************************************************************)
decrease_provided_tao_reserve(L, n, tao) == [L EXCEPT !.SubnetTAO[n] = Monus(@, tao)]

decrease_provided_alpha_reserve(L, n, alpha) == [L EXCEPT !.SubnetAlphaIn[n] = Monus(@, alpha)]

(* What pallet-swap may answer: any part of the amount is used, since a price
   limit or the end of the liquidity may stop the swap early; never more is
   paid out than the reserve. *)
swap(amount, reserves) ==
    IF \E r \in {reserves.from, reserves.to} : r < MinimumReserve THEN {}
    ELSE {s \in {[paid_in |-> i, fee |-> f, paid_out |-> i + d] :
                    i \in 0..amount, f \in SwapFees, d \in Slippage} :
            /\ s.paid_in + s.fee <= amount
            /\ s.paid_out >= 0 /\ s.paid_out <= reserves.to
            /\ s.paid_in = 0 => s.paid_out = 0}

OneToOne(L, amount) == {[ledger |-> L, paid_in |-> amount, fee |-> 0, paid_out |-> amount]}

swap_tao_for_alpha(L, n, tao) ==
    IF n \notin Dynamic THEN OneToOne(L, tao)
    ELSE {[ledger |->
             [decrease_provided_alpha_reserve(L, n, s.paid_out) EXCEPT
                !.SubnetAlphaOut[n] = @ + s.paid_out,
                !.SubnetTAO[n] = @ + s.paid_in,
                !.TotalStake = @ + tao],
           paid_in |-> s.paid_in, fee |-> s.fee, paid_out |-> s.paid_out] :
            s \in swap(tao, [from |-> L.SubnetTAO[n], to |-> L.SubnetAlphaIn[n]])}

swap_alpha_for_tao(L, n, alpha) ==
    IF n \notin Dynamic THEN OneToOne(L, alpha)
    ELSE {[ledger |->
             [decrease_provided_tao_reserve(L, n, s.paid_out) EXCEPT
                !.SubnetAlphaIn[n] = @ + s.paid_in,
                !.SubnetAlphaOut[n] = Monus(@, s.paid_in),
                !.TotalStake = Monus(@, s.paid_out)],
           paid_in |-> s.paid_in, fee |-> s.fee, paid_out |-> s.paid_out] :
            s \in swap(alpha, [from |-> L.SubnetAlphaIn[n], to |-> L.SubnetTAO[n]])}

(* Results [ledger, tao] of selling stake; what a limit leaves is restaked. *)
unstake_from_subnet(L, h, c, n, alpha) ==
    LET d == decrease_stake_for_hotkey_and_coldkey_on_subnet(L, h, c, n, alpha)
    IN  {[ledger |-> LET refund == Monus(d.removed, s.paid_in + s.fee)
                     IN  IF refund = 0 THEN s.ledger
                         ELSE increase_stake_for_hotkey_and_coldkey_on_subnet(
                                  s.ledger, h, c, n, refund),
          tao |-> s.paid_out] :
            s \in swap_alpha_for_tao(d.ledger, n, d.removed)}

(* Results of buying stake with TAO already taken from somewhere. *)
stake_into_subnet(L, h, c, n, tao) ==
    {increase_stake_for_hotkey_and_coldkey_on_subnet(s.ledger, h, c, n, s.paid_out) :
        s \in {s \in swap_tao_for_alpha(L, n, tao) :
                 /\ s.paid_out > 0
                 /\ try_increase_stake_for_hotkey_and_coldkey_on_subnet(
                        s.ledger, h, n, s.paid_out)}}

(* A nominator left with less than the minimum is paid out, or, when the
   swap fails, loses the remainder. *)
clear_small_nomination_if_required(L, h, c, n) ==
    LET stake == get_stake_for_hotkey_and_coldkey_on_subnet(L, h, c, n)
        dropped == decrease_stake_for_hotkey_and_coldkey_on_subnet(L, h, c, n, stake).ledger
    IN  IF coldkey_owns_hotkey(c, h) \/ stake >= L.NominatorMinRequiredStake THEN {L}
        ELSE {add_balance_to_coldkey_account(u.ledger, c, u.tao) :
                u \in unstake_from_subnet(L, h, c, n, stake)}
             \cup (IF n \in Dynamic THEN {dropped} ELSE {})

(***************************************************************************)
(* Adding stake.                                                           *)
(***************************************************************************)
ensure_subtoken_enabled(n) == n \in SubtokenEnabled

\* Mutant: the balance is not checked.
validate_add_stake_any_balance(L, c, h, n, amount, max_amount, allow_partial) ==
    /\ if_subnet_exist(n) /\ ensure_subtoken_enabled(n)
    /\ amount >= MinStake
    /\ hotkey_account_exists(h)

(* The smallest stake and the fee on buying it, simulated or approximated. *)
MinAmounts(n) == {MinStake + fee : fee \in IF n \in Dynamic THEN SwapFees ELSE {0}}

(* The simulated swaps of the validation are answered like real ones. *)
validate_add_stake(L, c, h, n, amount, max_amount, allow_partial) ==
    /\ if_subnet_exist(n) /\ ensure_subtoken_enabled(n)
    /\ \E min_amount \in MinAmounts(n) : amount >= min_amount
    /\ allow_partial \/ amount <= max_amount
    /\ can_remove_balance_from_coldkey_account(L, c, amount)
    /\ hotkey_account_exists(h)
    /\ \E s \in swap_tao_for_alpha(L, n, amount) :
          /\ s.paid_out > 0
          /\ try_increase_stake_for_hotkey_and_coldkey_on_subnet(L, h, n, s.paid_out)

(* The largest amount a limit price lets through; without a limit, or on a
   stable subnet within its limit of one, there is no maximum. *)
get_max_amount_add(n) == IF n \in Dynamic THEN Amounts \ {0} ELSE {Max(Amounts)}

get_max_amount_remove(n) == IF n \in Dynamic THEN Amounts \ {0} ELSE {Max(Amounts)}

StakeAmount(c, h, n, amount) ==
    ledger' \in stake_into_subnet(remove_balance_from_coldkey_account(ledger, c, amount),
                                  h, c, n, amount)

do_add_stake(c, h, n, amount) ==
    /\ ensure_subtoken_enabled(n)
    /\ validate_add_stake(ledger, c, h, n, amount, amount, FALSE)
    /\ StakeAmount(c, h, n, amount)
    /\ UNCHANGED <<Owner, Delegates, SubtokenEnabled, TransferToggle>>

get_hotkey_take(h) == IF Delegates[h] = NoTake THEN MaxTake ELSE Delegates[h]

maybe_become_delegate(h) == Delegates' = [Delegates EXCEPT ![h] = get_hotkey_take(h)]

do_add_stake_limit(c, h, n, amount, allow_partial) ==
    /\ \E max_amount \in get_max_amount_add(n) :
          /\ validate_add_stake(ledger, c, h, n, amount, max_amount, allow_partial)
          /\ StakeAmount(c, h, n, IF amount > max_amount THEN max_amount ELSE amount)
    /\ IF coldkey_owns_hotkey(c, h) THEN UNCHANGED Delegates ELSE maybe_become_delegate(h)
    /\ UNCHANGED <<Owner, SubtokenEnabled, TransferToggle>>

(***************************************************************************)
(* Removing stake.                                                         *)
(***************************************************************************)
(* tao is what the simulated sale of the amount yields. *)
validate_remove_stake(L, c, h, n, amount, max_amount, allow_partial, tao) ==
    /\ if_subnet_exist(n)
    /\ tao > MinStake
    /\ allow_partial \/ amount <= max_amount
    /\ hotkey_account_exists(h)
    /\ has_enough_stake_on_subnet(L, h, c, n, amount)

(* Credit the coldkey, then clear a small rest. *)
CreditAndClear(u, c, h, n) ==
    clear_small_nomination_if_required(
        add_balance_to_coldkey_account(u.ledger, c, u.tao), h, c, n)

(* A sale without a limit yields what its simulation did. *)
do_remove_stake(c, h, n, amount) ==
    /\ ensure_subtoken_enabled(n)
    /\ \E u \in unstake_from_subnet(ledger, h, c, n, amount) :
          /\ validate_remove_stake(ledger, c, h, n, amount, amount, FALSE, u.tao)
          /\ ledger' \in CreditAndClear(u, c, h, n)
    /\ UNCHANGED <<Owner, Delegates, SubtokenEnabled, TransferToggle>>

(* Removing with a limit does not ask whether the subtoken is enabled. *)
do_remove_stake_limit(c, h, n, amount, allow_partial) ==
    /\ \E max_amount \in get_max_amount_remove(n) :
          /\ \E s \in swap_alpha_for_tao(ledger, n, amount) :
                validate_remove_stake(ledger, c, h, n, amount, max_amount, allow_partial,
                                      s.paid_out)
          /\ \E u \in unstake_from_subnet(ledger, h, c, n,
                           IF amount > max_amount THEN max_amount ELSE amount) :
                ledger' \in CreditAndClear(u, c, h, n)
    /\ UNCHANGED <<Owner, Delegates, SubtokenEnabled, TransferToggle>>

do_remove_stake_full_limit(c, h, n, limit) ==
    LET amount == get_stake_for_hotkey_and_coldkey_on_subnet(ledger, h, c, n)
    IN  IF limit THEN do_remove_stake_limit(c, h, n, amount, FALSE)
        ELSE do_remove_stake(c, h, n, amount)

(* The sale of all of one pool within unstake_all: skipped where its
   validation fails; results keep the TAO gained so far. *)
UnstakeFrom(r, c, h, n) ==
    LET amount == get_stake_for_hotkey_and_coldkey_on_subnet(r.ledger, h, c, n)
        sold == IF n \notin SubtokenEnabled \/ amount = 0 THEN {}
                ELSE {u \in unstake_from_subnet(r.ledger, h, c, n, amount) :
                        validate_remove_stake(r.ledger, c, h, n, amount, amount, FALSE, u.tao)}
    IN  [sold |-> sold, rest |-> IF n = Root /\ sold /= {} THEN {} ELSE {r}]

do_unstake_all(c, h) ==
    LET Step(rs, n) ==
          UNION {UnstakeFrom(r, c, h, n).rest \cup
                   {[ledger |-> l, tao |-> 0] :
                      l \in UNION {CreditAndClear(u, c, h, n) : u \in UnstakeFrom(r, c, h, n).sold}}
                 : r \in rs}
    IN  /\ hotkey_account_exists(h)
        /\ \E r \in FoldLeft(Step, {[ledger |-> ledger, tao |-> 0]}, Netuids) : ledger' = r.ledger
        /\ UNCHANGED <<Owner, Delegates, SubtokenEnabled, TransferToggle>>

(* The TAO gained is not credited but staked on root. *)
do_unstake_all_alpha(c, h) ==
    LET Step(rs, n) ==
          IF n = Root THEN rs
          ELSE UNION {UnstakeFrom(r, c, h, n).rest \cup
                   UNION {{[ledger |-> l, tao |-> r.tao + u.tao] :
                             l \in clear_small_nomination_if_required(u.ledger, h, c, n)} :
                          u \in UnstakeFrom(r, c, h, n).sold}
                 : r \in rs}
    IN  /\ hotkey_account_exists(h)
        /\ \E r \in FoldLeft(Step, {[ledger |-> ledger, tao |-> 0]}, Netuids) :
              ledger' \in stake_into_subnet(r.ledger, h, c, Root, r.tao)
        /\ UNCHANGED <<Owner, Delegates, SubtokenEnabled, TransferToggle>>

(***************************************************************************)
(* Moving stake between hotkeys, coldkeys and subnets.                     *)
(***************************************************************************)
(* from and to are [h, c, n] triples; tao is what the simulated sale yields. *)
validate_stake_transition(from, to, amount, max_amount, fill_or_kill, check_toggle, tao) ==
    /\ from /= to
    /\ if_subnet_exist(from.n) /\ if_subnet_exist(to.n)
    /\ {from.n, to.n} \subseteq SubtokenEnabled
    /\ hotkey_account_exists(from.h) /\ hotkey_account_exists(to.h)
    /\ amount <= get_stake_for_hotkey_and_coldkey_on_subnet(ledger, from.h, from.c, from.n)
    /\ tao > MinStake
    /\ fill_or_kill => amount <= max_amount
    /\ check_toggle => {from.n, to.n} \subseteq TransferToggle

(* The amount a limit on the ratio of two prices lets through. *)
get_max_amount_move(from, to) ==
    IF {from.n, to.n} \cap Dynamic = {} THEN {Max(Amounts)} ELSE Amounts \ {0}

(* Sell at the origin, buy at the destination.  A yield below MinStake is
   not staked again. *)
transition_stake_internal(from, to, amount, max_amount, fill_or_kill, check_toggle) ==
    LET move == IF amount < max_amount THEN amount ELSE max_amount
    IN  /\ \E s \in swap_alpha_for_tao(ledger, from.n, amount),
              u \in unstake_from_subnet(ledger, from.h, from.c, from.n, move) :
              /\ validate_stake_transition(from, to, amount, max_amount, fill_or_kill,
                                           check_toggle, s.paid_out)
              /\ move = amount => u.tao = s.paid_out
              /\ \/ /\ u.tao >= MinStake
                    /\ ledger' \in stake_into_subnet(u.ledger, to.h, to.c, to.n, u.tao)
                    /\ IF coldkey_owns_hotkey(to.c, to.h) THEN UNCHANGED Delegates
                       ELSE maybe_become_delegate(to.h)
                 \/ u.tao < MinStake /\ ledger' = u.ledger /\ UNCHANGED Delegates
        /\ UNCHANGED <<Owner, SubtokenEnabled, TransferToggle>>

do_move_stake(c, h1, h2, n1, n2, amount) ==
    transition_stake_internal([h |-> h1, c |-> c, n |-> n1], [h |-> h2, c |-> c, n |-> n2],
                              amount, amount, FALSE, FALSE)

do_transfer_stake(c1, c2, h, n1, n2, amount) ==
    transition_stake_internal([h |-> h, c |-> c1, n |-> n1], [h |-> h, c |-> c2, n |-> n2],
                              amount, amount, FALSE, TRUE)

do_swap_stake(c, h, n1, n2, amount) ==
    transition_stake_internal([h |-> h, c |-> c, n |-> n1], [h |-> h, c |-> c, n |-> n2],
                              amount, amount, FALSE, FALSE)

do_swap_stake_limit(c, h, n1, n2, amount, allow_partial) ==
    LET from == [h |-> h, c |-> c, n |-> n1]
        to == [h |-> h, c |-> c, n |-> n2]
    IN  \E max_amount \in get_max_amount_move(from, to) :
            transition_stake_internal(from, to, amount, max_amount, ~allow_partial, FALSE)

toggle_transfer(n, toggle) ==
    /\ TransferToggle' = IF toggle THEN TransferToggle \cup {n} ELSE TransferToggle \ {n}
    /\ UNCHANGED <<ledger, Owner, Delegates, SubtokenEnabled>>

(***************************************************************************)
(* Destroying alpha: recycling lowers SubnetAlphaOut, burning does not.    *)
(***************************************************************************)
MayDestroy(c, h, n, amount) ==
    /\ if_subnet_exist(n) /\ n /= Root /\ ensure_subtoken_enabled(n)
    /\ hotkey_account_exists(h)
    /\ has_enough_stake_on_subnet(ledger, h, c, n, amount)
    /\ ledger.SubnetAlphaOut[n] >= amount

do_recycle_alpha(c, h, n, amount) ==
    LET d == decrease_stake_for_hotkey_and_coldkey_on_subnet(ledger, h, c, n, amount)
    IN  /\ MayDestroy(c, h, n, amount)
        /\ ledger' = [d.ledger EXCEPT !.SubnetAlphaOut[n] = Monus(@, d.removed)]
        /\ UNCHANGED <<Owner, Delegates, SubtokenEnabled, TransferToggle>>

do_burn_alpha(c, h, n, amount) ==
    /\ MayDestroy(c, h, n, amount)
    /\ ledger' = decrease_stake_for_hotkey_and_coldkey_on_subnet(ledger, h, c, n, amount).ledger
    /\ UNCHANGED <<Owner, Delegates, SubtokenEnabled, TransferToggle>>

(***************************************************************************)
(* Accounts, takes and minima.                                             *)
(***************************************************************************)
create_account_if_non_existent(c, h) ==
    IF hotkey_account_exists(h) THEN UNCHANGED <<Owner, ledger>>
    ELSE /\ Owner' = [Owner EXCEPT ![h] = c]
         /\ ledger' = [ledger EXCEPT !.StakingHotkeys[c] = @ \cup {h}]

do_try_associate_hotkey(c, h) ==
    /\ create_account_if_non_existent(c, h)
    /\ UNCHANGED <<Delegates, SubtokenEnabled, TransferToggle>>

do_take_checks(c, h) == hotkey_account_exists(h) /\ coldkey_owns_hotkey(c, h)

do_increase_take(c, h, take) ==
    /\ do_take_checks(c, h)
    /\ Delegates[h] /= NoTake => take > Delegates[h]
    /\ take <= MaxTake
    /\ Delegates' = [Delegates EXCEPT ![h] = take]
    /\ UNCHANGED <<ledger, Owner, SubtokenEnabled, TransferToggle>>

do_decrease_take(c, h, take) ==
    /\ do_take_checks(c, h)
    /\ Delegates[h] /= NoTake => take < Delegates[h]
    /\ take >= MinTake
    /\ Delegates' = [Delegates EXCEPT ![h] = take]
    /\ UNCHANGED <<ledger, Owner, SubtokenEnabled, TransferToggle>>

(* Raising the minimum clears all nominations that fall below it. *)
clear_small_nominations(L) ==
    LET Step(k, ls) ==
          UNION {IF l.pool[k[1]][k[3]].share[k[2]] = 0 THEN {l}
                 ELSE clear_small_nomination_if_required(l, k[1], k[2], k[3]) : l \in ls}
    IN  FoldSet(Step, {L}, Hotkeys \X Coldkeys \X NetuidSet)

sudo_set_nominator_min_required_stake(min_stake) ==
    LET L == [ledger EXCEPT !.NominatorMinRequiredStake = min_stake]
    IN  /\ IF min_stake > ledger.NominatorMinRequiredStake
           THEN ledger' \in clear_small_nominations(L) ELSE ledger' = L
        /\ UNCHANGED <<Owner, Delegates, SubtokenEnabled, TransferToggle>>
=============================================================================
