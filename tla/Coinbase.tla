------------------------------ MODULE Coinbase -------------------------------
(***************************************************************************)
(* The coinbase: every block injects TAO and alpha into the pools of the   *)
(* subnets that started, sells the root's part of the alpha, and at a      *)
(* subnet's epoch pays out what has gathered.                              *)
(*                                                                         *)
(* Moving prices decide how much TAO each subnet gets and the epoch decides *)
(* who earns; both are free choices here, within the sums the code keeps.  *)
(***************************************************************************)
EXTENDS Staking

CONSTANTS
    SubnetOwner,          \* coldkey of the owner of every subnet
    SubnetOwnerHotkey,    \* its hotkey
    AlphaEmission,        \* alpha a subnet emits per block
    TaoIn, AlphaIn,       \* bounds: TAO and alpha injected per subnet and block
    OwnerCut,             \* bound: the owner's part of AlphaEmission
    MaxBlocks             \* bound: blocks explored

ASSUME CoinbaseAssumption ==
    /\ SubnetOwner \in Coldkeys /\ SubnetOwnerHotkey \in Hotkeys
    /\ AlphaEmission \in Nat /\ OwnerCut \subseteq 0..AlphaEmission
    /\ AlphaIn \subseteq 0..AlphaEmission /\ TaoIn \subseteq Nat

VARIABLES
    blocks,         \* blocks so far
    pending,        \* [netuid -> Pending]
    FirstEmission   \* subnets with a FirstEmissionBlockNumber

coinbaseVars == <<stakingVars, blocks, pending, FirstEmission>>

(* PendingEmission, PendingRootDivs, PendingAlphaSwapped, PendingOwnerCut *)
Pending == [emission : Nat, rootDivs : Nat, swapped : Nat, ownerCut : Nat]
Nothing == [emission |-> 0, rootDivs |-> 0, swapped |-> 0, ownerCut |-> 0]

(* do_start_call: the owner lets emission and staking begin. *)
do_start_call(n) ==
    /\ if_subnet_exist(n) /\ n /= Root
    /\ n \notin FirstEmission
    /\ FirstEmission' = FirstEmission \cup {n}
    /\ SubtokenEnabled' = SubtokenEnabled \cup {n}
    /\ UNCHANGED <<ledger, Owner, Delegates, TransferToggle, blocks, pending>>

\* Mutant: TotalStake misses the injected TAO.
Inject_without_stake(S, n, tao_in, alpha_in) ==
    [S EXCEPT !.ledger.SubnetAlphaIn[n] = @ + alpha_in,
              !.ledger.SubnetAlphaOut[n] = @ + AlphaEmission,
              !.ledger.SubnetTAO[n] = @ + tao_in,
              !.ledger.TotalIssuance = @ + tao_in]

(***************************************************************************)
(* Steps 3 to 6 of run_coinbase for one subnet. S is [ledger, pending].    *)
(***************************************************************************)
Inject(S, n, tao_in, alpha_in) ==
    [S EXCEPT !.ledger.SubnetAlphaIn[n] = @ + alpha_in,
              !.ledger.SubnetAlphaOut[n] = @ + AlphaEmission,
              !.ledger.SubnetTAO[n] = @ + tao_in,
              !.ledger.TotalStake = @ + tao_in,
              !.ledger.TotalIssuance = @ + tao_in]

TakeOwnerCut(S, n, cut) == [S EXCEPT !.pending[n].ownerCut = @ + cut]

(* root_alpha is at most half of what the owner left.  When the sale fails,
   neither part of the alpha becomes pending. *)
SellRootAlpha(S, n, alpha_out, root_alpha) ==
    {[ledger |-> s.ledger,
      pending |-> [S.pending EXCEPT ![n].swapped = @ + root_alpha,
                                    ![n].emission = @ + (alpha_out - root_alpha),
                                    ![n].rootDivs = @ + s.paid_out]] :
        s \in swap_alpha_for_tao(S.ledger, n, root_alpha)}
    \cup {S}

\* Mutant: root may get all of the alpha, not half.
RootAlpha_unhalved(S, alpha_out) == 0..alpha_out

(* Without TAO on root, root has no part of the alpha. *)
RootAlpha(S, alpha_out) ==
    IF S.ledger.SubnetTAO[Root] = 0 THEN {0} ELSE 0..(alpha_out \div 2)

Emit(S, n) ==
    UNION {UNION {SellRootAlpha(TakeOwnerCut(Inject(S, n, tao_in, alpha_in), n, cut), n,
                                AlphaEmission - cut, root_alpha) :
                    root_alpha \in RootAlpha(S, AlphaEmission - cut)} :
             tao_in \in TaoIn, alpha_in \in AlphaIn, cut \in OwnerCut}

(***************************************************************************)
(* The epoch's payments.                                                   *)
(***************************************************************************)
(* Dividends of a hotkey: its owner gets the take, its nominators the rest,
   each rounded down. *)
OwnerTake(h, divs) == (divs * get_hotkey_take(h)) \div TakeUnit
NominatorPart(h, divs) == (divs * (TakeUnit - get_hotkey_take(h))) \div TakeUnit

PayDividend(L, h, n, divs) ==
    increase_stake_for_hotkey_on_subnet(
        increase_stake_for_hotkey_and_coldkey_on_subnet(L, h, Owner[h], n, OwnerTake(h, divs)),
        h, n, NominatorPart(h, divs))

PayOwner(L, n, cut) ==
    increase_stake_for_hotkey_and_coldkey_on_subnet(L, SubnetOwnerHotkey, SubnetOwner, n, cut)

(* The incentive of the subnet owner's hotkey is burned. *)
PayMiner(L, h, n, incentive) ==
    IF h = SubnetOwnerHotkey THEN L
    ELSE increase_stake_for_hotkey_and_coldkey_on_subnet(L, h, Owner[h], n, incentive)

(* Root dividends are TAO: they become stake on root, and SubnetTAO of root
   grows by what the pools took. *)
PayRoot(L, h, tao) ==
    LET validator_stake == update_value_for_one(L.pool[h][Root], Owner[h], OwnerTake(h, tao)).actual
    IN  [PayDividend(L, h, Root, tao) EXCEPT
            !.SubnetTAO[Root] = @ + validator_stake + NominatorPart(h, tao)]

\* Mutant: the alpha sold for root is paid out again.
pending_validator_alpha_with_swapped(p, incentive_sum) ==
    IF incentive_sum /= 0 THEN (p.emission + p.swapped) \div 2 ELSE p.emission

(* Incentives are half of the alpha or nothing. *)
pending_validator_alpha(p, incentive_sum) ==
    IF incentive_sum /= 0
    THEN Monus((p.emission + p.swapped) \div 2, p.swapped)
    ELSE p.emission

distribute_dividends_and_incentives(L, n, cut, miner, incentive, validator, alpha, tao) ==
    PayRoot(PayDividend(PayMiner(PayOwner(L, n, cut), miner, n, incentive),
                        validator, n, alpha),
            validator, tao)

(* One hotkey mines and one validates; the epoch may also pay nobody.  Only
   stake on root earns root dividends: otherwise that TAO is not paid out. *)
drain_pending_emission(S, n) ==
    LET p == S.pending[n]
        half == (p.emission + p.swapped) \div 2
        earners == {h \in Hotkeys : hotkey_account_exists(h)}
        pending_tao(v) ==
            IF get_stake_for_hotkey_on_subnet(S.ledger, v, Root) > 0 THEN p.rootDivs ELSE 0
        S0 == [S EXCEPT !.pending[n] = Nothing]
    IN  {[S0 EXCEPT !.ledger = PayOwner(@, n, p.ownerCut)]} \cup
        {[S0 EXCEPT !.ledger =
            distribute_dividends_and_incentives(@, n, p.ownerCut, m, i, v,
                pending_validator_alpha(p, i), pending_tao(v))] :
            m \in earners, v \in earners, i \in {0, half}}

(* A block: emission for every started subnet, then the epochs that are due. *)
run_coinbase(due) ==
    LET subnets == SelectSeq(Netuids, LAMBDA n : n /= Root)
        emitted == FoldLeft(LAMBDA ss, n : UNION {Emit(S, n) : S \in ss},
                            {[ledger |-> ledger, pending |-> pending]},
                            SelectSeq(subnets, LAMBDA n : n \in FirstEmission))
        drained == FoldLeft(LAMBDA ss, n : UNION {drain_pending_emission(S, n) : S \in ss},
                            emitted, SelectSeq(subnets, LAMBDA n : n \in due))
    IN  /\ blocks < MaxBlocks
        /\ blocks' = blocks + 1
        /\ \E S \in drained : ledger' = S.ledger /\ pending' = S.pending
        /\ UNCHANGED <<Owner, Delegates, SubtokenEnabled, TransferToggle, FirstEmission>>
=============================================================================
