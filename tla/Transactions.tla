---------------------------- MODULE Transactions ----------------------------
(***************************************************************************)
(* How signed transactions reach the pallets: the nonce check of the       *)
(* runtime, the transaction extension of the subtensor pallet (admission   *)
(* and priority), the per-key rate limits, the schedule of coldkey swaps   *)
(* and the clean-up of hotkey swap records at the start of a block.        *)
(*                                                                         *)
(* A transaction may be included by any author at any time and any number  *)
(* of times; the pool of this node holds at most one.  What the pallet's   *)
(* own validation of a stake or axon call answers is any verdict: those    *)
(* checks are in Staking and Serving.  Of a dispatched call the module     *)
(* keeps what later validations read.  Every account acts with one hotkey  *)
(* on one network.                                                         *)
(***************************************************************************)
EXTENDS Integers, Sequences, FiniteSets
LOCAL INSTANCE SequencesExt

CONSTANTS
  Signers,            \* accounts that sign
  Spare,              \* the coldkey swaps lead to
  Nonces,             \* nonces transactions carry
  TxNet,              \* the network calls are about
  SwapCost,           \* get_key_swap_cost
  ScheduleDuration,   \* ColdkeySwapScheduleDuration
  RescheduleDuration, \* ColdkeySwapRescheduleDuration
  HotkeySwapOnSubnetInterval,
  RegistrationTarget, \* target registrations per interval
  AdjustmentInterval, \* blocks in a registration interval
  SetChildrenLimit,   \* 150 in get_rate_limit
  NetworkRateLimit,
  U32Max,             \* u32::MAX
  MaxTxBlock,
  TxCalls             \* the calls signed

ASSUME SwapCost > 0 /\ ScheduleDuration > 0 /\ HotkeySwapOnSubnetInterval > 0

VARIABLE txs

Keys == Signers \cup {Spare}
Existential == 1
Vanilla == U32Max * U32Max
WeightCalls == {"commit_weights", "reveal_weights", "batch_reveal_weights", "set_weights", "set_tao_weights", "commit_crv3_weights"}
StakeIns == {"add_stake", "add_stake_limit"}
StakeOuts == {"remove_stake", "remove_stake_limit"}
UnstakeAlls == {"unstake_all", "unstake_all_alpha"}
StakeMoves == {"move_stake", "transfer_stake", "swap_stake", "swap_stake_limit"}
Transfers == {"transfer_keep_alive", "transfer_all", "transfer_allow_death"}
Limited == {"add_stake_limit", "remove_stake_limit", "swap_stake_limit"}

\* Whom a call names besides the signer.
Beneficiaries(call) == IF call \in Transfers \cup {"schedule_swap_coldkey"} THEN Keys ELSE {Spare}

\* What the pallet's own validation of a call can answer.
Verdicts(call) ==
  IF call \notin StakeIns \cup StakeOuts \cup UnstakeAlls \cup StakeMoves \cup {"serve_axon"} THEN {"ok"}
  ELSE {"ok", "NotEnoughStakeToWithdraw", "SameSubnetId"} \cup IF call \in Limited THEN {"ZeroMaxAmount"} ELSE {}

TxInitial == [block |-> 1, nonce |-> [a \in Keys |-> 0], balance |-> [a \in Keys |-> IF a = Spare THEN 0 ELSE 2],
  scheduled |-> {}, agenda |-> <<>>, lastUpdate |-> 0, lastStake |-> [a \in Keys |-> 0], staked |-> {},
  heavy |-> Keys, registrations |-> 0, last |-> [a \in Keys |-> 0], networkLock |-> 0, hotkeySwap |-> [a \in Keys |-> 0],
  pool |-> {},
  \* history
  included |-> [a \in Keys |-> <<>>], frozen |-> {}, hotkeySwaps |-> {}, setChildren |-> {}, failed |-> FALSE, byRoot |-> {},
  life |-> [a \in Keys |-> 0]]

--------------------------------------------------------------------------
(* Balances *)

\* The account is reaped when nothing is left in it and its nonce goes with it.
Reap(a, s) == IF s.balance[a] > 0 THEN s ELSE [s EXCEPT !.nonce[a] = 0, !.included[a] = <<>>, !.life[a] = @ + 1]

can_remove_balance_from_coldkey_account(a, amount, s) == amount <= s.balance[a]

\* What a withdrawal that keeps the account alive takes.
remove_balance_from_coldkey_account(a, amount, s) ==
  IF amount = 0 THEN 0 ELSE IF s.balance[a] - Existential < amount THEN s.balance[a] - Existential ELSE amount

kill_coldkey_account(a, s) == Reap(a, [s EXCEPT !.balance[a] = 0])

add_balance_to_coldkey_account(a, amount, s) == [s EXCEPT !.balance[a] = @ + amount]

--------------------------------------------------------------------------
(* The nonce check *)

Valid(requires, provides) == [ok |-> TRUE, requires |-> requires, provides |-> provides]
Refused(error) == [ok |-> FALSE, error |-> error]

\* Mutant: the tag of the transaction before is asked for one nonce too late.
nonce_validate_requires_late(who, nonce, s) ==
  IF s.balance[who] = 0 THEN Refused("Payment")
  ELSE IF nonce < s.nonce[who] THEN Refused("Stale")
  ELSE Valid(IF s.nonce[who] + 1 < nonce THEN {<<who, nonce - 1>>} ELSE {}, <<who, nonce>>)

nonce_validate(who, nonce, s) ==
  IF s.balance[who] = 0 THEN Refused("Payment")
  ELSE IF nonce < s.nonce[who] THEN Refused("Stale")
  ELSE Valid(IF s.nonce[who] < nonce THEN {<<who, nonce - 1>>} ELSE {}, <<who, nonce>>)

\* Mutant: a transaction is applied before the ones it follows.
nonce_prepare_any(who, nonce, s) == [ok |-> TRUE, s |-> [s EXCEPT !.nonce[who] = @ + 1]]

nonce_prepare(who, nonce, s) ==
  IF nonce > s.nonce[who] THEN [ok |-> FALSE, s |-> s]
  ELSE [ok |-> TRUE, s |-> [s EXCEPT !.nonce[who] = @ + 1]]

--------------------------------------------------------------------------
(* Priorities and admission *)

get_priority_set_weights(s) == s.block - s.lastUpdate + U32Max

get_priority_staking(who, amount, s) ==
  IF s.lastStake[who] = 0 THEN amount ELSE s.block - s.lastStake[who] + U32Max + amount

get_priority_vanilla == Vanilla

check_weights_min_stake(who, s) == who \in s.heavy

CustomTransactionError(error) == CASE
    error = "SubnetNotExists" -> "SubnetDoesntExist"
 [] error = "NotEnoughBalanceToStake" -> "BalanceTooLow"
 [] error = "NotEnoughStakeToWithdraw" -> "NotEnoughStakeToWithdraw"
 [] OTHER -> "BadRequest"

Admitted(priority, longevity) == [ok |-> TRUE, priority |-> priority, longevity |-> longevity]
Forever == MaxTxBlock + 1

result_to_validity(verdict, priority) ==
  IF verdict = "ok" THEN Admitted(priority, Forever) ELSE Refused(CustomTransactionError(verdict))

InSwapSchedule(who, s) == \E r \in s.scheduled : r.old = who

validate_weights(who, s) ==
  IF check_weights_min_stake(who, s) THEN Admitted(get_priority_set_weights(s), 1) ELSE Refused("StakeAmountTooLow")

\* A limit price that leaves nothing to exchange is refused before the pallet is asked.
validate_amount(who, call, verdict, s) ==
  IF call \in Limited /\ verdict = "ZeroMaxAmount" THEN Refused("ZeroMaxAmount")
  ELSE result_to_validity(verdict, get_priority_staking(who, 1, s))

validate_stake_in(who, call, verdict, s) ==
  IF InSwapSchedule(who, s) THEN Refused("ColdkeyInSwapSchedule") ELSE validate_amount(who, call, verdict, s)

validate_stake_out(who, call, verdict, s) ==
  IF call \in UnstakeAlls THEN result_to_validity(verdict, get_priority_vanilla) ELSE validate_amount(who, call, verdict, s)

\* Mutant: stake may move while a swap is scheduled.
validate_transition_unfrozen(who, call, verdict, s) == validate_amount(who, call, verdict, s)

validate_transition(who, call, verdict, s) ==
  IF InSwapSchedule(who, s) THEN Refused("ColdkeyInSwapSchedule") ELSE validate_amount(who, call, verdict, s)

validate_register(who, s) ==
  IF InSwapSchedule(who, s) THEN Refused("ColdkeyInSwapSchedule")
  ELSE IF s.registrations >= 3 * RegistrationTarget THEN Refused("RateLimitExceeded")
  ELSE Admitted(get_priority_vanilla, Forever)

validate_other(who, call, s) ==
  IF call \in Transfers \cup {"dissolve_network"} /\ InSwapSchedule(who, s) THEN Refused("ColdkeyInSwapSchedule")
  ELSE Admitted(get_priority_vanilla, Forever)

validate(who, call, verdict, s) == CASE
    call \in WeightCalls -> validate_weights(who, s)
 [] call \in StakeIns -> validate_stake_in(who, call, verdict, s)
 [] call \in StakeOuts \cup UnstakeAlls -> validate_stake_out(who, call, verdict, s)
 [] call \in StakeMoves -> validate_transition(who, call, verdict, s)
 [] call \in {"register", "burned_register"} -> validate_register(who, s)
 [] call = "serve_axon" -> result_to_validity(verdict, get_priority_vanilla)
 [] OTHER -> validate_other(who, call, s)

--------------------------------------------------------------------------
(* Rate limits *)

get_rate_limit(type) == CASE type = "SetChildren" -> SetChildrenLimit
                          [] type = "RegisterNetwork" -> NetworkRateLimit
                          [] OTHER -> 0

check_passes_rate_limit(limit, block, last_block) == last_block = 0 \/ block - last_block >= limit

get_last_transaction_block_on_subnet(who, type, s) == IF type = "RegisterNetwork" THEN s.networkLock ELSE s.last[who]

passes_rate_limit_on_subnet(who, type, s) ==
  check_passes_rate_limit(get_rate_limit(type), s.block, get_last_transaction_block_on_subnet(who, type, s))

\* Mutant: the block is recorded for the network registrations only.
set_last_transaction_block_network_only(who, type, s) == [s EXCEPT !.networkLock = s.block]

set_last_transaction_block_on_subnet(who, type, s) ==
  IF type = "RegisterNetwork" THEN [s EXCEPT !.networkLock = s.block] ELSE [s EXCEPT !.last[who] = s.block]

--------------------------------------------------------------------------
(* Swaps *)

\* Mutant: a swap can be scheduled over one that is still to come.
schedule_swap_coldkey_again(who, new, s) ==
  IF ~can_remove_balance_from_coldkey_account(who, SwapCost, s) THEN s
  ELSE LET when == s.block + ScheduleDuration IN
       [s EXCEPT !.agenda = Append(@, [at |-> when, old |-> who, new |-> new]),
                 !.scheduled = {r \in @ : r.old # who} \cup {[old |-> who, at |-> when, new |-> new]}]

schedule_swap_coldkey(who, new, s) ==
  IF \/ \E r \in s.scheduled : r.old = who /\ r.at + RescheduleDuration > s.block
     \/ ~can_remove_balance_from_coldkey_account(who, SwapCost, s)
  THEN s
  ELSE LET when == s.block + ScheduleDuration IN
       [s EXCEPT !.agenda = Append(@, [at |-> when, old |-> who, new |-> new]),
                 !.scheduled = {r \in @ : r.old # who} \cup {[old |-> who, at |-> when, new |-> new]}]

perform_swap_coldkey_balance(old, new, s) ==
  LET left == s.balance[old] IN
  IF left = 0 THEN s ELSE add_balance_to_coldkey_account(new, left, kill_coldkey_account(old, s))

\* A new coldkey that stakes, or a balance the cost cannot be taken from.
CannotSwap(old, new, swap_cost, s) ==
  \/ new \in s.staked
  \/ ~can_remove_balance_from_coldkey_account(old, swap_cost, s)
  \/ swap_cost > 0 /\ remove_balance_from_coldkey_account(old, swap_cost, s) = 0

\* Mutant: the record of the swap stays.
do_swap_coldkey_at_cost_keeps_record(old, new, swap_cost, s) ==
  perform_swap_coldkey_balance(old, new, [s EXCEPT !.balance[old] = @ - remove_balance_from_coldkey_account(old, swap_cost, s)])

do_swap_coldkey_at_cost(old, new, swap_cost, s) ==
  LET paid == [s EXCEPT !.balance[old] = @ - remove_balance_from_coldkey_account(old, swap_cost, s)]
      swapped == perform_swap_coldkey_balance(old, new, paid)
  IN [swapped EXCEPT !.scheduled = {r \in @ : r.old # old},
                     !.staked = {IF a = old THEN new ELSE a : a \in @}]

\* The scheduler's call: one that is refused leaves everything as it was.
ScheduledSwap(old, new, s) ==
  IF CannotSwap(old, new, SwapCost, s) THEN [s EXCEPT !.failed = TRUE] ELSE do_swap_coldkey_at_cost(old, new, SwapCost, s)

swap_hotkey_on_subnet_spaced(who, s) ==
  IF s.hotkeySwap[who] + HotkeySwapOnSubnetInterval >= s.block THEN s
  ELSE [s EXCEPT !.hotkeySwap[who] = s.block, !.hotkeySwaps = @ \cup {<<who, s.block>>}]

\* Mutant: a record is dropped while it still binds.
clean_up_hotkey_swap_records_early(s) ==
  IF s.block % HotkeySwapOnSubnetInterval # TxNet % HotkeySwapOnSubnetInterval THEN s
  ELSE [s EXCEPT !.hotkeySwap = [a \in Keys |-> IF @[a] < s.block THEN 0 ELSE @[a]]]

\* The network's turn comes once per interval.
clean_up_hotkey_swap_records(s) ==
  IF s.block % HotkeySwapOnSubnetInterval # TxNet % HotkeySwapOnSubnetInterval THEN s
  ELSE [s EXCEPT !.hotkeySwap = [a \in Keys |-> IF @[a] + HotkeySwapOnSubnetInterval < s.block THEN 0 ELSE @[a]]]

--------------------------------------------------------------------------
(* Dispatch *)

Stake(who, s) ==
  IF s.balance[who] <= Existential THEN s
  ELSE [s EXCEPT !.balance[who] = @ - 1, !.lastStake[who] = s.block, !.staked = @ \cup {who}]

Pay(who, s) ==
  IF s.balance[who] <= Existential THEN s ELSE [s EXCEPT !.balance[who] = @ - 1]

Transfer(who, call, to, s) ==
  LET amount == IF call = "transfer_keep_alive" THEN 1 ELSE s.balance[who]
  IN IF amount = 0 \/ (call = "transfer_keep_alive" /\ s.balance[who] <= Existential) \/ who = to THEN s
     ELSE Reap(who, [s EXCEPT !.balance = [@ EXCEPT ![who] = @ - amount, ![to] = @ + amount]])

RateLimited(who, type, s) ==
  IF ~passes_rate_limit_on_subnet(who, type, s) THEN s
  ELSE LET r == set_last_transaction_block_on_subnet(who, type, s)
       IN IF type = "SetChildren" THEN [r EXCEPT !.setChildren = @ \cup {<<who, s.block>>}] ELSE Pay(who, r)

\* The part of each call that later validations depend on; a call that fails changes nothing.
Dispatch(who, call, to, s) == CASE
    call \in WeightCalls -> [s EXCEPT !.lastUpdate = s.block]
 [] call \in StakeIns \cup StakeMoves -> Stake(who, s)
 [] call \in StakeOuts \cup UnstakeAlls -> add_balance_to_coldkey_account(who, 1, s)
 [] call \in {"register", "burned_register"} -> IF Pay(who, s) = s THEN s ELSE [Pay(who, s) EXCEPT !.registrations = @ + 1]
 [] call \in Transfers -> Transfer(who, call, to, s)
 [] call = "schedule_swap_coldkey" -> schedule_swap_coldkey(who, to, s)
 [] call = "swap_hotkey" -> swap_hotkey_on_subnet_spaced(who, s)
 [] call = "set_children" -> RateLimited(who, "SetChildren", s)
 [] call = "register_network" -> RateLimited(who, "RegisterNetwork", s)
 [] OTHER -> s

--------------------------------------------------------------------------
(* Actions *)

\* A transaction arrives at the pool of this node.
Submit(who, nonce, call, verdict) ==
  /\ txs.pool = {}
  /\ LET n == nonce_validate(who, nonce, txs) v == validate(who, call, verdict, txs) IN
     /\ n.ok /\ v.ok
     /\ txs' = [txs EXCEPT !.pool = {[who |-> who, nonce |-> nonce, life |-> txs.life[who], ready |-> n.requires = {},
                                     until |-> txs.block + v.longevity]}]

\* Some author includes a transaction, from its pool or not: it is validated
\* anew, its nonce is taken, and the call runs.
Include(who, nonce, call, to, verdict) ==
  LET n == nonce_validate(who, nonce, txs) v == validate(who, call, verdict, txs) p == nonce_prepare(who, nonce, txs) IN
  /\ n.ok /\ v.ok /\ p.ok
  /\ LET s == [p.s EXCEPT !.included[who] = Append(@, nonce),
                          !.frozen = IF InSwapSchedule(who, txs) THEN @ \cup {call} ELSE @,
                          !.pool = {t \in @ : ~(t.who = who /\ t.nonce = nonce)}]
     IN txs' = Dispatch(who, call, to, s)

\* A block begins: the hooks of the pallet, the scheduler's calls that are
\* due, and the transactions of the pool that have expired.
NewBlock ==
  /\ txs.block < MaxTxBlock
  /\ LET s == clean_up_hotkey_swap_records([txs EXCEPT !.block = @ + 1, !.pool = {t \in @ : t.until >= txs.block + 1}])
         due == SelectSeq(s.agenda, LAMBDA e : e.at = s.block)
         off == [s EXCEPT !.agenda = SelectSeq(@, LAMBDA e : e.at # s.block),
                          !.registrations = IF s.block % AdjustmentInterval = 0 THEN 0 ELSE @]
     IN txs' = FoldLeft(LAMBDA acc, e : ScheduledSwap(e.old, e.new, acc), off, due)

\* Root swaps a coldkey itself, at a cost it names; what the scheduler holds
\* stays there.
swap_coldkey(old, new, swap_cost) ==
  /\ ~CannotSwap(old, new, swap_cost, txs)
  /\ txs' = [do_swap_coldkey_at_cost(old, new, swap_cost, txs) EXCEPT !.byRoot = @ \cup {old}]

\* The stake behind a hotkey changes.
Reweigh(who) == txs' = [txs EXCEPT !.heavy = IF who \in @ THEN @ \ {who} ELSE @ \cup {who}]

TransactionsInit == txs = TxInitial

TransactionsNext ==
  \/ \E who \in Signers, nonce \in Nonces, call \in TxCalls : \E verdict \in Verdicts(call) : Submit(who, nonce, call, verdict)
  \/ \E who \in Signers, nonce \in Nonces, call \in TxCalls : \E to \in Beneficiaries(call), verdict \in Verdicts(call) : Include(who, nonce, call, to, verdict)
  \/ NewBlock
  \/ \E old \in Signers, cost \in {0, SwapCost} : swap_coldkey(old, Spare, cost)
  \/ \E who \in Signers : Reweigh(who)

TransactionsSpec == TransactionsInit /\ [][TransactionsNext]_txs

--------------------------------------------------------------------------
(* Properties *)

\* The transactions of an account are applied in the order of their nonces,
\* none skipped and none twice, for as long as the account exists, whatever
\* is included when (CheckNonce::validate and prepare).
NoncesInOrder == \A a \in Keys : txs.included[a] = [i \in 1 .. txs.nonce[a] |-> i - 1]

\* A pooled transaction the nonce check called ready can be applied now or is
\* out of date, as long as its account exists: it never waits for another one
\* (requires in CheckNonce).
ReadyIsNext == \A t \in txs.pool : t.ready /\ t.life = txs.life[t.who] => nonce_prepare(t.who, t.nonce, txs).ok

\* The scheduler holds at most one swap of a coldkey, the one on record, and
\* it lies ahead, unless Root has swapped the coldkey itself: that drops the
\* record and leaves the scheduler's call (schedule_swap_coldkey, swap_coldkey,
\* ColdkeySwapScheduled).
OneSwapPending == \A i \in DOMAIN txs.agenda : LET e == txs.agenda[i] IN
  /\ e.at > txs.block
  /\ e.old \in txs.byRoot \/ [old |-> e.old, at |-> e.at, new |-> e.new] \in txs.scheduled

\* A record outlives its block only when a swap failed (do_swap_coldkey).
RecordsGoWithTheSwap == (\E r \in txs.scheduled : r.at <= txs.block) => txs.failed

\* While a swap of the coldkey is scheduled no transaction it signs is itself
\* one of the calls that put in or move stake, transfer balance, register a
\* neuron or dissolve a network.  Only the call that is signed is looked at:
\* the same calls inside a batch or a proxy call, and every other call, stake
\* withdrawals included, are let through (SubtensorTransactionExtension::validate).
FrozenWhileScheduled == txs.frozen \cap (StakeIns \cup StakeMoves \cup Transfers \cup {"register", "burned_register", "dissolve_network"}) = {}

\* Hotkey swaps of a coldkey on a network are further apart than the interval,
\* though the records are cleaned up (swap_hotkey_on_subnet,
\* clean_up_hotkey_swap_records).
HotkeySwapsSpaced == \A p, q \in txs.hotkeySwaps : p[1] = q[1] /\ p[2] < q[2] => q[2] - p[2] > HotkeySwapOnSubnetInterval

\* Calls that set the children of a hotkey are at least the limit apart
\* (passes_rate_limit_on_subnet, set_last_transaction_block_on_subnet).
SetChildrenSpaced == \A p, q \in txs.setChildren : p[1] = q[1] /\ p[2] < q[2] => q[2] - p[2] >= SetChildrenLimit
=============================================================================
