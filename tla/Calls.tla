-------------------------------- MODULE Calls --------------------------------
(***************************************************************************)
(* Which calls the runtime lets through: the filters of the proxy types,   *)
(* their order, the base filter against nested batches, and the whitelist  *)
(* of safe mode.  A call is a record with the field kind, its name; calls  *)
(* that a filter does not tell apart share one name (sudo_other, ...).     *)
(***************************************************************************)
EXTENDS Naturals, Sequences

ProxyTypes ==   \* in the order of the enum
    <<"Any", "Owner", "NonCritical", "NonTransfer", "Senate", "NonFungibile", "Triumvirate",
      "Governance", "Staking", "Registration", "Transfer", "SmallTransfer", "RootWeights",
      "ChildKeys", "SudoUncheckedSetCode", "SwapHotkey">>

BalancesCalls == {"transfer_keep_alive", "transfer_allow_death", "transfer_all", "balances_other"}

SudoCalls == {"sudo_set_code_unchecked", "sudo_other"}

GovernanceCalls == {"SenateMembers", "Triumvirate", "TriumvirateMembers"}

StakingCalls ==
    {"add_stake", "remove_stake", "unstake_all", "unstake_all_alpha", "swap_stake",
     "swap_stake_limit", "move_stake", "add_stake_limit", "remove_stake_limit",
     "remove_stake_full_limit"}

ColdkeySwaps == {"schedule_swap_coldkey", "swap_coldkey"}

BatchCalls == {"batch", "batch_all", "force_batch"}

(* small tells whether the amount is below SMALL_TRANSFER_LIMIT. *)
filter(proxy_type, c) ==
    CASE proxy_type = "Any" -> TRUE
      [] proxy_type = "NonTransfer" ->
            c.kind \notin BalancesCalls \cup {"transfer_stake"} \cup ColdkeySwaps
      [] proxy_type = "NonFungibile" ->
            c.kind \notin BalancesCalls \cup StakingCalls \cup ColdkeySwaps
                            \cup {"transfer_stake", "burned_register", "root_register",
                                  "swap_hotkey"}
      [] proxy_type = "Transfer" ->
            c.kind \in {"transfer_keep_alive", "transfer_allow_death", "transfer_all",
                        "transfer_stake"}
      [] proxy_type = "SmallTransfer" ->
            /\ c.kind \in {"transfer_keep_alive", "transfer_allow_death", "transfer_stake"}
            /\ c.small
      [] proxy_type = "Owner" -> c.kind = "admin_utils_other"
      [] proxy_type = "NonCritical" ->
            c.kind \notin {"dissolve_network", "root_register", "burned_register", "Triumvirate",
                           "set_tao_weights"} \cup SudoCalls
      [] proxy_type = "Triumvirate" -> c.kind \in {"Triumvirate", "TriumvirateMembers"}
      [] proxy_type = "Senate" -> c.kind = "SenateMembers"
      [] proxy_type = "Governance" -> c.kind \in GovernanceCalls
      [] proxy_type = "Staking" -> c.kind \in StakingCalls
      [] proxy_type = "Registration" -> c.kind \in {"burned_register", "register"}
      [] proxy_type = "RootWeights" -> c.kind = "set_tao_weights"
      [] proxy_type = "ChildKeys" -> c.kind \in {"set_children", "set_childkey_take"}
      [] proxy_type = "SudoUncheckedSetCode" -> c.kind = "sudo_set_code_unchecked"
      [] proxy_type = "SwapHotkey" -> c.kind = "swap_hotkey"

is_superset(x, y) ==
    \/ x = y
    \/ x = "Any"
    \/ x = "NonTransfer" /\ y \notin {"Any", "Transfer", "SmallTransfer"}
    \/ x = "Governance" /\ y \in {"Triumvirate", "Senate"}
    \/ x = "Transfer" /\ y = "SmallTransfer"

(* A batch may not hold a batch; what a proxied call holds is not looked at. *)
NoNestingCallFilter(c) ==
    c.kind \in BatchCalls => \A i \in DOMAIN c.calls : c.calls[i].kind \notin BatchCalls

SafeModeWhitelistedCalls(c) ==
    c.kind \in SudoCalls \cup {"multisig", "system", "safe_mode", "timestamp", "set_weights",
                               "set_tao_weights", "serve_axon", "set_commitment"}

(* In safe mode only whitelisted calls pass. *)
BaseCallFilter(safe_mode, c) ==
    /\ safe_mode => SafeModeWhitelistedCalls(c)
    /\ NoNestingCallFilter(c)
=============================================================================
