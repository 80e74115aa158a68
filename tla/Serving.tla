------------------------------ MODULE Serving ------------------------------
(***************************************************************************)
(* What neurons and owners publish about themselves: axon and prometheus   *)
(* endpoints and TLS certificates (subnets/serving.rs), coldkey and subnet *)
(* identities (utils/identity.rs) and EVM addresses (utils/evm.rs), over   *)
(* networks whose neurons are replaced, swapped and removed.  An endpoint  *)
(* is kept per (netuid, hotkey), an EVM address per (netuid, uid), an      *)
(* identity per coldkey or netuid: every change of membership has to deal  *)
(* with each of them separately.                                           *)
(***************************************************************************)
EXTENDS Integers, FiniteSets, Sequences, TLC
LOCAL INSTANCE Functions
LOCAL INSTANCE SequencesExt

CONSTANTS
    ServeNets,         \* netuids a network can be added under
    ServeHotkeys, ServeColdkeys,
    SlotsPerNet,       \* max_allowed_uids
    ServeInputs,       \* endpoints passed in: [ip, ip_type, port]
    Certificates,      \* certificates passed in, valid ones and others
    EvmKeys,           \* EVM addresses
    IdentityInputs,    \* identities passed in: field name -> length
    serving_rate_limit,
    MaxServeBlock      \* bound of the block number

NoOwner == "no owner"  \* DefaultSubnetOwner: nobody signs for it

NoCertificate == "none"

VARIABLE serving

ServingInitial ==
    [block |-> 1,
     added |-> {},                                    \* NetworksAdded
     subnetOwner |-> [n \in ServeNets |-> NoOwner],   \* SubnetOwner
     ownerHotkey |-> <<>>,                            \* SubnetOwnerHotkey
     keys |-> [n \in ServeNets |-> <<>>],             \* Keys, Uids
     member |-> <<>>,                                 \* IsNetworkMember
     owner |-> <<>>,                                  \* Owner: hotkey -> coldkey
     owned |-> [c \in ServeColdkeys |-> {}],          \* OwnedHotkeys
     staking |-> {},                                  \* coldkeys with StakingHotkeys
     axons |-> <<>>, prometheus |-> <<>>, certificates |-> <<>>,
     identities |-> <<>>,                             \* IdentitiesV2
     subnetIdentities |-> <<>>,                       \* SubnetIdentitiesV3
     evm |-> <<>>,                                    \* AssociatedEvmAddress
     cleared |-> {}]       \* history: (netuid, hotkey) replaced since they last served

Insert(f, k, v) == (k :> v) @@ f

Erase(f, ks) == Restrict(f, DOMAIN f \ ks)

(* f[old], if there is one, becomes f[new]: remove, then insert. *)
Rekeyed(f, old, new) ==
    IF old \in DOMAIN f THEN Insert(Erase(f, {old}), new, f[old]) ELSE f

Members(s, n) == Range(s.keys[n])

is_hotkey_registered_on_any_network(s, h) ==
    \E n \in ServeNets : <<h, n>> \in DOMAIN s.member /\ s.member[<<h, n>>]

(* A key is enough: the entry may say FALSE. *)
is_hotkey_registered_on_specific_network(s, h, n) == <<h, n>> \in DOMAIN s.member

UidOf(s, n, h) == CHOOSE i \in DOMAIN s.keys[n] : s.keys[n][i] = h

coldkey_owns_hotkey(s, c, h) == h \in DOMAIN s.owner /\ s.owner[h] = c

(***************************************************************************)
(* Endpoints.                                                              *)
(***************************************************************************)
get_axon_info(s, n, h) ==
    IF <<n, h>> \in DOMAIN s.axons THEN s.axons[<<n, h>>]
    ELSE [block |-> 0, ip |-> "zero", ip_type |-> 0, port |-> 0]

get_prometheus_info(s, n, h) ==
    IF <<n, h>> \in DOMAIN s.prometheus THEN s.prometheus[<<n, h>>]
    ELSE [block |-> 0, ip |-> "zero", ip_type |-> 0, port |-> 0]

(* Rate limits of endpoints: a record with block 0 was never served. *)
axon_passes_rate_limit(prev, now) ==
    \/ serving_rate_limit = 0
    \/ prev.block = 0
    \/ now - prev.block >= serving_rate_limit

prometheus_passes_rate_limit(prev, now) ==
    \/ serving_rate_limit = 0
    \/ prev.block = 0
    \/ now - prev.block >= serving_rate_limit

is_valid_ip_type(t) == t \in {4, 6}

(* Addresses by the classes the code tells apart: "zero", "localhost" of the
   type (127.0.0.1, or 1 in IPv6), "wide" (at least u32::MAX), "max"
   (u128::MAX) and "plain". *)
is_valid_ip_address(t, ip, allow_zero) ==
    /\ ip = "zero" => allow_zero
    /\ t = 4 => ip \notin {"wide", "max", "localhost4"}
    /\ t = 6 => ip \notin {"max", "localhost6"}

validate_axon_data(a) == a.port # 0

validate_prometheus_data(p) == p.port # 0

validate_serve_axon(s, n, h, e) ==
    /\ is_hotkey_registered_on_any_network(s, h)
    /\ is_valid_ip_type(e.ip_type)
    /\ is_valid_ip_address(e.ip_type, e.ip, TRUE)
    /\ axon_passes_rate_limit(get_axon_info(s, n, h), s.block)
    /\ validate_axon_data(e)

WithBlock(s, e) == [block |-> s.block, ip |-> e.ip, ip_type |-> e.ip_type, port |-> e.port]

(* The network n need not be one the hotkey is a member of, nor exist. *)
do_serve_axon(n, h, e, c) ==
    /\ validate_serve_axon(serving, n, h, e)
    /\ serving' = [serving EXCEPT
         !.certificates = IF c \in {NoCertificate, "too long"} THEN @ ELSE Insert(@, <<n, h>>, c),
         !.axons = Insert(@, <<n, h>>, WithBlock(serving, e)),
         !.cleared = @ \ {<<n, h>>}]

do_serve_prometheus(n, h, e) ==
    /\ is_valid_ip_type(e.ip_type)
    /\ is_valid_ip_address(e.ip_type, e.ip, FALSE)
    /\ is_hotkey_registered_on_any_network(serving, h)
    /\ prometheus_passes_rate_limit(get_prometheus_info(serving, n, h), serving.block)
    /\ validate_prometheus_data(e)
    /\ serving' = [serving EXCEPT !.prometheus = Insert(@, <<n, h>>, WithBlock(serving, e))]

(***************************************************************************)
(* Identities.  An identity is what the code tells apart of it: the        *)
(* lengths of its fields.                                                  *)
(***************************************************************************)
SumOf(identity, fields) == FoldFunctionOnSet(+, 0, identity, fields)

is_valid_identity(i) ==
    /\ SumOf(i, {"name", "url", "image", "discord", "description", "additional"})
         <= 256 + 256 + 256 + 1024 + 256 + 1024 + 1024
    /\ \A f \in {"name", "url", "github_repo", "discord"} : i[f] <= 256
    /\ \A f \in {"image", "description", "additional"} : i[f] <= 1024

is_valid_subnet_identity(i) ==
    /\ SumOf(i, {"subnet_name", "github_repo", "subnet_contact"})
         <= 256 + 1024 + 1024 + 1024 + 256 + 1024 + 1024 + 1024
    /\ \A f \in {"subnet_name", "discord"} : i[f] <= 256
    /\ \A f \in {"github_repo", "subnet_contact", "subnet_url", "description", "logo_url",
                 "additional"} : i[f] <= 1024

do_set_identity(c, i) ==
    /\ \E h \in serving.owned[c] : is_hotkey_registered_on_any_network(serving, h)
    /\ is_valid_identity(i)
    /\ serving' = [serving EXCEPT !.identities = Insert(@, c, i)]

do_set_subnet_identity(c, n, i) ==
    /\ serving.subnetOwner[n] = c
    /\ is_valid_subnet_identity(i)
    /\ serving' = [serving EXCEPT !.subnetIdentities = Insert(@, n, i)]

(***************************************************************************)
(* EVM addresses.  A signature is by outcome: it recovers to a key, and    *)
(* the call needs that key to be the one it names.                         *)
(***************************************************************************)
do_associate_evm_key(n, h, evm_key, recovered) ==
    /\ h \in Members(serving, n)
    /\ evm_key = recovered
    /\ serving' = [serving EXCEPT
         !.evm = Insert(@, <<n, UidOf(serving, n, h)>>, <<evm_key, serving.block>>)]

(* Mutant: results in the order of the uids. *)
uid_lookup_by_uid(s, n, evm_key, limit, order) ==
    LET first == SubSeq(order, 1, IF limit < Len(order) THEN limit ELSE Len(order))
        hits  == SelectSeq(first, LAMBDA u : s.evm[<<n, u>>][1] = evm_key)
    IN SortSeq([i \in DOMAIN hits |-> <<hits[i], s.evm[<<n, hits[i]>>][2]>>],
               LAMBDA a, b : a[1] < b[1])

(* The entries the storage iterator yields for n, in hash order: any order.
   The limit is applied before the filter on the key. *)
uid_lookup(s, n, evm_key, limit, order) ==
    LET first == SubSeq(order, 1, IF limit < Len(order) THEN limit ELSE Len(order))
        hits  == SelectSeq(first, LAMBDA u : s.evm[<<n, u>>][1] = evm_key)
    IN SortSeq([i \in DOMAIN hits |-> <<hits[i], s.evm[<<n, hits[i]>>][2]>>],
               LAMBDA a, b : a[2] < b[2])

(***************************************************************************)
(* Membership.                                                             *)
(***************************************************************************)
create_account_if_non_existent(s, c, h) ==
    IF h \in DOMAIN s.owner THEN s
    ELSE [s EXCEPT !.owner = Insert(@, h, c), !.owned[c] = @ \cup {h}, !.staking = @ \cup {c}]

append_neuron(s, n, h) ==
    [s EXCEPT !.keys[n] = Append(@, h), !.member = Insert(@, <<h, n>>, TRUE)]

(* Mutant: the incoming hotkey's endpoints are cleared instead of the old one's. *)
replace_neuron_clears_new(s, n, uid, h) ==
    LET old == s.keys[n][uid] IN
    IF n \in DOMAIN s.ownerHotkey /\ s.ownerHotkey[n] = old THEN s
    ELSE [s EXCEPT !.keys[n][uid] = h,
                   !.member = Insert(Erase(@, {<<old, n>>}), <<h, n>>, TRUE),
                   !.certificates = Erase(@, {<<n, h>>}),
                   !.axons = Erase(@, {<<n, h>>}),
                   !.cleared = @ \cup {<<n, old>>}]

(* The owner's neuron is never replaced; the slot of any other is taken over,
   with the old hotkey's certificate and axon removed. *)
replace_neuron(s, n, uid, h) ==
    LET old == s.keys[n][uid] IN
    IF n \in DOMAIN s.ownerHotkey /\ s.ownerHotkey[n] = old THEN s
    ELSE [s EXCEPT !.keys[n][uid] = h,
                   !.member = Insert(Erase(@, {<<old, n>>}), <<h, n>>, TRUE),
                   !.certificates = Erase(@, {<<n, old>>}),
                   !.axons = Erase(@, {<<n, old>>}),
                   !.cleared = @ \cup {<<n, old>>}]

(* A registration: the first free slot, or a replaced neuron's. *)
register(n, h, c) ==
    /\ n \in serving.added
    /\ h \notin Members(serving, n)
    /\ h \in DOMAIN serving.owner => coldkey_owns_hotkey(serving, c, h)
    /\ IF Len(serving.keys[n]) < SlotsPerNet
       THEN serving' = append_neuron(create_account_if_non_existent(serving, c, h), n, h)
       ELSE \E uid \in 1 .. SlotsPerNet :
              serving' = replace_neuron(create_account_if_non_existent(serving, c, h), n, uid, h)

(* do_register_network: the new network, its owner in slot 1, and the
   identity passed in, if any. *)
do_register_network(n, h, c, i) ==
    /\ n \notin serving.added
    /\ h \in DOMAIN serving.owner => coldkey_owns_hotkey(serving, c, h)
    /\ i # <<>> => is_valid_subnet_identity(i)
    /\ serving' = [append_neuron(create_account_if_non_existent(serving, c, h), n, h) EXCEPT
         !.added = @ \cup {n},
         !.subnetOwner[n] = c,
         !.ownerHotkey = Insert(@, n, h),
         !.subnetIdentities = IF i = <<>> THEN @ ELSE Insert(@, n, i)]

(* Mutant: the owner of a removed network stays recorded. *)
remove_network_keeps_owner(s, n) ==
    [s EXCEPT !.added = @ \ {n}, !.keys[n] = <<>>,
              !.member = Erase(@, {<<h, n>> : h \in Members(s, n)}),
              !.subnetIdentities = Erase(@, {n})]

(* Endpoints, certificates, EVM addresses and SubnetOwnerHotkey stay. *)
remove_network(s, n) ==
    [s EXCEPT !.added = @ \ {n}, !.keys[n] = <<>>, !.subnetOwner[n] = NoOwner,
              !.member = Erase(@, {<<h, n>> : h \in Members(s, n)}),
              !.subnetIdentities = Erase(@, {n})]

user_remove_network(c, n) ==
    /\ n \in serving.added
    /\ serving.subnetOwner[n] = c
    /\ serving' = remove_network([serving EXCEPT !.subnetIdentities = Erase(@, {n})], n)

(* perform_hotkey_swap_on_one_subnet: the endpoints move only when the old
   hotkey is a member; the EVM address belongs to the uid and stays. *)
SwapOn(s, n, old, new) ==
    LET is_network_member == <<old, n>> \in DOMAIN s.member /\ s.member[<<old, n>>]
        Moved(f) == IF is_network_member THEN Rekeyed(f, <<n, old>>, <<n, new>>) ELSE f
    IN [s EXCEPT
         !.member = Insert(Erase(@, {<<old, n>>}), <<new, n>>, is_network_member),
         !.keys[n] = [i \in DOMAIN @ |-> IF is_network_member /\ @[i] = old THEN new ELSE @[i]] \o <<>>,
         !.prometheus = Moved(@),
         !.axons = Moved(@),
         !.certificates = Moved(@),
         !.ownerHotkey = IF n \in DOMAIN @ /\ @[n] = old THEN Insert(@, n, new) ELSE @,
         !.cleared = @ \ {<<n, new>>}]

(* The new hotkey is on no network; whose it is, is not asked. *)
MaySwapHotkey(s, c, old, new) ==
    /\ coldkey_owns_hotkey(s, c, old)
    /\ old # new
    /\ ~is_hotkey_registered_on_any_network(s, new)

swap_hotkey_on_subnet(c, old, new, n) ==
    /\ MaySwapHotkey(serving, c, old, new)
    /\ ~is_hotkey_registered_on_specific_network(serving, new, n)
    /\ serving' = SwapOn([serving EXCEPT !.owner = Insert(@, new, c), !.owned[c] = @ \cup {new}],
                         n, old, new)

perform_hotkey_swap_on_all_subnets(c, old, new) ==
    /\ MaySwapHotkey(serving, c, old, new)
    /\ serving' = FoldSet(LAMBDA n, s : SwapOn(s, n, old, new),
                          [serving EXCEPT !.owner = Insert(Erase(@, {old}), new, c),
                                          !.owned[c] = (@ \cup {new}) \ {old}],
                          serving.added)

(* Mutant: the hotkeys the code finds by Owner move, their list does not. *)
perform_swap_coldkey_list_lags(s, old, new) ==
    [s EXCEPT
      !.subnetOwner = [n \in ServeNets |-> IF n \in s.added /\ @[n] = old THEN new ELSE @[n]],
      !.staking = IF old \in @ THEN (@ \ {old}) \cup {new} ELSE @,
      !.owner = [h \in s.owned[old] |-> new] @@ @]

(* The networks, the owned hotkeys and the list of staking hotkeys move. *)
perform_swap_coldkey(s, old, new) ==
    [s EXCEPT
      !.subnetOwner = [n \in ServeNets |-> IF n \in s.added /\ @[n] = old THEN new ELSE @[n]],
      !.staking = IF old \in @ THEN (@ \ {old}) \cup {new} ELSE @,
      !.owner = [h \in s.owned[old] |-> new] @@ @,
      !.owned = [@ EXCEPT ![old] = {}, ![new] = @ \cup s.owned[old]]]

(* Mutant: the identity stays with the old coldkey. *)
do_swap_coldkey_keeps_identity(old, new) ==
    /\ new \notin serving.staking
    /\ new \notin DOMAIN serving.owner
    /\ serving' = perform_swap_coldkey(serving, old, new)

do_swap_coldkey(old, new) ==
    /\ new \notin serving.staking
    /\ new \notin DOMAIN serving.owner
    /\ serving' = perform_swap_coldkey([serving EXCEPT !.identities = Rekeyed(@, old, new)], old, new)

NextServeBlock ==
    /\ serving.block < MaxServeBlock
    /\ serving' = [serving EXCEPT !.block = @ + 1]
----------------------------------------------------------------------------
ServingInit == serving = ServingInitial

SubnetIdentityInputs == {i \in IdentityInputs : "subnet_name" \in DOMAIN i}

ServingNext ==
    \/ NextServeBlock
    \/ \E n \in ServeNets, h \in ServeHotkeys, e \in ServeInputs :
         \/ \E c \in Certificates \cup {NoCertificate} : do_serve_axon(n, h, e, c)
         \/ do_serve_prometheus(n, h, e)
    \/ \E c \in ServeColdkeys, i \in IdentityInputs \ SubnetIdentityInputs : do_set_identity(c, i)
    \/ \E c \in ServeColdkeys, n \in ServeNets, i \in SubnetIdentityInputs :
         do_set_subnet_identity(c, n, i)
    \/ \E n \in ServeNets, h \in ServeHotkeys, k, r \in EvmKeys : do_associate_evm_key(n, h, k, r)
    \/ \E n \in ServeNets, h \in ServeHotkeys, c \in ServeColdkeys :
         \/ register(n, h, c)
         \/ \E i \in SubnetIdentityInputs \cup {<<>>} : do_register_network(n, h, c, i)
    \/ \E n \in ServeNets, c \in ServeColdkeys : user_remove_network(c, n)
    \/ \E c \in ServeColdkeys, old, new \in ServeHotkeys :
         \/ \E n \in ServeNets : swap_hotkey_on_subnet(c, old, new, n)
         \/ perform_hotkey_swap_on_all_subnets(c, old, new)
    \/ \E old, new \in ServeColdkeys : do_swap_coldkey(old, new)
----------------------------------------------------------------------------
(* A neuron that lost its slot left neither an axon nor a certificate behind
   on that network, until it serves again or gets them by a swap: whatever
   other networks it serves on and whoever has the slot since
   (replace_neuron, steps 4 and 5a). *)
ReplacedNeuronsAreGone ==
    \A k \in serving.cleared : k \notin DOMAIN serving.axons \cup DOMAIN serving.certificates

(* A subnet identity belongs to a network that exists: after
   user_remove_network nobody, the former owner included, can write one back,
   and the next network under the netuid starts without. *)
SubnetIdentitiesHaveNetworks == DOMAIN serving.subnetIdentities \subseteq serving.added

(* A coldkey with an identity owns a hotkey, as it did when do_set_identity
   admitted it: through hotkey and coldkey swaps the identity goes where the
   hotkeys go. *)
IdentifiedOwnHotkeys == \A c \in DOMAIN serving.identities : serving.owned[c] # {}

(* OwnedHotkeys lists every hotkey that Owner gives to a coldkey, through all
   three kinds of swap; do_swap_coldkey moves the hotkeys of the list, so one
   that is missing would stay with the old coldkey. *)
OwnersListTheirHotkeys ==
    \A h \in DOMAIN serving.owner : h \in serving.owned[serving.owner[h]]

AssociatedUids(n) == {k[2] : k \in {k \in DOMAIN serving.evm : k[1] = n}}

(* uid_lookup with a limit that covers the associations of the network finds
   every uid of the EVM key, earliest proof first, whatever order the storage
   iterator yields them in. *)
LookupFindsAll ==
    \A n \in ServeNets, k \in EvmKeys : \A order \in SetToSeqs(AssociatedUids(n)) :
      LET found == uid_lookup(serving, n, k, Len(order), order) IN
      /\ Range(found) = {<<u, serving.evm[<<n, u>>][2]>> :
                           u \in {u \in AssociatedUids(n) : serving.evm[<<n, u>>][1] = k}}
      /\ \A i, j \in DOMAIN found : i < j => found[i][2] <= found[j][2]
=============================================================================
