------------------------------- MODULE Neurons -------------------------------
(***************************************************************************)
(* The neuron slot table of pallet-subtensor: which hotkey holds which uid *)
(* of which subnet.                                                        *)
(*                                                                         *)
(* The table is kept in five storage maps that no single place updates:    *)
(* SubnetworkN, Keys (netuid, uid -> hotkey), Uids (netuid, hotkey -> uid),*)
(* IsNetworkMember (hotkey, netuid -> bool) and SubnetOwnerHotkey.  This   *)
(* module is the abstract specification of the table: it has every         *)
(* operation that writes one of the five maps, and says of a registration  *)
(* into a full subnet only that some neuron other than the subnet owner's  *)
(* is replaced.  Module Registration adds how the victim is chosen, the    *)
(* rate limits and the clock, and implements this specification.           *)
(***************************************************************************)
EXTENDS Integers

CONSTANTS
    Hotkeys,        \* the accounts that may hold a slot
    GenesisHotkey,  \* DefaultAccount: it holds uid 0 of subnet 1 at genesis
    NoKey,          \* "no hotkey": an absent entry of Keys or SubnetOwnerHotkey
    LastNetuid,     \* the netuids are 0..LastNetuid; 0 is the root network
    UidLimit,       \* uids are u16 values below UidLimit
    DefaultMaxUids, \* MaxAllowedUids of a new subnet (256 in the code)
    RootMaxUids     \* MaxAllowedUids of the root network (64 in the code)

ASSUME NeuronsAssumption ==
    /\ NoKey \notin Hotkeys
    /\ GenesisHotkey \in Hotkeys
    /\ LastNetuid \in Nat \ {0}
    /\ UidLimit \in Nat
    /\ DefaultMaxUids \in 2..UidLimit
    /\ RootMaxUids \in 1..UidLimit

VARIABLES
    NetworksAdded,     \* the set of netuids that exist
    SubnetworkN,       \* SubnetworkN[n]: number of filled slots
    MaxAllowedUids,    \* MaxAllowedUids[n]: hyperparameter, the capacity
    Keys,              \* Keys[n][u]: the hotkey in slot u, or NoKey
    Uids,              \* Uids[n][h]: the slot of h, or NoUid
    IsNetworkMember,   \* IsNetworkMember[h][n]: "none" (no entry), "false", "true"
    SubnetOwnerHotkey  \* SubnetOwnerHotkey[n]: a hotkey, or NoKey

vars == <<NetworksAdded, SubnetworkN, MaxAllowedUids, Keys, Uids,
          IsNetworkMember, SubnetOwnerHotkey>>

ROOT == 0
NoUid == -1
NetUids == 0..LastNetuid
UidSpace == 0..(UidLimit - 1)
MemberFlag == {"none", "false", "true"}

\* The genesis build: an empty root network, and subnet 1 with one neuron and
\* no owner hotkey.
Init ==
    /\ NetworksAdded = {ROOT, 1}
    /\ SubnetworkN = [n \in NetUids |-> IF n = 1 THEN 1 ELSE 0]
    /\ MaxAllowedUids = [n \in NetUids |-> IF n = ROOT THEN RootMaxUids ELSE DefaultMaxUids]
    /\ Keys = [n \in NetUids |-> [u \in UidSpace |->
                  IF n = 1 /\ u = 0 THEN GenesisHotkey ELSE NoKey]]
    /\ Uids = [n \in NetUids |-> [h \in Hotkeys |->
                  IF n = 1 /\ h = GenesisHotkey THEN 0 ELSE NoUid]]
    /\ IsNetworkMember = [h \in Hotkeys |-> [n \in NetUids |->
                  IF n = 1 /\ h = GenesisHotkey THEN "true" ELSE "none"]]
    /\ SubnetOwnerHotkey = [n \in NetUids |-> NoKey]

-----------------------------------------------------------------------------
\* Readers of the table.

is_hotkey_registered_on_network(n, h) == Uids[n][h] # NoUid

\* Some entry of the hotkey's prefix of IsNetworkMember holds true.
is_hotkey_registered_on_any_network(h) ==
    \E n \in NetUids : IsNetworkMember[h][n] = "true"

\* contains_key: an entry that holds false counts.
is_hotkey_registered_on_specific_network(h, n) == IsNetworkMember[h][n] # "none"

\* Mutant: a netuid in use is given out.
IsNextNetuid_any(n) == n \in NetUids \ {ROOT}

\* The least netuid above root that is not in use.
IsNextNetuid(n) ==
    /\ n \in NetUids \ (NetworksAdded \cup {ROOT})
    /\ \A m \in 1..(n - 1) : m \in NetworksAdded

-----------------------------------------------------------------------------
\* The operations on slots.

\* The next uid is SubnetworkN; the count is increased and all three maps
\* get the pair.
append_neuron(n, h) ==
    /\ SubnetworkN' = [SubnetworkN EXCEPT ![n] = @ + 1]
    /\ Keys' = [Keys EXCEPT ![n][SubnetworkN[n]] = h]
    /\ Uids' = [Uids EXCEPT ![n][h] = SubnetworkN[n]]
    /\ IsNetworkMember' = [IsNetworkMember EXCEPT ![h][n] = "true"]

\* Mutant: the old hotkey's entries are not removed.
replace_neuron_keeps_old(n, u, h) ==
    /\ Keys[n][u] # SubnetOwnerHotkey[n]
    /\ Keys' = [Keys EXCEPT ![n][u] = h]
    /\ Uids' = [Uids EXCEPT ![n][h] = u]
    /\ IsNetworkMember' = [IsNetworkMember EXCEPT ![h][n] = "true"]
    /\ UNCHANGED SubnetworkN

\* Mutant: nothing protects the owner's slot.
replace_neuron_any(n, u, h) ==
    /\ Keys' = [Keys EXCEPT ![n][u] = h]
    /\ Uids' = [Uids EXCEPT ![n][h] = u, ![n][Keys[n][u]] = NoUid]
    /\ IsNetworkMember' = [IsNetworkMember EXCEPT ![h][n] = "true", ![Keys[n][u]][n] = "none"]
    /\ UNCHANGED SubnetworkN

\* The old hotkey leaves all three maps and h enters them; the count stays.
\* A slot held by the subnet owner's hotkey is left alone.
replace_neuron(n, u, h) ==
    /\ Keys[n][u] # SubnetOwnerHotkey[n]
    /\ Keys' = [Keys EXCEPT ![n][u] = h]
    /\ Uids' = [Uids EXCEPT ![n] = [k \in Hotkeys |-> IF k = h THEN u
                                                      ELSE IF k = Keys[n][u] THEN NoUid
                                                      ELSE @[k]]]
    /\ IsNetworkMember' =
         [k \in Hotkeys |-> [m \in NetUids |->
            IF m = n /\ k = h THEN "true"
            ELSE IF m = n /\ k = Keys[n][u] THEN "none"
            ELSE IsNetworkMember[k][m]]]
    /\ UNCHANGED SubnetworkN

\* register_neuron for a hotkey that has no slot: append while there is room,
\* else replace.  On the root network do_root_register does the same.
RegisterNeuron(n, h) ==
    /\ n \in NetworksAdded
    /\ ~is_hotkey_registered_on_network(n, h)
    /\ \/ /\ SubnetworkN[n] < MaxAllowedUids[n]
          /\ append_neuron(n, h)
       \/ /\ SubnetworkN[n] >= MaxAllowedUids[n]
          /\ \E u \in 0..(SubnetworkN[n] - 1) : replace_neuron(n, u, h)
    /\ UNCHANGED <<NetworksAdded, MaxAllowedUids, SubnetOwnerHotkey>>

\* do_register_network: init_new_network empties the count and sets the
\* hyperparameters, then the owner's hotkey is appended, at uid 0.
AddNetwork(n, h) ==
    /\ IsNextNetuid(n)
    /\ NetworksAdded' = NetworksAdded \cup {n}
    /\ MaxAllowedUids' = [MaxAllowedUids EXCEPT ![n] = DefaultMaxUids]
    /\ SubnetworkN' = [SubnetworkN EXCEPT ![n] = 1]
    /\ Keys' = [Keys EXCEPT ![n][0] = h]
    /\ Uids' = [Uids EXCEPT ![n][h] = 0]
    /\ IsNetworkMember' = [IsNetworkMember EXCEPT ![h][n] = "true"]
    /\ SubnetOwnerHotkey' = [SubnetOwnerHotkey EXCEPT ![n] = h]

\* Mutant: the number of slots is not reset.
RemoveNetwork_keeps_n(n) ==
    /\ n \in NetworksAdded \ {ROOT}
    /\ NetworksAdded' = NetworksAdded \ {n}
    /\ Keys' = [Keys EXCEPT ![n] = [u \in UidSpace |-> NoKey]]
    /\ Uids' = [Uids EXCEPT ![n] = [k \in Hotkeys |-> NoUid]]
    /\ IsNetworkMember' = [k \in Hotkeys |-> [IsNetworkMember[k] EXCEPT ![n] = "none"]]
    /\ UNCHANGED <<SubnetworkN, MaxAllowedUids, SubnetOwnerHotkey>>

\* remove_network: Keys and Uids of the subnet are cleared, and the
\* membership of the hotkeys that were in Keys.  SubnetOwnerHotkey stays.
\* (MaxAllowedUids is removed; it reads as a default until AddNetwork sets it.)
RemoveNetwork(n) ==
    /\ n \in NetworksAdded \ {ROOT}
    /\ NetworksAdded' = NetworksAdded \ {n}
    /\ SubnetworkN' = [SubnetworkN EXCEPT ![n] = 0]
    /\ MaxAllowedUids' = [MaxAllowedUids EXCEPT ![n] = DefaultMaxUids]
    /\ Keys' = [Keys EXCEPT ![n] = [u \in UidSpace |-> NoKey]]
    /\ Uids' = [Uids EXCEPT ![n] = [k \in Hotkeys |-> NoUid]]
    /\ IsNetworkMember' =
         [k \in Hotkeys |-> [m \in NetUids |->
            IF m = n /\ \E u \in UidSpace : Keys[n][u] = k
              THEN "none" ELSE IsNetworkMember[k][m]]]
    /\ UNCHANGED SubnetOwnerHotkey

\* perform_hotkey_swap_on_one_subnet for every netuid in S.  The membership
\* value moves, so where old is no member new gets an entry that holds false.
swap_on(S, old, new) ==
    /\ IsNetworkMember' =
         [k \in Hotkeys |-> [m \in NetUids |->
            IF m \notin S \/ k \notin {old, new} THEN IsNetworkMember[k][m]
            ELSE IF k = old THEN "none"
            ELSE IF IsNetworkMember[old][m] = "true" THEN "true" ELSE "false"]]
    /\ Uids' = [m \in NetUids |-> [k \in Hotkeys |->
            IF m \notin S \/ IsNetworkMember[old][m] # "true" \/ k \notin {old, new}
              THEN Uids[m][k]
            ELSE IF k = old THEN NoUid ELSE Uids[m][old]]]
    /\ Keys' = [m \in NetUids |-> [u \in UidSpace |->
            IF m \in S /\ IsNetworkMember[old][m] = "true" /\ Uids[m][old] = u
              THEN new ELSE Keys[m][u]]]
    /\ SubnetOwnerHotkey' = [m \in NetUids |->
            IF m \in S /\ SubnetOwnerHotkey[m] = old THEN new ELSE SubnetOwnerHotkey[m]]
    /\ UNCHANGED <<NetworksAdded, SubnetworkN, MaxAllowedUids>>

\* do_swap_hotkey with netuid = None: every network that exists, root included.
SwapHotkeyAll(old, new) ==
    /\ old # new
    /\ ~is_hotkey_registered_on_any_network(new)
    /\ swap_on(NetworksAdded, old, new)

\* do_swap_hotkey with netuid = Some(n): n need not exist.
SwapHotkeyOnSubnet(n, old, new) ==
    /\ old # new
    /\ ~is_hotkey_registered_on_any_network(new)
    /\ ~is_hotkey_registered_on_specific_network(new, n)
    /\ swap_on({n}, old, new)

\* Mutant: as many as the slots in use is accepted.
SetMaxAllowedUids_equal(n, m) ==
    /\ n \in NetworksAdded
    /\ SubnetworkN[n] <= m
    /\ MaxAllowedUids' = [MaxAllowedUids EXCEPT ![n] = m]
    /\ UNCHANGED <<NetworksAdded, SubnetworkN, Keys, Uids, IsNetworkMember, SubnetOwnerHotkey>>

\* Mutant: any number is accepted.
SetMaxAllowedUids_any(n, m) ==
    /\ n \in NetworksAdded
    /\ MaxAllowedUids' = [MaxAllowedUids EXCEPT ![n] = m]
    /\ UNCHANGED <<NetworksAdded, SubnetworkN, Keys, Uids, IsNetworkMember, SubnetOwnerHotkey>>

\* sudo_set_max_allowed_uids: strictly more than the slots in use.
SetMaxAllowedUids(n, m) ==
    /\ n \in NetworksAdded
    /\ SubnetworkN[n] < m
    /\ MaxAllowedUids' = [MaxAllowedUids EXCEPT ![n] = m]
    /\ UNCHANGED <<NetworksAdded, SubnetworkN, Keys, Uids, IsNetworkMember, SubnetOwnerHotkey>>

\* sudo_set_subnet_owner_hotkey and sudo_set_sn_owner_hotkey: any account,
\* whether it holds a slot or not.
SetSubnetOwnerHotkey(n, h) ==
    /\ n \in NetworksAdded
    /\ SubnetOwnerHotkey' = [SubnetOwnerHotkey EXCEPT ![n] = h]
    /\ UNCHANGED <<NetworksAdded, SubnetworkN, MaxAllowedUids, Keys, Uids, IsNetworkMember>>

Next ==
    \/ \E n \in NetUids, h \in Hotkeys : RegisterNeuron(n, h)
    \/ \E n \in NetUids, h \in Hotkeys : AddNetwork(n, h)
    \/ \E n \in NetUids : RemoveNetwork(n)
    \/ \E old, new \in Hotkeys : SwapHotkeyAll(old, new)
    \/ \E n \in NetUids, old, new \in Hotkeys : SwapHotkeyOnSubnet(n, old, new)
    \/ \E n \in NetUids, m \in 1..UidLimit : SetMaxAllowedUids(n, m)
    \/ \E n \in NetUids, h \in Hotkeys : SetSubnetOwnerHotkey(n, h)

Spec == Init /\ [][Next]_vars

-----------------------------------------------------------------------------
\* The type of every map.
TypeOK ==
    /\ NetworksAdded \subseteq NetUids
    /\ SubnetworkN \in [NetUids -> 0..UidLimit]
    /\ MaxAllowedUids \in [NetUids -> 1..UidLimit]
    /\ Keys \in [NetUids -> [UidSpace -> Hotkeys \cup {NoKey}]]
    /\ Uids \in [NetUids -> [Hotkeys -> UidSpace \cup {NoUid}]]
    /\ IsNetworkMember \in [Hotkeys -> [NetUids -> MemberFlag]]
    /\ SubnetOwnerHotkey \in [NetUids -> Hotkeys \cup {NoKey}]

\* The filled slots of a subnet are exactly the uids below SubnetworkN: no
\* registration, removal or key swap leaves a hole or an entry past the end.
SlotsContiguous ==
    \A n \in NetUids, u \in UidSpace : Keys[n][u] # NoKey <=> u < SubnetworkN[n]

\* Keys and Uids are inverse to each other: one hotkey per uid and one uid per
\* hotkey, in every subnet, whatever was replaced or swapped.
KeysUidsInverse ==
    \A n \in NetUids, u \in UidSpace, h \in Hotkeys : Keys[n][u] = h <=> Uids[n][h] = u

\* IsNetworkMember, which key swaps and the API read, holds true exactly for
\* the hotkeys that Uids, which registration reads, gives a slot.
MembershipAgrees ==
    \A h \in Hotkeys, n \in NetUids :
        IsNetworkMember[h][n] = "true" <=> is_hotkey_registered_on_network(n, h)

\* A netuid that does not exist has no slots, so that a subnet created on a
\* reused netuid starts empty.
AbsentIsEmpty == \A n \in NetUids \ NetworksAdded : SubnetworkN[n] = 0

\* A live subnet other than root is never empty and has room for two neurons
\* at least, so that a full subnet has a neuron that is not the owner's.
VictimExists ==
    \A n \in NetworksAdded \ {ROOT} : SubnetworkN[n] >= 1 /\ MaxAllowedUids[n] >= 2

\* A live network never has more neurons than its capacity.
WithinCapacity == \A n \in NetworksAdded : SubnetworkN[n] <= MaxAllowedUids[n]

\* The five maps describe one table of slots: the conjunction of the above,
\* which every operation preserves.
NeuronsInv ==
    /\ TypeOK
    /\ SlotsContiguous
    /\ KeysUidsInverse
    /\ MembershipAgrees
    /\ AbsentIsEmpty
    /\ VictimExists
    /\ WithinCapacity

\* A hotkey that is_hotkey_registered_on_specific_network reports holds a slot
\* of the subnet (uids.rs:194, "Return true if a hotkey is registered on
\* specific network").
SpecificMeansRegistered ==
    \A h \in Hotkeys, n \in NetUids :
        is_hotkey_registered_on_specific_network(h, n)
            => is_hotkey_registered_on_network(n, h)

\* While a subnet lives its owner's hotkey, once in a slot, keeps that slot:
\* no registration prunes it, and a key swap hands the slot and the owner
\* entry over together.
OwnerKeepsSlot ==
    [][\A n \in NetworksAdded \cap NetworksAdded', u \in UidSpace :
          /\ Keys[n][u] # NoKey
          /\ Keys[n][u] = SubnetOwnerHotkey[n]
          => \/ Keys'[n][u] = SubnetOwnerHotkey'[n]
             \/ Keys'[n][u] = Keys[n][u]]_vars

\* While a subnet lives no uid is given back, and a step that changes who sits
\* in a slot changes one slot of the subnet only: the other neurons keep their
\* uids, which the consensus vectors are indexed by.
UidsAreStable ==
    [][\A n \in NetworksAdded \cap NetworksAdded' :
          /\ SubnetworkN'[n] >= SubnetworkN[n]
          /\ \A u, v \in UidSpace :
                Keys'[n][u] # Keys[n][u] /\ Keys'[n][v] # Keys[n][v] => u = v]_vars
=============================================================================
