--------------------------- MODULE Neurons_proofs ---------------------------
(***************************************************************************)
(* Proofs about the neuron slot table.  NeuronsInv is inductive: the       *)
(* inverse maps need contiguity (append_neuron writes a free slot and      *)
(* replace_neuron a filled one), that an absent subnet is empty            *)
(* (do_register_network writes slot 0 of it), and the agreement of         *)
(* IsNetworkMember with Uids (a key swap trusts the former).  No bound on  *)
(* hotkeys, netuids or uids is assumed beyond NeuronsAssumption.           *)
(***************************************************************************)
EXTENDS Neurons, TLAPS

USE NeuronsAssumption DEF ROOT, NoUid, NetUids, UidSpace, MemberFlag

\* The genesis state is a table of slots.
LEMMA InitInv == Init => NeuronsInv
  <1> SUFFICES ASSUME Init PROVE NeuronsInv
    OBVIOUS
  <1>1. TypeOK
    BY DEF Init, TypeOK
  <1>2. SlotsContiguous
    BY DEF Init, SlotsContiguous
  <1>3. KeysUidsInverse
    <2> SUFFICES ASSUME NEW n \in NetUids, NEW u \in UidSpace, NEW h \in Hotkeys
                 PROVE  Keys[n][u] = h <=> Uids[n][h] = u
      BY DEF KeysUidsInverse
    <2>1. Keys[n][u] = IF n = 1 /\ u = 0 THEN GenesisHotkey ELSE NoKey
      BY DEF Init
    <2>2. Uids[n][h] = IF n = 1 /\ h = GenesisHotkey THEN 0 ELSE NoUid
      BY DEF Init
    <2> QED BY <2>1, <2>2
  <1>4. MembershipAgrees
    BY DEF Init, MembershipAgrees, is_hotkey_registered_on_network
  <1>5. AbsentIsEmpty /\ VictimExists /\ WithinCapacity
    BY DEF Init, AbsentIsEmpty, VictimExists, WithinCapacity
  <1> QED BY <1>1, <1>2, <1>3, <1>4, <1>5 DEF NeuronsInv

\* What the type invariant says of single entries of the maps.
LEMMA EntryTypes ==
  ASSUME NeuronsInv
  PROVE  /\ NetworksAdded \subseteq NetUids
         /\ \A m \in NetUids : SubnetworkN[m] \in 0..UidLimit /\ MaxAllowedUids[m] \in 1..UidLimit
         /\ \A m \in NetUids, u \in UidSpace : Keys[m][u] \in Hotkeys \cup {NoKey}
         /\ \A m \in NetUids, k \in Hotkeys : Uids[m][k] \in UidSpace \cup {NoUid}
  <1>1. TypeOK
    BY DEF NeuronsInv
  <1>2. NetworksAdded \subseteq NetUids
    BY <1>1 DEF TypeOK
  <1>3. \A m \in NetUids : SubnetworkN[m] \in 0..UidLimit /\ MaxAllowedUids[m] \in 1..UidLimit
    BY <1>1 DEF TypeOK
  <1>4. \A m \in NetUids, u \in UidSpace : Keys[m][u] \in Hotkeys \cup {NoKey}
    BY <1>1 DEF TypeOK
  <1>5. \A m \in NetUids, k \in Hotkeys : Uids[m][k] \in UidSpace \cup {NoUid}
    BY <1>1 DEF TypeOK
  <1> QED BY <1>2, <1>3, <1>4, <1>5

\* What it says of the maps that hold numbers and flags.
LEMMA MapTypes ==
  ASSUME NeuronsInv
  PROVE  /\ SubnetworkN \in [NetUids -> 0..UidLimit]
         /\ MaxAllowedUids \in [NetUids -> 1..UidLimit]
         /\ IsNetworkMember \in [Hotkeys -> [NetUids -> MemberFlag]]
  BY Zenon DEF NeuronsInv, TypeOK

\* register_neuron below capacity: the appended slot is the first free one.
LEMMA AppendInv ==
  ASSUME NeuronsInv, NEW n \in NetworksAdded, NEW h \in Hotkeys,
         ~is_hotkey_registered_on_network(n, h),
         SubnetworkN[n] < MaxAllowedUids[n],
         append_neuron(n, h),
         UNCHANGED <<NetworksAdded, MaxAllowedUids, SubnetOwnerHotkey>>
  PROVE  NeuronsInv'
  <1> USE DEF is_hotkey_registered_on_network
  <1>0. /\ n \in NetUids
        /\ SubnetworkN[n] \in UidSpace
        /\ SubnetworkN' = [SubnetworkN EXCEPT ![n] = SubnetworkN[n] + 1]
    BY EntryTypes DEF append_neuron
  <1>a. \A m \in NetUids, u \in UidSpace :
            Keys'[m][u] = IF m = n /\ u = SubnetworkN[n] THEN h ELSE Keys[m][u]
    BY <1>0 DEF NeuronsInv, TypeOK, append_neuron
  <1>b. \A m \in NetUids, k \in Hotkeys :
            Uids'[m][k] = IF m = n /\ k = h THEN SubnetworkN[n] ELSE Uids[m][k]
    BY <1>0 DEF NeuronsInv, TypeOK, append_neuron
  <1>c. \A m \in NetUids, k \in Hotkeys :
            IsNetworkMember'[k][m] = IF m = n /\ k = h THEN "true" ELSE IsNetworkMember[k][m]
    BY <1>0 DEF NeuronsInv, TypeOK, append_neuron
  <1>1. TypeOK'
    <2>1. SubnetworkN' \in [NetUids -> 0..UidLimit]
      <3>1. SubnetworkN \in [NetUids -> 0..UidLimit]
        BY MapTypes
      <3>2. SubnetworkN[n] + 1 \in 0..UidLimit
        BY <1>0
      <3> QED BY <1>0, <3>1, <3>2
    <2>2. Keys' \in [NetUids -> [UidSpace -> Hotkeys \cup {NoKey}]]
      BY <1>0 DEF NeuronsInv, TypeOK, append_neuron
    <2>3. Uids' \in [NetUids -> [Hotkeys -> UidSpace \cup {NoUid}]]
      BY <1>0 DEF NeuronsInv, TypeOK, append_neuron
    <2>4. IsNetworkMember' \in [Hotkeys -> [NetUids -> MemberFlag]]
      BY <1>0 DEF NeuronsInv, TypeOK, append_neuron
    <2> QED BY <2>1, <2>2, <2>3, <2>4 DEF NeuronsInv, TypeOK
  <1>2. SlotsContiguous'
    <2> SUFFICES ASSUME NEW m \in NetUids, NEW u \in UidSpace
                 PROVE  Keys'[m][u] # NoKey <=> u < SubnetworkN'[m]
      BY DEF SlotsContiguous
    <2>1. Keys[m][u] # NoKey <=> u < SubnetworkN[m]
      BY DEF NeuronsInv, SlotsContiguous
    <2>2. SubnetworkN'[m] = IF m = n THEN SubnetworkN[n] + 1 ELSE SubnetworkN[m]
      BY <1>0 DEF NeuronsInv, TypeOK
    <2>3. SubnetworkN[m] \in Nat
      BY EntryTypes
    <2> QED BY <1>0, <1>a, <2>1, <2>2, <2>3
  <1>3. KeysUidsInverse'
    <2> SUFFICES ASSUME NEW m \in NetUids, NEW u \in UidSpace, NEW k \in Hotkeys
                 PROVE  Keys'[m][u] = k <=> Uids'[m][k] = u
      BY DEF KeysUidsInverse
    <2>1. Keys[m][u] = k <=> Uids[m][k] = u
      BY DEF NeuronsInv, KeysUidsInverse
    <2>2. Keys[n][SubnetworkN[n]] = NoKey /\ Uids[n][h] = NoUid
      BY <1>0 DEF NeuronsInv, SlotsContiguous
    <2>3. Keys'[m][u] = IF m = n /\ u = SubnetworkN[n] THEN h ELSE Keys[m][u]
      BY <1>a
    <2>4. Uids'[m][k] = IF m = n /\ k = h THEN SubnetworkN[n] ELSE Uids[m][k]
      BY <1>b
    <2> QED BY <2>1, <2>2, <2>3, <2>4
  <1>4. MembershipAgrees'
    <2> SUFFICES ASSUME NEW k \in Hotkeys, NEW m \in NetUids
                 PROVE  IsNetworkMember'[k][m] = "true" <=> Uids'[m][k] # NoUid
      BY DEF MembershipAgrees
    <2>1. IsNetworkMember[k][m] = "true" <=> Uids[m][k] # NoUid
      BY DEF NeuronsInv, MembershipAgrees
    <2> QED BY <1>0, <1>b, <1>c, <2>1
  <1>5. AbsentIsEmpty' /\ VictimExists' /\ WithinCapacity'
    <2>1. \A m \in NetUids : SubnetworkN'[m] = IF m = n THEN SubnetworkN[n] + 1 ELSE SubnetworkN[m]
      BY <1>0 DEF NeuronsInv, TypeOK
    <2>2. NetworksAdded' = NetworksAdded /\ NetworksAdded \subseteq NetUids
      BY DEF NeuronsInv, TypeOK
    <2>3. AbsentIsEmpty'
      BY <2>1, <2>2 DEF NeuronsInv, AbsentIsEmpty
    <2>4. \A m \in NetUids : SubnetworkN[m] \in Nat /\ MaxAllowedUids[m] \in Nat
      BY EntryTypes
    <2>5. VictimExists'
      BY <2>1, <2>2, <2>4 DEF NeuronsInv, VictimExists
    <2>6. WithinCapacity'
      BY <2>1, <2>2, <2>4 DEF NeuronsInv, WithinCapacity
    <2> QED BY <2>3, <2>5, <2>6
  <1> QED BY <1>1, <1>2, <1>3, <1>4, <1>5 DEF NeuronsInv

\* register_neuron at capacity: the victim's slot passes to the newcomer.
LEMMA ReplaceInv ==
  ASSUME NeuronsInv, NEW n \in NetworksAdded, NEW h \in Hotkeys,
         ~is_hotkey_registered_on_network(n, h),
         NEW u \in 0..(SubnetworkN[n] - 1),
         replace_neuron(n, u, h),
         UNCHANGED <<NetworksAdded, MaxAllowedUids, SubnetOwnerHotkey>>
  PROVE  NeuronsInv'
  <1> USE DEF is_hotkey_registered_on_network
  <1>0. n \in NetUids /\ u \in UidSpace /\ Keys[n][u] \in Hotkeys /\ Keys[n][u] # h
    <2>1. n \in NetUids /\ u \in UidSpace /\ u < SubnetworkN[n]
      BY EntryTypes
    <2>2. Keys[n][u] \in Hotkeys
      <3>1. Keys[n][u] # NoKey
        BY <2>1 DEF NeuronsInv, SlotsContiguous
      <3> QED BY <2>1, <3>1, EntryTypes
    <2>3. Keys[n][u] = h <=> Uids[n][h] = u
      BY <2>1 DEF NeuronsInv, KeysUidsInverse
    <2> QED BY <2>1, <2>2, <2>3
  <1>a. \A m \in NetUids, v \in UidSpace :
            Keys'[m][v] = IF m = n /\ v = u THEN h ELSE Keys[m][v]
    BY <1>0 DEF NeuronsInv, TypeOK, replace_neuron
  <1>b. \A m \in NetUids, k \in Hotkeys :
            Uids'[m][k] = IF m = n /\ k = h THEN u
                          ELSE IF m = n /\ k = Keys[n][u] THEN NoUid ELSE Uids[m][k]
    BY <1>0 DEF NeuronsInv, TypeOK, replace_neuron
  <1>c. \A m \in NetUids, k \in Hotkeys :
            IsNetworkMember'[k][m] = IF m = n /\ k = h THEN "true"
                                     ELSE IF m = n /\ k = Keys[n][u] THEN "none"
                                     ELSE IsNetworkMember[k][m]
    BY <1>0 DEF NeuronsInv, TypeOK, replace_neuron
  <1>1. TypeOK'
    <2>1. Keys' \in [NetUids -> [UidSpace -> Hotkeys \cup {NoKey}]]
      BY <1>0 DEF NeuronsInv, TypeOK, replace_neuron
    <2>2. Uids' \in [NetUids -> [Hotkeys -> UidSpace \cup {NoUid}]]
      BY <1>0 DEF NeuronsInv, TypeOK, replace_neuron
    <2>3. IsNetworkMember' \in [Hotkeys -> [NetUids -> MemberFlag]]
      BY <1>0 DEF NeuronsInv, TypeOK, replace_neuron
    <2> QED BY <2>1, <2>2, <2>3 DEF NeuronsInv, TypeOK, replace_neuron
  <1>2. SlotsContiguous'
    <2> SUFFICES ASSUME NEW m \in NetUids, NEW v \in UidSpace
                 PROVE  Keys'[m][v] # NoKey <=> v < SubnetworkN'[m]
      BY DEF SlotsContiguous
    <2>1. Keys[m][v] # NoKey <=> v < SubnetworkN[m]
      BY DEF NeuronsInv, SlotsContiguous
    <2>2. SubnetworkN' = SubnetworkN
      BY DEF replace_neuron
    <2>3. Keys'[m][v] = IF m = n /\ v = u THEN h ELSE Keys[m][v]
      BY <1>a
    <2> QED BY <1>0, <2>1, <2>2, <2>3
  <1>3. KeysUidsInverse'
    <2> SUFFICES ASSUME NEW m \in NetUids, NEW v \in UidSpace, NEW k \in Hotkeys
                 PROVE  Keys'[m][v] = k <=> Uids'[m][k] = v
      BY DEF KeysUidsInverse
    <2>1. Keys[m][v] = k <=> Uids[m][k] = v
      BY DEF NeuronsInv, KeysUidsInverse
    <2>2. Uids[n][Keys[n][u]] = u /\ Uids[n][h] = NoUid
      BY <1>0 DEF NeuronsInv, KeysUidsInverse
    <2> QED BY <1>0, <1>a, <1>b, <2>1, <2>2
  <1>4. MembershipAgrees'
    <2> SUFFICES ASSUME NEW k \in Hotkeys, NEW m \in NetUids
                 PROVE  IsNetworkMember'[k][m] = "true" <=> Uids'[m][k] # NoUid
      BY DEF MembershipAgrees
    <2>1. IsNetworkMember[k][m] = "true" <=> Uids[m][k] # NoUid
      BY DEF NeuronsInv, MembershipAgrees
    <2> QED BY <1>0, <1>b, <1>c, <2>1
  <1>5. AbsentIsEmpty' /\ VictimExists' /\ WithinCapacity'
    BY DEF NeuronsInv, AbsentIsEmpty, VictimExists, WithinCapacity, replace_neuron
  <1> QED BY <1>1, <1>2, <1>3, <1>4, <1>5 DEF NeuronsInv

\* do_register_network: the netuid was empty, so the owner's is its only slot.
LEMMA AddNetworkInv ==
  ASSUME NeuronsInv, NEW n \in NetUids, NEW h \in Hotkeys, AddNetwork(n, h)
  PROVE  NeuronsInv'
  <1> USE DEF is_hotkey_registered_on_network
  <1>0. /\ n \notin NetworksAdded /\ n # ROOT /\ SubnetworkN[n] = 0
        /\ NetworksAdded' = NetworksAdded \cup {n}
        /\ 0 \in UidSpace
    BY DEF NeuronsInv, AbsentIsEmpty, AddNetwork, IsNextNetuid
  <1>1. /\ \A u \in UidSpace : Keys[n][u] = NoKey
        /\ \A k \in Hotkeys : Uids[n][k] = NoUid
    <2>1. \A u \in UidSpace : Keys[n][u] = NoKey
      BY <1>0 DEF NeuronsInv, SlotsContiguous
    <2>2. \A k \in Hotkeys : Uids[n][k] \in UidSpace => Keys[n][Uids[n][k]] = k
      BY DEF NeuronsInv, KeysUidsInverse
    <2>3. \A k \in Hotkeys : Uids[n][k] \in UidSpace \cup {NoUid}
      BY DEF NeuronsInv, TypeOK
    <2> QED BY <2>1, <2>2, <2>3
  <1>a. \A m \in NetUids, u \in UidSpace :
            Keys'[m][u] = IF m = n /\ u = 0 THEN h ELSE Keys[m][u]
    BY <1>0 DEF NeuronsInv, TypeOK, AddNetwork
  <1>b. \A m \in NetUids, k \in Hotkeys :
            Uids'[m][k] = IF m = n /\ k = h THEN 0 ELSE Uids[m][k]
    BY DEF NeuronsInv, TypeOK, AddNetwork
  <1>c. \A m \in NetUids, k \in Hotkeys :
            IsNetworkMember'[k][m] = IF m = n /\ k = h THEN "true" ELSE IsNetworkMember[k][m]
    BY DEF NeuronsInv, TypeOK, AddNetwork
  <1>d. \A m \in NetUids :
            /\ SubnetworkN'[m] = IF m = n THEN 1 ELSE SubnetworkN[m]
            /\ MaxAllowedUids'[m] = IF m = n THEN DefaultMaxUids ELSE MaxAllowedUids[m]
    BY DEF NeuronsInv, TypeOK, AddNetwork
  <1>2. TypeOK'
    <2>1. NetworksAdded' \subseteq NetUids
      BY <1>0 DEF NeuronsInv, TypeOK
    <2>2. SubnetworkN' \in [NetUids -> 0..UidLimit] /\ MaxAllowedUids' \in [NetUids -> 1..UidLimit]
      <3>1. /\ SubnetworkN' = [SubnetworkN EXCEPT ![n] = 1]
            /\ MaxAllowedUids' = [MaxAllowedUids EXCEPT ![n] = DefaultMaxUids]
        BY DEF AddNetwork
      <3>2. 1 \in 0..UidLimit /\ DefaultMaxUids \in 1..UidLimit
        OBVIOUS
      <3>3. SubnetworkN' \in [NetUids -> 0..UidLimit]
        BY <3>1, <3>2, MapTypes
      <3>4. MaxAllowedUids' \in [NetUids -> 1..UidLimit]
        BY <3>1, <3>2, MapTypes
      <3> QED BY <3>3, <3>4
    <2>3. Keys' \in [NetUids -> [UidSpace -> Hotkeys \cup {NoKey}]]
      BY <1>0 DEF NeuronsInv, TypeOK, AddNetwork
    <2>4. Uids' \in [NetUids -> [Hotkeys -> UidSpace \cup {NoUid}]]
      BY <1>0 DEF NeuronsInv, TypeOK, AddNetwork
    <2>5. IsNetworkMember' \in [Hotkeys -> [NetUids -> MemberFlag]]
      BY DEF NeuronsInv, TypeOK, AddNetwork
    <2>6. SubnetOwnerHotkey' \in [NetUids -> Hotkeys \cup {NoKey}]
      BY DEF NeuronsInv, TypeOK, AddNetwork
    <2> QED BY <2>1, <2>2, <2>3, <2>4, <2>5, <2>6 DEF TypeOK
  <1>3. SlotsContiguous'
    BY <1>0, <1>1, <1>a, <1>d DEF NeuronsInv, SlotsContiguous
  <1>4. KeysUidsInverse'
    BY <1>1, <1>a, <1>b DEF NeuronsInv, KeysUidsInverse
  <1>5. MembershipAgrees'
    <2> SUFFICES ASSUME NEW k \in Hotkeys, NEW m \in NetUids
                 PROVE  IsNetworkMember'[k][m] = "true" <=> Uids'[m][k] # NoUid
      BY DEF MembershipAgrees
    <2>1. IsNetworkMember[k][m] = "true" <=> Uids[m][k] # NoUid
      BY DEF NeuronsInv, MembershipAgrees
    <2> QED BY <1>b, <1>c, <2>1
  <1>6. AbsentIsEmpty' /\ VictimExists' /\ WithinCapacity'
    <2>1. AbsentIsEmpty'
      BY <1>0, <1>d DEF NeuronsInv, AbsentIsEmpty
    <2>2. VictimExists' /\ WithinCapacity'
      <3>1. \A m \in NetworksAdded : m \in NetUids /\ m # n
        BY <1>0, EntryTypes
      <3>2. \A m \in NetworksAdded : /\ SubnetworkN'[m] = SubnetworkN[m]
                                     /\ MaxAllowedUids'[m] = MaxAllowedUids[m]
        BY <1>d, <3>1
      <3>3. SubnetworkN'[n] = 1 /\ MaxAllowedUids'[n] = DefaultMaxUids
        BY <1>d
      <3> QED BY <1>0, <3>2, <3>3 DEF NeuronsInv, VictimExists, WithinCapacity
    <2> QED BY <2>1, <2>2
  <1> QED BY <1>2, <1>3, <1>4, <1>5, <1>6 DEF NeuronsInv

\* remove_network: the memberships it deletes are all there were.
LEMMA RemoveNetworkInv ==
  ASSUME NeuronsInv, NEW n \in NetUids, RemoveNetwork(n)
  PROVE  NeuronsInv'
  <1> USE DEF is_hotkey_registered_on_network
  <1>a. \A m \in NetUids, u \in UidSpace : Keys'[m][u] = IF m = n THEN NoKey ELSE Keys[m][u]
    BY DEF NeuronsInv, TypeOK, RemoveNetwork
  <1>b. \A m \in NetUids, k \in Hotkeys : Uids'[m][k] = IF m = n THEN NoUid ELSE Uids[m][k]
    BY DEF NeuronsInv, TypeOK, RemoveNetwork
  <1>c. \A m \in NetUids, k \in Hotkeys :
            IsNetworkMember'[k][m] = IF m = n /\ \E u \in UidSpace : Keys[n][u] = k
                                     THEN "none" ELSE IsNetworkMember[k][m]
    BY DEF NeuronsInv, TypeOK, RemoveNetwork
  <1>d. \A m \in NetUids :
            /\ SubnetworkN'[m] = IF m = n THEN 0 ELSE SubnetworkN[m]
            /\ MaxAllowedUids'[m] = IF m = n THEN DefaultMaxUids ELSE MaxAllowedUids[m]
    BY DEF NeuronsInv, TypeOK, RemoveNetwork
  <1>1. TypeOK'
    <2>1. NetworksAdded' \subseteq NetUids /\ SubnetOwnerHotkey' \in [NetUids -> Hotkeys \cup {NoKey}]
      BY DEF NeuronsInv, TypeOK, RemoveNetwork
    <2>2. SubnetworkN' \in [NetUids -> 0..UidLimit] /\ MaxAllowedUids' \in [NetUids -> 1..UidLimit]
      <3>1. /\ SubnetworkN' = [SubnetworkN EXCEPT ![n] = 0]
            /\ MaxAllowedUids' = [MaxAllowedUids EXCEPT ![n] = DefaultMaxUids]
        BY DEF RemoveNetwork
      <3>2. 0 \in 0..UidLimit /\ DefaultMaxUids \in 1..UidLimit
        OBVIOUS
      <3>3. SubnetworkN' \in [NetUids -> 0..UidLimit]
        BY <3>1, <3>2, MapTypes
      <3>4. MaxAllowedUids' \in [NetUids -> 1..UidLimit]
        BY <3>1, <3>2, MapTypes
      <3> QED BY <3>3, <3>4
    <2>3. Keys' \in [NetUids -> [UidSpace -> Hotkeys \cup {NoKey}]]
      BY DEF NeuronsInv, TypeOK, RemoveNetwork
    <2>4. Uids' \in [NetUids -> [Hotkeys -> UidSpace \cup {NoUid}]]
      BY DEF NeuronsInv, TypeOK, RemoveNetwork
    <2>5. IsNetworkMember' \in [Hotkeys -> [NetUids -> MemberFlag]]
      <3>1. \A k \in Hotkeys, m \in NetUids : IsNetworkMember[k][m] \in MemberFlag
        BY MapTypes
      <3> QED BY <3>1 DEF RemoveNetwork
    <2> QED BY <2>1, <2>2, <2>3, <2>4, <2>5 DEF TypeOK
  <1>2. SlotsContiguous'
    BY <1>a, <1>d DEF NeuronsInv, SlotsContiguous
  <1>3. KeysUidsInverse'
    BY <1>a, <1>b DEF NeuronsInv, KeysUidsInverse
  <1>4. MembershipAgrees'
    <2> SUFFICES ASSUME NEW k \in Hotkeys, NEW m \in NetUids
                 PROVE  IsNetworkMember'[k][m] = "true" <=> Uids'[m][k] # NoUid
      BY DEF MembershipAgrees
    <2>1. IsNetworkMember[k][m] = "true" <=> Uids[m][k] # NoUid
      BY DEF NeuronsInv, MembershipAgrees
    <2>2. Uids[n][k] # NoUid => \E u \in UidSpace : Keys[n][u] = k
      BY EntryTypes DEF NeuronsInv, KeysUidsInverse
    <2> QED BY <1>b, <1>c, <2>1, <2>2
  <1>5. AbsentIsEmpty' /\ VictimExists' /\ WithinCapacity'
    BY <1>d DEF NeuronsInv, TypeOK, AbsentIsEmpty, VictimExists, WithinCapacity, RemoveNetwork
  <1> QED BY <1>1, <1>2, <1>3, <1>4, <1>5 DEF NeuronsInv

\* A key swap on any set of netuids, when the new hotkey is a member of none.
LEMMA SwapInv ==
  ASSUME NeuronsInv, NEW S \in SUBSET NetUids, NEW old \in Hotkeys, NEW new \in Hotkeys,
         old # new, ~is_hotkey_registered_on_any_network(new), swap_on(S, old, new)
  PROVE  NeuronsInv'
  <1> USE DEF is_hotkey_registered_on_network
  <1>0. \A m \in NetUids : /\ Uids[m][new] = NoUid
                           /\ IsNetworkMember[old][m] = "true" <=> Uids[m][old] # NoUid
    BY DEF NeuronsInv, MembershipAgrees, is_hotkey_registered_on_any_network
  <1>a. \A m \in NetUids, u \in UidSpace :
            Keys'[m][u] = IF m \in S /\ Uids[m][old] = u THEN new ELSE Keys[m][u]
    BY <1>0 DEF swap_on
  <1>b. \A m \in NetUids, k \in Hotkeys :
            Uids'[m][k] = IF m \notin S \/ Uids[m][old] = NoUid \/ k \notin {old, new} THEN Uids[m][k]
                          ELSE IF k = old THEN NoUid ELSE Uids[m][old]
    BY <1>0 DEF swap_on
  <1>c. \A m \in NetUids, k \in Hotkeys :
            IsNetworkMember'[k][m] = IF m \notin S \/ k \notin {old, new} THEN IsNetworkMember[k][m]
                                     ELSE IF k = old THEN "none"
                                     ELSE IF Uids[m][old] # NoUid THEN "true" ELSE "false"
    BY <1>0 DEF swap_on
  <1>1. TypeOK'
    <2>1. Keys' \in [NetUids -> [UidSpace -> Hotkeys \cup {NoKey}]]
      BY DEF NeuronsInv, TypeOK, swap_on
    <2>2. Uids' \in [NetUids -> [Hotkeys -> UidSpace \cup {NoUid}]]
      BY DEF NeuronsInv, TypeOK, swap_on
    <2>3. IsNetworkMember' \in [Hotkeys -> [NetUids -> MemberFlag]]
      BY DEF NeuronsInv, TypeOK, swap_on
    <2>4. SubnetOwnerHotkey' \in [NetUids -> Hotkeys \cup {NoKey}]
      BY DEF NeuronsInv, TypeOK, swap_on
    <2> QED BY <2>1, <2>2, <2>3, <2>4 DEF NeuronsInv, TypeOK, swap_on
  <1>2. SlotsContiguous'
    <2> SUFFICES ASSUME NEW m \in NetUids, NEW u \in UidSpace
                 PROVE  Keys'[m][u] # NoKey <=> u < SubnetworkN[m]
      BY DEF SlotsContiguous, swap_on
    <2>1. Keys[m][u] # NoKey <=> u < SubnetworkN[m]
      BY DEF NeuronsInv, SlotsContiguous
    <2>2. Uids[m][old] = u => Keys[m][u] = old
      BY DEF NeuronsInv, KeysUidsInverse
    <2> QED BY <1>a, <2>1, <2>2
  <1>3. KeysUidsInverse'
    <2> SUFFICES ASSUME NEW m \in NetUids, NEW u \in UidSpace, NEW k \in Hotkeys
                 PROVE  Keys'[m][u] = k <=> Uids'[m][k] = u
      BY DEF KeysUidsInverse
    <2>1. /\ Keys[m][u] = k <=> Uids[m][k] = u
          /\ Keys[m][u] = old <=> Uids[m][old] = u
          /\ Keys[m][u] = new <=> Uids[m][new] = u
      BY DEF NeuronsInv, KeysUidsInverse
    <2> QED BY <1>0, <1>a, <1>b, <2>1
  <1>4. MembershipAgrees'
    <2> SUFFICES ASSUME NEW k \in Hotkeys, NEW m \in NetUids
                 PROVE  IsNetworkMember'[k][m] = "true" <=> Uids'[m][k] # NoUid
      BY DEF MembershipAgrees
    <2>1. IsNetworkMember[k][m] = "true" <=> Uids[m][k] # NoUid
      BY DEF NeuronsInv, MembershipAgrees
    <2>2. CASE m \notin S \/ k \notin {old, new}
      BY <1>b, <1>c, <2>1, <2>2
    <2>3. CASE m \in S /\ k = old
      BY <1>0, <1>b, <1>c, <2>3
    <2>4. CASE m \in S /\ k = new
      BY <1>0, <1>b, <1>c, <2>4
    <2> QED BY <2>2, <2>3, <2>4
  <1>5. AbsentIsEmpty' /\ VictimExists' /\ WithinCapacity'
    BY DEF NeuronsInv, AbsentIsEmpty, VictimExists, WithinCapacity, swap_on
  <1> QED BY <1>1, <1>2, <1>3, <1>4, <1>5 DEF NeuronsInv

\* Every operation on the table preserves NeuronsInv.
LEMMA StepInv == NeuronsInv /\ [Next]_vars => NeuronsInv'
  <1> SUFFICES ASSUME NeuronsInv, [Next]_vars PROVE NeuronsInv'
    OBVIOUS
  <1>1. ASSUME NEW n \in NetUids, NEW h \in Hotkeys, RegisterNeuron(n, h) PROVE NeuronsInv'
    BY <1>1, AppendInv, ReplaceInv DEF RegisterNeuron
  <1>2. ASSUME NEW n \in NetUids, NEW h \in Hotkeys, AddNetwork(n, h) PROVE NeuronsInv'
    BY <1>2, AddNetworkInv
  <1>3. ASSUME NEW n \in NetUids, RemoveNetwork(n) PROVE NeuronsInv'
    BY <1>3, RemoveNetworkInv
  <1>4. ASSUME NEW old \in Hotkeys, NEW new \in Hotkeys, SwapHotkeyAll(old, new) PROVE NeuronsInv'
    <2>1. NetworksAdded \in SUBSET NetUids
      BY DEF NeuronsInv, TypeOK
    <2> QED BY <1>4, <2>1, SwapInv DEF SwapHotkeyAll
  <1>5. ASSUME NEW n \in NetUids, NEW old \in Hotkeys, NEW new \in Hotkeys,
               SwapHotkeyOnSubnet(n, old, new)
        PROVE  NeuronsInv'
    <2>1. {n} \in SUBSET NetUids
      OBVIOUS
    <2> QED BY <1>5, <2>1, SwapInv DEF SwapHotkeyOnSubnet
  <1>6. ASSUME NEW n \in NetUids, NEW m \in 1..UidLimit, SetMaxAllowedUids(n, m) PROVE NeuronsInv'
    <2>1. \A k \in NetUids : MaxAllowedUids'[k] = IF k = n THEN m ELSE MaxAllowedUids[k]
      BY <1>6 DEF NeuronsInv, TypeOK, SetMaxAllowedUids
    <2>2. TypeOK'
      BY <1>6 DEF NeuronsInv, TypeOK, SetMaxAllowedUids
    <2>3. VictimExists' /\ WithinCapacity'
      <3>1. /\ NetworksAdded' = NetworksAdded /\ SubnetworkN' = SubnetworkN
            /\ n \in NetworksAdded /\ SubnetworkN[n] < m
        BY <1>6 DEF SetMaxAllowedUids
      <3>2. \A k \in NetworksAdded : /\ SubnetworkN[k] \in Nat
                                     /\ MaxAllowedUids'[k] = IF k = n THEN m ELSE MaxAllowedUids[k]
        BY <2>1, EntryTypes
      <3>3. VictimExists'
        BY <3>1, <3>2 DEF NeuronsInv, VictimExists
      <3>4. WithinCapacity'
        BY <3>1, <3>2 DEF NeuronsInv, WithinCapacity
      <3> QED BY <3>3, <3>4
    <2> QED BY <1>6, <2>2, <2>3 DEF NeuronsInv, SlotsContiguous, KeysUidsInverse, MembershipAgrees,
               is_hotkey_registered_on_network, AbsentIsEmpty, SetMaxAllowedUids
  <1>7. ASSUME NEW n \in NetUids, NEW h \in Hotkeys, SetSubnetOwnerHotkey(n, h) PROVE NeuronsInv'
    <2>1. TypeOK'
      BY <1>7 DEF NeuronsInv, TypeOK, SetSubnetOwnerHotkey
    <2> QED BY <1>7, <2>1 DEF NeuronsInv, SlotsContiguous, KeysUidsInverse, MembershipAgrees,
               is_hotkey_registered_on_network, AbsentIsEmpty, VictimExists, WithinCapacity,
               SetSubnetOwnerHotkey
  <1>8. CASE UNCHANGED vars
    <2>1. TypeOK'
      BY <1>8 DEF vars, NeuronsInv, TypeOK
    <2>2. SlotsContiguous' /\ KeysUidsInverse' /\ MembershipAgrees'
      BY <1>8 DEF vars, NeuronsInv, SlotsContiguous, KeysUidsInverse, MembershipAgrees,
         is_hotkey_registered_on_network
    <2>3. AbsentIsEmpty' /\ VictimExists' /\ WithinCapacity'
      BY <1>8 DEF vars, NeuronsInv, AbsentIsEmpty, VictimExists, WithinCapacity
    <2> QED BY <2>1, <2>2, <2>3 DEF NeuronsInv
  <1> QED BY <1>1, <1>2, <1>3, <1>4, <1>5, <1>6, <1>7, <1>8 DEF Next

\* In every reachable state the five maps describe one table of slots.
THEOREM SlotTable == Spec => []NeuronsInv
  <1> QED BY InitInv, StepInv, PTL DEF Spec

\* In every reachable state of the pallet Keys and Uids are inverse to each
\* other: no uid has two hotkeys and no hotkey two uids.
THEOREM KeysAndUidsAreInverse == Spec => []KeysUidsInverse
  <1>1. NeuronsInv => KeysUidsInverse
    BY DEF NeuronsInv
  <1> QED BY <1>1, SlotTable, PTL

\* IsNetworkMember and Uids never disagree on who is registered.
THEOREM MembershipAlwaysAgrees == Spec => []MembershipAgrees
  <1>1. NeuronsInv => MembershipAgrees
    BY DEF NeuronsInv
  <1> QED BY <1>1, SlotTable, PTL

\* No operation takes a slot from the hotkey that owns a live subnet.
THEOREM OwnerIsNeverPruned == Spec => OwnerKeepsSlot
  <1> DEFINE Keeps == \A n \in NetworksAdded \cap NetworksAdded', u \in UidSpace :
                         /\ Keys[n][u] # NoKey
                         /\ Keys[n][u] = SubnetOwnerHotkey[n]
                         => \/ Keys'[n][u] = SubnetOwnerHotkey'[n]
                            \/ Keys'[n][u] = Keys[n][u]
  <1>1. ASSUME NeuronsInv, [Next]_vars PROVE [Keeps]_vars
    <2> SUFFICES ASSUME Next, NEW n \in NetworksAdded \cap NetworksAdded', NEW u \in UidSpace,
                        Keys[n][u] # NoKey, Keys[n][u] = SubnetOwnerHotkey[n]
                 PROVE  \/ Keys'[n][u] = SubnetOwnerHotkey'[n]
                        \/ Keys'[n][u] = Keys[n][u]
      BY <1>1
    <2>0. /\ n \in NetUids /\ NeuronsInv /\ Keys[n][u] \in Hotkeys
          /\ u < SubnetworkN[n] /\ SubnetworkN[n] \in Nat
      <3>1. n \in NetUids /\ NeuronsInv
        BY <1>1 DEF NeuronsInv, TypeOK
      <3>2. Keys[n][u] \in Hotkeys \cup {NoKey} /\ SubnetworkN[n] \in Nat
        BY <3>1 DEF NeuronsInv, TypeOK
      <3>3. u < SubnetworkN[n]
        BY <3>1 DEF NeuronsInv, SlotsContiguous
      <3> QED BY <3>1, <3>2, <3>3
    <2>1. ASSUME NEW m \in NetUids, NEW h \in Hotkeys, RegisterNeuron(m, h)
          PROVE  Keys'[n][u] = Keys[n][u]
      <3>1. ASSUME append_neuron(m, h), SubnetworkN[m] < MaxAllowedUids[m]
            PROVE  Keys'[n][u] = Keys[n][u]
        <4>1. SubnetworkN[m] \in UidSpace
          <5>1. SubnetworkN[m] \in 0..UidLimit /\ MaxAllowedUids[m] \in 1..UidLimit
            BY <2>0, EntryTypes
          <5> QED BY <3>1, <5>1
        <4>2. Keys \in [NetUids -> [UidSpace -> Hotkeys \cup {NoKey}]]
          BY <2>0 DEF NeuronsInv, TypeOK
        <4>3. Keys' = [Keys EXCEPT ![m][SubnetworkN[m]] = h]
          BY <3>1 DEF append_neuron
        <4>4. m # n \/ u # SubnetworkN[m]
          BY <2>0
        <4> QED BY <2>0, <4>1, <4>2, <4>3, <4>4
      <3>2. ASSUME NEW v \in 0..(SubnetworkN[m] - 1), replace_neuron(m, v, h)
            PROVE  Keys'[n][u] = Keys[n][u]
        <4>1. v \in UidSpace
          <5>1. SubnetworkN[m] \in 0..UidLimit
            BY <2>0, EntryTypes
          <5> QED BY <5>1
        <4> QED BY <3>2, <4>1, <2>0 DEF replace_neuron, NeuronsInv, TypeOK
      <3> QED BY <2>1, <3>1, <3>2 DEF RegisterNeuron
    <2>2. ASSUME NEW m \in NetUids, NEW h \in Hotkeys, AddNetwork(m, h)
          PROVE  Keys'[n][u] = Keys[n][u]
      BY <2>0, <2>2 DEF AddNetwork, IsNextNetuid, NeuronsInv, TypeOK
    <2>3. ASSUME NEW m \in NetUids, RemoveNetwork(m)
          PROVE  Keys'[n][u] = Keys[n][u]
      <3>1. n # m
        BY <2>3 DEF RemoveNetwork
      <3> QED BY <2>0, <2>3, <3>1 DEF RemoveNetwork, NeuronsInv, TypeOK
    <2>4. ASSUME NEW S \in SUBSET NetUids, NEW old \in Hotkeys, NEW new \in Hotkeys,
                 swap_on(S, old, new)
          PROVE  \/ Keys'[n][u] = SubnetOwnerHotkey'[n]
                 \/ Keys'[n][u] = Keys[n][u]
      <3>1. /\ Keys'[n][u] = IF n \in S /\ IsNetworkMember[old][n] = "true" /\ Uids[n][old] = u
                             THEN new ELSE Keys[n][u]
            /\ SubnetOwnerHotkey'[n] = IF n \in S /\ SubnetOwnerHotkey[n] = old
                                       THEN new ELSE SubnetOwnerHotkey[n]
        BY <2>0, <2>4 DEF swap_on
      <3>2. Uids[n][old] = u => Keys[n][u] = old
        BY <2>0 DEF NeuronsInv, KeysUidsInverse
      <3> QED BY <3>1, <3>2
    <2>5. NetworksAdded \in SUBSET NetUids /\ \A m \in NetUids : {m} \in SUBSET NetUids
      BY <2>0 DEF NeuronsInv, TypeOK
    <2> QED BY <2>1, <2>2, <2>3, <2>4, <2>5
            DEF Next, SwapHotkeyAll, SwapHotkeyOnSubnet, SetMaxAllowedUids, SetSubnetOwnerHotkey
  <1> QED BY <1>1, SlotTable, PTL DEF Spec, OwnerKeepsSlot

\* Subnet n gives no slot back in this step, and nobody but the holder of one
\* slot x changes.
OneSlotAtMost(n) ==
    /\ SubnetworkN'[n] >= SubnetworkN[n]
    /\ \E x : \A u \in UidSpace : Keys'[n][u] # Keys[n][u] => u = x

\* While a subnet lives no step of any operation moves a neuron to another
\* uid, or changes the holders of two slots at once.
THEOREM UidsNeverMove == Spec => UidsAreStable
  <1>1. ASSUME NeuronsInv, Next, NEW n \in NetworksAdded \cap NetworksAdded'
        PROVE  OneSlotAtMost(n)
    <2>0. /\ n \in NetUids /\ Keys \in [NetUids -> [UidSpace -> Hotkeys \cup {NoKey}]]
          /\ SubnetworkN \in [NetUids -> 0..UidLimit] /\ SubnetworkN[n] \in 0..UidLimit
      BY <1>1 DEF NeuronsInv, TypeOK
    <2>1. ASSUME NEW m \in NetUids, NEW h \in Hotkeys, RegisterNeuron(m, h)
          PROVE  OneSlotAtMost(n)
      <3>1. ASSUME append_neuron(m, h) PROVE OneSlotAtMost(n)
        <4>1. Keys' = [Keys EXCEPT ![m][SubnetworkN[m]] = h]
              /\ SubnetworkN' = [SubnetworkN EXCEPT ![m] = @ + 1]
          BY <3>1 DEF append_neuron
        <4>2. SubnetworkN'[n] >= SubnetworkN[n]
          BY <2>0, <4>1
        <4>3. \A u \in UidSpace : Keys'[n][u] # Keys[n][u] => u = SubnetworkN[m]
          BY <2>0, <4>1
        <4> QED BY <4>2, <4>3 DEF OneSlotAtMost
      <3>2. ASSUME NEW v \in 0..(SubnetworkN[m] - 1), replace_neuron(m, v, h)
            PROVE  OneSlotAtMost(n)
        <4>1. SubnetworkN' = SubnetworkN /\ Keys' = [Keys EXCEPT ![m][v] = h]
          BY <3>2 DEF replace_neuron
        <4>2. SubnetworkN'[n] >= SubnetworkN[n]
          BY <2>0, <4>1
        <4>3. \A u \in UidSpace : Keys'[n][u] # Keys[n][u] => u = v
          BY <2>0, <4>1
        <4> QED BY <4>2, <4>3 DEF OneSlotAtMost
      <3> QED BY <2>1, <3>1, <3>2 DEF RegisterNeuron
    <2>2. ASSUME Keys'[n] = Keys[n], SubnetworkN'[n] = SubnetworkN[n] PROVE OneSlotAtMost(n)
      BY <2>0, <2>2 DEF OneSlotAtMost
    <2>3. ASSUME NEW m \in NetUids, NEW h \in Hotkeys, AddNetwork(m, h)
          PROVE  Keys'[n] = Keys[n] /\ SubnetworkN'[n] = SubnetworkN[n]
      <3>1. n # m
        BY <2>3 DEF AddNetwork, IsNextNetuid
      <3> QED BY <2>0, <2>3, <3>1 DEF AddNetwork
    <2>4. ASSUME NEW m \in NetUids, RemoveNetwork(m)
          PROVE  Keys'[n] = Keys[n] /\ SubnetworkN'[n] = SubnetworkN[n]
      <3>1. n # m
        BY <2>4 DEF RemoveNetwork
      <3> QED BY <2>0, <2>4, <3>1 DEF RemoveNetwork
    <2>5. ASSUME NEW S, NEW old \in Hotkeys, NEW new \in Hotkeys, swap_on(S, old, new)
          PROVE  OneSlotAtMost(n)
      <3>1. \A u \in UidSpace : Keys'[n][u] # Keys[n][u] => u = Uids[n][old]
        BY <2>0, <2>5 DEF swap_on
      <3>2. SubnetworkN'[n] >= SubnetworkN[n]
        BY <2>0, <2>5 DEF swap_on
      <3> QED BY <3>1, <3>2 DEF OneSlotAtMost
    <2>6. ASSUME NEW m, NEW x, SetMaxAllowedUids(m, x) \/ SetSubnetOwnerHotkey(m, x)
          PROVE  Keys'[n] = Keys[n] /\ SubnetworkN'[n] = SubnetworkN[n]
      BY <2>6 DEF SetMaxAllowedUids, SetSubnetOwnerHotkey
    <2> QED BY <1>1, <2>1, <2>2, <2>3, <2>4, <2>5, <2>6
            DEF Next, SwapHotkeyAll, SwapHotkeyOnSubnet
  <1>2. ASSUME NEW n, OneSlotAtMost(n)
        PROVE  /\ SubnetworkN'[n] >= SubnetworkN[n]
               /\ \A u, v \in UidSpace :
                     Keys'[n][u] # Keys[n][u] /\ Keys'[n][v] # Keys[n][v] => u = v
    BY <1>2, Zenon DEF OneSlotAtMost
  <1>3. NeuronsInv /\ [Next]_vars =>
          [\A n \in NetworksAdded \cap NetworksAdded' :
             /\ SubnetworkN'[n] >= SubnetworkN[n]
             /\ \A u, v \in UidSpace :
                   Keys'[n][u] # Keys[n][u] /\ Keys'[n][v] # Keys[n][v] => u = v]_vars
    BY <1>1, <1>2
  <1> QED BY <1>3, SlotTable, PTL DEF Spec, UidsAreStable
=============================================================================
