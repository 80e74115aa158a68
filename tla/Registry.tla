------------------------------ MODULE Registry ------------------------------
(***************************************************************************)
(* pallets/registry: identities with a deposit.  IdentityOf records how    *)
(* much is on deposit for an identity and not who put it there; the money  *)
(* is a hold on the account that signed, and clear_identity releases from  *)
(* the account that signs it.                                              *)
(***************************************************************************)
EXTENDS Integers, FiniteSets, Sequences, TLC
LOCAL INSTANCE Functions
LOCAL INSTANCE SequencesExt

CONSTANTS
    RegAccounts,          \* accounts; RegHotkeys of them are hotkeys on root
    RegHotkeys,
    MaxAdditionalFields, RegistryInitialDeposit, RegistryFieldDeposit,
    Funds                 \* balance of every account at the start

VARIABLE registry

RegistryInitial ==
    [identityOf |-> <<>>,
     held |-> [a \in RegAccounts |-> 0],             \* HoldReason::RegistryIdentity
     free |-> [a \in RegAccounts |-> Funds],
     controller |-> [h \in RegHotkeys |-> CHOOSE a \in RegAccounts \ RegHotkeys : TRUE],
     onRoot |-> RegHotkeys, subnetOwners |-> RegAccounts \ RegHotkeys,
     short |-> FALSE]      \* history: some release gave back less than asked for

Least(a, b) == IF a < b THEN a ELSE b

(* Who may register: a hotkey on root by its coldkey, a subnet owner itself. *)
can_register(r, who, identified) ==
    IF who # identified
    THEN /\ identified \in RegHotkeys /\ r.controller[identified] = who
         /\ identified \in r.onRoot
    ELSE who \in r.subnetOwners

(* Currency::hold fails without the funds; the account keeps one unit. *)
CanHold(r, who, amount) == r.free[who] > amount

Hold(r, who, amount) == [r EXCEPT !.held[who] = @ + amount, !.free[who] = @ - amount]

(* Currency::release with Precision::BestEffort. *)
Release(r, who, amount) ==
    LET released == Least(r.held[who], amount) IN
    [r EXCEPT !.held[who] = @ - released, !.free[who] = @ + released,
              !.short = @ \/ released # amount]

DepositOf(r, identified) ==
    IF identified \in DOMAIN r.identityOf THEN r.identityOf[identified].deposit ELSE 0

(* Mutant: the deposit of an identity that grows is not topped up. *)
set_identity_deposit_once(who, identified, extra_fields) ==
    LET old == DepositOf(registry, identified)
        new == RegistryInitialDeposit + extra_fields * RegistryFieldDeposit
        paid == IF old = 0 THEN Hold(registry, who, new)
                ELSE IF old > new THEN Release(registry, who, old - new) ELSE registry
    IN /\ can_register(registry, who, identified)
       /\ extra_fields <= MaxAdditionalFields
       /\ new > old => CanHold(registry, who, new - old)
       /\ registry' = [paid EXCEPT !.identityOf =
            (identified :> [deposit |-> new, fields |-> extra_fields]) @@ @]

(* The difference to the deposit on record is held on, or released from, the
   signer, who need not be the account that paid for the record. *)
set_identity(who, identified, extra_fields) ==
    LET old == DepositOf(registry, identified)
        new == RegistryInitialDeposit + extra_fields * RegistryFieldDeposit
        paid == IF new > old THEN Hold(registry, who, new - old)
                ELSE IF old > new THEN Release(registry, who, old - new) ELSE registry
    IN /\ can_register(registry, who, identified)
       /\ extra_fields <= MaxAdditionalFields
       /\ new > old => CanHold(registry, who, new - old)
       /\ registry' = [paid EXCEPT !.identityOf =
            (identified :> [deposit |-> new, fields |-> extra_fields]) @@ @]

clear_identity(who, identified) ==
    /\ identified \in DOMAIN registry.identityOf
    /\ registry' = [Release(registry, who, registry.identityOf[identified].deposit) EXCEPT
         !.identityOf = Restrict(@, DOMAIN @ \ {identified})]

(* The rest of the chain: a hotkey changes hands in a coldkey swap, leaves or
   joins root; a network is registered or removed. *)
ControllerSwapped(h, a) ==
    /\ h \in RegHotkeys /\ a \notin RegHotkeys
    /\ registry' = [registry EXCEPT !.controller[h] = a]

RootMembershipChanges(h) ==
    /\ h \in RegHotkeys
    /\ registry' = [registry EXCEPT !.onRoot = IF h \in @ THEN @ \ {h} ELSE @ \cup {h}]

SubnetOwnershipChanges(a) ==
    registry' = [registry EXCEPT !.subnetOwners = IF a \in @ THEN @ \ {a} ELSE @ \cup {a}]
----------------------------------------------------------------------------
RegistryInit == registry = RegistryInitial

RegistryNext ==
    \/ \E who, identified \in RegAccounts :
         \/ \E n \in 0 .. MaxAdditionalFields + 1 : set_identity(who, identified, n)
         \/ clear_identity(who, identified)
    \/ \E a, h \in RegAccounts : ControllerSwapped(h, a)
    \/ \E h \in RegAccounts : RootMembershipChanges(h)
    \/ \E a \in RegAccounts : SubnetOwnershipChanges(a)
----------------------------------------------------------------------------
SumOver(f) == FoldFunction(+, 0, f)

(* What is on hold for identities covers all deposits on record, and no money
   is made or lost, whoever sets, resizes and clears them and however the
   hotkeys change hands in between. *)
HoldsCoverDeposits ==
    /\ SumOver(registry.held) >=
         SumOver([i \in DOMAIN registry.identityOf |-> registry.identityOf[i].deposit])
    /\ \A a \in RegAccounts : registry.held[a] >= 0 /\ registry.free[a] >= 0
    /\ SumOver(registry.held) + SumOver(registry.free) = Funds * Cardinality(RegAccounts)

(* Every release gives back exactly the amount asked for: what the two debug
   assertions after Currency::release say. *)
ReleasesAreExact == ~registry.short
----------------------------------------------------------------------------
(***************************************************************************)
(* The hand-written encoding (types.rs).  An encoded Data is its leading   *)
(* byte and the number of bytes after it.                                  *)
(***************************************************************************)
Hashes == <<"BlakeTwo256", "Sha256", "Keccak256", "ShaThree256">>

(* Mutant: the length is written without the offset that keeps 0 for None. *)
encode_data_no_offset(d) ==
    CASE d.kind = "None" -> [lead |-> 0, body |-> 0]
      [] d.kind = "Raw" -> [lead |-> Least(d.len, 64), body |-> d.len]
      [] OTHER -> [lead |-> 65 + (CHOOSE i \in 1 .. 4 : Hashes[i] = d.kind), body |-> 32]

encode_data(d) ==
    CASE d.kind = "None" -> [lead |-> 0, body |-> 0]
      [] d.kind = "Raw" -> [lead |-> Least(d.len, 64) + 1, body |-> d.len]
      [] OTHER -> [lead |-> 65 + (CHOOSE i \in 1 .. 4 : Hashes[i] = d.kind), body |-> 32]

decode_data(b) ==
    CASE b.lead = 0 -> [kind |-> "None", len |-> 0]
      [] b.lead \in 1 .. 65 -> [kind |-> "Raw", len |-> b.lead - 1]
      [] b.lead \in 66 .. 69 -> [kind |-> Hashes[b.lead - 65], len |-> 32]
      [] OTHER -> [kind |-> "Err", len |-> 0]

(* TypeInfo: the variant clients see for every leading byte. *)
type_info_data(lead) ==
    CASE lead = 0 -> [kind |-> "None", len |-> 0]
      [] lead \in 1 .. 65 -> [kind |-> "Raw", len |-> lead - 1]
      [] lead \in 66 .. 69 -> [kind |-> Hashes[lead - 65], len |-> 32]
      [] OTHER -> [kind |-> "Err", len |-> 0]

Absent == [kind |-> "None", len |-> 0]
Fingerprint == [kind |-> "Fingerprint", len |-> 20]

(* The fields of IdentityInfo after "additional", in the order of the struct;
   bit i - 1 of IdentityField stands for field i. *)
InfoFields == <<"display", "legal", "web", "riot", "email", "pgp_fingerprint", "image", "twitter">>

(* The flags of the fields that are set, as the u64 that is encoded. *)
fields_of(info) == FoldFunctionOnSet(+, 0, [i \in 1 .. 8 |-> 2 ^ (i - 1)],
                                     {i \in 1 .. 8 : info.fields[i] # Absent})

(* pgp_fingerprint is an optional array of 20 bytes, the other fields are Data. *)
encode_field(i, f) ==
    IF InfoFields[i] # "pgp_fingerprint" THEN encode_data(f)
    ELSE IF f = Absent THEN [lead |-> 0, body |-> 0] ELSE [lead |-> 1, body |-> 20]

decode_field(i, b) ==
    IF InfoFields[i] # "pgp_fingerprint" THEN decode_data(b)
    ELSE CASE b.lead = 0 -> Absent [] b.lead = 1 -> Fingerprint [] OTHER -> [kind |-> "Err", len |-> 0]

(* The struct is its additional pairs, behind their number in compact form, and
   its fields one after the other. *)
encode_info(info) ==
    <<[lead |-> 4 * Len(info.additional), body |-> 0]>>
      \o FlattenSeq([i \in DOMAIN info.additional |->
                       <<encode_data(info.additional[i][1]), encode_data(info.additional[i][2])>>])
      \o [i \in DOMAIN info.fields |-> encode_field(i, info.fields[i])]

(* Registration::decode reads through AppendZerosInput: bytes that are
   missing at the end read as zero. *)
decode_registration(stream) ==
    LET At(i) == IF i <= Len(stream) THEN stream[i] ELSE [lead |-> 0, body |-> 0]
        pairs == At(1).lead \div 4
    IN [additional |-> [i \in 1 .. pairs |-> <<decode_data(At(2 * i)), decode_data(At(2 * i + 1))>>],
        fields |-> [i \in 1 .. 8 |-> decode_field(i, At(1 + 2 * pairs + i))]]

DataValues ==
    [kind : {"None"}, len : {0}] \cup [kind : {"Raw"}, len : 0 .. 64]
      \cup [kind : {Hashes[i] : i \in 1 .. 4}, len : {32}]

(* Encode, Decode and TypeInfo of Data agree on every value, of up to 64 bytes:
   none is truncated, although the comment on Data says that "if the data is
   greater than 32-bytes then it will be truncated when encoding".  A record that
   was written before the struct had its last fields, with and without additional
   pairs, reads back with those absent, and with the flags of the ones it has. *)
RegistrationsSurviveEncoding ==
    /\ \A d \in DataValues : decode_data(encode_data(d)) = d /\ type_info_data(encode_data(d).lead) = d
    /\ \A d \in DataValues, pairs \in 0 .. 1, k \in 0 .. 8 :
         LET additional == [i \in 1 .. pairs |-> <<d, Absent>>]
             Given(i) == IF InfoFields[i] = "pgp_fingerprint" THEN Fingerprint ELSE d
             old == [additional |-> additional,
                     fields |-> [i \in 1 .. k |-> IF i % 3 = 2 THEN Absent ELSE Given(i)]]
             read == decode_registration(encode_info(old))
         IN /\ read.additional = additional
            /\ \A i \in 1 .. 8 : read.fields[i] = IF i <= k THEN old.fields[i] ELSE Absent
            /\ \A i \in 1 .. 8 : (fields_of(read) \div 2 ^ (i - 1)) % 2 = 1
                                   <=> i <= k /\ old.fields[i] # Absent
=============================================================================
