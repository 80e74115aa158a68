---------------------------- MODULE Commitments ----------------------------
(***************************************************************************)
(* The commitments pallet (pallets/commitments) on top of the drand        *)
(* bridge: metadata a registered hotkey commits to a subnet, some of it    *)
(* encrypted to the pulse of a future round and revealed by the hook of    *)
(* the first block after that pulse is stored.                             *)
(*                                                                         *)
(* A field is [kind, len, round, content]; the content of a timelocked     *)
(* field is what it decrypts to, "" when it does not decode or decrypts to *)
(* nothing.                                                                *)
(***************************************************************************)
EXTENDS Drand
LOCAL INSTANCE SequencesExt

CONSTANTS
  CommitNets, CommitAccounts,
  CommitFields,                   \* bound: the field lists an account may commit
  MaxFields, InitialDeposit, FieldDeposit,
  MinUsedSpace,                   \* 100 in the code
  DefaultMaxSpace, SpaceLimits,   \* bound: the limits root may set
  MAX_REVEALS,                    \* 10 in the code
  CommitTempo,                    \* tempo of every subnet
  CommitFunds                     \* free balance of every account at first

ASSUME CommitConstants ==
  /\ CommitNets \subseteq Nat /\ SpaceLimits \subseteq Nat /\ CommitTempo \in Nat
  /\ {MaxFields, InitialDeposit, FieldDeposit, MinUsedSpace, DefaultMaxSpace} \subseteq Nat
  /\ {MAX_REVEALS, CommitFunds} \subseteq Nat

VARIABLE commits

CommitKeys == CommitNets \X CommitAccounts
NoCommitment == [block |-> -1, deposit |-> 0, fields |-> <<>>]

is_timelock_encrypted(field) == field.kind = "TimelockEncrypted"
len_for_rate_limit(field) == IF field.kind \in {"None", "ResetBondsFlag"} THEN 0 ELSE field.len

\* The codec of a field: a leading byte, which for Raw also tells the length, and a body; the
\* other variable-length kinds carry a length of their own in the body.
Digests == <<"BlakeTwo256", "Sha256", "Keccak256", "ShaThree256">>
encode_raw_length(data) ==
  CASE data.kind = "None" -> [lead |-> 0, body |-> 0]
    [] data.kind = "Raw" -> [lead |-> IF data.len < 128 THEN data.len ELSE 128, body |-> data.len]
    [] data.kind = "TimelockEncrypted" -> [lead |-> 134, body |-> data.len]
    [] data.kind = "ResetBondsFlag" -> [lead |-> 135, body |-> 0]
    [] data.kind = "BigRaw" -> [lead |-> 136, body |-> data.len]
    [] OTHER -> [lead |-> 129 + (CHOOSE i \in 1 .. 4 : Digests[i] = data.kind), body |-> 32]
encode(data) ==
  CASE data.kind = "None" -> [lead |-> 0, body |-> 0]
    [] data.kind = "Raw" ->
         [lead |-> (IF data.len < 128 THEN data.len ELSE 128) + 1, body |-> data.len]
    [] data.kind = "TimelockEncrypted" -> [lead |-> 134, body |-> data.len]
    [] data.kind = "ResetBondsFlag" -> [lead |-> 135, body |-> 0]
    [] data.kind = "BigRaw" -> [lead |-> 136, body |-> data.len]
    [] OTHER -> [lead |-> 129 + (CHOOSE i \in 1 .. 4 : Digests[i] = data.kind), body |-> 32]

\* Reads as many bytes as the kind asks for, and rejects the other leading bytes.
decode(bytes) ==
  CASE bytes.lead = 0 -> [kind |-> "None", len |-> 0]
    [] bytes.lead \in 1 .. 129 ->
         IF bytes.body < bytes.lead - 1 THEN [kind |-> "Err", len |-> 0]
         ELSE [kind |-> "Raw", len |-> bytes.lead - 1]
    [] bytes.lead \in 130 .. 133 -> [kind |-> Digests[bytes.lead - 129], len |-> 32]
    [] bytes.lead = 134 -> [kind |-> "TimelockEncrypted", len |-> bytes.body]
    [] bytes.lead = 135 -> [kind |-> "ResetBondsFlag", len |-> 0]
    [] bytes.lead = 136 -> [kind |-> "BigRaw", len |-> bytes.body]
    [] OTHER -> [kind |-> "Err", len |-> 0]

\* The metadata clients decode by: the variant of every leading byte.
type_info(lead) ==
  CASE lead = 0 -> "None" [] lead \in 1 .. 129 -> "Raw"
    [] lead \in 130 .. 133 -> Digests[lead - 129]
    [] lead = 134 -> "TimelockEncrypted" [] lead = 135 -> "ResetBondsFlag"
    [] lead = 136 -> "BigRaw"

\* SubtensorModule::get_epoch_index
get_epoch_index(netuid, block_number) == (block_number + netuid + 1) \div (CommitTempo + 1)

\* A hotkey registered on the subnet (AllowCommitments); neurons come and go elsewhere.
can_commit(key) == key \in commits.registered

RequiredSpace(fields) ==
  Max({MinUsedSpace, FoldLeft(LAMBDA sum, f : sum + len_for_rate_limit(f), 0, fields)})

\* The tracker starts afresh in another epoch.
UsageNow_kept(key) == commits.usage[key]
UsageNow(key) ==
  LET epoch == get_epoch_index(key[1], drand.block) IN
  IF commits.usage[key].last_epoch # epoch THEN [last_epoch |-> epoch, used_space |-> 0]
  ELSE commits.usage[key]

DepositFor(fields) == InitialDeposit + Len(fields) * FieldDeposit

\* History: the space taken in the epoch of the latest commitment.
Spent(spent, epoch, space) ==
  IF spent.epoch = epoch THEN [spent EXCEPT !.space = @ + space]
  ELSE [epoch |-> epoch, space |-> space]

\* ResetBondsFlag: LastBondsReset and the bonds of the subnet, cleared for the account.
ResetBonds(key, fields) ==
  IF \E i \in DOMAIN fields : fields[i].kind = "ResetBondsFlag" THEN drand.block
  ELSE commits.bondsReset[key]

\* Reserving fails without the funds; unreserving returns what was reserved.
ReserveChange_refunds_only(old, new) == IF old > new THEN new - old ELSE 0
ReserveChange(old, new) == new - old

\* The account is indexed while a field is timelocked.
IndexWith_first(index, key, fields) ==
  IF fields # <<>> /\ is_timelock_encrypted(fields[1]) THEN index \cup {key} ELSE index \ {key}
IndexWith(index, key, fields) ==
  IF \E i \in DOMAIN fields : is_timelock_encrypted(fields[i])
  THEN index \cup {key} ELSE index \ {key}

set_commitment(key, fields) ==
  LET usage == UsageNow(key)
      deposit == DepositFor(fields)
      change == ReserveChange(commits.of[key].deposit, deposit)
      who == key[2]
  IN /\ can_commit(key)
     /\ Len(fields) <= MaxFields
     /\ usage.used_space + RequiredSpace(fields) <= commits.maxSpace
     /\ change <= commits.free[who]
     /\ - change <= commits.reserved[who]
     /\ commits' = [commits EXCEPT
          !.usage[key] = [usage EXCEPT !.used_space = @ + RequiredSpace(fields)],
          !.bondsReset[key] = ResetBonds(key, fields),
          !.of[key] = [block |-> drand.block, deposit |-> deposit, fields |-> fields],
          !.free[who] = @ - change, !.reserved[who] = @ + change,
          !.index = IndexWith(@, key, fields),
          !.spent[key] = Spent(@, get_epoch_index(key[1], drand.block), RequiredSpace(fields))]
     /\ UNCHANGED drand

set_max_space ==
  /\ \E new_limit \in SpaceLimits \ {commits.maxSpace} :
       commits' = [commits EXCEPT !.maxSpace = new_limit]
  /\ UNCHANGED drand

----------------------------------------------------------------------------
\* ---- the hook -----------------------------------------------------------------

\* A field whose round has its pulse opens, or is dropped when it does not decrypt.
Locked_by_last_round(field) ==
  is_timelock_encrypted(field) /\ field.round > drand.lastStoredRound
Locked(field) == is_timelock_encrypted(field) /\ ~random_at(field.round)
Remaining(fields) ==
  SelectSeq(fields, LAMBDA f : ~is_timelock_encrypted(f) \/ Locked(f))
Opened(fields) ==
  SelectSeq(fields, LAMBDA f : is_timelock_encrypted(f) /\ ~Locked(f) /\ f.content # "")
LastOf(n, seq) == IF Len(seq) <= n THEN seq ELSE SubSeq(seq, Len(seq) - n + 1, Len(seq))

\* One entry of TimelockedIndex; the deposit of a commitment that is gone stays reserved.
RevealOne_unlisting(c, key, block) ==
  LET opened == Opened(c.of[key].fields)
      remain == Remaining(c.of[key].fields)
  IN [c EXCEPT
        !.revealed[key] = LastOf(MAX_REVEALS, @ \o [i \in DOMAIN opened |-> <<opened[i], block>>]),
        !.of[key] = IF remain = <<>> THEN NoCommitment ELSE [@ EXCEPT !.fields = remain],
        !.index = IF opened # <<>> \/ remain = <<>> THEN @ \ {key} ELSE @]

RevealOne(c, key, block) ==
  LET opened == Opened(c.of[key].fields)
      remain == Remaining(c.of[key].fields)
  IN IF c.of[key] = NoCommitment THEN [c EXCEPT !.index = @ \ {key}]
     ELSE [c EXCEPT
        !.revealed[key] = LastOf(MAX_REVEALS, @ \o [i \in DOMAIN opened |-> <<opened[i], block>>]),
        !.of[key] = IF remain = <<>> THEN NoCommitment ELSE [@ EXCEPT !.fields = remain],
        !.index = IF \E i \in DOMAIN remain : is_timelock_encrypted(remain[i]) THEN @
                  ELSE @ \ {key}]

reveal_timelocked_commitments(block) ==
  FoldSet(LAMBDA key, c : RevealOne(c, key, block), commits, commits.index)

\* A new block, and the hook on the pulses stored before it.
on_initialize ==
  /\ DrandBlock
  /\ commits' = reveal_timelocked_commitments(drand'.block)

----------------------------------------------------------------------------

\* A hotkey loses or gains its place on a subnet; its commitments stay.
NeuronsChange ==
  /\ \E key \in CommitKeys :
       commits' = [commits EXCEPT !.registered = (@ \ {key}) \cup ({key} \ @)]
  /\ UNCHANGED drand

CommitmentsInitial ==
  [of |-> [k \in CommitKeys |-> NoCommitment], index |-> {},
   revealed |-> [k \in CommitKeys |-> <<>>], bondsReset |-> [k \in CommitKeys |-> 0],
   usage |-> [k \in CommitKeys |-> [last_epoch |-> 0, used_space |-> 0]],
   maxSpace |-> DefaultMaxSpace, free |-> [a \in CommitAccounts |-> CommitFunds],
   reserved |-> [a \in CommitAccounts |-> 0], registered |-> CommitKeys,
   spent |-> [k \in CommitKeys |-> [epoch |-> 0, space |-> 0]]]

CommitmentsInit == DrandInit /\ commits = CommitmentsInitial

CommitmentsNext ==
  \/ \E key \in CommitKeys, fields \in CommitFields : set_commitment(key, fields)
  \/ set_max_space
  \/ NeuronsChange
  \/ on_initialize
  \/ /\ \/ fetch_drand_pulse_and_send_unsigned
        \/ SubmittedByOthers
        \/ write_pulse
        \/ set_beacon_config
        \/ BeaconRound
     /\ UNCHANGED commits

CommitmentsSpec == CommitmentsInit /\ [][CommitmentsNext]_<<drand, commits>>

----------------------------------------------------------------------------

\* TimelockedIndex lists exactly the commitments that hold a timelocked field: one that is
\* missing is never revealed, for the hook looks nowhere else.
IndexIsExact ==
  commits.index = {k \in CommitKeys :
    \E i \in DOMAIN commits.of[k].fields : is_timelock_encrypted(commits.of[k].fields[i])}

\* The hook leaves nothing behind: after it no commitment holds a field whose round has its
\* pulse, and a field of a later round stays as it was.
RevealedAtOnce ==
    drand'.block # drand.block =>
      \A k \in CommitKeys :
        /\ \A i \in DOMAIN commits'.of[k].fields :
             is_timelock_encrypted(commits'.of[k].fields[i])
               => commits'.of[k].fields[i].round \notin drand.pulses
        /\ \A i \in DOMAIN commits.of[k].fields :
             Locked(commits.of[k].fields[i])
               => commits.of[k].fields[i] \in
                    {commits'.of[k].fields[j] : j \in DOMAIN commits'.of[k].fields}

\* What an account reserved covers the deposits of its commitments, so that unreserving never
\* has a leftover (Error::UnexpectedUnreserveLeftover is not reached).
DepositsAreReserved ==
  \A a \in CommitAccounts :
    commits.reserved[a] >= MapThenSumSet(LAMBDA n : commits.of[<<n, a>>].deposit, CommitNets)

\* The tracker holds the space of all commitments of the account's latest epoch, no more and
\* no less, over any changes of epoch and limit (UsedSpaceOf).
SpaceIsCounted ==
  \A k \in CommitKeys : commits.usage[k].used_space = commits.spent[k].space

\* Nothing is revealed before its round: a pulse of the round was stored, and the reveals of
\* an account are in the order of their blocks, the newest MAX_REVEALS of them.
RevealsAreDue ==
  \A k \in CommitKeys :
    /\ Len(commits.revealed[k]) <= MAX_REVEALS
    /\ \A i, j \in DOMAIN commits.revealed[k] :
         /\ commits.revealed[k][i][1].round \in drand.pulses
         /\ i < j => commits.revealed[k][i][2] <= commits.revealed[k][j][2]

\* A field decodes to what was encoded, and the metadata names the same variant, for every
\* length (Encode, Decode and TypeInfo of Data are written by hand).
FieldSizes ==
  [kind : {"None", "ResetBondsFlag"}, len : {0}] \cup [kind : {"Raw"}, len : 0 .. 128]
    \cup [kind : {Digests[i] : i \in 1 .. 4}, len : {32}]
    \cup [kind : {"TimelockEncrypted"}, len : {0, 1, 1024}]
    \cup [kind : {"BigRaw"}, len : {0, 128, 512}]
FieldsSurviveEncoding ==
  \A d \in FieldSizes : decode(encode(d)) = d /\ type_info(encode(d).lead) = d.kind

=============================================================================
