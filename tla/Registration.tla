---------------------------- MODULE Registration ----------------------------
(***************************************************************************)
(* Neuron registration in pallet-subtensor: burned, proof-of-work and root *)
(* registration, the choice of the neuron to prune, the per-block and      *)
(* per-interval limits and the block hook that resets them, and the        *)
(* creation and removal of subnets around them.                            *)
(*                                                                         *)
(* This module extends Neurons, the slot table, with the variables that    *)
(* table leaves out, and its specification implements the one of Neurons:  *)
(* here a full subnet prunes the neuron get_neuron_to_prune returns, from  *)
(* scores each epoch rewrites.  A dispatchable that fails is rolled back,  *)
(* so it is no step.  Balances, ownership of hotkeys, the proof of work    *)
(* and root stakes decide only whether a call succeeds or which root slot  *)
(* is lowest, and are left nondeterministic.                               *)
(***************************************************************************)
EXTENDS Neurons, Sequences, FiniteSets

CONSTANTS
    MaxRegistrationsPerBlock,       \* hyperparameter (1 in the runtime)
    TargetRegistrationsPerInterval, \* hyperparameter (1 for a new subnet)
    AdjustmentInterval,             \* blocks between two adjustments (360)
    ImmunityPeriod,                 \* blocks a new neuron is immune (5000)
    NetworkRateLimit,               \* blocks between two new subnets (7200)
    Tempo,                          \* blocks between two epochs, minus one
    MaxScore,                       \* the largest pruning score, u16::MAX
    MaxBlock                        \* bound: the last block explored

ASSUME RegistrationAssumption ==
    /\ MaxRegistrationsPerBlock \in Nat
    /\ TargetRegistrationsPerInterval \in Nat
    /\ AdjustmentInterval \in Nat
    /\ ImmunityPeriod \in Nat
    /\ NetworkRateLimit \in Nat
    /\ Tempo \in Nat
    /\ MaxScore \in Nat
    /\ MaxBlock \in Nat

VARIABLES
    block,                         \* the current block number
    BlockAtRegistration,           \* [n][u]: block the neuron in slot u came at
    PruningScores,                 \* [n]: a sequence, uid u at index u + 1
    RegistrationsThisBlock, RegistrationsThisInterval,
    BurnRegistrationsThisInterval, POWRegistrationsThisInterval,
    LastAdjustmentBlock,           \* [n]: block of the last adjustment
    NetworkLastRegistered          \* block of the last subnet creation

counters == <<RegistrationsThisBlock, RegistrationsThisInterval,
              BurnRegistrationsThisInterval, POWRegistrationsThisInterval,
              LastAdjustmentBlock>>
registrationVars ==
    <<vars, block, BlockAtRegistration, PruningScores, counters, NetworkLastRegistered>>

Clock == INSTANCE EpochClock

Scores == 0..MaxScore

RegistrationInit ==
    /\ Init
    /\ block = 0
    /\ BlockAtRegistration = [n \in NetUids |-> [u \in UidSpace |-> 0]]
    /\ PruningScores = [n \in NetUids |-> IF n = 1 THEN <<0>> ELSE << >>]
    /\ RegistrationsThisBlock = [n \in NetUids |-> 0]
    /\ RegistrationsThisInterval = [n \in NetUids |-> 0]
    /\ BurnRegistrationsThisInterval = [n \in NetUids |-> 0]
    /\ POWRegistrationsThisInterval = [n \in NetUids |-> 0]
    /\ LastAdjustmentBlock = [n \in NetUids |-> 0]
    /\ NetworkLastRegistered = 0

-----------------------------------------------------------------------------
\* Which neuron to prune.

get_neuron_is_immune(n, u) == block - BlockAtRegistration[n][u] < ImmunityPeriod

\* A uid past the end of the vector scores the maximum.
get_pruning_score_for_uid(n, u) ==
    IF u + 1 \in DOMAIN PruningScores[n] THEN PruningScores[n][u + 1] ELSE MaxScore

IsOwnerSlot(n, u) == Keys[n][u] = SubnetOwnerHotkey[n]

\* Mutant: among equal scores the latest registration is pruned.
Better_latest(n, u, best) ==
    IF get_pruning_score_for_uid(n, u) <= best.score
      THEN [score |-> get_pruning_score_for_uid(n, u),
            registered |-> BlockAtRegistration[n][u], uid |-> u]
      ELSE best

\* One step of the scan: u is the new candidate when it scores less than the
\* best so far, or as much and registered earlier.
Better(n, u, best) ==
    IF \/ get_pruning_score_for_uid(n, u) < best.score
       \/ /\ get_pruning_score_for_uid(n, u) = best.score
          /\ BlockAtRegistration[n][u] < best.registered
      THEN [score |-> get_pruning_score_for_uid(n, u),
            registered |-> BlockAtRegistration[n][u], uid |-> u]
      ELSE best

\* Before the loop no neuron is found.  MaxBlock + 1 stands for u64::MAX.
NoCandidate == [score |-> MaxScore, registered |-> MaxBlock + 1, uid |-> 0]
ScanStart == [immune |-> NoCandidate, other |-> NoCandidate, found_non_immune |-> FALSE]

\* The body of the loop for uid u, with a best candidate among the immune
\* neurons and one among the others.
ScanStep(n, u, s) ==
    IF IsOwnerSlot(n, u) THEN s
    ELSE IF get_neuron_is_immune(n, u) THEN [s EXCEPT !.immune = Better(n, u, @)]
    ELSE [s EXCEPT !.other = Better(n, u, @), !.found_non_immune = TRUE]

\* The loop over the uids.
Scan(n) ==
    LET scan[k \in 0..SubnetworkN[n]] ==
            IF k = 0 THEN ScanStart ELSE ScanStep(n, k - 1, scan[k - 1])
    IN  scan[SubnetworkN[n]]

\* Mutant: no candidate is kept among the immune neurons.
get_neuron_to_prune_mortal_only(n) == Scan(n).other.uid

get_neuron_to_prune(n) ==
    LET last == Scan(n)
    IN  IF last.found_non_immune THEN last.other.uid ELSE last.immune.uid

-----------------------------------------------------------------------------
\* Registration.

AppendNeuron(n, h) ==
    /\ append_neuron(n, h)
    /\ BlockAtRegistration' = [BlockAtRegistration EXCEPT ![n][SubnetworkN[n]] = block]
    /\ PruningScores' = [PruningScores EXCEPT ![n] = Append(@, 0)]

\* The slot of the subnet owner's hotkey is skipped without an error.
ReplaceNeuron(n, u, h) ==
    IF IsOwnerSlot(n, u)
      THEN UNCHANGED <<Keys, Uids, IsNetworkMember, SubnetworkN, BlockAtRegistration>>
      ELSE /\ replace_neuron(n, u, h)
           /\ BlockAtRegistration' = [BlockAtRegistration EXCEPT ![n][u] = block]

\* get_neuron_to_prune also gives the chosen uid the maximal score.
register_neuron(n, h) ==
    IF SubnetworkN[n] < MaxAllowedUids[n]
      THEN AppendNeuron(n, h)
      ELSE LET u == get_neuron_to_prune(n)
           IN  /\ ReplaceNeuron(n, u, h)
               /\ PruningScores' = [PruningScores EXCEPT ![n][u + 1] = MaxScore]

\* Mutant: a hotkey that holds a slot may register again.
MayRegister_again(n, h) ==
    /\ n \in NetworksAdded
    /\ RegistrationsThisBlock[n] < MaxRegistrationsPerBlock
    /\ RegistrationsThisInterval[n] < 3 * TargetRegistrationsPerInterval

\* Mutant: the limit per block is not checked.
MayRegister_unlimited(n, h) ==
    /\ n \in NetworksAdded
    /\ RegistrationsThisInterval[n] < 3 * TargetRegistrationsPerInterval
    /\ ~is_hotkey_registered_on_network(n, h)

\* The checks burned, proof-of-work and root registration share.
MayRegister(n, h) ==
    /\ n \in NetworksAdded
    /\ RegistrationsThisBlock[n] < MaxRegistrationsPerBlock
    /\ RegistrationsThisInterval[n] < 3 * TargetRegistrationsPerInterval
    /\ ~is_hotkey_registered_on_network(n, h)

CountRegistration(n) ==
    /\ RegistrationsThisBlock' = [RegistrationsThisBlock EXCEPT ![n] = @ + 1]
    /\ RegistrationsThisInterval' = [RegistrationsThisInterval EXCEPT ![n] = @ + 1]

do_burned_registration(n, h) ==
    /\ n # ROOT
    /\ MayRegister(n, h)
    /\ register_neuron(n, h)
    /\ CountRegistration(n)
    /\ BurnRegistrationsThisInterval' = [BurnRegistrationsThisInterval EXCEPT ![n] = @ + 1]
    /\ UNCHANGED <<NetworksAdded, MaxAllowedUids, SubnetOwnerHotkey, block,
                   POWRegistrationsThisInterval, LastAdjustmentBlock, NetworkLastRegistered>>

do_registration(n, h) ==
    /\ n # ROOT
    /\ MayRegister(n, h)
    /\ register_neuron(n, h)
    /\ CountRegistration(n)
    /\ POWRegistrationsThisInterval' = [POWRegistrationsThisInterval EXCEPT ![n] = @ + 1]
    /\ UNCHANGED <<NetworksAdded, MaxAllowedUids, SubnetOwnerHotkey, block,
                   BurnRegistrationsThisInterval, LastAdjustmentBlock, NetworkLastRegistered>>

\* On root the slot with the least stake is replaced, whatever its scores.
\* Skipping the owner's slot would leave the newcomer unregistered, which
\* join_senate_if_eligible answers with an error: no step.
do_root_register(h) ==
    LET n == ROOT IN
    /\ MayRegister(n, h)
    /\ \/ /\ SubnetworkN[n] < MaxAllowedUids[n]
          /\ AppendNeuron(n, h)
       \/ /\ SubnetworkN[n] >= MaxAllowedUids[n]
          /\ \E u \in 0..(SubnetworkN[n] - 1) :
                /\ replace_neuron(n, u, h)
                /\ BlockAtRegistration' = [BlockAtRegistration EXCEPT ![n][u] = block]
          /\ UNCHANGED PruningScores
    /\ CountRegistration(n)
    /\ UNCHANGED <<NetworksAdded, MaxAllowedUids, SubnetOwnerHotkey, block,
                   BurnRegistrationsThisInterval, POWRegistrationsThisInterval,
                   LastAdjustmentBlock, NetworkLastRegistered>>

-----------------------------------------------------------------------------
\* Subnets, hyperparameters, key swaps and the clock.

\* Mutant: the block the next subnet may come at is stored instead.
do_register_network_stores_next(n, h) ==
    /\ block - NetworkLastRegistered >= NetworkRateLimit
    /\ AddNetwork(n, h)
    /\ NetworkLastRegistered' = block + NetworkRateLimit
    /\ BlockAtRegistration' = [BlockAtRegistration EXCEPT ![n][0] = block]
    /\ PruningScores' = [PruningScores EXCEPT ![n] = Append(@, 0)]
    /\ UNCHANGED <<block, counters>>

do_register_network(n, h) ==
    /\ block - NetworkLastRegistered >= NetworkRateLimit
    /\ AddNetwork(n, h)
    /\ NetworkLastRegistered' = block
    /\ BlockAtRegistration' = [BlockAtRegistration EXCEPT ![n][0] = block]
    /\ PruningScores' = [PruningScores EXCEPT ![n] = Append(@, 0)]
    /\ UNCHANGED <<block, counters>>

\* Mutant: the scores and the proof-of-work counter stay behind too.
remove_network_partial(n) ==
    /\ RemoveNetwork(n)
    /\ RegistrationsThisInterval' = [RegistrationsThisInterval EXCEPT ![n] = 0]
    /\ BurnRegistrationsThisInterval' = [BurnRegistrationsThisInterval EXCEPT ![n] = 0]
    /\ UNCHANGED <<block, BlockAtRegistration, PruningScores, RegistrationsThisBlock,
                   POWRegistrationsThisInterval, LastAdjustmentBlock, NetworkLastRegistered>>

\* The interval counters go; the block counter, the last adjustment block and
\* the registration blocks stay behind.
remove_network(n) ==
    /\ RemoveNetwork(n)
    /\ PruningScores' = [PruningScores EXCEPT ![n] = << >>]
    /\ RegistrationsThisInterval' = [RegistrationsThisInterval EXCEPT ![n] = 0]
    /\ POWRegistrationsThisInterval' = [POWRegistrationsThisInterval EXCEPT ![n] = 0]
    /\ BurnRegistrationsThisInterval' = [BurnRegistrationsThisInterval EXCEPT ![n] = 0]
    /\ UNCHANGED <<block, BlockAtRegistration, RegistrationsThisBlock,
                   LastAdjustmentBlock, NetworkLastRegistered>>

\* Operations that only touch the slot table.
TableOnly == UNCHANGED <<block, BlockAtRegistration, PruningScores, counters,
                         NetworkLastRegistered>>

do_swap_hotkey(old, new) ==
    /\ \/ SwapHotkeyAll(old, new)
       \/ \E n \in NetUids : SwapHotkeyOnSubnet(n, old, new)
    /\ TableOnly

sudo_set_max_allowed_uids(n, m) == SetMaxAllowedUids(n, m) /\ TableOnly

do_set_sn_owner_hotkey(n, h) == SetSubnetOwnerHotkey(n, h) /\ TableOnly

should_run_epoch(n, b) == Clock!should_run_epoch(n, Tempo, b)

\* Mutant: the interval counters are drained every block.
adjust_registration_terms_for_networks_drains(b) ==
    /\ LastAdjustmentBlock' = [n \in NetUids |->
           IF n \in NetworksAdded /\ b - LastAdjustmentBlock[n] >= AdjustmentInterval
             THEN b ELSE LastAdjustmentBlock[n]]
    /\ RegistrationsThisInterval' = [n \in NetUids |-> 0]
    /\ POWRegistrationsThisInterval' = [n \in NetUids |-> 0]
    /\ BurnRegistrationsThisInterval' = [n \in NetUids |-> 0]
    /\ RegistrationsThisBlock' = [n \in NetUids |-> 0]

\* Every live network loses its block counter; one whose interval is over is
\* adjusted and loses its interval counters too.
adjust_registration_terms_for_networks(b) ==
    LET due == {n \in NetworksAdded : b - LastAdjustmentBlock[n] >= AdjustmentInterval}
        Drain(f) == [n \in NetUids |-> IF n \in due THEN 0 ELSE f[n]]
    IN  /\ LastAdjustmentBlock' =
             [n \in NetUids |-> IF n \in due THEN b ELSE LastAdjustmentBlock[n]]
        /\ RegistrationsThisInterval' = Drain(RegistrationsThisInterval)
        /\ POWRegistrationsThisInterval' = Drain(POWRegistrationsThisInterval)
        /\ BurnRegistrationsThisInterval' = Drain(BurnRegistrationsThisInterval)
        /\ RegistrationsThisBlock' =
             [n \in NetUids |-> IF n \in NetworksAdded THEN 0 ELSE RegistrationsThisBlock[n]]

\* The epochs of this block: each rewrites the scores of all neurons.
RunEpochs(b) ==
    LET due == {n \in NetworksAdded \ {ROOT} : should_run_epoch(n, b)}
    IN  \E scores \in [due -> UNION {[1..k -> Scores] : k \in {SubnetworkN[n] : n \in due}}] :
            /\ \A n \in due : Len(scores[n]) = SubnetworkN[n]
            /\ PruningScores' = [n \in NetUids |->
                                    IF n \in due THEN scores[n] ELSE PruningScores[n]]

\* on_initialize of the next block.
block_step ==
    /\ block < MaxBlock
    /\ block' = block + 1
    /\ adjust_registration_terms_for_networks(block + 1)
    /\ RunEpochs(block + 1)
    /\ UNCHANGED <<vars, BlockAtRegistration, NetworkLastRegistered>>

RegistrationNext ==
    \/ \E n \in NetUids, h \in Hotkeys : do_burned_registration(n, h)
    \/ \E n \in NetUids, h \in Hotkeys : do_registration(n, h)
    \/ \E h \in Hotkeys : do_root_register(h)
    \/ \E n \in NetUids, h \in Hotkeys : do_register_network(n, h)
    \/ \E n \in NetUids : remove_network(n)
    \/ \E old, new \in Hotkeys : do_swap_hotkey(old, new)
    \/ \E n \in NetUids, m \in 1..UidLimit : sudo_set_max_allowed_uids(n, m)
    \/ \E n \in NetUids, h \in Hotkeys : do_set_sn_owner_hotkey(n, h)
    \/ block_step

RegistrationSpec == RegistrationInit /\ [][RegistrationNext]_registrationVars

-----------------------------------------------------------------------------
\* Properties.

RegistrationTypeOK ==
    /\ block \in 0..MaxBlock
    /\ BlockAtRegistration \in [NetUids -> [UidSpace -> 0..MaxBlock]]
    /\ PruningScores \in [NetUids -> Seq(Scores)]
    /\ {RegistrationsThisBlock, RegistrationsThisInterval, BurnRegistrationsThisInterval,
        POWRegistrationsThisInterval, LastAdjustmentBlock} \subseteq [NetUids -> Nat]
    /\ NetworkLastRegistered \in 0..MaxBlock

\* Registration with its pruning rule, its limits and its clock only ever does
\* to the slot table what Neurons allows.
ImplementsNeurons == Spec

\* The per-neuron vectors grow and go with the slot table: a registration
\* never finds a uid without a score, and set_pruning_score_for_uid's
\* assertion that the uid is below SubnetworkN cannot fail.
VectorsInStep == \A n \in NetUids : Len(PruningScores[n]) = SubnetworkN[n]

\* The neurons that may be pruned: all but the owner's, and of these the ones
\* out of immunity if there are any.
Prunable(n) == {u \in 0..(SubnetworkN[n] - 1) : ~IsOwnerSlot(n, u)}
Mortal(n) == {u \in Prunable(n) : ~get_neuron_is_immune(n, u)}
PruneFrom(n) == IF Mortal(n) # {} THEN Mortal(n) ELSE Prunable(n)

\* u goes before v: it scores less, or as much and registered earlier, or as
\* early and has the lower uid.
Before(n, u, v) ==
    LET Score(w) == get_pruning_score_for_uid(n, w)
        Came(w) == BlockAtRegistration[n][w]
    IN  \/ Score(u) < Score(v)
        \/ Score(u) = Score(v) /\ (Came(u) < Came(v) \/ (Came(u) = Came(v) /\ u < v))

PrunedFirst(n, S, u) == u \in S /\ \A v \in S \ {u} : Before(n, u, v)

\* The loop of get_neuron_to_prune computes what its comment says
\* (registration.rs:408): never the owner's neuron, one out of immunity if
\* there is one, the lowest score, then the earliest registration, then the
\* lowest uid.
PrunesAsDocumented ==
    \A n \in NetworksAdded :
        Prunable(n) # {} => PrunedFirst(n, PruneFrom(n), get_neuron_to_prune(n))

\* A registration that is counted, and so paid for, really gives a hotkey that
\* had no slot a slot: ReplaceNeuron's silent skip is never what it gets.
CountedIsRegistered ==
    [][\A n \in NetUids :
          RegistrationsThisInterval'[n] > RegistrationsThisInterval[n]
            => \E h \in Hotkeys : Uids[n][h] = NoUid /\ Uids'[n][h] # NoUid]_registrationVars

\* The interval counter of a subnet, which the adjustment compares with its
\* target, is the sum of the two counters that decide between burn and
\* difficulty; root counts in the first only.
CountersAgree ==
    \A n \in NetUids \ {ROOT} :
        RegistrationsThisInterval[n] =
            BurnRegistrationsThisInterval[n] + POWRegistrationsThisInterval[n]

\* The neurons of a subnet that came since its last adjustment, and the ones
\* that came in this block.
Fresh(n) == {u \in 0..(SubnetworkN[n] - 1) : BlockAtRegistration[n][u] >= LastAdjustmentBlock[n]}
Newcomers(n) == {u \in 0..(SubnetworkN[n] - 1) : BlockAtRegistration[n][u] = block}

\* The neurons that came to a live network since its last adjustment are the
\* counted ones and at most one more, its first: what the interval limit of
\* three times the target is meant to bound.
FreshNeuronsCounted ==
    \A n \in NetworksAdded : Cardinality(Fresh(n)) <= RegistrationsThisInterval[n] + 1

\* Within one block a live network takes no more newcomers than
\* MaxRegistrationsPerBlock, its first neuron aside, even when it is removed
\* and created again in that block.
NewcomersPerBlock ==
    \A n \in NetworksAdded : Cardinality(Newcomers(n)) <= MaxRegistrationsPerBlock + 1

\* The bookkeeping of registrations: the type of every variable, a score for
\* every uid, and counters that agree with one another and with the neurons
\* that came (registration.rs, block_step.rs).
RegistrationsSound ==
    /\ RegistrationTypeOK /\ VectorsInStep
    /\ CountersAgree /\ FreshNeuronsCounted /\ NewcomersPerBlock

\* What the proofs add to make the above inductive: no neuron came in a block
\* that is still to come, and the block counter both counts the newcomers and
\* keeps its limit.
RegistrationInv ==
    /\ NeuronsInv
    /\ RegistrationTypeOK /\ VectorsInStep
    /\ CountersAgree /\ FreshNeuronsCounted
    /\ \A n \in NetUids, u \in UidSpace : BlockAtRegistration[n][u] <= block
    /\ \A n \in NetUids : RegistrationsThisBlock[n] <= MaxRegistrationsPerBlock
    /\ \A n \in NetworksAdded : Cardinality(Newcomers(n)) <= RegistrationsThisBlock[n] + 1
=============================================================================
