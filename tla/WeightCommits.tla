---------------------------- MODULE WeightCommits ----------------------------
(***************************************************************************)
(* Commit-reveal of weights on one subnet of pallet-subtensor.             *)
(*                                                                         *)
(* A validator commits the hash of its weights and reveals them itself one *)
(* reveal period of epochs later (WeightCommits, a queue per hotkey), or   *)
(* commits them encrypted for a drand round and the chain reveals them at  *)
(* the epoch (CRV3WeightCommits, a queue per epoch).  Weights and          *)
(* LastUpdate are kept per uid, the commits per hotkey, and the mapping    *)
(* between the two changes under them: neurons are replaced and hotkeys    *)
(* are swapped.                                                            *)
(*                                                                         *)
(* A set of weights is a payload.  Stake, permits, version keys and the    *)
(* shape of a payload decide only whether do_set_weights accepts it and    *)
(* are left nondeterministic; a dispatchable that fails is rolled back, so *)
(* it is no step.  A batch call that continues on errors is a sequence of  *)
(* the single calls.  An empty queue stands for an absent one.             *)
(***************************************************************************)
EXTENDS EpochClock, FiniteSetsExt, Sequences

CONSTANTS
    Hotkeys,
    Netuid,
    Slots,       \* number of neurons of the subnet
    Payloads,    \* the weights a neuron may set
    NoWeights,   \* weights never set
    MaxCommits,  \* unrevealed commits a hotkey may have (10)
    RateLimit,   \* WeightsSetRateLimit: blocks between two commits of a neuron
    Tempos,      \* bound: the tempos root may set
    Periods,     \* bound: the reveal periods an owner may set
    MaxBlock     \* bound: the last block explored

ASSUME WeightCommitsAssumption ==
    /\ Netuid \in Nat \ {0}
    /\ Slots \in Nat \ {0}
    /\ NoWeights \notin Payloads
    /\ MaxCommits \in Nat \ {0}
    /\ RateLimit \in Nat
    /\ Tempos \subseteq Nat
    /\ Periods \subseteq Nat
    /\ MaxBlock \in Nat \ {0}

VARIABLES
    block,
    Tempo, RevealPeriodEpochs, CommitRevealWeightsEnabled,
    Keys,               \* [uid -> hotkey]
    LastUpdate,         \* [uid -> block], 0: never
    Weights,            \* [uid -> payload]
    WeightCommits,      \* [hotkey -> queue of commits]
    CRV3WeightCommits   \* [epoch -> queue of encrypted commits]

params == <<Tempo, RevealPeriodEpochs, CommitRevealWeightsEnabled>>
neurons == <<Keys, LastUpdate, Weights>>
commits == <<WeightCommits, CRV3WeightCommits>>
vars == <<block, params, neurons, commits>>

Uids == 0..(Slots - 1)
Epochs == 0..(MaxBlock + Netuid + 2)

\* The hash of a payload covers the hotkey that reveals it.
Hash(who, payload) == <<who, payload>>

Epoch(b) == get_epoch_index(Netuid, Tempo, b)

is_hotkey_registered(who) == \E u \in Uids : Keys[u] = who
get_uid(who) == CHOOSE u \in Uids : Keys[u] = who

\* Some tempo, period and switch, as an owner may have set them, and a full
\* subnet: uid 0 is the genesis neuron, the others came in the first block.
Init ==
    /\ block = 1
    /\ Tempo \in Tempos
    /\ RevealPeriodEpochs \in Periods
    /\ CommitRevealWeightsEnabled \in BOOLEAN
    /\ Keys \in {k \in [Uids -> Hotkeys] : \A u, v \in Uids : k[u] = k[v] => u = v}
    /\ LastUpdate = [u \in Uids |-> IF u = 0 THEN 0 ELSE 1]
    /\ Weights = [u \in Uids |-> NoWeights]
    /\ WeightCommits = [h \in Hotkeys |-> << >>]
    /\ CRV3WeightCommits = [e \in Epochs |-> << >>]

-----------------------------------------------------------------------------
\* Mutant: the limit is ignored for a neuron that committed in this block.
check_rate_limit_same_block(u, b) ==
    LastUpdate[u] \in {0, b} \/ b - LastUpdate[u] >= RateLimit

check_rate_limit(u, b) == LastUpdate[u] = 0 \/ b - LastUpdate[u] >= RateLimit

\* What the two kinds of commit require.
MayCommit(who) ==
    /\ CommitRevealWeightsEnabled
    /\ is_hotkey_registered(who)
    /\ check_rate_limit(get_uid(who), block)

IsExpired(c) == is_commit_expired(Netuid, Tempo, RevealPeriodEpochs, c.block, block)
InWindow(c) == is_reveal_block_range(Netuid, Tempo, RevealPeriodEpochs, c.block, block)

\* The least of some places in a queue; 0: there is none.
FirstOf(I) == IF I = {} THEN 0 ELSE Min(I)

\* Mutant: one expired commit is popped where all should be.
DropExpired_one(q) == IF q # << >> /\ IsExpired(Head(q)) THEN Tail(q) ELSE q

\* Mutant: no commit is popped.
DropExpired_none(q) == q

\* Expired commits are popped from the front up to the first other one.
DropExpired(q) ==
    LET first == FirstOf({i \in 1..Len(q) : ~IsExpired(q[i])})
    IN  IF first = 0 THEN << >> ELSE SubSeq(q, first, Len(q))

\* Mutant: room for one more.
do_commit_weights_one_more(who, payload) ==
    LET q == DropExpired(WeightCommits[who])
        w == get_reveal_blocks(Netuid, Tempo, RevealPeriodEpochs, block)
    IN
    /\ MayCommit(who)
    /\ Len(q) <= MaxCommits
    /\ WeightCommits' = [WeightCommits EXCEPT ![who] = Append(q,
           [hash |-> Hash(who, payload), block |-> block, first |-> w.first, last |-> w.last])]
    /\ LastUpdate' = [LastUpdate EXCEPT ![get_uid(who)] = block]
    /\ UNCHANGED <<block, params, Keys, Weights, CRV3WeightCommits>>

do_commit_weights(who, payload) ==
    LET q == DropExpired(WeightCommits[who])
        w == get_reveal_blocks(Netuid, Tempo, RevealPeriodEpochs, block)
    IN
    /\ MayCommit(who)
    /\ Len(q) < MaxCommits
    /\ WeightCommits' = [WeightCommits EXCEPT ![who] = Append(q,
           [hash |-> Hash(who, payload), block |-> block, first |-> w.first, last |-> w.last])]
    /\ LastUpdate' = [LastUpdate EXCEPT ![get_uid(who)] = block]
    /\ UNCHANGED <<block, params, Keys, Weights, CRV3WeightCommits>>

\* Where the first commit of the payload is in a queue; 0: nowhere.
PositionOf(who, payload, q) == FirstOf({i \in 1..Len(q) : q[i].hash = Hash(who, payload)})

\* do_set_weights while commit-reveal is on: the rate limit was paid by the
\* commit.
SetRevealed(who, payload) ==
    /\ is_hotkey_registered(who)
    /\ Weights' = [Weights EXCEPT ![get_uid(who)] = payload]

\* Mutant: any commit that is not expired may be revealed.
do_reveal_weights_early(who, payload) ==
    LET q == DropExpired(WeightCommits[who])
        at == PositionOf(who, payload, q)
    IN
    /\ CommitRevealWeightsEnabled
    /\ at # 0
    /\ WeightCommits' = [WeightCommits EXCEPT ![who] = SubSeq(q, at + 1, Len(q))]
    /\ SetRevealed(who, payload)
    /\ UNCHANGED <<block, params, Keys, LastUpdate, CRV3WeightCommits>>

\* The first commit of the payload that is not popped must be in its window.
MayReveal(who, payload) ==
    LET q == DropExpired(WeightCommits[who])
        at == PositionOf(who, payload, q)
    IN
    /\ CommitRevealWeightsEnabled
    /\ at # 0
    /\ InWindow(q[at])

\* The commits before the revealed one go with it.
do_reveal_weights(who, payload) ==
    LET q == DropExpired(WeightCommits[who])
        at == PositionOf(who, payload, q)
    IN
    /\ MayReveal(who, payload)
    /\ WeightCommits' = [WeightCommits EXCEPT ![who] = SubSeq(q, at + 1, Len(q))]
    /\ SetRevealed(who, payload)
    /\ UNCHANGED <<block, params, Keys, LastUpdate, CRV3WeightCommits>>

Without(q, at) == SubSeq(q, 1, at - 1) \o SubSeq(q, at + 1, Len(q))

\* What is left of a queue when each payload's first commit is removed in turn.
AfterBatch(who, q, payloads) ==
    LET rest[n \in 0..Len(payloads)] ==
            IF n = 0 THEN q ELSE Without(rest[n - 1], PositionOf(who, payloads[n], rest[n - 1]))
    IN  rest[Len(payloads)]

\* Of each payload the first commit must be in its window; then each is
\* removed on its own, and the last payload is what remains set.
do_batch_reveal_weights(who, payloads) ==
    LET q == DropExpired(WeightCommits[who])
        Copies(p) == Cardinality({i \in DOMAIN q : q[i].hash = Hash(who, p)})
    IN
    /\ CommitRevealWeightsEnabled
    /\ WeightCommits[who] # << >>
    /\ \A p \in Range(payloads) :
          /\ Copies(p) >= Cardinality({i \in DOMAIN payloads : payloads[i] = p})
          /\ InWindow(q[PositionOf(who, p, q)])
    /\ WeightCommits' = [WeightCommits EXCEPT ![who] = AfterBatch(who, q, payloads)]
    /\ IF payloads = << >> THEN UNCHANGED Weights ELSE SetRevealed(who, payloads[Len(payloads)])
    /\ UNCHANGED <<block, params, Keys, LastUpdate, CRV3WeightCommits>>

\* Mutant: the next block is noted as the neuron's last update.
set_weights_next(who, payload) ==
    /\ ~CommitRevealWeightsEnabled
    /\ is_hotkey_registered(who)
    /\ check_rate_limit(get_uid(who), block)
    /\ Weights' = [Weights EXCEPT ![get_uid(who)] = payload]
    /\ LastUpdate' = [LastUpdate EXCEPT ![get_uid(who)] = block + 1]
    /\ UNCHANGED <<block, params, Keys, commits>>

\* The dispatchable, refused while commit-reveal is on.
set_weights(who, payload) ==
    /\ ~CommitRevealWeightsEnabled
    /\ is_hotkey_registered(who)
    /\ check_rate_limit(get_uid(who), block)
    /\ Weights' = [Weights EXCEPT ![get_uid(who)] = payload]
    /\ LastUpdate' = [LastUpdate EXCEPT ![get_uid(who)] = block]
    /\ UNCHANGED <<block, params, Keys, commits>>

-----------------------------------------------------------------------------
\* Encrypted commits.

\* Mutant: a commit in the block of an epoch is filed under the epoch that
\* has just run.
CommitEpoch_current(b) == Epoch(b)

\* The epoch of block b ran before b's calls: they belong to the next one.
CommitEpoch(b) ==
    IF should_run_epoch(Netuid, Tempo, b) THEN Epoch(b) + 1 ELSE Epoch(b)

\* The entry's commit block is not stored; it is here to state properties.
do_commit_crv3_weights(who, payload) ==
    LET e == CommitEpoch(block) IN
    /\ MayCommit(who)
    /\ Len(SelectSeq(CRV3WeightCommits[e], LAMBDA c : c.who = who)) < MaxCommits
    /\ CRV3WeightCommits' = [CRV3WeightCommits EXCEPT ![e] =
           Append(@, [who |-> who, payload |-> payload, block |-> block])]
    /\ LastUpdate' = [LastUpdate EXCEPT ![get_uid(who)] = block]
    /\ UNCHANGED <<block, params, Keys, Weights, WeightCommits>>

RevealEpoch(b) == Monus(Epoch(b), Monus(RevealPeriodEpochs, 1))

\* Mutant: only the epoch that is revealed is cleared.
ClearedEpochs_revealed(b) == IF Epoch(b) < 2 THEN {} ELSE {RevealEpoch(b)}

\* The epochs whose commits go at block b: those before the one to reveal,
\* and from epoch 2 on that one.
ClearedEpochs(b) ==
    {e \in Epochs : e < RevealEpoch(b) \/ (e = RevealEpoch(b) /\ Epoch(b) >= 2)}

\* At the epoch in block b every entry is tried in turn and goes, whether it
\* could be decrypted and set or not.  With commit-reveal off meanwhile,
\* do_set_weights checks and uses the neuron's rate limit.
reveal_crv3_commits(b) ==
    LET entries == IF Epoch(b) < 2 THEN << >> ELSE CRV3WeightCommits[RevealEpoch(b)] IN
    \E ok \in SUBSET DOMAIN entries :
        LET Of(u) == {i \in ok : entries[i].who = Keys[u]} IN
        /\ \A i \in ok : is_hotkey_registered(entries[i].who)
        /\ CommitRevealWeightsEnabled \/ \A u \in Uids : Of(u) # {} =>
              /\ check_rate_limit(u, b)
              /\ Cardinality(Of(u)) = 1 \/ RateLimit = 0
        /\ Weights' = [u \in Uids |->
               IF Of(u) = {} THEN Weights[u] ELSE entries[Max(Of(u))].payload]
        /\ LastUpdate' = [u \in Uids |->
               IF CommitRevealWeightsEnabled \/ Of(u) = {} THEN LastUpdate[u] ELSE b]
        /\ CRV3WeightCommits' = [e \in Epochs |->
               IF e \in ClearedEpochs(b) THEN << >> ELSE CRV3WeightCommits[e]]

\* on_initialize of the next block.
block_step ==
    /\ block < MaxBlock
    /\ block' = block + 1
    /\ IF should_run_epoch(Netuid, Tempo, block + 1)
         THEN reveal_crv3_commits(block + 1)
         ELSE UNCHANGED <<LastUpdate, Weights, CRV3WeightCommits>>
    /\ UNCHANGED <<params, Keys, WeightCommits>>

-----------------------------------------------------------------------------
\* The rest of the chain: hyperparameters, registration, key swaps.

sudo_set_tempo(t) ==
    /\ Tempo' = t
    /\ UNCHANGED <<block, RevealPeriodEpochs, CommitRevealWeightsEnabled, neurons, commits>>

sudo_set_commit_reveal_weights_interval(r) ==
    /\ RevealPeriodEpochs' = r
    /\ UNCHANGED <<block, Tempo, CommitRevealWeightsEnabled, neurons, commits>>

sudo_set_commit_reveal_weights_enabled(e) ==
    /\ CommitRevealWeightsEnabled' = e
    /\ UNCHANGED <<block, Tempo, RevealPeriodEpochs, neurons, commits>>

\* The newcomer takes over the slot's weights and last update; the commits of
\* the hotkey that leaves stay.
replace_neuron(u, new) ==
    /\ ~is_hotkey_registered(new)
    /\ Keys' = [Keys EXCEPT ![u] = new]
    /\ UNCHANGED <<block, params, LastUpdate, Weights, commits>>

\* The queue of old, if there is one, replaces new's.  Encrypted commits
\* keep the hotkey that made them.
swap_hotkey(old, new) ==
    /\ is_hotkey_registered(old) /\ ~is_hotkey_registered(new)
    /\ Keys' = [Keys EXCEPT ![get_uid(old)] = new]
    /\ WeightCommits' =
         IF WeightCommits[old] = << >> THEN WeightCommits
         ELSE [WeightCommits EXCEPT ![old] = << >>, ![new] = WeightCommits[old]]
    /\ UNCHANGED <<block, params, LastUpdate, Weights, CRV3WeightCommits>>

Batches == {<< >>} \cup {<<p, q>> : p, q \in Payloads}

HashSteps ==
    \E h \in Hotkeys, p \in Payloads : do_commit_weights(h, p) \/ do_reveal_weights(h, p)

BatchSteps == \E h \in Hotkeys, ps \in Batches : do_batch_reveal_weights(h, ps)

Encrypted == \E h \in Hotkeys, p \in Payloads : do_commit_crv3_weights(h, p)

Neurons ==
    \/ \E u \in Uids, h \in Hotkeys : replace_neuron(u, h)
    \/ \E old, new \in Hotkeys : swap_hotkey(old, new)

Settings ==
    \/ \E t \in Tempos : sudo_set_tempo(t)
    \/ \E r \in Periods : sudo_set_commit_reveal_weights_interval(r)
    \/ \E e \in BOOLEAN : sudo_set_commit_reveal_weights_enabled(e)

Next ==
    \/ HashSteps
    \/ BatchSteps
    \/ Encrypted
    \/ \E h \in Hotkeys, p \in Payloads : set_weights(h, p)
    \/ Neurons
    \/ Settings
    \/ block_step

Spec == Init /\ [][Next]_vars

\* The part of the chain in which neurons and settings stay as they are and
\* commit-reveal is on.
StableNext == HashSteps \/ BatchSteps \/ Encrypted \/ block_step

StableSpec ==
    /\ Init /\ CommitRevealWeightsEnabled /\ Tempo # 0
    /\ [][StableNext]_vars
-----------------------------------------------------------------------------
\* What is promised.

Blocks == 0..MaxBlock

TypeOK ==
    /\ block \in Blocks
    /\ Tempo \in Tempos /\ RevealPeriodEpochs \in Periods
    /\ CommitRevealWeightsEnabled \in BOOLEAN
    /\ Keys \in [Uids -> Hotkeys] /\ \A u, v \in Uids : Keys[u] = Keys[v] => u = v
    /\ LastUpdate \in [Uids -> 0..block]
    /\ Weights \in [Uids -> Payloads \cup {NoWeights}]
    /\ \A h \in Hotkeys : WeightCommits[h] \in
           Seq([hash : Hotkeys \X Payloads, block : Blocks, first : Nat, last : Nat])
    /\ DOMAIN CRV3WeightCommits = Epochs
    /\ \A e \in Epochs : CRV3WeightCommits[e] \in
           Seq([who : Hotkeys, payload : Payloads, block : Blocks])

\* A hotkey's queue holds at most MaxCommits commits, oldest first, whatever
\* is revealed out of the middle of it or moved by a key swap: the loops that
\* pop expired commits may stop at the first one that is not.
QueuesOrdered ==
    \A h \in Hotkeys :
        LET q == WeightCommits[h] IN
        /\ Len(q) <= MaxCommits
        /\ \A i, j \in 1..Len(q) : i < j => q[i].block <= q[j].block

\* A commit or a reveal leaves no expired commit in the caller's queue, even
\* after a change of tempo or period, so expired commits never use up the
\* limit.
NoExpiredKept ==
    \A h \in Hotkeys :
       WeightCommits'[h] # WeightCommits[h] /\ UNCHANGED Keys
           => \A i \in 1..Len(WeightCommits'[h]) : ~IsExpired(WeightCommits[h][i])'

\* A registered hotkey can reveal each of its own commits whose epoch has come
\* (as far as the weights themselves are acceptable): no older, expired or
\* repeated commit in its queue is in the way.
RevealableNow ==
    \A h \in Hotkeys, p \in Payloads :
        /\ CommitRevealWeightsEnabled
        /\ is_hotkey_registered(h)
        /\ \E i \in 1..Len(WeightCommits[h]) :
              WeightCommits[h][i].hash = Hash(h, p) /\ InWindow(WeightCommits[h][i])
        => MayReveal(h, p)

\* With commit-reveal on, a neuron's weights only change to what the hotkey in
\* its slot committed: a hash commit in exactly the epoch one reveal period
\* ago, which the reveal uses up, or an encrypted commit made before the block
\* of the epoch.
AppliedWereCommitted ==
    \A u \in Uids :
       LET h == Keys[u]
           p == Weights'[u]
       IN  (Weights'[u] # Weights[u] /\ CommitRevealWeightsEnabled) =>
             \/ /\ \E i \in 1..Len(WeightCommits[h]) :
                      WeightCommits[h][i].hash = Hash(h, p) /\ InWindow(WeightCommits[h][i])
                /\ Len(WeightCommits'[h]) < Len(WeightCommits[h])
             \/ /\ should_run_epoch(Netuid, Tempo, block') /\ block' = block + 1
                /\ \E e \in Epochs : \E i \in 1..Len(CRV3WeightCommits[e]) :
                      /\ CRV3WeightCommits[e][i].who = h
                      /\ CRV3WeightCommits[e][i].payload = p
                      /\ CRV3WeightCommits'[e] = << >>

\* A commit or a reveal clears the expired commits, and with commit-reveal on
\* weights change only to what the hotkey committed (do_commit_weights,
\* do_reveal_weights, do_batch_reveal_weights, reveal_crv3_commits).
RevealsSound == [][NoExpiredKept /\ AppliedWereCommitted]_vars

\* While tempo and period stay as they are, the first and last reveal block
\* stored with a commit, which clients read, are exactly the blocks in which
\* the reveal is accepted.
WindowsAgree ==
    \A h \in Hotkeys : \A i \in 1..Len(WeightCommits[h]) :
        LET c == WeightCommits[h][i] IN
        \A b \in Blocks :
            c.first <= b /\ b <= c.last
                <=> is_reveal_block_range(Netuid, Tempo, RevealPeriodEpochs, c.block, b)

\* A hotkey's commits that are still stored: queue, place in it and block.
CommitsOf(h) ==
    {<<-1, i, WeightCommits[h][i].block>> : i \in 1..Len(WeightCommits[h])}
        \cup UNION {{<<e, i, CRV3WeightCommits[e][i].block>> :
                        i \in {j \in 1..Len(CRV3WeightCommits[e]) :
                                  CRV3WeightCommits[e][j].who = h}} : e \in Epochs}

\* As long as hotkeys keep their slots, two commits of a hotkey, hashed or
\* encrypted, are at least RateLimit blocks apart: both kinds draw on the one
\* LastUpdate.
CommitsSpaced ==
    \A h \in Hotkeys : \A c, d \in CommitsOf(h) :
        c # d => c[3] - d[3] >= RateLimit \/ d[3] - c[3] >= RateLimit

\* How many epochs ran in the blocks after one and up to another.
EpochsRun(after, upto) ==
    Cardinality({x \in (after + 1)..upto : should_run_epoch(Netuid, Tempo, x)})

\* Epochs an encrypted commit waits for.
Wait == Max({RevealPeriodEpochs, 1})

\* At the start of the chain the commits of epoch e go at another time: what is
\* due before epoch 2 is dropped, and with a period over 3 the subtraction that
\* gives the epoch to reveal saturates, so epoch 0 is revealed in epoch 2.
AtStart(e) == e + Wait <= 2 \/ (e = 0 /\ Wait > 3)

\* While tempo and period stay as they are, an encrypted commit is tried at
\* the epoch that runs one reveal period after it, not earlier and not later
\* (except at the start of the chain).
CRV3OnTime ==
    \A e \in Epochs : \A i \in 1..Len(CRV3WeightCommits[e]) :
       ~AtStart(e) =>
          (CRV3WeightCommits'[e] = << >>
             <=> EpochsRun(CRV3WeightCommits[e][i].block, block') = Wait)

\* An encrypted commit never outlives its epoch: those still stored wait for
\* an epoch to come.
CRV3NotLate ==
    \A e \in Epochs : \A i \in 1..Len(CRV3WeightCommits[e]) :
        EpochsRun(CRV3WeightCommits[e][i].block, block) <= Wait
=============================================================================
