----------------------- MODULE MCWeightCommits_proofs -----------------------
(***************************************************************************)
(* Proofs about commit-reveal while neurons and settings stay as they are: *)
(* commits are a rate limit apart, the two ways to count a commit's window *)
(* agree, and encrypted commits are tried at their epoch.  What a step     *)
(* does to a queue is taken from the proofs about any steps.               *)
(***************************************************************************)
EXTENDS WeightCommits_proofs, MCWeightCommits

-----------------------------------------------------------------------------
\* While neurons and settings stay as they are and commit-reveal is on.

\* The epochs that run after one block and up to another are the difference of
\* the indices of the epochs that follow.
LEMMA EpochsRunIs ==
  ASSUME Tempo \in Nat \ {0}, NEW a \in Nat, NEW b \in Nat, a <= b
  PROVE  /\ EpochsRun(a, b) = Epoch(b + 1) - Epoch(a + 1)
         /\ Epoch(a + 1) \in Nat /\ Epoch(b + 1) \in Nat
  <1> DEFINE R(x) == {y \in (a + 1)..x : should_run_epoch(Netuid, Tempo, y)}
             E(x) == Epoch(x + 1)
             T == {k \in Nat : IsFiniteSet(R(a + k)) /\ Cardinality(R(a + k)) = E(a + k) - E(a)}
  <1>0. ASSUME NEW x \in Nat PROVE E(x) \in Nat
    <2>1. Netuid \in Nat /\ Tempo \in Nat /\ x + 1 \in Nat /\ x + 1 <= x + 1
      BY WeightCommitsAssumption
    <2> QED BY <2>1, EpochMonotone DEF Epoch
  <1>1. 0 \in T
    <2>1. a + 0 = a
      OBVIOUS
    <2>2. R(a) = {}
      OBVIOUS
    <2>3. IsFiniteSet({}) /\ Cardinality({}) = 0
      BY FS_EmptySet
    <2>4. E(a) - E(a) = 0
      <3> DEFINE e == E(a)
      <3>1. e \in Nat
        BY <1>0
      <3> HIDE DEF e
      <3>2. e - e = 0
        BY <3>1
      <3> QED BY <3>2 DEF e
    <2> HIDE DEF R, E
    <2> QED BY <2>1, <2>2, <2>3, <2>4
  <1>2. ASSUME NEW k \in T PROVE k + 1 \in T
    <2> DEFINE x == a + k
               S == R(x)
    <2>0. k \in Nat /\ x \in Nat /\ x + 1 \in Nat /\ a + (k + 1) = x + 1 /\ x + 1 >= a + 1
      BY <1>2
    <2>1. IsFiniteSet(S) /\ Cardinality(S) = E(x) - E(a)
      BY <1>2
    <2>2. E(x + 1) = E(x) + (IF should_run_epoch(Netuid, Tempo, x + 1) THEN 1 ELSE 0)
      <3>1. Netuid \in Nat /\ x + 1 \in Nat
        BY <2>0, WeightCommitsAssumption
      <3> HIDE DEF x
      <3> QED BY <3>1, EpochTurns DEF Epoch
    <2>3. E(x) \in Nat /\ E(a) \in Nat
      BY <1>0, <2>0
    <2>4. CASE should_run_epoch(Netuid, Tempo, x + 1)
      <3>1. R(x + 1) = S \cup {x + 1}
        <4> HIDE DEF x
        <4> QED BY <2>0, <2>4
      <3>2. x + 1 \notin S
        <4> HIDE DEF x
        <4> QED BY <2>0
      <3> DEFINE y == x + 1
      <3> HIDE DEF S, R, E, y
      <3>3. IsFiniteSet(S \cup {y}) /\ Cardinality(S \cup {y}) = Cardinality(S) + 1
        BY <2>1, <3>2, FS_AddElement DEF y
      <3>4. IsFiniteSet(R(x + 1)) /\ Cardinality(R(x + 1)) = Cardinality(S) + 1
        BY <3>1, <3>3 DEF y
      <3>5. Cardinality(R(x + 1)) = E(x + 1) - E(a)
        <4> DEFINE c == Cardinality(R(x + 1))
                   d == Cardinality(S)
                   f == E(x + 1)
                   g == E(x)
                   i == E(a)
        <4>1. c = d + 1 /\ d = g - i /\ f = g + 1 /\ g \in Nat /\ i \in Nat
          BY <2>1, <2>2, <2>3, <2>4, <3>4
        <4> HIDE DEF c, d, f, g, i
        <4>2. c = f - i
          BY <4>1
        <4> QED BY <4>2 DEF c, f, i
      <3> QED BY <2>0, <3>4, <3>5
    <2>5. CASE ~should_run_epoch(Netuid, Tempo, x + 1)
      <3>1. R(x + 1) = S
        <4> HIDE DEF x
        <4> QED BY <2>0, <2>5
      <3>2. E(x + 1) = E(x)
        <4> HIDE DEF x, E
        <4> QED BY <2>2, <2>3, <2>5
      <3> HIDE DEF S, R, E
      <3> QED BY <2>0, <2>1, <3>1, <3>2
    <2> QED BY <2>4, <2>5
  <1>3. b - a \in T
    <2> HIDE DEF T
    <2>1. T \subseteq Nat
      BY DEF T
    <2>2. T = Nat
      BY <1>1, <1>2, <2>1, SetInduction
    <2> QED BY <2>2
  <1>4. a + (b - a) = b
    OBVIOUS
  <1>5. EpochsRun(a, b) = Cardinality(R(b))
    BY DEF EpochsRun
  <1> HIDE DEF R
  <1> QED BY <1>0, <1>3, <1>4, <1>5

\* The calls of a block belong to the epoch that follows it.
LEMMA CommitEpochIs ==
  ASSUME Tempo \in Nat \ {0}, NEW b \in Nat
  PROVE  CommitEpoch(b) = Epoch(b + 1) /\ Epoch(b) \in Nat /\ Epoch(b + 1) \in Nat
  <1>1. Netuid \in Nat /\ Tempo \in Nat /\ b + 1 \in Nat /\ b <= b + 1
    BY WeightCommitsAssumption
  <1>2. Epoch(b) \in Nat /\ Epoch(b + 1) \in Nat
    BY <1>1, EpochMonotone DEF Epoch
  <1>3. Epoch(b + 1) = Epoch(b) + (IF should_run_epoch(Netuid, Tempo, b) THEN 1 ELSE 0)
    BY <1>1, EpochTurns DEF Epoch
  <1> QED BY <1>2, <1>3 DEF CommitEpoch

Entry == [who : Hotkeys, payload : Payloads, block : Blocks]

LEMMA EntryTypes ==
  ASSUME CommitsInv, NEW e \in Epochs
  PROVE  /\ CRV3WeightCommits[e] \in Seq(Entry)
         /\ \A i \in 1..Len(CRV3WeightCommits[e]) :
               CRV3WeightCommits[e][i].block \in Nat /\ CRV3WeightCommits[e][i].who \in Hotkeys
  <1>1. CRV3WeightCommits[e] \in Seq(Entry)
    BY DEF CommitsInv, TypeOK, Entry
  <1>2. \A x \in Entry : x.block \in Nat /\ x.who \in Hotkeys
    BY DEF Entry, Blocks
  <1>3. \A i \in 1..Len(CRV3WeightCommits[e]) : CRV3WeightCommits[e][i] \in Entry
    BY <1>1
  <1> QED BY <1>1, <1>2, <1>3

\* Two blocks are a rate limit apart.
Apart(x, y) == x - y >= RateLimit \/ y - x >= RateLimit

\* With the keys K and the updates L, the slot of the hotkey was updated at block
\* b or later.
Noted(K, L, h, b) == \E u \in Uids : K[u] = h /\ b <= L[u]

\* The reveal blocks stored with a commit are those of its block.
Stored(tempo, period, c) ==
    LET w == get_reveal_blocks(Netuid, tempo, period, c.block)
    IN  c.first = w.first /\ c.last = w.last

QueuesStable ==
    \A h \in Hotkeys : \A i \in 1..Len(WeightCommits[h]) :
        LET c == WeightCommits[h][i] IN
        /\ Stored(Tempo, RevealPeriodEpochs, c) /\ c.block # 0 
        /\ Noted(Keys, LastUpdate, h, c.block)
        /\ \A j \in 1..Len(WeightCommits[h]) : i # j => Apart(c.block, WeightCommits[h][j].block)

\* Of keys K, updates L, queues W and entries C: entry i of epoch e.
EntryStable(K, L, W, C, e, i) ==
    LET c == C[e][i] IN
    /\ c.block # 0 /\ Noted(K, L, c.who, c.block)
    /\ \A j \in 1..Len(W[c.who]) : Apart(c.block, W[c.who][j].block)
    /\ \A f \in Epochs : \A j \in 1..Len(C[f]) :
          (e # f \/ i # j) /\ C[f][j].who = c.who => Apart(c.block, C[f][j].block)

EntriesStable ==
    \A e \in Epochs : \A i \in 1..Len(CRV3WeightCommits[e]) :
        EntryStable(Keys, LastUpdate, WeightCommits, CRV3WeightCommits, e, i)

\* An entry is filed under the epoch after its block, and that one is not over
\* for long.
Timely(e, b) ==
    /\ Epoch(b + 1) - e <= Wait
    /\ ~AtStart(e) => Epoch(b + 1) - e < Wait

EntriesTimed ==
    \A e \in Epochs : \A i \in 1..Len(CRV3WeightCommits[e]) :
        /\ CRV3WeightCommits[e][i].block <= block
        /\ e = Epoch(CRV3WeightCommits[e][i].block + 1)
        /\ Timely(e, block)

StableInv ==
    /\ CommitRevealWeightsEnabled /\ Tempo # 0 /\ block # 0
    /\ QueuesStable /\ EntriesStable /\ EntriesTimed

\* A hotkey that may commit made its earlier commits a rate limit ago.
LEMMA RateLimited ==
  ASSUME CommitsInv, NEW h, MayCommit(h), NEW b \in Nat, b # 0, Noted(Keys, LastUpdate, h, b)
  PROVE  Apart(block, b) /\ Apart(b, block)
  <1>1. PICK u \in Uids : Keys[u] = h /\ b <= LastUpdate[u]
    BY DEF Noted
  <1>2. /\ u = get_uid(h) /\ LastUpdate[u] \in Nat /\ RateLimit \in Nat /\ block \in Nat
        /\ check_rate_limit(get_uid(h), block)
    BY <1>1, InvFacts, UidOf DEF MayCommit, Settled
  <1>3. LastUpdate[u] = 0 \/ block - LastUpdate[u] >= RateLimit
    BY <1>2 DEF check_rate_limit
  <1>4. block - b >= RateLimit
    BY <1>1, <1>2, <1>3
  <1> QED BY <1>4 DEF Apart

\* Updates are only noted later.
LEMMA NotedStays ==
  ASSUME CommitsInv, Keys' = Keys, NEW h, NEW b \in Nat, Noted(Keys, LastUpdate, h, b),
         LastUpdate' = LastUpdate \/ \E v : LastUpdate' = [LastUpdate EXCEPT ![v] = block]
  PROVE  Noted(Keys', LastUpdate', h, b)
  <1>1. PICK u \in Uids : Keys[u] = h /\ b <= LastUpdate[u]
    BY DEF Noted
  <1>2. LastUpdate \in [Uids -> Nat] /\ LastUpdate[u] <= block /\ block \in Nat
    BY InvFacts DEF Settled
  <1>3. LastUpdate'[u] = LastUpdate[u] \/ LastUpdate'[u] = block
    BY <1>2
  <1>4. b <= LastUpdate'[u]
    BY <1>1, <1>2, <1>3
  <1> QED BY <1>1, <1>4 DEF Noted

\* The hotkey that commits notes its block.
LEMMA NotedNow ==
  ASSUME CommitsInv, Keys' = Keys, NEW h, MayCommit(h),
         LastUpdate' = [LastUpdate EXCEPT ![get_uid(h)] = block]
  PROVE  Noted(Keys', LastUpdate', h, block)
  <1>1. get_uid(h) \in Uids /\ Keys[get_uid(h)] = h
    BY InvFacts, UidOf DEF MayCommit
  <1>2. LastUpdate \in [Uids -> Nat] /\ block \in Nat
    BY InvFacts DEF Settled
  <1>3. LastUpdate'[get_uid(h)] = block
    BY <1>1, <1>2
  <1>4. block <= LastUpdate'[get_uid(h)]
    BY <1>2, <1>3
  <1> QED BY <1>1, <1>4 DEF Noted

\* A queue is replaced by one whose commits were in it, each once, or are new.
LEMMA StableQueue ==
  ASSUME CommitsInv, StableInv, NEW h \in Hotkeys, NEW r \in Seq(Commit),
         NEW m \in [1..Len(r) -> Nat],
         \A i \in 1..Len(r) : m[i] # 0 => m[i] \in 1..Len(WeightCommits[h]) /\ r[i] = WeightCommits[h][m[i]],
         \A i, j \in 1..Len(r) : i # j => m[i] # m[j],
         WeightCommits' = [WeightCommits EXCEPT ![h] = r],
         UNCHANGED <<block, params, Keys, CRV3WeightCommits>>,
         \/ LastUpdate' = LastUpdate /\ \A i \in 1..Len(r) : m[i] # 0
         \/ /\ MayCommit(h) /\ LastUpdate' = [LastUpdate EXCEPT ![get_uid(h)] = block]
            /\ \A i \in 1..Len(r) : m[i] = 0 =>
                  r[i].block = block /\ Stored(Tempo, RevealPeriodEpochs, r[i])
  PROVE  StableInv'
  <1> DEFINE w == WeightCommits[h]
             New(i) == /\ MayCommit(h) /\ LastUpdate' = [LastUpdate EXCEPT ![get_uid(h)] = block]
                       /\ r[i].block = block /\ Stored(Tempo, RevealPeriodEpochs, r[i])
  <1>0. /\ block' = block /\ Keys' = Keys /\ CRV3WeightCommits' = CRV3WeightCommits
        /\ Tempo' = Tempo /\ RevealPeriodEpochs' = RevealPeriodEpochs
        /\ CommitRevealWeightsEnabled' = CommitRevealWeightsEnabled
    BY DEF params
  <1>1. /\ block \in Nat /\ block # 0 /\ DOMAIN WeightCommits = Hotkeys
        /\ \A k \in Hotkeys : WeightCommits[k] \in Seq(Commit)
    BY InvFacts DEF Settled, StableInv, CommitsInv
  <1>2. \A k \in Hotkeys : WeightCommits'[k] = IF k = h THEN r ELSE WeightCommits[k]
    BY <1>1
  <1>3. ASSUME NEW i \in 1..Len(r) PROVE m[i] # 0 \/ New(i)
    BY <1>3
  <1>4. \A k, b : b \in Nat /\ Noted(Keys, LastUpdate, k, b) => Noted(Keys', LastUpdate', k, b)
    <2>1. LastUpdate' = LastUpdate \/ \E v : LastUpdate' = [LastUpdate EXCEPT ![v] = block]
      OBVIOUS
    <2> QED BY <1>0, <2>1, NotedStays
  <1>5. ASSUME NEW k \in Hotkeys, NEW i \in 1..Len(WeightCommits[k])
        PROVE  WeightCommits[k][i].block \in Nat
    <2>1. WeightCommits[k][i] \in Commit
      BY <1>1
    <2> QED BY <2>1 DEF Commit, Blocks
  <1>6. ASSUME NEW e \in Epochs, NEW i \in 1..Len(CRV3WeightCommits[e])
        PROVE  CRV3WeightCommits[e][i].block \in Nat /\ CRV3WeightCommits[e][i].who \in Hotkeys
    BY <1>6, EntryTypes
  <1>7. QueuesStable'
    <2> SUFFICES ASSUME NEW k \in Hotkeys, NEW i \in 1..Len(WeightCommits'[k])
                 PROVE  LET d == WeightCommits'[k][i] IN
                        /\ Stored(Tempo, RevealPeriodEpochs, d) /\ d.block # 0 /\ Noted(Keys', LastUpdate', k, d.block)
                        /\ \A j \in 1..Len(WeightCommits'[k]) : i # j =>
                              Apart(d.block, WeightCommits'[k][j].block)
      BY <1>0 DEF QueuesStable
    <2>1. CASE k # h
      <3>1. WeightCommits'[k] = WeightCommits[k]
        BY <1>2, <2>1
      <3>2. LET d == WeightCommits[k][i] IN
            /\ Stored(Tempo, RevealPeriodEpochs, d) /\ d.block # 0 /\ Noted(Keys, LastUpdate, k, d.block)
            /\ \A j \in 1..Len(WeightCommits[k]) : i # j =>
                  Apart(d.block, WeightCommits[k][j].block)
        BY <3>1 DEF StableInv, QueuesStable
      <3>3. Noted(Keys', LastUpdate', k, WeightCommits[k][i].block)
        BY <1>4, <1>5, <3>1, <3>2
      <3> QED BY <3>1, <3>2, <3>3
    <2>2. CASE k = h
      <3>0. WeightCommits'[k] = r /\ i \in 1..Len(r)
        BY <1>2, <2>2
      <3>1. ASSUME NEW j \in 1..Len(r), m[j] # 0
            PROVE  /\ m[j] \in 1..Len(w) /\ r[j] = w[m[j]] /\ r[j].block \in Nat
                   /\ Stored(Tempo, RevealPeriodEpochs, r[j]) /\ r[j].block # 0 /\ Noted(Keys, LastUpdate, h, r[j].block)
        <4>1. m[j] \in 1..Len(w) /\ r[j] = w[m[j]]
          BY <3>1
        <4> QED BY <1>5, <4>1 DEF StableInv, QueuesStable
      <3>2. ASSUME NEW j \in 1..Len(r)
            PROVE  Stored(Tempo, RevealPeriodEpochs, r[j]) /\ r[j].block # 0 /\ Noted(Keys', LastUpdate', h, r[j].block)
        <4>1. CASE m[j] # 0
          BY <1>4, <3>1, <4>1
        <4>2. CASE m[j] = 0
          <5>1. New(j)
            BY <1>3, <4>2
          <5>2. Noted(Keys', LastUpdate', h, block)
            BY <1>0, <5>1, NotedNow
          <5> QED BY <1>0, <1>1, <5>1, <5>2
        <4> QED BY <4>1, <4>2
      <3>3. ASSUME NEW j \in 1..Len(r), i # j PROVE Apart(r[i].block, r[j].block)
        <4>1. CASE m[i] # 0 /\ m[j] # 0
          <5>1. m[i] # m[j]
            BY <3>0, <3>3
          <5> QED BY <3>0, <3>1, <4>1, <5>1 DEF StableInv, QueuesStable
        <4>2. CASE m[i] = 0
          <5>1. m[j] # 0 /\ New(i)
            BY <1>3, <3>0, <3>3, <4>2
          <5> QED BY <3>1, <5>1, RateLimited
        <4>3. CASE m[j] = 0
          <5>1. m[i] # 0 /\ New(j)
            BY <1>3, <3>0, <3>3, <4>3
          <5> QED BY <3>0, <3>1, <5>1, RateLimited
        <4> QED BY <4>1, <4>2, <4>3
      <3> QED BY <2>2, <3>0, <3>2, <3>3
    <2> QED BY <2>1, <2>2
  <1>8. EntriesStable'
    <2> SUFFICES ASSUME NEW e \in Epochs, NEW i \in 1..Len(CRV3WeightCommits[e])
                 PROVE  EntryStable(Keys', LastUpdate', WeightCommits', CRV3WeightCommits, e, i)
      BY <1>0 DEF EntriesStable
    <2> DEFINE d == CRV3WeightCommits[e][i]
    <2>1. /\ d.block # 0 /\ Noted(Keys, LastUpdate, d.who, d.block)
          /\ \A j \in 1..Len(WeightCommits[d.who]) : Apart(d.block, WeightCommits[d.who][j].block)
          /\ \A f \in Epochs : \A j \in 1..Len(CRV3WeightCommits[f]) :
                (e # f \/ i # j) /\ CRV3WeightCommits[f][j].who = d.who =>
                   Apart(d.block, CRV3WeightCommits[f][j].block)
      BY DEF StableInv, EntriesStable, EntryStable
    <2>2. d.block \in Nat /\ d.who \in Hotkeys
      BY <1>6
    <2> HIDE DEF d
    <2>3. Noted(Keys', LastUpdate', d.who, d.block)
      BY <1>4, <2>1, <2>2
    <2>4. ASSUME NEW j \in 1..Len(WeightCommits'[d.who])
          PROVE  Apart(d.block, WeightCommits'[d.who][j].block)
      <3>1. CASE d.who # h
        BY <1>2, <2>1, <2>2, <3>1
      <3>2. CASE d.who = h
        <4>0. WeightCommits'[d.who] = r /\ j \in 1..Len(r)
          BY <1>2, <2>2, <3>2
        <4>1. CASE m[j] # 0
          <5>1. m[j] \in 1..Len(w) /\ r[j] = w[m[j]]
            BY <4>0, <4>1
          <5> QED BY <2>1, <3>2, <4>0, <5>1
        <4>2. CASE m[j] = 0
          <5>1. New(j)
            BY <1>3, <4>0, <4>2
          <5> QED BY <2>1, <2>2, <3>2, <4>0, <5>1, RateLimited
        <4> QED BY <4>1, <4>2
      <3> QED BY <3>1, <3>2
    <2> QED BY <2>1, <2>3, <2>4 DEF d, EntryStable
  <1>9. EntriesTimed'
    BY <1>0 DEF StableInv, EntriesTimed, Timely, Epoch, Wait, AtStart
  <1> QED BY <1>0, <1>7, <1>8, <1>9 DEF StableInv

LEMMA CommitStable ==
  ASSUME CommitsInv, StableInv, NEW h \in Hotkeys, NEW p \in Payloads, do_commit_weights(h, p)
  PROVE  StableInv'
  <1> DEFINE w == WeightCommits[h]
             q == DropExpired(w)
             v == get_reveal_blocks(Netuid, Tempo, RevealPeriodEpochs, block)
             c == [hash |-> Hash(h, p), block |-> block, first |-> v.first, last |-> v.last]
             r == Append(q, c)
  <1>1. /\ MayCommit(h) /\ Len(q) < MaxCommits
        /\ WeightCommits' = [WeightCommits EXCEPT ![h] = r]
        /\ LastUpdate' = [LastUpdate EXCEPT ![get_uid(h)] = block]
        /\ UNCHANGED <<block, params, Keys, CRV3WeightCommits>>
    BY DEF do_commit_weights
  <1>2. /\ c \in Commit /\ QueueOK(r, block) /\ Len(r) = Len(q) + 1
        /\ \A i \in 1..Len(q) : r[i] = q[i]
        /\ r[Len(q) + 1] = c
    BY <1>1, CommitQueue
  <1>3. q \in Seq(Commit) /\ Sub(q, w) /\ w \in Seq(Commit)
    BY DroppedOK, InvFacts
  <1>4. c.block = block /\ Stored(Tempo, RevealPeriodEpochs, c)
    BY DEF Stored
  <1> HIDE DEF q, w, v, c, r
  <1>5. PICK k \in [1..Len(q) -> 1..Len(w)] :
          /\ \A i \in 1..Len(q) : q[i] = w[k[i]]
          /\ \A i, j \in 1..Len(q) : i < j => k[i] < k[j]
    BY <1>3 DEF Sub
  <1> DEFINE m == [i \in 1..Len(r) |-> IF i <= Len(q) THEN k[i] ELSE 0]
  <1>6. Len(q) \in Nat /\ Len(w) \in Nat /\ r \in Seq(Commit) /\ Len(r) = Len(q) + 1
    BY <1>2, <1>3 DEF QueueOK
  <1>7. m \in [1..Len(r) -> Nat]
    <2>1. ASSUME NEW i \in 1..Len(r) PROVE (IF i <= Len(q) THEN k[i] ELSE 0) \in Nat
      <3>1. CASE i <= Len(q)
        <4>1. k[i] \in 1..Len(w)
          BY <1>5, <1>6, <3>1
        <4> QED BY <1>6, <3>1, <4>1
      <3> QED BY <3>1
    <2> QED BY <2>1
  <1>8. ASSUME NEW i \in 1..Len(r), m[i] # 0 PROVE m[i] \in 1..Len(w) /\ r[i] = w[m[i]]
    <2>1. i \in 1..Len(q) /\ m[i] = k[i]
      BY <1>6, <1>8
    <2> QED BY <1>2, <1>5, <2>1
  <1>9. ASSUME NEW i \in 1..Len(r), NEW j \in 1..Len(r), i < j PROVE m[i] # m[j]
    <2>1. i \in 1..Len(q) /\ m[i] = k[i] /\ k[i] \in 1..Len(w)
      BY <1>5, <1>6, <1>9
    <2>2. CASE j \in 1..Len(q)
      <3>1. m[j] = k[j] /\ k[j] \in 1..Len(w) /\ k[i] < k[j]
        BY <1>5, <1>6, <1>9, <2>1, <2>2
      <3> QED BY <1>6, <2>1, <3>1
    <2>3. CASE j \notin 1..Len(q)
      <3>1. m[j] = 0
        BY <1>6, <2>3
      <3> QED BY <1>6, <2>1, <3>1
    <2> QED BY <2>2, <2>3
  <1>10. \A i, j \in 1..Len(r) : i # j => m[i] # m[j]
    <2>1. \A i, j \in 1..Len(r) : i # j => i < j \/ j < i
      OBVIOUS
    <2> HIDE DEF m
    <2> QED BY <1>9, <2>1
  <1>11. \A i \in 1..Len(r) : m[i] = 0 => r[i].block = block /\ Stored(Tempo, RevealPeriodEpochs, r[i])
    <2> SUFFICES ASSUME NEW i \in 1..Len(r), m[i] = 0 PROVE r[i] = c
      BY <1>4
    <2>1. CASE i \in 1..Len(q)
      <3>1. m[i] = k[i] /\ k[i] \in 1..Len(w)
        BY <1>5, <1>6, <2>1
      <3> QED BY <1>6, <3>1
    <2>2. CASE i \notin 1..Len(q)
      <3>1. i = Len(q) + 1
        BY <1>6, <2>2
      <3> QED BY <1>2, <3>1
    <2> QED BY <2>1, <2>2
  <1> HIDE DEF m
  <1> QED BY <1>1, <1>6, <1>7, <1>8, <1>10, <1>11, StableQueue DEF w

\* What reveals leave.
LEMMA RevealStable ==
  ASSUME CommitsInv, StableInv, NEW h \in Hotkeys, NEW r \in Seq(Commit),
         Sub(r, DropExpired(WeightCommits[h])),
         WeightCommits' = [WeightCommits EXCEPT ![h] = r],
         UNCHANGED <<block, params, Keys, LastUpdate, CRV3WeightCommits>>
  PROVE  StableInv'
  <1> DEFINE w == WeightCommits[h]
             q == DropExpired(w)
  <1>1. q \in Seq(Commit) /\ Sub(q, w) /\ w \in Seq(Commit) /\ Sub(r, q)
    BY DroppedOK, InvFacts
  <1> HIDE DEF q, w
  <1>2. Sub(r, w) /\ Len(r) \in Nat /\ Len(w) \in Nat
    BY <1>1, SubTrans
  <1>3. PICK m \in [1..Len(r) -> 1..Len(w)] :
          /\ \A i \in 1..Len(r) : r[i] = w[m[i]]
          /\ \A i, j \in 1..Len(r) : i < j => m[i] < m[j]
    BY <1>2 DEF Sub
  <1>4. ASSUME NEW i \in 1..Len(r) PROVE m[i] \in Nat /\ m[i] # 0 /\ m[i] \in 1..Len(w) /\ r[i] = w[m[i]]
    <2>1. m[i] \in 1..Len(w)
      BY <1>3
    <2> QED BY <1>2, <1>3, <2>1
  <1>5. m \in [1..Len(r) -> Nat]
    BY <1>3, <1>4
  <1>6. ASSUME NEW i \in 1..Len(r), NEW j \in 1..Len(r), i # j PROVE m[i] # m[j]
    <2>1. i < j \/ j < i
      BY <1>6
    <2>2. m[i] < m[j] \/ m[j] < m[i]
      BY <1>3, <2>1
    <2> QED BY <1>4, <2>2
  <1> QED BY <1>4, <1>5, <1>6, StableQueue DEF w

\* Epochs an encrypted commit waits for.
LEMMA WaitIs ==
  ASSUME RevealPeriodEpochs \in Nat
  PROVE  Wait \in Nat \ {0} /\ Monus(RevealPeriodEpochs, 1) = Wait - 1
  <1> DEFINE S == {RevealPeriodEpochs, 1}
  <1>1. PICK n \in Nat : S \subseteq 0..n
    <2>1. S \subseteq 0..(RevealPeriodEpochs + 1) /\ RevealPeriodEpochs + 1 \in Nat
      OBVIOUS
    <2> QED BY <2>1
  <1>2. Max(S) \in S /\ Max(S) >= RevealPeriodEpochs /\ Max(S) >= 1
    <2>1. RevealPeriodEpochs \in S /\ 1 \in S
      OBVIOUS
    <2> HIDE DEF S
    <2> QED BY <1>1, <2>1, MaxOfNats
  <1> DEFINE x == Max(S)
  <1>3. Wait = x
    BY DEF Wait
  <1>4. x \in {RevealPeriodEpochs, 1} /\ x >= RevealPeriodEpochs /\ x >= 1
    BY <1>2
  <1> HIDE DEF x
  <1> QED BY <1>3, <1>4 DEF Monus

\* The epoch's number at a block of the epoch, and after it.
LEMMA TimelyStep ==
  ASSUME NEW n \in Nat, NEW e \in Nat, NEW w \in Nat \ {0},
         n - e <= w, ~(e + w <= 2 \/ (e = 0 /\ w > 3)) => n - e < w
  PROVE  LET r == Monus(n, w - 1) IN
         /\ ~(e < r \/ (e = r /\ n >= 2)) =>
               /\ (n + 1) - e <= w
               /\ ~(e + w <= 2 \/ (e = 0 /\ w > 3)) => (n + 1) - e < w
         /\ ~(e + w <= 2 \/ (e = 0 /\ w > 3)) =>
               ((e < r \/ (e = r /\ n >= 2)) <=> (n + 1) - e = w)
  BY DEF Monus

\* An encrypted commit is the only new entry; the others are where they were.
LEMMA EncryptedStable ==
  ASSUME CommitsInv, StableInv, NEW h \in Hotkeys, NEW p \in Payloads, do_commit_crv3_weights(h, p)
  PROVE  StableInv' /\ \A x \in Epochs : CRV3WeightCommits[x] # << >> => CRV3WeightCommits'[x] # << >>
  <1> DEFINE C == CRV3WeightCommits
             D == CRV3WeightCommits'
             e == CommitEpoch(block)
             c == [who |-> h, payload |-> p, block |-> block]
  <1>1. /\ MayCommit(h) /\ D = [C EXCEPT ![e] = Append(C[e], c)]
        /\ LastUpdate' = [LastUpdate EXCEPT ![get_uid(h)] = block]
        /\ block' = block /\ Keys' = Keys /\ WeightCommits' = WeightCommits
        /\ Tempo' = Tempo /\ RevealPeriodEpochs' = RevealPeriodEpochs
        /\ CommitRevealWeightsEnabled' = CommitRevealWeightsEnabled
    BY DEF do_commit_crv3_weights, params
  <1>2. /\ block \in Nat /\ block # 0 /\ Tempo \in Nat \ {0} /\ RevealPeriodEpochs \in Nat
        /\ DOMAIN C = Epochs
    BY InvFacts DEF Settled, StableInv, CommitsInv, TypeOK
  <1>3. \A x \in Epochs : C[x] \in Seq(Entry)
    BY EntryTypes
  <1>4. c.who = h /\ c.block = block /\ c \in Entry
    BY InvFacts DEF Entry
  <1>5. e = Epoch(block + 1) /\ e \in Nat
    BY <1>2, CommitEpochIs
  <1> DEFINE IsOld(x, i) == i \in 1..Len(C[x]) /\ D[x][i] = C[x][i]
             IsNew(x, i) == x = e /\ i = Len(C[e]) + 1 /\ D[x][i] = c
  <1> HIDE DEF e, c
  <1>6. ASSUME NEW x \in Epochs
        PROVE  /\ \A i \in 1..Len(D[x]) : IsOld(x, i) \/ IsNew(x, i)
               /\ C[x] # << >> => D[x] # << >>
    <2>1. CASE x # e
      <3>1. D[x] = C[x]
        BY <1>1, <1>2, <2>1
      <3> QED BY <3>1
    <2>2. CASE x = e
      <3>1. D[x] = Append(C[x], c)
        BY <1>1, <1>2, <2>2
      <3> DEFINE s == C[x]
                 t == Append(s, c)
      <3>2. s \in Seq(Entry)
        BY <1>3
      <3> HIDE DEF s
      <3>3. /\ Len(t) = Len(s) + 1 /\ Len(s) \in Nat /\ t # << >>
            /\ t[Len(s) + 1] = c
            /\ \A i \in 1..Len(s) : t[i] = s[i]
        <4>1. Len(t) = Len(s) + 1 /\ Len(s) \in Nat /\ t[Len(s) + 1] = c
              /\ \A i \in 1..Len(s) : t[i] = s[i]
          BY <1>4, <3>2, AppendProperties
        <4>2. t # << >>
          <5>1. Len(t) # 0
            <6> HIDE DEF t
            <6> QED BY <4>1
          <5> HIDE DEF t
          <5> QED BY <5>1
        <4> QED BY <4>1, <4>2
      <3> HIDE DEF t
      <3>4. ASSUME NEW i \in 1..Len(t) PROVE i \in 1..Len(s) \/ i = Len(s) + 1
        BY <3>3
      <3>5. D[x] = t
        BY <3>1 DEF t, s
      <3> QED BY <2>2, <3>3, <3>4, <3>5 DEF s
    <2> QED BY <2>1, <2>2
  <1>7. \A k, b : b \in Nat /\ Noted(Keys, LastUpdate, k, b) => Noted(Keys', LastUpdate', k, b)
    BY <1>1, NotedStays
  <1>8. Noted(Keys', LastUpdate', h, block)
    BY <1>1, NotedNow
  <1>9. ASSUME NEW x \in Epochs, NEW i \in 1..Len(C[x])
        PROVE  EntryStable(Keys, LastUpdate, WeightCommits, C, x, i) /\ C[x][i].block \in Nat
    BY <1>9, EntryTypes DEF StableInv, EntriesStable
  <1>10. ASSUME NEW k \in Hotkeys, NEW i \in 1..Len(WeightCommits[k])
         PROVE  /\ WeightCommits[k][i].block \in Nat /\ WeightCommits[k][i].block # 0
                /\ Noted(Keys, LastUpdate, k, WeightCommits[k][i].block)
    <2>1. WeightCommits[k][i] \in Commit
      BY InvFacts
    <2> QED BY <2>1 DEF Commit, Blocks, StableInv, QueuesStable
  <1>11. QueuesStable'
    <2> SUFFICES ASSUME NEW k \in Hotkeys, NEW i \in 1..Len(WeightCommits[k])
                 PROVE  Noted(Keys', LastUpdate', k, WeightCommits[k][i].block)
      BY <1>1 DEF StableInv, QueuesStable
    <2> QED BY <1>7, <1>10
  <1>12. ASSUME NEW x \in Epochs, NEW i \in 1..Len(C[x]), C[x][i].who = h
         PROVE  Apart(block, C[x][i].block) /\ Apart(C[x][i].block, block)
    <2>1. C[x][i].block \in Nat /\ C[x][i].block # 0 /\ Noted(Keys, LastUpdate, h, C[x][i].block)
      BY <1>9, <1>12 DEF EntryStable
    <2> QED BY <1>1, <2>1, RateLimited
  <1>13. ASSUME NEW i \in 1..Len(WeightCommits[h]) PROVE Apart(block, WeightCommits[h][i].block)
    BY <1>1, <1>10, RateLimited
  <1>14. EntriesStable'
    <2> SUFFICES ASSUME NEW x \in Epochs, NEW i \in 1..Len(D[x])
                 PROVE  EntryStable(Keys', LastUpdate', WeightCommits, D, x, i)
      BY <1>1 DEF EntriesStable
    <2> DEFINE d == D[x][i]
    <2>1. CASE IsOld(x, i)
      <3>0. d = C[x][i] /\ i \in 1..Len(C[x])
        BY <2>1
      <3>1. /\ d.block # 0 /\ Noted(Keys', LastUpdate', d.who, d.block)
            /\ \A j \in 1..Len(WeightCommits[d.who]) : Apart(d.block, WeightCommits[d.who][j].block)
        BY <1>7, <1>9, <3>0 DEF EntryStable
      <3>2. ASSUME NEW f \in Epochs, NEW j \in 1..Len(D[f]), x # f \/ i # j, D[f][j].who = d.who
            PROVE  Apart(d.block, D[f][j].block)
        <4>1. CASE IsOld(f, j)
          BY <1>9, <3>0, <3>2, <4>1 DEF EntryStable
        <4>2. CASE IsNew(f, j)
          BY <1>4, <1>12, <3>0, <3>2, <4>2
        <4> QED BY <1>6, <4>1, <4>2
      <3> QED BY <3>1, <3>2 DEF EntryStable
    <2>2. CASE IsNew(x, i)
      <3>0. d = c /\ d.who = h /\ d.block = block
        BY <1>4, <2>2
      <3>1. /\ d.block # 0 /\ Noted(Keys', LastUpdate', d.who, d.block)
            /\ \A j \in 1..Len(WeightCommits[d.who]) : Apart(d.block, WeightCommits[d.who][j].block)
        BY <1>2, <1>8, <1>13, <3>0
      <3>2. ASSUME NEW f \in Epochs, NEW j \in 1..Len(D[f]), x # f \/ i # j, D[f][j].who = d.who
            PROVE  Apart(d.block, D[f][j].block)
        <4>1. CASE IsOld(f, j)
          BY <1>12, <3>0, <3>2, <4>1
        <4>2. CASE IsNew(f, j)
          BY <2>2, <3>2, <4>2
        <4> QED BY <1>6, <4>1, <4>2
      <3> QED BY <3>1, <3>2 DEF EntryStable
    <2> QED BY <1>6, <2>1, <2>2
  <1>15. EntriesTimed'
    <2>0. Wait' = Wait /\ Epoch(block + 1)' = Epoch(block + 1) /\ \A x : AtStart(x)' <=> AtStart(x)
      BY <1>1 DEF Wait, Epoch, AtStart
    <2> SUFFICES ASSUME NEW x \in Epochs, NEW i \in 1..Len(D[x])
                 PROVE  /\ D[x][i].block <= block
                        /\ x = Epoch(D[x][i].block + 1)
                        /\ Timely(x, block)
      BY <1>1, <2>0 DEF EntriesTimed, Timely, Epoch
    <2>1. CASE IsOld(x, i)
      BY <2>1 DEF StableInv, EntriesTimed
    <2>2. CASE IsNew(x, i)
      <3>1. D[x][i].block = block /\ x = Epoch(block + 1) /\ x \in Nat
        BY <1>4, <1>5, <2>2
      <3>2. Wait \in Nat \ {0}
        BY <1>2, WaitIs
      <3>3. Timely(x, block)
        <4> DEFINE n == Epoch(block + 1)
                   k == Wait
        <4>1. n = x /\ k \in Nat \ {0}
          BY <3>1, <3>2
        <4> HIDE DEF n, k
        <4>2. n - x <= k /\ n - x < k
          BY <3>1, <4>1
        <4> QED BY <4>2 DEF Timely, n, k
      <3>4. block <= block
        BY <1>2
      <3> QED BY <3>1, <3>3, <3>4
    <2> QED BY <1>6, <2>1, <2>2
  <1> QED BY <1>1, <1>6, <1>11, <1>14, <1>15 DEF StableInv

\* The epochs an entry has seen, and that it never waits for more than it has to.
LEMMA EntryWaits ==
  ASSUME CommitsInv, StableInv, NEW e \in Epochs, NEW i \in 1..Len(CRV3WeightCommits[e]),
         NEW b \in Nat, block <= b
  PROVE  /\ e \in Nat /\ Epoch(block + 1) \in Nat /\ Epoch(b + 1) \in Nat
         /\ EpochsRun(CRV3WeightCommits[e][i].block, b) = Epoch(b + 1) - e
         /\ Epoch(block + 1) - e <= Wait
         /\ ~AtStart(e) => Epoch(block + 1) - e < Wait
  <1> DEFINE a == CRV3WeightCommits[e][i].block
  <1>1. a \in Nat
    BY EntryTypes
  <1>2. a <= block /\ e = Epoch(a + 1) /\ Timely(e, block)
    BY DEF StableInv, EntriesTimed
  <1> HIDE DEF a
  <1>3. block \in Nat /\ Tempo \in Nat \ {0}
    BY InvFacts DEF Settled, StableInv
  <1>4. a <= b
    BY <1>1, <1>2, <1>3
  <1>5. EpochsRun(a, b) = Epoch(b + 1) - Epoch(a + 1) /\ Epoch(a + 1) \in Nat /\ Epoch(b + 1) \in Nat
    BY <1>1, <1>3, <1>4, EpochsRunIs
  <1>6. Epoch(block + 1) \in Nat
    BY <1>3, CommitEpochIs
  <1> QED BY <1>2, <1>5, <1>6 DEF a, Timely

LEMMA InvNotLate == CommitsInv /\ StableInv => CRV3NotLate
  <1> SUFFICES ASSUME CommitsInv, StableInv, NEW e \in Epochs, NEW i \in 1..Len(CRV3WeightCommits[e])
               PROVE  EpochsRun(CRV3WeightCommits[e][i].block, block) <= Wait
    BY DEF CRV3NotLate
  <1>1. block \in Nat /\ block <= block
    BY InvFacts DEF Settled
  <1> QED BY <1>1, EntryWaits

\* Within a block nothing is due and nothing goes.
LEMMA OnTimeWithin ==
  ASSUME CommitsInv, StableInv, block' = block,
         \A x \in Epochs : CRV3WeightCommits[x] # << >> => CRV3WeightCommits'[x] # << >>
  PROVE  CRV3OnTime
  <1> SUFFICES ASSUME NEW e \in Epochs, NEW i \in 1..Len(CRV3WeightCommits[e]), ~AtStart(e)
               PROVE  CRV3WeightCommits'[e] = << >>
                        <=> EpochsRun(CRV3WeightCommits[e][i].block, block) = Wait
    BY DEF CRV3OnTime
  <1>1. block \in Nat /\ block <= block /\ RevealPeriodEpochs \in Nat
    BY InvFacts DEF Settled
  <1> DEFINE x == EpochsRun(CRV3WeightCommits[e][i].block, block)
             n == Epoch(block + 1)
             w == Wait
  <1>2. x = n - e /\ n - e < w /\ n \in Nat /\ e \in Nat
    BY <1>1, EntryWaits
  <1>3. w \in Nat
    BY <1>1, WaitIs
  <1> HIDE DEF x, n, w
  <1>4. x # w
    BY <1>2, <1>3
  <1>5. CRV3WeightCommits[e] # << >>
    OBVIOUS
  <1> QED BY <1>4, <1>5 DEF x, w

LEMMA BlockStable ==
  ASSUME CommitsInv, StableInv, block_step
  PROVE  StableInv' /\ CRV3OnTime
  <1> DEFINE C == CRV3WeightCommits
             D == CRV3WeightCommits'
             b == block + 1
             n == Epoch(b)
             Run == should_run_epoch(Netuid, Tempo, b)
  <1>1. /\ block < MaxBlock /\ block' = b /\ Keys' = Keys /\ WeightCommits' = WeightCommits
        /\ Tempo' = Tempo /\ RevealPeriodEpochs' = RevealPeriodEpochs
        /\ CommitRevealWeightsEnabled' = CommitRevealWeightsEnabled
        /\ IF Run THEN reveal_crv3_commits(b) ELSE UNCHANGED <<LastUpdate, Weights, CRV3WeightCommits>>
    BY DEF block_step, params
  <1>2. /\ block \in Nat /\ Tempo \in Nat \ {0} /\ RevealPeriodEpochs \in Nat
        /\ CommitRevealWeightsEnabled /\ LastUpdate \in [Uids -> Nat]
    BY InvFacts DEF Settled, StableInv
  <1>3. b \in Nat /\ b # 0 /\ block <= b /\ b + 1 \in Nat
    BY <1>2
  <1>4. n \in Nat /\ Epoch(b + 1) \in Nat /\ Epoch(b + 1) = n + (IF Run THEN 1 ELSE 0)
    <2>1. Netuid \in Nat /\ Tempo \in Nat \ {0}
      BY <1>2, WeightCommitsAssumption
    <2> HIDE DEF b
    <2> QED BY <1>2, <1>3, <2>1, EpochTurns, CommitEpochIs DEF Epoch
  <1>5. Wait \in Nat \ {0} /\ Monus(RevealPeriodEpochs, 1) = Wait - 1
    BY <1>2, WaitIs
  <1> DEFINE w == Wait
             r == Monus(n, w - 1)
             Goes(x) == Run /\ (x < r \/ (x = r /\ n >= 2))
  <1>6. RevealEpoch(b) = r
    BY <1>5 DEF RevealEpoch
  <1>7. LastUpdate' = LastUpdate /\ \A x \in Epochs : D[x] = IF Goes(x) THEN << >> ELSE C[x]
    <2>1. CASE Run
      <3>1. /\ LastUpdate' = [u \in Uids |-> LastUpdate[u]]
            /\ D = [x \in Epochs |-> IF x \in ClearedEpochs(b) THEN << >> ELSE C[x]]
        <4>1. reveal_crv3_commits(b)
          BY <1>1, <2>1
        <4> QED BY <1>2, <4>1 DEF reveal_crv3_commits
      <3>2. LastUpdate' = LastUpdate
        BY <1>2, <3>1
      <3>3. \A x \in Epochs : x \in ClearedEpochs(b) <=> Goes(x)
        BY <1>6, <2>1 DEF ClearedEpochs
      <3> HIDE DEF Goes
      <3> QED BY <3>1, <3>2, <3>3
    <2>2. CASE ~Run
      BY <1>1, <2>2
    <2> QED BY <2>1, <2>2
  <1>8. ASSUME NEW e \in Epochs, NEW i \in 1..Len(C[e])
        PROVE  /\ ~Goes(e) => Timely(e, b)
               /\ ~AtStart(e) => (Goes(e) <=> EpochsRun(C[e][i].block, b) = Wait)
    <2> DEFINE y == Epoch(b + 1)
               z == EpochsRun(C[e][i].block, b)
    <2>1. /\ e \in Nat /\ z = y - e /\ n - e <= w
          /\ ~AtStart(e) => n - e < w
      BY <1>3, EntryWaits
    <2>2. w \in Nat \ {0} /\ n \in Nat /\ y \in Nat /\ y = n + (IF Run THEN 1 ELSE 0)
      BY <1>4, <1>5
    <2>3. AtStart(e) <=> e + w <= 2 \/ (e = 0 /\ w > 3)
      BY DEF AtStart
    <2>4. Timely(e, b) <=> y - e <= w /\ (~AtStart(e) => y - e < w)
      BY DEF Timely
    <2> HIDE DEF n, w, y, z, Run
    <2>5. CASE Run
      <3>1. /\ ~(e < r \/ (e = r /\ n >= 2)) =>
                 /\ (n + 1) - e <= w
                 /\ ~AtStart(e) => (n + 1) - e < w
            /\ ~AtStart(e) => ((e < r \/ (e = r /\ n >= 2)) <=> (n + 1) - e = w)
        BY <2>1, <2>2, <2>3, TimelyStep
      <3> HIDE DEF r
      <3>2. y = n + 1
        BY <2>2, <2>5
      <3>3. Goes(e) <=> e < r \/ (e = r /\ n >= 2)
        BY <2>5
      <3> HIDE DEF Goes
      <3>4. ~Goes(e) => Timely(e, b)
        BY <2>4, <3>1, <3>2, <3>3
      <3>5. ~AtStart(e) => (Goes(e) <=> z = w)
        BY <2>1, <3>1, <3>2, <3>3
      <3> QED BY <3>4, <3>5 DEF w, z
    <2>6. CASE ~Run
      <3>1. y = n
        BY <2>2, <2>6
      <3>2. ~Goes(e)
        BY <2>6
      <3>3. ~AtStart(e) => z # w
        BY <2>1, <2>2, <3>1
      <3> HIDE DEF Goes
      <3> QED BY <2>1, <2>4, <3>1, <3>2, <3>3 DEF w, z
    <2> QED BY <2>5, <2>6
  <1> HIDE DEF Goes, n, r, w
  <1>9. ASSUME NEW e \in Epochs, NEW i \in 1..Len(D[e]) PROVE ~Goes(e) /\ D[e] = C[e] /\ i \in 1..Len(C[e])
    <2>1. ASSUME Goes(e) PROVE FALSE
      <3>1. D[e] = << >>
        BY <1>7, <2>1
      <3>2. 1..Len(<< >>) = {}
        OBVIOUS
      <3> QED BY <1>9, <3>1, <3>2
    <2> QED BY <1>7, <1>9, <2>1
  <1>10. CRV3OnTime
    <2> SUFFICES ASSUME NEW e \in Epochs, NEW i \in 1..Len(C[e]), ~AtStart(e)
                 PROVE  D[e] = << >> <=> EpochsRun(C[e][i].block, b) = Wait
      BY <1>1 DEF CRV3OnTime
    <2>1. C[e] # << >>
      OBVIOUS
    <2>2. D[e] = << >> <=> Goes(e)
      BY <1>7, <2>1
    <2> QED BY <1>8, <2>2
  <1>11. QueuesStable'
    BY <1>1, <1>7 DEF StableInv, QueuesStable
  <1>12. EntriesStable'
    <2> SUFFICES ASSUME NEW e \in Epochs, NEW i \in 1..Len(D[e])
                 PROVE  EntryStable(Keys, LastUpdate, WeightCommits, D, e, i)
      BY <1>1, <1>7 DEF EntriesStable
    <2>1. D[e] = C[e] /\ i \in 1..Len(C[e])
      BY <1>9
    <2>2. EntryStable(Keys, LastUpdate, WeightCommits, C, e, i)
      BY <2>1 DEF StableInv, EntriesStable
    <2>3. ASSUME NEW f \in Epochs, NEW j \in 1..Len(D[f]) PROVE j \in 1..Len(C[f]) /\ D[f][j] = C[f][j]
      BY <1>9
    <2> QED BY <2>1, <2>2, <2>3 DEF EntryStable
  <1>13. EntriesTimed'
    <2> SUFFICES ASSUME NEW e \in Epochs, NEW i \in 1..Len(D[e])
                 PROVE  /\ D[e][i].block <= b
                        /\ e = Epoch(D[e][i].block + 1)
                        /\ Timely(e, b)
      BY <1>1 DEF EntriesTimed, Timely, Epoch, Wait, AtStart
    <2>1. ~Goes(e) /\ D[e] = C[e] /\ i \in 1..Len(C[e])
      BY <1>9
    <2>2. C[e][i].block \in Nat /\ C[e][i].block <= block /\ e = Epoch(C[e][i].block + 1)
      BY <2>1, EntryTypes DEF StableInv, EntriesTimed
    <2>3. Timely(e, b)
      BY <1>8, <2>1
    <2>4. C[e][i].block <= b
      BY <1>2, <2>2
    <2> QED BY <2>1, <2>2, <2>3, <2>4
  <1> QED BY <1>1, <1>2, <1>3, <1>10, <1>11, <1>12, <1>13 DEF StableInv

LEMMA StableStep ==
  ASSUME CommitsInv, StableInv, [StableNext]_vars
  PROVE  CommitsInv' /\ StableInv' /\ CRV3OnTime
  <1>0. CommitsInv'
    <2>1. [Next]_vars
      BY DEF StableNext, Next
    <2> QED BY <2>1, InvNext
  <1>1. ASSUME NEW h \in Hotkeys, NEW p \in Payloads, do_commit_weights(h, p)
        PROVE  StableInv' /\ CRV3OnTime
    <2>1. block' = block /\ CRV3WeightCommits' = CRV3WeightCommits
      BY <1>1 DEF do_commit_weights
    <2> QED BY <1>1, <2>1, CommitStable, OnTimeWithin
  <1>2. ASSUME NEW h \in Hotkeys, NEW r \in Seq(Commit),
               Sub(r, DropExpired(WeightCommits[h])),
               WeightCommits' = [WeightCommits EXCEPT ![h] = r],
               UNCHANGED <<block, params, Keys, LastUpdate, CRV3WeightCommits>>
        PROVE  StableInv' /\ CRV3OnTime
    <2>1. block' = block /\ CRV3WeightCommits' = CRV3WeightCommits
      BY <1>2
    <2> QED BY <1>2, <2>1, RevealStable, OnTimeWithin
  <1>3. ASSUME NEW h \in Hotkeys, NEW p \in Payloads, do_reveal_weights(h, p)
        PROVE  StableInv' /\ CRV3OnTime
    <2> DEFINE q == DropExpired(WeightCommits[h])
               at == PositionOf(h, p, q)
               r == SubSeq(q, at + 1, Len(q))
    <2>1. /\ at # 0 /\ WeightCommits' = [WeightCommits EXCEPT ![h] = r]
          /\ UNCHANGED <<block, params, Keys, LastUpdate, CRV3WeightCommits>>
      BY <1>3 DEF do_reveal_weights, MayReveal
    <2>2. q \in Seq(Commit)
      BY DroppedOK
    <2> HIDE DEF q
    <2>3. at \in 1..Len(q) /\ Len(q) \in Nat
      BY <2>1, <2>2, PositionIs
    <2> HIDE DEF at
    <2>4. at + 1 \in 1..Len(q) + 1
      BY <2>3
    <2>5. r \in Seq(Commit) /\ Sub(r, q)
      BY <2>2, <2>4, SubSuffix
    <2> HIDE DEF r
    <2> QED BY <1>2, <2>1, <2>5 DEF q
  <1>4. ASSUME NEW h \in Hotkeys, NEW ps \in Batches, do_batch_reveal_weights(h, ps)
        PROVE  StableInv' /\ CRV3OnTime
    <2> DEFINE q == DropExpired(WeightCommits[h])
               r == AfterBatch(h, q, ps)
    <2>1. /\ WeightCommits' = [WeightCommits EXCEPT ![h] = r]
          /\ UNCHANGED <<block, params, Keys, LastUpdate, CRV3WeightCommits>>
      BY <1>4 DEF do_batch_reveal_weights
    <2>2. q \in Seq(Commit)
      BY DroppedOK
    <2>3. ps \in Seq(Payloads)
      BY BatchType
    <2> HIDE DEF q
    <2>4. r \in Seq(Commit) /\ Sub(r, q)
      BY <2>2, <2>3, AfterBatchIs
    <2> HIDE DEF r
    <2> QED BY <1>2, <2>1, <2>4 DEF q
  <1>5. ASSUME NEW h \in Hotkeys, NEW p \in Payloads, do_commit_crv3_weights(h, p)
        PROVE  StableInv' /\ CRV3OnTime
    <2>1. block' = block
      BY <1>5 DEF do_commit_crv3_weights
    <2> QED BY <1>5, <2>1, EncryptedStable, OnTimeWithin
  <1>6. CASE UNCHANGED vars
    <2>1. StableInv'
      BY <1>6 DEF vars, params, neurons, commits, StableInv, QueuesStable, EntriesStable, EntriesTimed,
                  Timely, Epoch, Wait, AtStart
    <2>2. block' = block /\ CRV3WeightCommits' = CRV3WeightCommits
      BY <1>6 DEF vars, commits
    <2> QED BY <1>0, <2>1, <2>2, OnTimeWithin
  <1>7. CASE StableNext
    BY <1>0, <1>1, <1>3, <1>4, <1>5, <1>7, BlockStable DEF StableNext, HashSteps, BatchSteps, Encrypted
  <1> QED BY <1>0, <1>6, <1>7

LEMMA StableInit == Init /\ CommitRevealWeightsEnabled /\ Tempo # 0 => StableInv
  <1> SUFFICES ASSUME Init, CommitRevealWeightsEnabled, Tempo # 0 PROVE StableInv
    OBVIOUS
  <1>1. /\ block = 1 /\ WeightCommits = [h \in Hotkeys |-> << >>]
        /\ CRV3WeightCommits = [e \in Epochs |-> << >>]
    BY DEF Init
  <1>2. \A i \in 1..Len(<< >>) : FALSE
    OBVIOUS
  <1>3. \A h \in Hotkeys : \A i \in 1..Len(WeightCommits[h]) : FALSE
    BY <1>1, <1>2
  <1>4. \A e \in Epochs : \A i \in 1..Len(CRV3WeightCommits[e]) : FALSE
    BY <1>1, <1>2
  <1> QED BY <1>1, <1>3, <1>4 DEF StableInv, QueuesStable, EntriesStable, EntriesTimed

\* Two of a hotkey's commits that are still stored.
LEMMA InvSpaced == CommitsInv /\ StableInv => CommitsSpaced
  <1> SUFFICES ASSUME CommitsInv, StableInv, NEW h \in Hotkeys, NEW c \in CommitsOf(h), NEW d \in CommitsOf(h), c # d
               PROVE  Apart(c[3], d[3])
    BY DEF CommitsSpaced, Apart
  <1> DEFINE InQueue(x, i) == i \in 1..Len(WeightCommits[h]) /\ x = <<-1, i, WeightCommits[h][i].block>>
             InEpoch(x, e, i) == /\ i \in 1..Len(CRV3WeightCommits[e]) /\ CRV3WeightCommits[e][i].who = h
                                 /\ x = <<e, i, CRV3WeightCommits[e][i].block>>
  <1>1. ASSUME NEW x \in CommitsOf(h)
        PROVE  (\E i : InQueue(x, i)) \/ \E e \in Epochs : \E i : InEpoch(x, e, i)
    BY <1>1 DEF CommitsOf
  <1>2. \A x, y : Apart(x, y) => Apart(y, x)
    BY DEF Apart
  <1>3. ASSUME NEW i, InQueue(c, i), NEW j, InQueue(d, j) PROVE Apart(c[3], d[3])
    <2>1. i # j
      BY <1>3
    <2>2. c[3] = WeightCommits[h][i].block /\ d[3] = WeightCommits[h][j].block
      BY <1>3
    <2> QED BY <1>3, <2>1, <2>2 DEF StableInv, QueuesStable
  <1>4. ASSUME NEW x, NEW y, NEW e \in Epochs, NEW i, InEpoch(x, e, i), NEW j, InQueue(y, j)
        PROVE  Apart(x[3], y[3])
    <2>1. x[3] = CRV3WeightCommits[e][i].block /\ y[3] = WeightCommits[h][j].block
      BY <1>4
    <2> QED BY <1>4, <2>1 DEF StableInv, EntriesStable, EntryStable
  <1>5. ASSUME NEW e \in Epochs, NEW i, InEpoch(c, e, i), NEW f \in Epochs, NEW j, InEpoch(d, f, j)
        PROVE  Apart(c[3], d[3])
    <2>1. e # f \/ i # j
      BY <1>5
    <2>2. c[3] = CRV3WeightCommits[e][i].block /\ d[3] = CRV3WeightCommits[f][j].block
      BY <1>5
    <2> QED BY <1>5, <2>1, <2>2 DEF StableInv, EntriesStable, EntryStable
  <1> HIDE DEF InQueue, InEpoch
  <1> QED BY <1>1, <1>2, <1>3, <1>4, <1>5

\* The blocks stored with a commit are those of RevealWindow.
LEMMA InvWindows ==
  ASSUME 0 \notin Periods PROVE CommitsInv /\ StableInv => WindowsAgree
  <1> SUFFICES ASSUME CommitsInv, StableInv, NEW h \in Hotkeys, NEW i \in 1..Len(WeightCommits[h]),
                      NEW b \in Blocks
               PROVE  LET c == WeightCommits[h][i] IN
                      c.first <= b /\ b <= c.last
                        <=> is_reveal_block_range(Netuid, Tempo, RevealPeriodEpochs, c.block, b)
    BY DEF WindowsAgree
  <1> DEFINE c == WeightCommits[h][i]
             w == get_reveal_blocks(Netuid, Tempo, RevealPeriodEpochs, c.block)
  <1>1. c \in Commit /\ Tempo \in Nat
    BY InvFacts DEF Settled
  <1>2. RevealPeriodEpochs \in Nat \ {0}
    BY WeightCommitsAssumption DEF CommitsInv, TypeOK
  <1>3. c.block \in Nat /\ b \in Nat /\ Netuid \in Nat
    BY <1>1, WeightCommitsAssumption DEF Commit, Blocks
  <1>4. c.first = w.first /\ c.last = w.last
    BY DEF StableInv, QueuesStable, Stored
  <1> HIDE DEF c
  <1>5. w.first <= b /\ b <= w.last
          <=> is_reveal_block_range(Netuid, Tempo, RevealPeriodEpochs, c.block, b)
    BY <1>1, <1>2, <1>3, RevealWindow
  <1> HIDE DEF w
  <1> QED BY <1>4, <1>5 DEF c

\* While neurons and settings stay as they are and commit-reveal is on, for every
\* tempo, rate limit and reveal period but 0: the reveal blocks stored with a
\* commit are exactly those in which its reveal is accepted, commits of a hotkey
\* are a rate limit apart, and no encrypted commit outlives its epoch.
THEOREM StableCommits ==
  ASSUME 0 \notin Periods
  PROVE  StableSpec => [](WindowsAgree /\ CommitsSpaced /\ CRV3NotLate)
  <1>1. Init /\ CommitRevealWeightsEnabled /\ Tempo # 0 => CommitsInv /\ StableInv
    BY InvInit, StableInit
  <1>2. (CommitsInv /\ StableInv) /\ [StableNext]_vars => (CommitsInv /\ StableInv)'
    BY StableStep
  <1>3. CommitsInv /\ StableInv => WindowsAgree /\ CommitsSpaced /\ CRV3NotLate
    BY InvNotLate, InvSpaced, InvWindows
  <1> QED BY <1>1, <1>2, <1>3, PTL DEF StableSpec

\* Then each encrypted commit is tried at the epoch one reveal period after it
\* and at no other, but for the start of the chain.
THEOREM StableReveals == StableSpec => [][CRV3OnTime]_vars
  <1>1. Init /\ CommitRevealWeightsEnabled /\ Tempo # 0 => CommitsInv /\ StableInv
    BY InvInit, StableInit
  <1>2. (CommitsInv /\ StableInv) /\ [StableNext]_vars => (CommitsInv /\ StableInv)'
    BY StableStep
  <1>3. (CommitsInv /\ StableInv) /\ [StableNext]_vars => [CRV3OnTime]_vars
    BY StableStep
  <1> QED BY <1>1, <1>2, <1>3, PTL DEF StableSpec

-----------------------------------------------------------------------------
\* The specification that is model-checked is made of the two.

MCInv == CommitsInv /\ (kind = "stable" => StableInv)

LEMMA MCStep ==
  ASSUME MCInv, [FewCalls \/ StableSteps]_MCvars
  PROVE  MCInv' /\ (kind = "stable" => CRV3OnTime)
  <1>1. CASE FewCalls
    <2>1. Next /\ kind = "few" /\ kind' = "few"
      BY <1>1 DEF FewCalls
    <2>2. CommitsInv'
      BY <2>1, InvNext DEF MCInv
    <2> QED BY <2>1, <2>2 DEF MCInv
  <1>2. CASE StableSteps
    <2> DEFINE p == CHOOSE q \in Payloads : TRUE
    <2>1. p \in Payloads
      BY MCWeightCommitsAssumption
    <2>2. StableNext /\ kind = "stable" /\ kind' = kind
      BY <1>2, <2>1 DEF StableSteps, StableNext, HashSteps, Encrypted
    <2>3. CommitsInv' /\ StableInv' /\ CRV3OnTime
      BY <2>2, StableStep DEF MCInv
    <2> QED BY <2>3 DEF MCInv
  <1>3. CASE UNCHANGED MCvars
    <2>1. UNCHANGED vars /\ kind' = kind
      BY <1>3 DEF MCvars
    <2>2. CommitsInv'
      BY <2>1, InvNext DEF MCInv
    <2>3. kind = "stable" => StableInv' /\ CRV3OnTime
      BY <2>1, StableStep DEF MCInv
    <2> QED BY <2>1, <2>2, <2>3 DEF MCInv
  <1> QED BY <1>1, <1>2, <1>3

\* Every state of the model-checked specification is sound, for any bounds on
\* calls and blocks.
THEOREM CommitsAlwaysSound ==
  ASSUME 0 \notin Periods
  PROVE  MCSpec => []CommitsSound
  <1>1. MCInit => MCInv
    BY InvInit, StableInit DEF MCInit, MCInv
  <1>2. MCInv /\ [FewCalls \/ StableSteps]_MCvars => MCInv'
    BY MCStep
  <1>3. MCInv => CommitsSound
    BY InvRevealable, InvNotLate, InvSpaced, InvWindows DEF MCInv, CommitsSound, CommitsInv
  <1> QED BY <1>1, <1>2, <1>3, PTL DEF MCSpec

\* In it the chain tries an encrypted commit at its epoch, and at no other.
THEOREM EncryptedAlwaysOnTime == MCSpec => EncryptedRevealsOnTime
  <1>1. MCInit => MCInv
    BY InvInit, StableInit DEF MCInit, MCInv
  <1>2. MCInv /\ [FewCalls \/ StableSteps]_MCvars => MCInv'
    BY MCStep
  <1>3. MCInv /\ [FewCalls \/ StableSteps]_MCvars => [kind = "stable" => CRV3OnTime]_MCvars
    BY MCStep
  <1> QED BY <1>1, <1>2, <1>3, PTL DEF MCSpec, EncryptedRevealsOnTime
=============================================================================
