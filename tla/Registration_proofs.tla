------------------------ MODULE Registration_proofs ------------------------
(***************************************************************************)
(* Proofs about registration: that it implements the slot table, and that  *)
(* the loop of get_neuron_to_prune finds the neuron its comment describes, *)
(* for any number of neurons.  The loop is a recursive function of the     *)
(* uid; what it computes is proved by induction on the uid, from the fact  *)
(* that a set of naturals with 0 and closed under successor is Nat.        *)
(***************************************************************************)
EXTENDS Registration, Neurons_proofs, Sums_proofs, FiniteSetTheorems, TLAPS

-----------------------------------------------------------------------------
\* The loop of get_neuron_to_prune.

\* The loop after k uids, for all k up to the number of neurons: the function
\* the recursive definition in Scan asks for.
IsLoop(n, M, g) ==
    g = [k \in 0..M |-> IF k = 0 THEN ScanStart ELSE ScanStep(n, k - 1, g[k - 1])]

\* There is such a function, so Scan's recursive definition is one.
LEMMA LoopExists ==
  ASSUME NEW n, NEW M \in Nat
  PROVE  \E g : IsLoop(n, M, g)
  <1> DEFINE T == {m \in Nat : \E g : IsLoop(n, m, g)}
  <1>1. 0 \in T
    <2> DEFINE g == [k \in 0..0 |-> ScanStart]
    <2>1. IsLoop(n, 0, g)
      BY DEF IsLoop
    <2> QED BY <2>1
  <1>2. ASSUME NEW m \in T PROVE m + 1 \in T
    <2>1. PICK g : IsLoop(n, m, g)
      OBVIOUS
    <2> DEFINE f == [k \in 0..(m + 1) |-> IF k = m + 1 THEN ScanStep(n, m, g[m]) ELSE g[k]]
    <2>2. \A k \in 0..m : f[k] = g[k]
      OBVIOUS
    <2>3. \A k \in 0..m : g[k] = IF k = 0 THEN ScanStart ELSE ScanStep(n, k - 1, g[k - 1])
      BY <2>1 DEF IsLoop
    <2>4. ASSUME NEW k \in 0..(m + 1)
          PROVE  f[k] = IF k = 0 THEN ScanStart ELSE ScanStep(n, k - 1, f[k - 1])
      <3>1. CASE k = m + 1
        BY <3>1, <2>2
      <3>2. CASE k \in 0..m
        BY <3>2, <2>2, <2>3
      <3> QED BY <3>1, <3>2
    <2>5. IsLoop(n, m + 1, f)
      <3> DEFINE h == [k \in 0..(m + 1) |-> IF k = 0 THEN ScanStart ELSE ScanStep(n, k - 1, f[k - 1])]
      <3>1. f = h
        BY <2>4
      <3> QED BY <3>1 DEF IsLoop
    <2> QED BY <2>5
  <1>3. T = Nat
    <2> HIDE DEF T
    <2>1. T \subseteq Nat
      BY DEF T
    <2> QED BY <1>1, <1>2, <2>1, SetInduction
  <1> QED BY <1>3
\* What Scan returns is the last value of such a function.
LEMMA ScanIsLoop ==
  ASSUME NEW n, SubnetworkN[n] \in Nat
  PROVE  \E g : IsLoop(n, SubnetworkN[n], g) /\ Scan(n) = g[SubnetworkN[n]]
  <1> DEFINE M == SubnetworkN[n]
             scan == CHOOSE g : g = [k \in 0..M |-> IF k = 0 THEN ScanStart
                                                    ELSE ScanStep(n, k - 1, g[k - 1])]
  <1>1. \E g : g = [k \in 0..M |-> IF k = 0 THEN ScanStart ELSE ScanStep(n, k - 1, g[k - 1])]
    BY LoopExists DEF IsLoop
  <1>2. IsLoop(n, M, scan)
    BY <1>1 DEF IsLoop
  <1>3. Scan(n) = scan[M]
    BY DEF Scan
  <1> QED BY <1>2, <1>3

\* The entries get_neuron_to_prune reads for subnet n are in range.
Readable(n) ==
    /\ SubnetworkN[n] \in Nat
    /\ MaxScore \in Nat /\ MaxBlock \in Nat
    /\ \A u \in 0..(SubnetworkN[n] - 1) :
          get_pruning_score_for_uid(n, u) \in 0..MaxScore /\ BlockAtRegistration[n][u] \in 0..MaxBlock

\* c is the candidate of the loop among the uids of S.
Candidate(n, S, c) ==
    IF S = {} THEN c = NoCandidate
    ELSE /\ PrunedFirst(n, S, c.uid)
         /\ c = [score |-> get_pruning_score_for_uid(n, c.uid),
                 registered |-> BlockAtRegistration[n][c.uid], uid |-> c.uid]

\* One comparison: the next uid goes against the candidate so far.
LEMMA BetterIsCandidate ==
  ASSUME NEW n, Readable(n), NEW u \in 0..(SubnetworkN[n] - 1),
         NEW S \in SUBSET (0..(u - 1)), NEW c, Candidate(n, S, c)
  PROVE  Candidate(n, S \cup {u}, Better(n, u, c))
  <1> DEFINE score(w) == get_pruning_score_for_uid(n, w)
             came(w) == BlockAtRegistration[n][w]
             new == [score |-> score(u), registered |-> came(u), uid |-> u]
  <1>1. \A w \in S \cup {u} : /\ w \in Nat /\ score(w) \in 0..MaxScore /\ came(w) \in 0..MaxBlock
                              /\ w # u => w < u
    BY DEF Readable
  <1>2. MaxScore \in Nat /\ MaxBlock \in Nat
    BY DEF Readable
  <1>3. CASE S = {}
    <2>1. c.score = MaxScore /\ c.registered = MaxBlock + 1
      BY <1>3 DEF Candidate, NoCandidate
    <2>2. Better(n, u, c) = new
      BY <1>1, <1>2, <2>1 DEF Better
    <2>3. PrunedFirst(n, S \cup {u}, u)
      BY <1>3 DEF PrunedFirst
    <2> QED BY <2>2, <2>3 DEF Candidate
  <1>4. CASE S # {}
    <2>1. /\ c.uid \in S /\ \A v \in S \ {c.uid} : Before(n, c.uid, v)
          /\ c = [score |-> score(c.uid), registered |-> came(c.uid), uid |-> c.uid]
      BY <1>4 DEF Candidate, PrunedFirst
    <2>2. c.score = score(c.uid) /\ c.registered = came(c.uid)
      BY <2>1
    <2> DEFINE less == score(u) < score(c.uid) \/ (score(u) = score(c.uid) /\ came(u) < came(c.uid))
    <2> HIDE DEF score, came
    <2>b. \A v, w : Before(n, v, w) <=>
              \/ score(v) < score(w)
              \/ score(v) = score(w) /\ (came(v) < came(w) \/ (came(v) = came(w) /\ v < w))
      BY DEF Before, score, came
    <2>3. CASE less
      <3>1. Better(n, u, c) = new
        BY <2>2, <2>3 DEF Better, score, came
      <3>2. \A v \in S : Before(n, u, v)
        BY <1>1, <1>2, <2>1, <2>3, <2>b
      <3>3. PrunedFirst(n, S \cup {u}, u)
        BY <3>2 DEF PrunedFirst
      <3> QED BY <3>1, <3>3 DEF Candidate, score, came
    <2>4. CASE ~less
      <3>1. Better(n, u, c) = c
        BY <2>2, <2>4 DEF Better, score, came
      <3>2. Before(n, c.uid, u)
        BY <1>1, <1>2, <2>1, <2>4, <2>b
      <3>3. PrunedFirst(n, S \cup {u}, c.uid)
        BY <2>1, <3>2 DEF PrunedFirst
      <3> QED BY <2>1, <3>1, <3>3 DEF Candidate, score, came
    <2> QED BY <2>3, <2>4
  <1> QED BY <1>3, <1>4
\* The uids below k that the loop tries in each of its two classes.
TriedImmune(n, k) == {u \in 0..(k - 1) : ~IsOwnerSlot(n, u) /\ get_neuron_is_immune(n, u)}
TriedMortal(n, k) == {u \in 0..(k - 1) : ~IsOwnerSlot(n, u) /\ ~get_neuron_is_immune(n, u)}

\* The invariant of the loop: after k uids it holds the candidate of each
\* class, and knows whether the second class is empty.
LoopInv(n, k, s) ==
    /\ s = [immune |-> s.immune, other |-> s.other, found_non_immune |-> s.found_non_immune]
    /\ Candidate(n, TriedImmune(n, k), s.immune)
    /\ Candidate(n, TriedMortal(n, k), s.other)
    /\ s.found_non_immune = (TriedMortal(n, k) # {})

LEMMA LoopStart == ASSUME NEW n PROVE LoopInv(n, 0, ScanStart)
  <1>1. TriedImmune(n, 0) = {} /\ TriedMortal(n, 0) = {}
    BY DEF TriedImmune, TriedMortal
  <1> QED BY <1>1 DEF LoopInv, Candidate, ScanStart

\* The body of the loop keeps its invariant.
LEMMA LoopStep ==
  ASSUME NEW n, Readable(n), NEW u \in 0..(SubnetworkN[n] - 1), NEW s, LoopInv(n, u, s)
  PROVE  LoopInv(n, u + 1, ScanStep(n, u, s))
  <1>0. u \in Nat /\ SubnetworkN[n] \in Nat
    BY DEF Readable
  <1>1. CASE IsOwnerSlot(n, u)
    <2>1. TriedImmune(n, u + 1) = TriedImmune(n, u) /\ TriedMortal(n, u + 1) = TriedMortal(n, u)
      BY <1>0, <1>1 DEF TriedImmune, TriedMortal
    <2> QED BY <1>1, <2>1 DEF LoopInv, ScanStep
  <1>2. CASE ~IsOwnerSlot(n, u) /\ get_neuron_is_immune(n, u)
    <2>1. TriedImmune(n, u + 1) = TriedImmune(n, u) \cup {u} /\ TriedMortal(n, u + 1) = TriedMortal(n, u)
      BY <1>0, <1>2 DEF TriedImmune, TriedMortal
    <2>2. TriedImmune(n, u) \in SUBSET (0..(u - 1))
      BY DEF TriedImmune
    <2>3. Candidate(n, TriedImmune(n, u + 1), Better(n, u, s.immune))
      BY <2>1, <2>2, BetterIsCandidate DEF LoopInv
    <2>4. ScanStep(n, u, s) = [s EXCEPT !.immune = Better(n, u, s.immune)]
      BY <1>2 DEF ScanStep
    <2>5. ScanStep(n, u, s) = [immune |-> Better(n, u, s.immune), other |-> s.other,
                               found_non_immune |-> s.found_non_immune]
      BY <2>4 DEF LoopInv
    <2> QED BY <2>1, <2>3, <2>5 DEF LoopInv
  <1>3. CASE ~IsOwnerSlot(n, u) /\ ~get_neuron_is_immune(n, u)
    <2>1. TriedImmune(n, u + 1) = TriedImmune(n, u) /\ TriedMortal(n, u + 1) = TriedMortal(n, u) \cup {u}
      BY <1>0, <1>3 DEF TriedImmune, TriedMortal
    <2>2. TriedMortal(n, u) \in SUBSET (0..(u - 1))
      BY DEF TriedMortal
    <2>3. Candidate(n, TriedMortal(n, u + 1), Better(n, u, s.other))
      BY <2>1, <2>2, BetterIsCandidate DEF LoopInv
    <2>4. ScanStep(n, u, s) = [s EXCEPT !.other = Better(n, u, s.other), !.found_non_immune = TRUE]
      BY <1>3 DEF ScanStep
    <2>5. ScanStep(n, u, s) = [immune |-> s.immune, other |-> Better(n, u, s.other),
                               found_non_immune |-> TRUE]
      BY <2>4 DEF LoopInv
    <2> DEFINE t == ScanStep(n, u, s)
    <2>6. /\ t = [immune |-> t.immune, other |-> t.other, found_non_immune |-> t.found_non_immune]
          /\ t.immune = s.immune /\ t.other = Better(n, u, s.other) /\ t.found_non_immune = TRUE
      BY <2>5
    <2>7. (TriedMortal(n, u + 1) # {}) = TRUE
      BY <2>1
    <2> HIDE DEF t
    <2>8. /\ Candidate(n, TriedImmune(n, u + 1), t.immune)
          /\ Candidate(n, TriedMortal(n, u + 1), t.other)
          /\ t.found_non_immune = (TriedMortal(n, u + 1) # {})
      BY <2>1, <2>3, <2>6, <2>7 DEF LoopInv
    <2>9. LoopInv(n, u + 1, t)
      BY <2>6, <2>8 DEF LoopInv
    <2> QED BY <2>9 DEF t
  <1> QED BY <1>1, <1>2, <1>3

\* So the invariant holds after the last uid.
LEMMA LoopEnd ==
  ASSUME NEW n, Readable(n)
  PROVE  LoopInv(n, SubnetworkN[n], Scan(n))
  <1> DEFINE M == SubnetworkN[n]
  <1>1. M \in Nat
    BY DEF Readable
  <1>2. PICK g : IsLoop(n, M, g) /\ Scan(n) = g[M]
    BY <1>1, ScanIsLoop
  <1>3. \A k \in 0..M : g[k] = IF k = 0 THEN ScanStart ELSE ScanStep(n, k - 1, g[k - 1])
    BY <1>2 DEF IsLoop
  <1> HIDE DEF M
  <1> DEFINE T == {k \in Nat : k <= M => LoopInv(n, k, g[k])}
  <1>4. 0 \in T
    BY <1>1, <1>3, LoopStart
  <1>5. ASSUME NEW k \in T PROVE k + 1 \in T
    <2> SUFFICES ASSUME k + 1 <= M PROVE LoopInv(n, k + 1, g[k + 1])
      OBVIOUS
    <2>1. k \in 0..(M - 1) /\ k + 1 \in 0..M /\ k + 1 # 0 /\ (k + 1) - 1 = k /\ k <= M
      BY <1>1
    <2>2. g[k + 1] = ScanStep(n, k, g[k])
      BY <1>3, <2>1
    <2>3. LoopInv(n, k, g[k])
      BY <2>1
    <2> QED BY <2>1, <2>2, <2>3, LoopStep DEF M
  <1>6. T = Nat
    <2> HIDE DEF T
    <2>1. T \subseteq Nat
      BY DEF T
    <2> QED BY <1>4, <1>5, <2>1, SetInduction
  <1>7. LoopInv(n, M, g[M])
    BY <1>1, <1>6
  <1> QED BY <1>2, <1>7 DEF M

\* The neuron the loop returns: the documented one when a neuron may be
\* pruned, and uid 0 otherwise.
LEMMA PruneChoice ==
  ASSUME NEW n, Readable(n)
  PROVE  /\ Prunable(n) # {} => PrunedFirst(n, PruneFrom(n), get_neuron_to_prune(n))
         /\ Prunable(n) = {} => get_neuron_to_prune(n) = 0
  <1> DEFINE s == Scan(n)
             I == TriedImmune(n, SubnetworkN[n])
             O == TriedMortal(n, SubnetworkN[n])
  <1>1. LoopInv(n, SubnetworkN[n], s)
    BY LoopEnd
  <1>2. Mortal(n) = O /\ Prunable(n) = I \cup O
    BY DEF Mortal, Prunable, TriedImmune, TriedMortal
  <1> HIDE DEF s, I, O
  <1>3. /\ Candidate(n, I, s.immune) /\ Candidate(n, O, s.other)
        /\ s.found_non_immune = (O # {})
    BY <1>1 DEF LoopInv, I, O
  <1>4. get_neuron_to_prune(n) = IF O # {} THEN s.other.uid ELSE s.immune.uid
    BY <1>3 DEF get_neuron_to_prune, s
  <1>5. CASE O # {}
    BY <1>2, <1>3, <1>4, <1>5 DEF PruneFrom, Candidate
  <1>6. CASE O = {} /\ I # {}
    <2>1. PruneFrom(n) = I
      BY <1>2, <1>6 DEF PruneFrom
    <2> QED BY <1>2, <1>3, <1>4, <1>6, <2>1 DEF Candidate
  <1>7. CASE O = {} /\ I = {}
    BY <1>2, <1>3, <1>4, <1>7 DEF Candidate, NoCandidate
  <1> QED BY <1>5, <1>6, <1>7
-----------------------------------------------------------------------------
\* The steps of registration are steps of the slot table.

\* An element of a sequence.
LEMMA ElementOfSeq ==
  ASSUME NEW S, NEW s \in Seq(S) PROVE \A i \in DOMAIN s : s[i] \in S
  OBVIOUS

USE NeuronsAssumption, RegistrationAssumption
    DEF ROOT, NoUid, NetUids, UidSpace, MemberFlag, Scores

\* Everything later steps need to know of the types.
LEMMA RegistrationTypes ==
  ASSUME RegistrationInv
  PROVE  /\ NeuronsInv /\ TypeOK /\ NetworksAdded \subseteq NetUids
         /\ \A n \in NetUids : /\ SubnetworkN[n] \in 0..UidLimit /\ MaxAllowedUids[n] \in 1..UidLimit
                               /\ PruningScores[n] \in Seq(Scores)
                               /\ Len(PruningScores[n]) = SubnetworkN[n]
         /\ block \in 0..MaxBlock /\ NetworkLastRegistered \in 0..MaxBlock
         /\ BlockAtRegistration \in [NetUids -> [UidSpace -> 0..MaxBlock]]
         /\ PruningScores \in [NetUids -> Seq(Scores)]
         /\ RegistrationsThisBlock \in [NetUids -> Nat]
         /\ RegistrationsThisInterval \in [NetUids -> Nat]
         /\ BurnRegistrationsThisInterval \in [NetUids -> Nat]
         /\ POWRegistrationsThisInterval \in [NetUids -> Nat]
         /\ LastAdjustmentBlock \in [NetUids -> Nat]
  <1>1. NeuronsInv /\ RegistrationTypeOK /\ VectorsInStep
    BY DEF RegistrationInv
  <1>2. TypeOK
    BY <1>1 DEF NeuronsInv
  <1>3. \A n \in NetUids : PruningScores[n] \in Seq(Scores) /\ Len(PruningScores[n]) = SubnetworkN[n]
    BY <1>1 DEF RegistrationTypeOK, VectorsInStep
  <1>4. \A n \in NetUids : SubnetworkN[n] \in 0..UidLimit /\ MaxAllowedUids[n] \in 1..UidLimit
    BY <1>2 DEF TypeOK
  <1>5. NetworksAdded \subseteq NetUids
    BY <1>2 DEF TypeOK
  <1> QED BY <1>1, <1>2, <1>3, <1>4, <1>5 DEF RegistrationTypeOK

\* The loop reads scores and blocks that are in range.
LEMMA InvReadable == ASSUME RegistrationInv, NEW n \in NetUids PROVE Readable(n)
  <1>1. SubnetworkN[n] \in 0..UidLimit
    BY RegistrationTypes
  <1>2. PruningScores[n] \in Seq(0..MaxScore) /\ BlockAtRegistration[n] \in [UidSpace -> 0..MaxBlock]
    BY RegistrationTypes
  <1>3. ASSUME NEW u \in 0..(SubnetworkN[n] - 1)
        PROVE  get_pruning_score_for_uid(n, u) \in 0..MaxScore /\ BlockAtRegistration[n][u] \in 0..MaxBlock
    <2>1. u \in UidSpace
      BY <1>1
    <2>2. \A i \in DOMAIN PruningScores[n] : PruningScores[n][i] \in 0..MaxScore
      BY <1>2, ElementOfSeq
    <2> QED BY <1>2, <2>1, <2>2 DEF get_pruning_score_for_uid
  <1> QED BY <1>1, <1>3 DEF Readable

\* A full subnet has a neuron that is not the owner's: it has two neurons at
\* least, and the owner's hotkey holds one slot only.
LEMMA FullHasPrunable ==
  ASSUME NeuronsInv, NEW n \in NetworksAdded \ {ROOT}, SubnetworkN[n] >= MaxAllowedUids[n]
  PROVE  Prunable(n) # {}
  <1>1. /\ n \in NetUids /\ SubnetworkN[n] \in 0..UidLimit /\ MaxAllowedUids[n] \in 1..UidLimit
        /\ \A u \in UidSpace : Keys[n][u] \in Hotkeys \cup {NoKey}
    BY EntryTypes
  <1>2. MaxAllowedUids[n] >= 2
    BY DEF NeuronsInv, VictimExists
  <1>3. 0 \in UidSpace /\ 1 \in UidSpace /\ 0 < SubnetworkN[n] /\ 1 < SubnetworkN[n]
    BY <1>1, <1>2
  <1>4. Keys[n][0] \in Hotkeys /\ Keys[n][1] \in Hotkeys
    BY <1>1, <1>3 DEF NeuronsInv, SlotsContiguous
  <1>5. Keys[n][0] # Keys[n][1]
    <2> SUFFICES ASSUME Keys[n][0] = Keys[n][1] PROVE FALSE
      OBVIOUS
    <2>1. Uids[n][Keys[n][0]] = 0
      BY <1>1, <1>3, <1>4 DEF NeuronsInv, KeysUidsInverse
    <2>2. Uids[n][Keys[n][1]] = 1
      BY <1>1, <1>3, <1>4 DEF NeuronsInv, KeysUidsInverse
    <2> QED BY <2>1, <2>2
  <1>6. 0 \in 0..(SubnetworkN[n] - 1) /\ 1 \in 0..(SubnetworkN[n] - 1)
    BY <1>1, <1>3
  <1> QED BY <1>5, <1>6 DEF Prunable, IsOwnerSlot

\* So the uid get_neuron_to_prune returns for a full subnet is a neuron's, and
\* not the owner's: replace_neuron does not skip it.
LEMMA PruneInRange ==
  ASSUME RegistrationInv, NEW n \in NetworksAdded \ {ROOT}, SubnetworkN[n] >= MaxAllowedUids[n]
  PROVE  get_neuron_to_prune(n) \in 0..(SubnetworkN[n] - 1) /\ ~IsOwnerSlot(n, get_neuron_to_prune(n))
  <1>1. n \in NetUids /\ NeuronsInv
    BY RegistrationTypes
  <1>2. get_neuron_to_prune(n) \in PruneFrom(n)
    BY <1>1, FullHasPrunable, InvReadable, PruneChoice DEF PrunedFirst
  <1>3. PruneFrom(n) \subseteq Prunable(n)
    BY DEF PruneFrom, Mortal
  <1> QED BY <1>2, <1>3 DEF Prunable

\* What a registration does outside the counters: the newcomer gets one slot,
\* stamped with this block, and the scores stay in step.
TakesSlot(n, h, u) ==
    /\ RegisterNeuron(n, h)
    /\ u \in UidSpace
    /\ BlockAtRegistration' = [BlockAtRegistration EXCEPT ![n][u] = block]
    /\ \A m \in NetUids : m # n => SubnetworkN'[m] = SubnetworkN[m]
    /\ SubnetworkN'[n] \in {SubnetworkN[n], SubnetworkN[n] + 1}
    /\ SubnetworkN'[n] = SubnetworkN[n] + 1 => u = SubnetworkN[n]

\* The part of the invariant about scores, and the one about the two counters
\* that RegistrationsThisInterval adds up.
ScoresInStep == PruningScores \in [NetUids -> Seq(Scores)] /\ VectorsInStep
SplitCounted ==
    /\ BurnRegistrationsThisInterval \in [NetUids -> Nat]
    /\ POWRegistrationsThisInterval \in [NetUids -> Nat]
    /\ CountersAgree

LEMMA AppendTakesSlot ==
  ASSUME RegistrationInv, NEW n \in NetworksAdded, NEW h \in Hotkeys, MayRegister(n, h),
         SubnetworkN[n] < MaxAllowedUids[n], AppendNeuron(n, h),
         UNCHANGED <<NetworksAdded, MaxAllowedUids, SubnetOwnerHotkey>>
  PROVE  TakesSlot(n, h, SubnetworkN[n])
  <1>1. /\ n \in NetUids /\ TypeOK
        /\ SubnetworkN[n] \in 0..UidLimit /\ MaxAllowedUids[n] \in 1..UidLimit
    BY RegistrationTypes
  <1>2. append_neuron(n, h)
    BY DEF AppendNeuron
  <1>3. RegisterNeuron(n, h)
    BY <1>2 DEF RegisterNeuron, MayRegister
  <1>4. SubnetworkN' = [SubnetworkN EXCEPT ![n] = SubnetworkN[n] + 1]
    BY <1>2 DEF append_neuron
  <1>5. SubnetworkN \in [NetUids -> 0..UidLimit]
    BY <1>1 DEF TypeOK
  <1>6. /\ \A m \in NetUids : m # n => SubnetworkN'[m] = SubnetworkN[m]
        /\ SubnetworkN'[n] = SubnetworkN[n] + 1
    BY <1>1, <1>4, <1>5
  <1>7. BlockAtRegistration' = [BlockAtRegistration EXCEPT ![n][SubnetworkN[n]] = block]
    BY DEF AppendNeuron
  <1>8. SubnetworkN[n] \in UidSpace
    BY <1>1
  <1> QED BY <1>3, <1>6, <1>7, <1>8 DEF TakesSlot

LEMMA ReplaceTakesSlot ==
  ASSUME RegistrationInv, NEW n \in NetworksAdded, NEW h \in Hotkeys, MayRegister(n, h),
         SubnetworkN[n] >= MaxAllowedUids[n], NEW u \in 0..(SubnetworkN[n] - 1),
         replace_neuron(n, u, h),
         BlockAtRegistration' = [BlockAtRegistration EXCEPT ![n][u] = block],
         UNCHANGED <<NetworksAdded, MaxAllowedUids, SubnetOwnerHotkey>>
  PROVE  TakesSlot(n, h, u) /\ SubnetworkN' = SubnetworkN
  <1>1. n \in NetUids /\ SubnetworkN[n] \in 0..UidLimit
    BY RegistrationTypes
  <1>2. RegisterNeuron(n, h)
    BY DEF RegisterNeuron, MayRegister
  <1>3. SubnetworkN' = SubnetworkN
    BY DEF replace_neuron
  <1>4. u \in UidSpace
    BY <1>1
  <1>5. SubnetworkN[n] # SubnetworkN[n] + 1
    BY <1>1
  <1> QED BY <1>2, <1>3, <1>4, <1>5 DEF TakesSlot

\* An entry past the old end of a vector of scores, or a new value of an entry.
LEMMA ScoresStay ==
  ASSUME NEW s \in Seq(Scores)
  PROVE  /\ Append(s, 0) \in Seq(Scores) /\ Len(Append(s, 0)) = Len(s) + 1
         /\ \A i \in 1..Len(s) : /\ [s EXCEPT ![i] = MaxScore] \in Seq(Scores)
                                 /\ Len([s EXCEPT ![i] = MaxScore]) = Len(s)
  <1>1. 0 \in Scores /\ MaxScore \in Scores
    OBVIOUS
  <1> HIDE DEF Scores
  <1>2. Append(s, 0) \in Seq(Scores) /\ Len(Append(s, 0)) = Len(s) + 1
    BY <1>1
  <1>3. \A i \in 1..Len(s) : /\ [s EXCEPT ![i] = MaxScore] \in Seq(Scores)
                             /\ Len([s EXCEPT ![i] = MaxScore]) = Len(s)
    BY <1>1
  <1> QED BY <1>2, <1>3


\* register_neuron on a subnet, where pruning finds a neuron.
LEMMA RegisterTakesSlot ==
  ASSUME RegistrationInv, NEW n \in NetUids \ {ROOT}, NEW h \in Hotkeys, MayRegister(n, h),
         register_neuron(n, h), UNCHANGED <<NetworksAdded, MaxAllowedUids, SubnetOwnerHotkey>>
  PROVE  /\ \E u \in UidSpace : TakesSlot(n, h, u)
         /\ ScoresInStep'
  <1>0. /\ n \in NetworksAdded /\ SubnetworkN[n] \in 0..UidLimit /\ MaxAllowedUids[n] \in 1..UidLimit
        /\ PruningScores[n] \in Seq(Scores) /\ Len(PruningScores[n]) = SubnetworkN[n]
        /\ PruningScores \in [NetUids -> Seq(Scores)]
        /\ \A m \in NetUids : Len(PruningScores[m]) = SubnetworkN[m]
    BY RegistrationTypes DEF MayRegister
  <1>1. CASE SubnetworkN[n] < MaxAllowedUids[n]
    <2>1. AppendNeuron(n, h)
      BY <1>1 DEF register_neuron
    <2>2. TakesSlot(n, h, SubnetworkN[n])
      BY <1>0, <1>1, <2>1, AppendTakesSlot
    <2>3. SubnetworkN' = [SubnetworkN EXCEPT ![n] = SubnetworkN[n] + 1]
      BY <2>1 DEF AppendNeuron, append_neuron
    <2>4. PruningScores' = [PruningScores EXCEPT ![n] = Append(PruningScores[n], 0)]
      BY <2>1 DEF AppendNeuron
    <2> DEFINE s == Append(PruningScores[n], 0)
    <2>5. s \in Seq(Scores) /\ Len(s) = SubnetworkN[n] + 1
      BY <1>0, ScoresStay
    <2>6. SubnetworkN \in [NetUids -> 0..UidLimit]
      BY RegistrationTypes DEF TypeOK
    <2> HIDE DEF s
    <2>7. PruningScores' = [PruningScores EXCEPT ![n] = s]
      BY <2>4 DEF s
    <2>8. PruningScores' \in [NetUids -> Seq(Scores)]
      BY <1>0, <2>5, <2>7
    <2>9. \A m \in NetUids : Len(PruningScores'[m]) = SubnetworkN'[m]
      BY <1>0, <2>3, <2>5, <2>6, <2>7
    <2>10. SubnetworkN[n] \in UidSpace
      BY <2>2 DEF TakesSlot
    <2>11. ScoresInStep'
      BY <2>8, <2>9 DEF ScoresInStep, VectorsInStep
    <2> QED BY <2>2, <2>10, <2>11
  <1>2. CASE SubnetworkN[n] >= MaxAllowedUids[n]
    <2> DEFINE u == get_neuron_to_prune(n)
               s == [PruningScores[n] EXCEPT ![u + 1] = MaxScore]
    <2>1. u \in 0..(SubnetworkN[n] - 1) /\ ~IsOwnerSlot(n, u)
      BY <1>0, <1>2, PruneInRange
    <2>2. ReplaceNeuron(n, u, h) /\ PruningScores' = [PruningScores EXCEPT ![n] = s]
      BY <1>0, <1>2 DEF register_neuron
    <2> HIDE DEF u
    <2>3. /\ replace_neuron(n, u, h)
          /\ BlockAtRegistration' = [BlockAtRegistration EXCEPT ![n][u] = block]
      BY <2>1, <2>2 DEF ReplaceNeuron
    <2>4. TakesSlot(n, h, u) /\ SubnetworkN' = SubnetworkN
      BY <1>0, <1>2, <2>1, <2>3, ReplaceTakesSlot
    <2>5. u + 1 \in 1..Len(PruningScores[n])
      BY <1>0, <2>1
    <2>6. s \in Seq(Scores) /\ Len(s) = SubnetworkN[n]
      BY <1>0, <2>5, ScoresStay
    <2> HIDE DEF s
    <2>7. PruningScores' \in [NetUids -> Seq(Scores)]
      BY <1>0, <2>2, <2>6
    <2>8. \A m \in NetUids : Len(PruningScores'[m]) = SubnetworkN'[m]
      BY <1>0, <2>2, <2>4, <2>6
    <2>9. u \in UidSpace
      BY <2>4 DEF TakesSlot
    <2>10. ScoresInStep'
      BY <2>7, <2>8 DEF ScoresInStep, VectorsInStep
    <2> QED BY <2>4, <2>9, <2>10
  <1> QED BY <1>0, <1>1, <1>2

\* The same on root, where the lowest stake decides.
LEMMA RootTakesSlot ==
  ASSUME RegistrationInv, NEW h \in Hotkeys, do_root_register(h)
  PROVE  /\ \E u \in UidSpace : TakesSlot(ROOT, h, u)
         /\ ScoresInStep'
  <1> DEFINE n == ROOT
  <1>0. /\ n \in NetUids /\ n \in NetworksAdded /\ MayRegister(n, h)
        /\ SubnetworkN[n] \in 0..UidLimit
        /\ PruningScores[n] \in Seq(Scores) /\ Len(PruningScores[n]) = SubnetworkN[n]
        /\ PruningScores \in [NetUids -> Seq(Scores)]
        /\ \A m \in NetUids : Len(PruningScores[m]) = SubnetworkN[m]
        /\ UNCHANGED <<NetworksAdded, MaxAllowedUids, SubnetOwnerHotkey>>
    BY RegistrationTypes DEF MayRegister, do_root_register
  <1> HIDE DEF n
  <1>1. CASE SubnetworkN[n] < MaxAllowedUids[n] /\ AppendNeuron(n, h)
    <2>1. TakesSlot(n, h, SubnetworkN[n])
      BY <1>0, <1>1, AppendTakesSlot
    <2>2. SubnetworkN' = [SubnetworkN EXCEPT ![n] = SubnetworkN[n] + 1]
      BY <1>1 DEF AppendNeuron, append_neuron
    <2> DEFINE s == Append(PruningScores[n], 0)
    <2>3. PruningScores' = [PruningScores EXCEPT ![n] = s]
      BY <1>1 DEF AppendNeuron
    <2>4. s \in Seq(Scores) /\ Len(s) = SubnetworkN[n] + 1
      BY <1>0, ScoresStay
    <2>5. SubnetworkN \in [NetUids -> 0..UidLimit]
      BY RegistrationTypes DEF TypeOK
    <2> HIDE DEF s
    <2>6. PruningScores' \in [NetUids -> Seq(Scores)]
      BY <1>0, <2>3, <2>4
    <2>7. \A m \in NetUids : Len(PruningScores'[m]) = SubnetworkN'[m]
      BY <1>0, <2>2, <2>3, <2>4, <2>5
    <2>8. SubnetworkN[n] \in UidSpace
      BY <2>1 DEF TakesSlot
    <2>9. ScoresInStep'
      BY <2>6, <2>7 DEF ScoresInStep, VectorsInStep
    <2> QED BY <2>1, <2>8, <2>9 DEF n
  <1>2. ASSUME SubnetworkN[n] >= MaxAllowedUids[n], UNCHANGED PruningScores,
               NEW u \in 0..(SubnetworkN[n] - 1), replace_neuron(n, u, h),
               BlockAtRegistration' = [BlockAtRegistration EXCEPT ![n][u] = block]
        PROVE  /\ \E v \in UidSpace : TakesSlot(n, h, v)
               /\ ScoresInStep'
    <2>1. TakesSlot(n, h, u) /\ SubnetworkN' = SubnetworkN
      BY <1>0, <1>2, ReplaceTakesSlot
    <2>2. u \in UidSpace
      BY <2>1 DEF TakesSlot
    <2>3. ScoresInStep'
      BY <1>0, <1>2, <2>1 DEF ScoresInStep, VectorsInStep
    <2> QED BY <2>1, <2>2, <2>3
  <1> QED BY <1>1, <1>2 DEF do_root_register, n

\* A set with at most one element more than another.
LEMMA OneMore ==
  ASSUME NEW S, IsFiniteSet(S), NEW u, NEW T \in SUBSET (S \cup {u})
  PROVE  Cardinality(T) <= Cardinality(S) + 1
  <1>1. IsFiniteSet(S \cup {u}) /\ Cardinality(S \cup {u}) \in {Cardinality(S), Cardinality(S) + 1}
    BY FS_AddElement
  <1>2. IsFiniteSet(T) /\ Cardinality(T) <= Cardinality(S \cup {u})
    BY <1>1, FS_Subset
  <1>3. Cardinality(S) \in Nat /\ Cardinality(T) \in Nat
    BY <1>2, FS_CardinalityType
  <1> QED BY <1>1, <1>2, <1>3

LEMMA AtMostOne ==
  ASSUME NEW u, NEW T \in SUBSET {u}
  PROVE  Cardinality(T) \in Nat /\ Cardinality(T) <= 1
  <1>1. IsFiniteSet({}) /\ Cardinality({}) = 0
    BY FS_EmptySet
  <1>2. T \in SUBSET ({} \cup {u})
    OBVIOUS
  <1>3. Cardinality(T) <= Cardinality({}) + 1
    BY <1>1, <1>2, OneMore
  <1>4. IsFiniteSet(T)
    BY FS_Singleton, FS_Subset
  <1>5. Cardinality(T) \in Nat
    BY <1>4, FS_CardinalityType
  <1> QED BY <1>1, <1>3, <1>5

-----------------------------------------------------------------------------
\* The bookkeeping.

LEMMA RegistrationInitInv == RegistrationInit => RegistrationInv
  <1> SUFFICES ASSUME RegistrationInit PROVE RegistrationInv
    OBVIOUS
  <1>1. Init
    BY DEF RegistrationInit
  <1>2. NeuronsInv
    BY <1>1, InitInv
  <1>3. RegistrationTypeOK
    <2>1. PruningScores \in [NetUids -> Seq(Scores)]
      <3>1. <<0>> \in Seq(Scores) /\ << >> \in Seq(Scores)
        OBVIOUS
      <3> QED BY <3>1 DEF RegistrationInit
    <2>2. /\ block \in 0..MaxBlock /\ NetworkLastRegistered \in 0..MaxBlock
          /\ BlockAtRegistration \in [NetUids -> [UidSpace -> 0..MaxBlock]]
      BY DEF RegistrationInit
    <2>3. {RegistrationsThisBlock, RegistrationsThisInterval, BurnRegistrationsThisInterval,
           POWRegistrationsThisInterval, LastAdjustmentBlock} \subseteq [NetUids -> Nat]
      BY DEF RegistrationInit
    <2> QED BY <2>1, <2>2, <2>3 DEF RegistrationTypeOK
  <1>4. VectorsInStep /\ CountersAgree
    BY <1>1 DEF RegistrationInit, Init, VectorsInStep, CountersAgree
  <1>5. \A n \in NetUids : SubnetworkN[n] \in {0, 1} /\ RegistrationsThisBlock[n] = 0
                           /\ RegistrationsThisInterval[n] = 0
    BY <1>1 DEF RegistrationInit, Init
  <1>6. \A n \in NetworksAdded : n \in NetUids
    BY <1>2 DEF NeuronsInv, TypeOK
  <1>7. ASSUME NEW n \in NetworksAdded
        PROVE  /\ Cardinality(Fresh(n)) \in Nat /\ Cardinality(Fresh(n)) <= 1
               /\ Cardinality(Newcomers(n)) \in Nat /\ Cardinality(Newcomers(n)) <= 1
    <2>1. Fresh(n) \subseteq {0} /\ Newcomers(n) \subseteq {0}
      BY <1>5, <1>6 DEF Fresh, Newcomers
    <2> QED BY <2>1, AtMostOne
  <1>8. FreshNeuronsCounted
    BY <1>5, <1>6, <1>7 DEF FreshNeuronsCounted
  <1>9. \A n \in NetUids, u \in UidSpace : BlockAtRegistration[n][u] <= block
    BY DEF RegistrationInit
  <1> QED BY <1>2, <1>3, <1>4, <1>5, <1>6, <1>7, <1>8, <1>9 DEF RegistrationInv

\* The neurons of a subnet are finitely many, and so are the fresh ones.
LEMMA FreshFinite ==
  ASSUME RegistrationInv, NEW n \in NetUids
  PROVE  IsFiniteSet(Fresh(n)) /\ IsFiniteSet(Newcomers(n))
  <1>1. SubnetworkN[n] \in 0..UidLimit
    BY RegistrationTypes
  <1>2. IsFiniteSet(0..(SubnetworkN[n] - 1))
    <2>1. 0 \in Int /\ SubnetworkN[n] - 1 \in Int
      BY <1>1
    <2> QED BY <2>1, FS_Interval
  <1>3. Fresh(n) \subseteq 0..(SubnetworkN[n] - 1) /\ Newcomers(n) \subseteq 0..(SubnetworkN[n] - 1)
    BY DEF Fresh, Newcomers
  <1> QED BY <1>2, <1>3, FS_Subset

\* A registration is a step of the slot table.
LEMMA RegisterType ==
  ASSUME NeuronsInv, NEW n \in NetUids, NEW h \in Hotkeys, RegisterNeuron(n, h)
  PROVE  NeuronsInv' /\ \A m \in NetUids : SubnetworkN'[m] \in 0..UidLimit
  <1>1. NeuronsInv'
    BY StepInv DEF Next
  <1> QED BY <1>1 DEF NeuronsInv, TypeOK

\* The counts after a step in which a live subnet's newcomers grow by one slot
\* at most while its counters grow by one.
LEMMA CountedStep ==
  ASSUME RegistrationInv, NEW n \in NetworksAdded, NEW h \in Hotkeys, NEW u \in UidSpace,
         TakesSlot(n, h, u), CountRegistration(n), UNCHANGED <<block, LastAdjustmentBlock>>
  PROVE  /\ \A m \in NetworksAdded : Cardinality(Fresh(m))' <= RegistrationsThisInterval'[m] + 1
         /\ \A m \in NetworksAdded : Cardinality(Newcomers(m))' <= RegistrationsThisBlock'[m] + 1
  <1>0. /\ NetworksAdded \subseteq NetUids
        /\ \A m \in NetUids : SubnetworkN[m] \in 0..UidLimit
        /\ BlockAtRegistration \in [NetUids -> [UidSpace -> 0..MaxBlock]]
        /\ RegistrationsThisInterval \in [NetUids -> Nat] /\ RegistrationsThisBlock \in [NetUids -> Nat]
    BY RegistrationTypes
  <1>1. /\ RegistrationsThisBlock' = [RegistrationsThisBlock EXCEPT ![n] = RegistrationsThisBlock[n] + 1]
        /\ RegistrationsThisInterval' =
             [RegistrationsThisInterval EXCEPT ![n] = RegistrationsThisInterval[n] + 1]
    BY DEF CountRegistration
  <1>2. \A m \in NetUids, v \in UidSpace :
           BlockAtRegistration'[m][v] = IF m = n /\ v = u THEN block ELSE BlockAtRegistration[m][v]
    BY <1>0 DEF TakesSlot
  <1>3. \A m \in NetUids : SubnetworkN'[m] \in 0..UidLimit
    BY <1>0, RegisterType DEF TakesSlot, RegistrationInv
  <1>4. \A m \in NetworksAdded :
           /\ Cardinality(Fresh(m)) <= RegistrationsThisInterval[m] + 1
           /\ Cardinality(Newcomers(m)) <= RegistrationsThisBlock[m] + 1
           /\ IsFiniteSet(Fresh(m)) /\ IsFiniteSet(Newcomers(m))
           /\ Cardinality(Fresh(m)) \in Nat /\ Cardinality(Newcomers(m)) \in Nat
    BY <1>0, FreshFinite, FS_CardinalityType DEF RegistrationInv, FreshNeuronsCounted
  <1>5. ASSUME NEW m \in NetworksAdded, m # n
        PROVE  Fresh(m)' = Fresh(m) /\ Newcomers(m)' = Newcomers(m)
    <2>0. m \in NetUids /\ SubnetworkN[m] \in 0..UidLimit
      BY <1>0
    <2>1. SubnetworkN'[m] = SubnetworkN[m]
      BY <1>5, <2>0 DEF TakesSlot
    <2>a. \A v \in 0..(SubnetworkN[m] - 1) : v \in UidSpace
      BY <2>0
    <2>2. \A v \in 0..(SubnetworkN[m] - 1) : BlockAtRegistration'[m][v] = BlockAtRegistration[m][v]
      BY <1>2, <1>5, <2>0, <2>a
    <2> QED BY <2>1, <2>2 DEF Fresh, Newcomers
  <1>6. Fresh(n)' \subseteq Fresh(n) \cup {u} /\ Newcomers(n)' \subseteq Newcomers(n) \cup {u}
    <2>1. ASSUME NEW v \in 0..(SubnetworkN'[n] - 1), v # u
          PROVE  /\ v \in 0..(SubnetworkN[n] - 1)
                 /\ BlockAtRegistration'[n][v] = BlockAtRegistration[n][v]
      <3>0. n \in NetUids /\ SubnetworkN[n] \in 0..UidLimit /\ SubnetworkN'[n] \in 0..UidLimit
        BY <1>0, <1>3
      <3>1. v \in UidSpace
        BY <3>0
      <3>a. /\ SubnetworkN'[n] = SubnetworkN[n] \/ SubnetworkN'[n] = SubnetworkN[n] + 1
            /\ SubnetworkN'[n] = SubnetworkN[n] + 1 => u = SubnetworkN[n]
        BY DEF TakesSlot
      <3>2. v \in 0..(SubnetworkN[n] - 1)
        BY <2>1, <3>0, <3>a
      <3> QED BY <1>2, <2>1, <3>0, <3>1, <3>2
    <2> QED BY <2>1 DEF Fresh, Newcomers
  <1>7. /\ Cardinality(Fresh(n)') <= Cardinality(Fresh(n)) + 1
        /\ Cardinality(Newcomers(n)') <= Cardinality(Newcomers(n)) + 1
    BY <1>4, <1>6, OneMore
  <1>8. IsFiniteSet(Fresh(n)') /\ IsFiniteSet(Newcomers(n)')
    BY <1>4, <1>6, FS_Subset, FS_AddElement
  <1>9. Cardinality(Fresh(n)') \in Nat /\ Cardinality(Newcomers(n)') \in Nat
    BY <1>8, FS_CardinalityType
  <1>10. ASSUME NEW m \in NetworksAdded
         PROVE  /\ Cardinality(Fresh(m)') <= RegistrationsThisInterval'[m] + 1
                /\ Cardinality(Newcomers(m)') <= RegistrationsThisBlock'[m] + 1
    <2>0. m \in NetUids /\ n \in NetUids
      BY <1>0
    <2>1. CASE m = n
      <3>1. /\ RegistrationsThisBlock'[n] = RegistrationsThisBlock[n] + 1
            /\ RegistrationsThisInterval'[n] = RegistrationsThisInterval[n] + 1
            /\ RegistrationsThisBlock[n] \in Nat /\ RegistrationsThisInterval[n] \in Nat
        BY <1>0, <1>1, <2>0
      <3> DEFINE f == Cardinality(Fresh(n))
                 g == Cardinality(Fresh(n)')
                 x == RegistrationsThisInterval[n]
                 v == Cardinality(Newcomers(n))
                 w == Cardinality(Newcomers(n)')
                 y == RegistrationsThisBlock[n]
      <3>a. f <= x + 1 /\ v <= y + 1 /\ f \in Nat /\ v \in Nat
        BY <1>4
      <3>b. g <= f + 1 /\ w <= v + 1 /\ g \in Nat /\ w \in Nat /\ x \in Nat /\ y \in Nat
        BY <1>7, <1>9, <3>1
      <3> HIDE DEF f, g, x, v, w, y
      <3>c. g <= (x + 1) + 1 /\ w <= (y + 1) + 1
        BY <3>a, <3>b
      <3>2. Cardinality(Fresh(n)') <= RegistrationsThisInterval'[n] + 1
        BY <3>1, <3>c DEF g, x
      <3>3. Cardinality(Newcomers(n)') <= RegistrationsThisBlock'[n] + 1
        BY <3>1, <3>c DEF w, y
      <3> QED BY <2>1, <3>2, <3>3
    <2>2. CASE m # n
      BY <1>0, <1>1, <1>4, <1>5, <2>0, <2>2
    <2> QED BY <2>1, <2>2
  <1> QED BY <1>10

\* The limit on newcomers follows from their counter and its limit.
LEMMA InvSound == RegistrationInv => RegistrationsSound
  <1> SUFFICES ASSUME RegistrationInv, NEW m \in NetworksAdded
               PROVE  Cardinality(Newcomers(m)) <= MaxRegistrationsPerBlock + 1
    BY DEF NewcomersPerBlock, RegistrationInv, RegistrationsSound
  <1>1. m \in NetUids /\ SubnetworkN[m] \in 0..UidLimit
    BY RegistrationTypes
  <1>2. RegistrationsThisBlock[m] \in Nat
    BY <1>1, RegistrationTypes
  <1>3. IsFiniteSet(0..(SubnetworkN[m] - 1))
    <2>1. 0 \in Int /\ SubnetworkN[m] - 1 \in Int
      BY <1>1
    <2> QED BY <2>1, FS_Interval
  <1>4. Newcomers(m) \subseteq 0..(SubnetworkN[m] - 1)
    BY DEF Newcomers
  <1>5. Cardinality(Newcomers(m)) \in Nat
    BY <1>3, <1>4, FS_Subset, FS_CardinalityType
  <1>6. /\ RegistrationsThisBlock[m] <= MaxRegistrationsPerBlock
        /\ Cardinality(Newcomers(m)) <= RegistrationsThisBlock[m] + 1
    BY <1>1 DEF RegistrationInv
  <1> QED BY <1>2, <1>5, <1>6

\* A counted registration keeps the invariant.
LEMMA CountedInv ==
  ASSUME RegistrationInv, NEW n \in NetUids, NEW h \in Hotkeys, MayRegister(n, h),
         NEW u \in UidSpace, TakesSlot(n, h, u), CountRegistration(n),
         ScoresInStep', SplitCounted',
         UNCHANGED <<block, LastAdjustmentBlock, NetworkLastRegistered>>
  PROVE  RegistrationInv'
  <1>0. /\ n \in NetworksAdded /\ block \in 0..MaxBlock /\ NetworkLastRegistered \in 0..MaxBlock
        /\ BlockAtRegistration \in [NetUids -> [UidSpace -> 0..MaxBlock]]
        /\ RegistrationsThisInterval \in [NetUids -> Nat] /\ RegistrationsThisBlock \in [NetUids -> Nat]
        /\ LastAdjustmentBlock \in [NetUids -> Nat] /\ NetworksAdded \subseteq NetUids
    BY RegistrationTypes DEF MayRegister
  <1>1. NeuronsInv' /\ NetworksAdded' = NetworksAdded
    <2>1. RegisterNeuron(n, h)
      BY DEF TakesSlot
    <2> QED BY <2>1, RegisterType DEF RegistrationInv, RegisterNeuron
  <1>2. /\ RegistrationsThisBlock' = [RegistrationsThisBlock EXCEPT ![n] = RegistrationsThisBlock[n] + 1]
        /\ RegistrationsThisInterval' =
             [RegistrationsThisInterval EXCEPT ![n] = RegistrationsThisInterval[n] + 1]
    BY DEF CountRegistration
  <1>3. RegistrationTypeOK'
    <2>1. RegistrationsThisBlock' \in [NetUids -> Nat] /\ RegistrationsThisInterval' \in [NetUids -> Nat]
      <3>0. RegistrationsThisBlock \in [NetUids -> Nat] /\ RegistrationsThisInterval \in [NetUids -> Nat]
        BY <1>0
      <3>1. RegistrationsThisBlock[n] \in Nat /\ RegistrationsThisInterval[n] \in Nat
        BY <3>0
      <3>2. RegistrationsThisBlock[n] + 1 \in Nat /\ RegistrationsThisInterval[n] + 1 \in Nat
        BY <3>1
      <3> QED BY <1>2, <3>0, <3>2
    <2>2. BlockAtRegistration' \in [NetUids -> [UidSpace -> 0..MaxBlock]]
      <3>1. BlockAtRegistration' = [BlockAtRegistration EXCEPT ![n][u] = block]
        BY DEF TakesSlot
      <3> QED BY <1>0, <3>1
    <2> QED BY <1>0, <2>1, <2>2 DEF RegistrationTypeOK, ScoresInStep, SplitCounted
  <1>5. \A m \in NetUids : RegistrationsThisBlock'[m] <= MaxRegistrationsPerBlock
    <2>1. \A m \in NetUids : RegistrationsThisBlock[m] <= MaxRegistrationsPerBlock
      BY DEF RegistrationInv
    <2>2. RegistrationsThisBlock[n] < MaxRegistrationsPerBlock
      BY DEF MayRegister
    <2>3. /\ RegistrationsThisBlock'[n] = RegistrationsThisBlock[n] + 1
          /\ \A m \in NetUids \ {n} : RegistrationsThisBlock'[m] = RegistrationsThisBlock[m]
          /\ RegistrationsThisBlock[n] \in Nat
      BY <1>0, <1>2
    <2>4. RegistrationsThisBlock'[n] <= MaxRegistrationsPerBlock
      BY <2>2, <2>3
    <2> QED BY <2>1, <2>3, <2>4
  <1>6. \A m \in NetUids, v \in UidSpace : BlockAtRegistration'[m][v] <= block'
    <2>1. \A m \in NetUids, v \in UidSpace : BlockAtRegistration[m][v] <= block
      BY DEF RegistrationInv
    <2>2. \A m \in NetUids, v \in UidSpace :
             BlockAtRegistration'[m][v] = IF m = n /\ v = u THEN block ELSE BlockAtRegistration[m][v]
      BY <1>0 DEF TakesSlot
    <2>3. block <= block /\ block' = block
      BY <1>0
    <2> QED BY <2>1, <2>2, <2>3
  <1>7. /\ \A m \in NetworksAdded' : Cardinality(Fresh(m))' <= RegistrationsThisInterval'[m] + 1
        /\ \A m \in NetworksAdded' : Cardinality(Newcomers(m))' <= RegistrationsThisBlock'[m] + 1
    BY <1>0, <1>1, CountedStep
  <1> QED BY <1>1, <1>3, <1>5, <1>6, <1>7
          DEF RegistrationInv, ScoresInStep, SplitCounted, FreshNeuronsCounted

\* A step that leaves the subnets, their sizes and the books alone.
LEMMA TableOnlyInv ==
  ASSUME RegistrationInv, NeuronsInv', UNCHANGED <<NetworksAdded, SubnetworkN>>, TableOnly
  PROVE  RegistrationInv'
  <1> USE DEF TableOnly, counters
  <1>1. \A m : Fresh(m)' = Fresh(m) /\ Newcomers(m)' = Newcomers(m)
    BY DEF Fresh, Newcomers
  <1>2. RegistrationTypeOK' /\ VectorsInStep' /\ CountersAgree'
    BY DEF RegistrationInv, RegistrationTypeOK, VectorsInStep, CountersAgree
  <1>3. FreshNeuronsCounted'
    BY <1>1 DEF RegistrationInv, FreshNeuronsCounted
  <1>4. \A m \in NetworksAdded' : Cardinality(Newcomers(m))' <= RegistrationsThisBlock'[m] + 1
    BY <1>1 DEF RegistrationInv
  <1>5. /\ \A n \in NetUids, u \in UidSpace : BlockAtRegistration'[n][u] <= block'
        /\ \A n \in NetUids : RegistrationsThisBlock'[n] <= MaxRegistrationsPerBlock
    BY DEF RegistrationInv
  <1> QED BY <1>2, <1>3, <1>4, <1>5 DEF RegistrationInv

\* The counts of a live subnet that a step leaves alone.
LEMMA OthersCounted ==
  ASSUME RegistrationInv, NEW m \in NetworksAdded, SubnetworkN'[m] = SubnetworkN[m],
         \A u \in UidSpace : BlockAtRegistration'[m][u] = BlockAtRegistration[m][u],
         UNCHANGED <<block, LastAdjustmentBlock>>,
         RegistrationsThisInterval'[m] = RegistrationsThisInterval[m],
         RegistrationsThisBlock'[m] = RegistrationsThisBlock[m]
  PROVE  /\ Cardinality(Fresh(m))' <= RegistrationsThisInterval'[m] + 1
         /\ Cardinality(Newcomers(m))' <= RegistrationsThisBlock'[m] + 1
  <1>1. m \in NetUids /\ SubnetworkN[m] \in 0..UidLimit
    BY RegistrationTypes
  <1>2. \A u \in 0..(SubnetworkN[m] - 1) : u \in UidSpace
    BY <1>1
  <1>3. Fresh(m)' = Fresh(m) /\ Newcomers(m)' = Newcomers(m)
    BY <1>2 DEF Fresh, Newcomers
  <1>4. /\ Cardinality(Fresh(m)) <= RegistrationsThisInterval[m] + 1
        /\ Cardinality(Newcomers(m)) <= RegistrationsThisBlock[m] + 1
    BY DEF RegistrationInv, FreshNeuronsCounted
  <1> QED BY <1>3, <1>4

LEMMA RegisterNetworkInv ==
  ASSUME RegistrationInv, NEW n \in NetUids, NEW h \in Hotkeys, do_register_network(n, h)
  PROVE  RegistrationInv'
  <1>0. /\ n \in NetUids \ NetworksAdded /\ NetworksAdded' = NetworksAdded \cup {n}
        /\ SubnetworkN' = [SubnetworkN EXCEPT ![n] = 1]
        /\ BlockAtRegistration' = [BlockAtRegistration EXCEPT ![n][0] = block]
        /\ PruningScores' = [PruningScores EXCEPT ![n] = Append(PruningScores[n], 0)]
        /\ NetworkLastRegistered' = block /\ UNCHANGED <<block, counters>>
    BY DEF do_register_network, AddNetwork, IsNextNetuid
  <1>1. NeuronsInv'
    BY AddNetworkInv DEF RegistrationInv, do_register_network
  <1>2. /\ SubnetworkN \in [NetUids -> 0..UidLimit] /\ SubnetworkN[n] = 0 /\ 0 \in UidSpace
        /\ BlockAtRegistration \in [NetUids -> [UidSpace -> 0..MaxBlock]] /\ block \in 0..MaxBlock
        /\ RegistrationsThisInterval \in [NetUids -> Nat] /\ RegistrationsThisBlock \in [NetUids -> Nat]
    <2>1. /\ TypeOK /\ NeuronsInv /\ block \in 0..MaxBlock
          /\ BlockAtRegistration \in [NetUids -> [UidSpace -> 0..MaxBlock]]
          /\ RegistrationsThisInterval \in [NetUids -> Nat] /\ RegistrationsThisBlock \in [NetUids -> Nat]
      BY RegistrationTypes
    <2>2. SubnetworkN \in [NetUids -> 0..UidLimit]
      BY <2>1 DEF TypeOK
    <2>3. SubnetworkN[n] = 0
      BY <1>0, <2>1 DEF NeuronsInv, AbsentIsEmpty
    <2>4. 0 \in UidSpace
      OBVIOUS
    <2> QED BY <2>1, <2>2, <2>3, <2>4
  <1>3. \A m \in NetUids, u \in UidSpace :
           BlockAtRegistration'[m][u] = IF m = n /\ u = 0 THEN block ELSE BlockAtRegistration[m][u]
    BY <1>0, <1>2
  <1>4. \A m \in NetUids : SubnetworkN'[m] = IF m = n THEN 1 ELSE SubnetworkN[m]
    BY <1>0, <1>2
  <1>5. ScoresInStep'
    <2> DEFINE s == Append(PruningScores[n], 0)
    <2>1. /\ PruningScores[n] \in Seq(Scores) /\ Len(PruningScores[n]) = 0
          /\ PruningScores \in [NetUids -> Seq(Scores)]
          /\ \A m \in NetUids : Len(PruningScores[m]) = SubnetworkN[m]
      BY <1>2, RegistrationTypes
    <2>2. s \in Seq(Scores) /\ Len(s) = 1
      BY <2>1, ScoresStay
    <2> HIDE DEF s
    <2>3. PruningScores' = [PruningScores EXCEPT ![n] = s]
      BY <1>0 DEF s
    <2>4. PruningScores' \in [NetUids -> Seq(Scores)]
      BY <2>1, <2>2, <2>3
    <2>5. \A m \in NetUids : Len(PruningScores'[m]) = SubnetworkN'[m]
      BY <1>4, <2>1, <2>2, <2>3
    <2> QED BY <2>4, <2>5 DEF ScoresInStep, VectorsInStep
  <1>6. RegistrationTypeOK' /\ CountersAgree'
    <2>1. BlockAtRegistration' \in [NetUids -> [UidSpace -> 0..MaxBlock]]
      BY <1>0, <1>2
    <2>2. RegistrationTypeOK /\ CountersAgree
      BY DEF RegistrationInv
    <2>3. CountersAgree'
      BY <1>0, <2>2 DEF CountersAgree, counters
    <2>4. PruningScores' \in [NetUids -> Seq(Scores)]
      BY <1>5 DEF ScoresInStep
    <2> QED BY <1>0, <1>2, <2>1, <2>2, <2>3, <2>4 DEF RegistrationTypeOK, counters
  <1>7. ASSUME NEW m \in NetworksAdded'
        PROVE  /\ Cardinality(Fresh(m))' <= RegistrationsThisInterval'[m] + 1
               /\ Cardinality(Newcomers(m))' <= RegistrationsThisBlock'[m] + 1
    <2>1. CASE m = n
      <3>1. SubnetworkN'[m] = 1
        BY <1>4, <2>1
      <3>2. Fresh(m)' \subseteq {0} /\ Newcomers(m)' \subseteq {0}
        BY <3>1 DEF Fresh, Newcomers
      <3>3. /\ Cardinality(Fresh(m)') \in Nat /\ Cardinality(Fresh(m)') <= 1
            /\ Cardinality(Newcomers(m)') \in Nat /\ Cardinality(Newcomers(m)') <= 1
        BY <3>2, AtMostOne
      <3>4. RegistrationsThisInterval'[m] \in Nat /\ RegistrationsThisBlock'[m] \in Nat
        BY <1>0, <1>2, <2>1 DEF counters
      <3> QED BY <3>3, <3>4
    <2>2. CASE m # n
      <3>1. m \in NetworksAdded /\ m \in NetUids
        BY <1>0, <2>2, RegistrationTypes
      <3>2. /\ SubnetworkN'[m] = SubnetworkN[m]
            /\ \A u \in UidSpace : BlockAtRegistration'[m][u] = BlockAtRegistration[m][u]
        BY <1>3, <1>4, <2>2, <3>1
      <3> QED BY <1>0, <3>1, <3>2, OthersCounted DEF counters
    <2> QED BY <2>1, <2>2
  <1>8. \A m \in NetUids, u \in UidSpace : BlockAtRegistration'[m][u] <= block'
    <2>1. \A m \in NetUids, u \in UidSpace : BlockAtRegistration[m][u] <= block
      BY DEF RegistrationInv
    <2>2. block <= block /\ block' = block
      BY <1>0, <1>2
    <2> QED BY <1>3, <2>1, <2>2
  <1>9. \A m \in NetUids : RegistrationsThisBlock'[m] <= MaxRegistrationsPerBlock
    BY <1>0 DEF RegistrationInv, counters
  <1> QED BY <1>1, <1>5, <1>6, <1>7, <1>8, <1>9
          DEF RegistrationInv, ScoresInStep, FreshNeuronsCounted

LEMMA RemoveNetworkRegInv ==
  ASSUME RegistrationInv, NEW n \in NetUids, remove_network(n)
  PROVE  RegistrationInv'
  <1>0. /\ NetworksAdded' = NetworksAdded \ {n}
        /\ SubnetworkN' = [SubnetworkN EXCEPT ![n] = 0]
        /\ PruningScores' = [PruningScores EXCEPT ![n] = << >>]
        /\ RegistrationsThisInterval' = [RegistrationsThisInterval EXCEPT ![n] = 0]
        /\ POWRegistrationsThisInterval' = [POWRegistrationsThisInterval EXCEPT ![n] = 0]
        /\ BurnRegistrationsThisInterval' = [BurnRegistrationsThisInterval EXCEPT ![n] = 0]
        /\ UNCHANGED <<block, BlockAtRegistration, RegistrationsThisBlock,
                       LastAdjustmentBlock, NetworkLastRegistered>>
    BY DEF remove_network, RemoveNetwork
  <1>1. NeuronsInv'
    BY RemoveNetworkInv DEF RegistrationInv, remove_network
  <1>2. /\ NeuronsInv /\ TypeOK /\ block \in 0..MaxBlock /\ NetworkLastRegistered \in 0..MaxBlock
        /\ BlockAtRegistration \in [NetUids -> [UidSpace -> 0..MaxBlock]]
    BY RegistrationTypes
  <1>3. SubnetworkN \in [NetUids -> 0..UidLimit]
    BY <1>2 DEF TypeOK
  <1>4. ScoresInStep'
    <2>1. /\ PruningScores \in [NetUids -> Seq(Scores)]
          /\ \A m \in NetUids : Len(PruningScores[m]) = SubnetworkN[m]
      BY RegistrationTypes
    <2> DEFINE s == << >>
    <2>2. s \in Seq(Scores) /\ Len(s) = 0
      OBVIOUS
    <2> HIDE DEF s
    <2>3. PruningScores' = [PruningScores EXCEPT ![n] = s]
      BY <1>0 DEF s
    <2>4. PruningScores' \in [NetUids -> Seq(Scores)]
      BY <2>1, <2>2, <2>3
    <2>5. \A m \in NetUids : Len(PruningScores'[m]) = SubnetworkN'[m]
      BY <1>0, <1>3, <2>1, <2>2, <2>3
    <2> QED BY <2>4, <2>5 DEF ScoresInStep, VectorsInStep
  <1>a. /\ RegistrationsThisInterval \in [NetUids -> Nat] /\ RegistrationsThisBlock \in [NetUids -> Nat]
        /\ POWRegistrationsThisInterval \in [NetUids -> Nat]
        /\ BurnRegistrationsThisInterval \in [NetUids -> Nat] /\ LastAdjustmentBlock \in [NetUids -> Nat]
    BY RegistrationTypes
  <1>b. /\ RegistrationsThisInterval' \in [NetUids -> Nat] /\ POWRegistrationsThisInterval' \in [NetUids -> Nat]
        /\ BurnRegistrationsThisInterval' \in [NetUids -> Nat]
    BY <1>0, <1>a
  <1>5. RegistrationTypeOK'
    BY <1>0, <1>2, <1>4, <1>a, <1>b DEF RegistrationTypeOK, ScoresInStep
  <1>6. CountersAgree'
    <2>1. CountersAgree
      BY DEF RegistrationInv
    <2> QED BY <1>0, <1>a, <2>1 DEF CountersAgree
  <1>7. ASSUME NEW m \in NetworksAdded'
        PROVE  /\ Cardinality(Fresh(m))' <= RegistrationsThisInterval'[m] + 1
               /\ Cardinality(Newcomers(m))' <= RegistrationsThisBlock'[m] + 1
    <2>1. m \in NetworksAdded /\ m # n /\ m \in NetUids
      BY <1>0, RegistrationTypes
    <2>2. SubnetworkN'[m] = SubnetworkN[m] /\ RegistrationsThisInterval'[m] = RegistrationsThisInterval[m]
      BY <1>0, <1>3, <1>a, <2>1
    <2> QED BY <1>0, <2>1, <2>2, OthersCounted
  <1>8. /\ \A m \in NetUids, u \in UidSpace : BlockAtRegistration'[m][u] <= block'
        /\ \A m \in NetUids : RegistrationsThisBlock'[m] <= MaxRegistrationsPerBlock
    BY <1>0 DEF RegistrationInv
  <1> QED BY <1>1, <1>4, <1>5, <1>6, <1>7, <1>8
          DEF RegistrationInv, ScoresInStep, FreshNeuronsCounted

LEMMA BlockStepInv ==
  ASSUME RegistrationInv, block_step
  PROVE  RegistrationInv'
  <1> DEFINE b == block + 1
             due == {n \in NetworksAdded : b - LastAdjustmentBlock[n] >= AdjustmentInterval}
  <1>0. /\ block' = b /\ block < MaxBlock
        /\ UNCHANGED <<vars, BlockAtRegistration, NetworkLastRegistered>>
    BY DEF block_step
  <1>1. /\ LastAdjustmentBlock' = [n \in NetUids |-> IF n \in due THEN b ELSE LastAdjustmentBlock[n]]
        /\ RegistrationsThisInterval' =
             [n \in NetUids |-> IF n \in due THEN 0 ELSE RegistrationsThisInterval[n]]
        /\ POWRegistrationsThisInterval' =
             [n \in NetUids |-> IF n \in due THEN 0 ELSE POWRegistrationsThisInterval[n]]
        /\ BurnRegistrationsThisInterval' =
             [n \in NetUids |-> IF n \in due THEN 0 ELSE BurnRegistrationsThisInterval[n]]
        /\ RegistrationsThisBlock' =
             [n \in NetUids |-> IF n \in NetworksAdded THEN 0 ELSE RegistrationsThisBlock[n]]
    BY DEF block_step, adjust_registration_terms_for_networks
  <1> HIDE DEF due
  <1>2. /\ NeuronsInv /\ block \in 0..MaxBlock /\ NetworkLastRegistered \in 0..MaxBlock
        /\ BlockAtRegistration \in [NetUids -> [UidSpace -> 0..MaxBlock]]
    BY RegistrationTypes
  <1>3. NeuronsInv' /\ NetworksAdded' = NetworksAdded /\ SubnetworkN' = SubnetworkN
    BY <1>0, <1>2, StepInv DEF vars
  <1>4. ScoresInStep'
    <2>1. /\ PruningScores \in [NetUids -> Seq(Scores)]
          /\ \A m \in NetUids : Len(PruningScores[m]) = SubnetworkN[m] /\ SubnetworkN[m] \in 0..UidLimit
      BY RegistrationTypes
    <2>b. \A m \in NetUids : SubnetworkN[m] \in Nat
      BY <2>1
    <2> DEFINE S == {n \in NetworksAdded \ {ROOT} : should_run_epoch(n, b)}
    <2>2. PICK scores \in [S -> UNION {[1..k -> Scores] : k \in {SubnetworkN[n] : n \in S}}] :
                 /\ \A n \in S : Len(scores[n]) = SubnetworkN[n]
                 /\ PruningScores' = [n \in NetUids |-> IF n \in S THEN scores[n] ELSE PruningScores[n]]
      BY DEF block_step, RunEpochs
    <2>a. S \subseteq NetUids
      BY RegistrationTypes
    <2> HIDE DEF S
    <2>3. ASSUME NEW n \in S PROVE scores[n] \in Seq(Scores)
      <3> DEFINE V == {[1..k -> Scores] : k \in {SubnetworkN[m] : m \in S}}
      <3>a. scores \in [S -> UNION V]
        BY <2>2
      <3> HIDE DEF V
      <3>b. PICK v \in V : scores[n] \in v
        BY <3>a
      <3>1. PICK k \in {SubnetworkN[m] : m \in S} : scores[n] \in [1..k -> Scores]
        BY <3>b DEF V
      <3>c. PICK m \in S : k = SubnetworkN[m]
        OBVIOUS
      <3>2. k \in Nat
        BY <2>a, <2>b, <3>c, Zenon
      <3> QED BY <3>1, <3>2
    <2>4. PruningScores' \in [NetUids -> Seq(Scores)]
      BY <2>1, <2>2, <2>3
    <2>5. \A m \in NetUids : Len(PruningScores'[m]) = SubnetworkN'[m]
      BY <1>3, <2>1, <2>2
    <2> QED BY <2>4, <2>5 DEF ScoresInStep, VectorsInStep
  <1>a. /\ RegistrationsThisInterval \in [NetUids -> Nat] /\ RegistrationsThisBlock \in [NetUids -> Nat]
        /\ POWRegistrationsThisInterval \in [NetUids -> Nat]
        /\ BurnRegistrationsThisInterval \in [NetUids -> Nat] /\ LastAdjustmentBlock \in [NetUids -> Nat]
    BY RegistrationTypes
  <1>b. b \in Nat /\ b \in 0..MaxBlock
    BY <1>0, <1>2
  <1>c. /\ RegistrationsThisInterval' \in [NetUids -> Nat] /\ RegistrationsThisBlock' \in [NetUids -> Nat]
        /\ POWRegistrationsThisInterval' \in [NetUids -> Nat]
        /\ BurnRegistrationsThisInterval' \in [NetUids -> Nat] /\ LastAdjustmentBlock' \in [NetUids -> Nat]
    BY <1>1, <1>a, <1>b
  <1>5. RegistrationTypeOK'
    BY <1>0, <1>2, <1>4, <1>b, <1>c DEF RegistrationTypeOK, ScoresInStep
  <1>6. CountersAgree'
    <2>1. CountersAgree
      BY DEF RegistrationInv
    <2> QED BY <1>1, <1>a, <2>1 DEF CountersAgree
  <1>7. \A m \in NetUids, u \in UidSpace : BlockAtRegistration[m][u] <= block
    BY DEF RegistrationInv
  <1>8. ASSUME NEW m \in NetworksAdded
        PROVE  /\ Cardinality(Fresh(m))' <= RegistrationsThisInterval'[m] + 1
               /\ Cardinality(Newcomers(m))' <= RegistrationsThisBlock'[m] + 1
    <2>0. /\ m \in NetUids /\ SubnetworkN[m] \in 0..UidLimit
          /\ RegistrationsThisInterval'[m] \in Nat /\ RegistrationsThisBlock'[m] \in Nat
      BY <1>c, RegistrationTypes
    <2>1. \A u \in 0..(SubnetworkN[m] - 1) :
              u \in UidSpace /\ BlockAtRegistration[m][u] \in Nat /\ BlockAtRegistration[m][u] < b
      <3> SUFFICES ASSUME NEW u \in 0..(SubnetworkN[m] - 1)
                   PROVE  u \in UidSpace /\ BlockAtRegistration[m][u] \in Nat /\ BlockAtRegistration[m][u] < b
        OBVIOUS
      <3>1. u \in UidSpace
        BY <2>0
      <3>2. BlockAtRegistration[m][u] \in 0..MaxBlock /\ BlockAtRegistration[m][u] <= block
        BY <1>2, <1>7, <2>0, <3>1
      <3> QED BY <1>2, <3>1, <3>2
    <2>2. Newcomers(m)' = {}
      BY <1>0, <1>3, <1>b, <2>1 DEF Newcomers
    <2>3. Cardinality({}) = 0
      BY FS_EmptySet
    <2>4. CASE m \in due
      <3>1. Fresh(m)' = {}
        <4>1. LastAdjustmentBlock'[m] = b
          BY <1>1, <2>0, <2>4
        <4> QED BY <1>0, <1>3, <1>b, <2>1, <4>1 DEF Fresh
      <3> QED BY <2>0, <2>2, <2>3, <3>1
    <2>5. CASE m \notin due
      <3>1. /\ LastAdjustmentBlock'[m] = LastAdjustmentBlock[m]
            /\ RegistrationsThisInterval'[m] = RegistrationsThisInterval[m]
        BY <1>1, <2>0, <2>5
      <3>2. Fresh(m)' = Fresh(m)
        BY <1>0, <1>3, <3>1 DEF Fresh
      <3>3. Cardinality(Fresh(m)) <= RegistrationsThisInterval[m] + 1
        BY DEF RegistrationInv, FreshNeuronsCounted
      <3> QED BY <2>0, <2>2, <2>3, <3>1, <3>2, <3>3
    <2> QED BY <2>4, <2>5
  <1>9. \A m \in NetUids, u \in UidSpace : BlockAtRegistration'[m][u] <= block'
    <2>1. \A m \in NetUids, u \in UidSpace : BlockAtRegistration[m][u] \in Nat
      BY <1>2
    <2> QED BY <1>0, <1>2, <1>7, <2>1
  <1>10. \A m \in NetUids : RegistrationsThisBlock'[m] <= MaxRegistrationsPerBlock
    <2>1. \A m \in NetUids : RegistrationsThisBlock[m] <= MaxRegistrationsPerBlock
      BY DEF RegistrationInv
    <2> QED BY <1>1, <2>1
  <1> QED BY <1>3, <1>4, <1>5, <1>6, <1>8, <1>9, <1>10
          DEF RegistrationInv, ScoresInStep, FreshNeuronsCounted

\* The two counters after a burned or a proof-of-work registration.
LEMMA SplitStep ==
  ASSUME RegistrationInv, NEW n \in NetUids, NEW h \in Hotkeys,
         do_burned_registration(n, h) \/ do_registration(n, h)
  PROVE  SplitCounted'
  <1>0. /\ RegistrationsThisInterval \in [NetUids -> Nat]
        /\ POWRegistrationsThisInterval \in [NetUids -> Nat]
        /\ BurnRegistrationsThisInterval \in [NetUids -> Nat]
    BY RegistrationTypes
  <1>1. RegistrationsThisInterval' = [RegistrationsThisInterval EXCEPT ![n] = RegistrationsThisInterval[n] + 1]
    BY DEF do_burned_registration, do_registration, CountRegistration
  <1>2. \/ /\ BurnRegistrationsThisInterval' =
                [BurnRegistrationsThisInterval EXCEPT ![n] = BurnRegistrationsThisInterval[n] + 1]
           /\ POWRegistrationsThisInterval' = POWRegistrationsThisInterval
        \/ /\ POWRegistrationsThisInterval' =
                [POWRegistrationsThisInterval EXCEPT ![n] = POWRegistrationsThisInterval[n] + 1]
           /\ BurnRegistrationsThisInterval' = BurnRegistrationsThisInterval
    BY DEF do_burned_registration, do_registration
  <1>a. /\ RegistrationsThisInterval[n] \in Nat /\ POWRegistrationsThisInterval[n] + 1 \in Nat
        /\ BurnRegistrationsThisInterval[n] + 1 \in Nat
    <2>1. /\ RegistrationsThisInterval[n] \in Nat /\ POWRegistrationsThisInterval[n] \in Nat
          /\ BurnRegistrationsThisInterval[n] \in Nat
      BY <1>0
    <2> QED BY <2>1
  <1>3. /\ BurnRegistrationsThisInterval' \in [NetUids -> Nat]
        /\ POWRegistrationsThisInterval' \in [NetUids -> Nat]
    BY <1>0, <1>2, <1>a
  <1>4. \A m \in NetUids \ {ROOT} :
           RegistrationsThisInterval[m] = BurnRegistrationsThisInterval[m] + POWRegistrationsThisInterval[m]
    BY DEF RegistrationInv, CountersAgree
  <1>5. CountersAgree'
    <2> SUFFICES ASSUME NEW m \in NetUids \ {ROOT}
                 PROVE  RegistrationsThisInterval'[m] =
                          BurnRegistrationsThisInterval'[m] + POWRegistrationsThisInterval'[m]
      BY DEF CountersAgree
    <2>1. /\ RegistrationsThisInterval[m] \in Nat /\ POWRegistrationsThisInterval[m] \in Nat
          /\ BurnRegistrationsThisInterval[m] \in Nat
          /\ RegistrationsThisInterval[m] = BurnRegistrationsThisInterval[m] + POWRegistrationsThisInterval[m]
      BY <1>0, <1>4
    <2>2. CASE m # n
      <3>1. /\ RegistrationsThisInterval'[m] = RegistrationsThisInterval[m]
            /\ BurnRegistrationsThisInterval'[m] = BurnRegistrationsThisInterval[m]
            /\ POWRegistrationsThisInterval'[m] = POWRegistrationsThisInterval[m]
        BY <1>0, <1>1, <1>2, <2>2
      <3> QED BY <2>1, <3>1
    <2>3. CASE m = n
      <3>1. /\ RegistrationsThisInterval'[m] = RegistrationsThisInterval[m] + 1
            /\ \/ /\ BurnRegistrationsThisInterval'[m] = BurnRegistrationsThisInterval[m] + 1
                  /\ POWRegistrationsThisInterval'[m] = POWRegistrationsThisInterval[m]
               \/ /\ BurnRegistrationsThisInterval'[m] = BurnRegistrationsThisInterval[m]
                  /\ POWRegistrationsThisInterval'[m] = POWRegistrationsThisInterval[m] + 1
        BY <1>0, <1>1, <1>2, <2>3
      <3> QED BY <2>1, <3>1
    <2> QED BY <2>2, <2>3
  <1> QED BY <1>3, <1>5 DEF SplitCounted

\* A registration on a subnet or on root: some hotkey without a slot takes one
\* in the network whose counters grow.
LEMMA CountedStepTakesSlot ==
  ASSUME RegistrationInv, NEW n \in NetUids, NEW h \in Hotkeys,
         \/ do_burned_registration(n, h) \/ do_registration(n, h)
         \/ n = ROOT /\ do_root_register(h)
  PROVE  /\ MayRegister(n, h) /\ CountRegistration(n)
         /\ \E u \in UidSpace : TakesSlot(n, h, u)
         /\ RegistrationInv'
  <1>1. CASE do_burned_registration(n, h) \/ do_registration(n, h)
    <2>1. /\ n \in NetUids \ {ROOT} /\ MayRegister(n, h) /\ register_neuron(n, h) /\ CountRegistration(n)
          /\ UNCHANGED <<NetworksAdded, MaxAllowedUids, SubnetOwnerHotkey>>
          /\ UNCHANGED <<block, LastAdjustmentBlock, NetworkLastRegistered>>
      BY <1>1 DEF do_burned_registration, do_registration
    <2>2. ScoresInStep' /\ \E u \in UidSpace : TakesSlot(n, h, u)
      BY <2>1, RegisterTakesSlot
    <2>3. SplitCounted'
      BY <1>1, SplitStep
    <2>4. RegistrationInv'
      BY <2>1, <2>2, <2>3, CountedInv
    <2> QED BY <2>1, <2>2, <2>4
  <1>2. CASE n = ROOT /\ do_root_register(h)
    <2>1. /\ MayRegister(n, h) /\ CountRegistration(n)
          /\ UNCHANGED <<block, LastAdjustmentBlock, NetworkLastRegistered>>
          /\ UNCHANGED <<BurnRegistrationsThisInterval, POWRegistrationsThisInterval>>
      BY <1>2 DEF do_root_register
    <2>2. ScoresInStep' /\ \E u \in UidSpace : TakesSlot(n, h, u)
      BY <1>2, RootTakesSlot
    <2>3. SplitCounted'
      <3>1. /\ RegistrationsThisInterval \in [NetUids -> Nat]
            /\ POWRegistrationsThisInterval \in [NetUids -> Nat]
            /\ BurnRegistrationsThisInterval \in [NetUids -> Nat]
        BY RegistrationTypes
      <3>2. \A m \in NetUids \ {ROOT} : RegistrationsThisInterval'[m] = RegistrationsThisInterval[m]
        BY <1>2, <2>1, <3>1 DEF CountRegistration
      <3>3. CountersAgree
        BY DEF RegistrationInv
      <3> QED BY <2>1, <3>1, <3>2, <3>3 DEF SplitCounted, CountersAgree
    <2>4. RegistrationInv'
      BY <2>1, <2>2, <2>3, CountedInv
    <2> QED BY <2>1, <2>2, <2>4
  <1> QED BY <1>1, <1>2

\* The other steps on the table leave the subnets and their sizes alone.
LEMMA TableOnlyStepInv ==
  ASSUME RegistrationInv, TableOnly,
         \/ \E old, new \in Hotkeys : SwapHotkeyAll(old, new)
         \/ \E n \in NetUids, old, new \in Hotkeys : SwapHotkeyOnSubnet(n, old, new)
         \/ \E n \in NetUids, m \in 1..UidLimit : SetMaxAllowedUids(n, m)
         \/ \E n \in NetUids, h \in Hotkeys : SetSubnetOwnerHotkey(n, h)
  PROVE  RegistrationInv'
  <1>1. Next
    BY DEF Next
  <1>2. NeuronsInv'
    BY <1>1, StepInv DEF RegistrationInv
  <1>3. UNCHANGED <<NetworksAdded, SubnetworkN>>
    BY DEF SwapHotkeyAll, SwapHotkeyOnSubnet, swap_on, SetMaxAllowedUids, SetSubnetOwnerHotkey
  <1> QED BY <1>2, <1>3, TableOnlyInv

LEMMA RegistrationStepInv ==
  RegistrationInv /\ [RegistrationNext]_registrationVars => RegistrationInv'
  <1> SUFFICES ASSUME RegistrationInv, [RegistrationNext]_registrationVars PROVE RegistrationInv'
    OBVIOUS
  <1>1. ASSUME NEW n \in NetUids, NEW h \in Hotkeys,
               do_burned_registration(n, h) \/ do_registration(n, h)
        PROVE  RegistrationInv'
    BY <1>1, CountedStepTakesSlot
  <1>2. ASSUME NEW h \in Hotkeys, do_root_register(h) PROVE RegistrationInv'
    <2>1. ROOT \in NetUids
      OBVIOUS
    <2> QED BY <1>2, <2>1, CountedStepTakesSlot
  <1>3. ASSUME NEW n \in NetUids, NEW h \in Hotkeys, do_register_network(n, h) PROVE RegistrationInv'
    BY <1>3, RegisterNetworkInv
  <1>4. ASSUME NEW n \in NetUids, remove_network(n) PROVE RegistrationInv'
    BY <1>4, RemoveNetworkRegInv
  <1>5. ASSUME NEW old \in Hotkeys, NEW new \in Hotkeys, do_swap_hotkey(old, new)
        PROVE  RegistrationInv'
    BY <1>5, TableOnlyStepInv DEF do_swap_hotkey
  <1>6. ASSUME NEW n \in NetUids, NEW m \in 1..UidLimit, sudo_set_max_allowed_uids(n, m)
        PROVE  RegistrationInv'
    BY <1>6, TableOnlyStepInv DEF sudo_set_max_allowed_uids
  <1>7. ASSUME NEW n \in NetUids, NEW h \in Hotkeys, do_set_sn_owner_hotkey(n, h)
        PROVE  RegistrationInv'
    BY <1>7, TableOnlyStepInv DEF do_set_sn_owner_hotkey
  <1>8. ASSUME block_step PROVE RegistrationInv'
    BY <1>8, BlockStepInv
  <1>9. CASE UNCHANGED registrationVars
    <2>1. TableOnly /\ UNCHANGED vars
      BY <1>9 DEF registrationVars, TableOnly
    <2>2. NeuronsInv'
      BY <2>1, StepInv DEF RegistrationInv
    <2> QED BY <2>1, <2>2, TableOnlyInv DEF vars
  <1> QED BY <1>1, <1>2, <1>3, <1>4, <1>5, <1>6, <1>7, <1>8, <1>9 DEF RegistrationNext

\* The newcomer of a registration has a slot after it.
LEMMA RegisterGivesSlot ==
  ASSUME NeuronsInv, NEW n \in NetUids, NEW h \in Hotkeys, RegisterNeuron(n, h)
  PROVE  Uids'[n][h] # NoUid
  <1>1. Uids \in [NetUids -> [Hotkeys -> UidSpace \cup {NoUid}]] /\ SubnetworkN[n] \in 0..UidLimit
    BY DEF NeuronsInv, TypeOK
  <1>2. CASE append_neuron(n, h)
    <2>1. Uids'[n][h] = SubnetworkN[n]
      BY <1>1, <1>2 DEF append_neuron
    <2>2. \A u \in 0..UidLimit : u # NoUid
      BY DEF NoUid
    <2> QED BY <1>1, <2>1, <2>2
  <1>3. ASSUME NEW u \in 0..(SubnetworkN[n] - 1), replace_neuron(n, u, h)
        PROVE  Uids'[n][h] # NoUid
    <2>1. Uids'[n][h] = u
      BY <1>1, <1>3 DEF replace_neuron
    <2> QED BY <1>1, <2>1
  <1> QED BY <1>2, <1>3 DEF RegisterNeuron

\* Every step of registration is a step of the table or leaves it alone.
LEMMA StepImplements ==
  RegistrationInv /\ [RegistrationNext]_registrationVars => [Next]_vars
  <1> SUFFICES ASSUME RegistrationInv, [RegistrationNext]_registrationVars PROVE Next \/ UNCHANGED vars
    OBVIOUS
  <1>1. ASSUME NEW n \in NetUids, NEW h \in Hotkeys,
               do_burned_registration(n, h) \/ do_registration(n, h)
        PROVE  Next
    BY <1>1, CountedStepTakesSlot DEF TakesSlot, Next
  <1>2. ASSUME NEW h \in Hotkeys, do_root_register(h) PROVE Next
    <2>1. ROOT \in NetUids
      OBVIOUS
    <2> QED BY <1>2, <2>1, CountedStepTakesSlot DEF TakesSlot, Next
  <1>3. ASSUME NEW n \in NetUids, NEW h \in Hotkeys, do_register_network(n, h) PROVE Next
    BY <1>3 DEF do_register_network, Next
  <1>4. ASSUME NEW n \in NetUids, remove_network(n) PROVE Next
    BY <1>4 DEF remove_network, Next
  <1>5. ASSUME NEW old \in Hotkeys, NEW new \in Hotkeys, do_swap_hotkey(old, new) PROVE Next
    BY <1>5 DEF do_swap_hotkey, Next
  <1>6. ASSUME NEW n \in NetUids, NEW m \in 1..UidLimit, sudo_set_max_allowed_uids(n, m) PROVE Next
    BY <1>6 DEF sudo_set_max_allowed_uids, Next
  <1>7. ASSUME NEW n \in NetUids, NEW h \in Hotkeys, do_set_sn_owner_hotkey(n, h) PROVE Next
    BY <1>7 DEF do_set_sn_owner_hotkey, Next
  <1>8. ASSUME block_step PROVE UNCHANGED vars
    BY <1>8 DEF block_step
  <1>9. CASE UNCHANGED registrationVars
    BY <1>9 DEF registrationVars
  <1> QED BY <1>1, <1>2, <1>3, <1>4, <1>5, <1>6, <1>7, <1>8, <1>9 DEF RegistrationNext

-----------------------------------------------------------------------------
\* In every reachable state the books of registration are sound, whatever the
\* limits, the interval and the number of neurons.
THEOREM BooksAlwaysSound == RegistrationSpec => []RegistrationsSound
  <1> QED BY RegistrationInitInv, RegistrationStepInv, InvSound, PTL DEF RegistrationSpec

\* Registration, with its scan for a victim, its limits and its block hook,
\* implements the slot table of Neurons.
THEOREM RegistrationRefinesNeurons == RegistrationSpec => ImplementsNeurons
  <1>1. RegistrationInit => Init
    BY DEF RegistrationInit
  <1> QED BY <1>1, RegistrationInitInv, RegistrationStepInv, StepImplements, PTL
          DEF RegistrationSpec, ImplementsNeurons, Spec

\* So registration inherits what is proved of the table: the five maps always
\* describe one table of slots.
THEOREM RegistrationKeepsTable == RegistrationSpec => []NeuronsInv
  <1> QED BY RegistrationRefinesNeurons, SlotTable, PTL DEF ImplementsNeurons

\* Nor does registration, whichever neuron it prunes, take the owner's slot or
\* change the holders of two slots at once.
THEOREM RegistrationKeepsSlots == RegistrationSpec => OwnerKeepsSlot /\ UidsAreStable
  <1> QED BY RegistrationRefinesNeurons, OwnerIsNeverPruned, UidsNeverMove, PTL DEF ImplementsNeurons

\* The loop of get_neuron_to_prune finds the neuron its comment describes, in
\* every reachable state and for any number of neurons.
THEOREM PrunesAlwaysAsDocumented == RegistrationSpec => []PrunesAsDocumented
  <1>1. RegistrationInv => PrunesAsDocumented
    <2> SUFFICES ASSUME RegistrationInv, NEW n \in NetworksAdded, Prunable(n) # {}
                 PROVE  PrunedFirst(n, PruneFrom(n), get_neuron_to_prune(n))
      BY DEF PrunesAsDocumented
    <2>1. n \in NetUids
      BY RegistrationTypes
    <2> QED BY <2>1, InvReadable, PruneChoice
  <1> QED BY <1>1, RegistrationInitInv, RegistrationStepInv, PTL DEF RegistrationSpec

\* No registration is counted that leaves the newcomer without a slot.
THEOREM EveryCountedIsRegistered == RegistrationSpec => CountedIsRegistered
  <1> DEFINE Gets == \A n \in NetUids :
                        RegistrationsThisInterval'[n] > RegistrationsThisInterval[n]
                          => \E h \in Hotkeys : Uids[n][h] = NoUid /\ Uids'[n][h] # NoUid
  <1>1. RegistrationInv /\ [RegistrationNext]_registrationVars => [Gets]_registrationVars
    <2> SUFFICES ASSUME RegistrationInv, RegistrationNext,
                        NEW m \in NetUids, RegistrationsThisInterval'[m] > RegistrationsThisInterval[m]
                 PROVE  \E h \in Hotkeys : Uids[m][h] = NoUid /\ Uids'[m][h] # NoUid
      OBVIOUS
    <2>0. RegistrationsThisInterval \in [NetUids -> Nat] /\ RegistrationsThisInterval[m] \in Nat
      BY RegistrationTypes
    <2>1. ASSUME NEW n \in NetUids, NEW h \in Hotkeys,
                 \/ do_burned_registration(n, h) \/ do_registration(n, h)
                 \/ n = ROOT /\ do_root_register(h)
          PROVE  Uids[m][h] = NoUid /\ Uids'[m][h] # NoUid
      <3>1. MayRegister(n, h) /\ CountRegistration(n) /\ RegisterNeuron(n, h)
        BY <2>1, CountedStepTakesSlot DEF TakesSlot
      <3>2. RegistrationsThisInterval' =
              [RegistrationsThisInterval EXCEPT ![n] = RegistrationsThisInterval[n] + 1]
        BY <3>1 DEF CountRegistration
      <3>3. m = n
        BY <2>0, <3>2
      <3>4. Uids[n][h] = NoUid
        BY <3>1 DEF RegisterNeuron, is_hotkey_registered_on_network
      <3>5. Uids'[n][h] # NoUid
        BY <3>1, RegisterGivesSlot DEF RegistrationInv
      <3> QED BY <3>3, <3>4, <3>5
    <2>2. ASSUME NEW n \in NetUids, remove_network(n) PROVE FALSE
      <3>1. RegistrationsThisInterval' = [RegistrationsThisInterval EXCEPT ![n] = 0]
        BY <2>2 DEF remove_network
      <3> QED BY <2>0, <3>1
    <2>3. ASSUME block_step PROVE FALSE
      <3>1. RegistrationsThisInterval'[m] \in {0, RegistrationsThisInterval[m]}
        BY <2>3 DEF block_step, adjust_registration_terms_for_networks
      <3> QED BY <2>0, <3>1
    <2>4. ASSUME RegistrationsThisInterval' = RegistrationsThisInterval PROVE FALSE
      BY <2>0, <2>4
    <2>5. ROOT \in NetUids
      OBVIOUS
    <2> QED BY <2>1, <2>2, <2>3, <2>4, <2>5 DEF RegistrationNext, do_register_network,
               do_swap_hotkey, sudo_set_max_allowed_uids, do_set_sn_owner_hotkey, TableOnly, counters
  <1> QED BY <1>1, RegistrationInitInv, RegistrationStepInv, PTL
          DEF RegistrationSpec, CountedIsRegistered
=============================================================================
