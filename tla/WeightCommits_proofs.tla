------------------------ MODULE WeightCommits_proofs ------------------------
(***************************************************************************)
(* Proofs about commit-reveal, whatever happens to neurons and settings:   *)
(* the queues stay in order and within their limit, expired commits are    *)
(* cleared, and only what was committed is applied.                        *)
(*                                                                         *)
(* Whatever is popped, drained or removed from a queue leaves a            *)
(* subsequence of it (Sub): what holds of the commits of a queue, of their *)
(* order and of any two of them holds of a subsequence.                    *)
(***************************************************************************)
EXTENDS WeightCommits, EpochClock_proofs, Sums_proofs, SequenceTheorems, FiniteSetTheorems, TLAPS

-----------------------------------------------------------------------------
\* Least and greatest elements.

LEMMA MinOfNats ==
  ASSUME NEW I, I \subseteq Nat, I # {}
  PROVE  Min(I) \in I /\ \A y \in I : Min(I) <= y
  <1> DEFINE R == {ss \in Nat \X Nat : ss[1] < ss[2]}
  <1>1. IsWellFoundedOn(R, Nat)
    BY NatLessThanWellFounded, Zenon DEF OpToRel
  <1>2. PICK x \in I : \A y \in I : ~ (<<y, x>> \in R)
    <2> HIDE DEF R
    <2> QED BY <1>1, WFMin, Zenon
  <1>3. ASSUME NEW y \in I PROVE x <= y
    <2>1. x \in Nat /\ y \in Nat
      OBVIOUS
    <2>2. <<y, x>> \notin R
      BY <1>2
    <2>3. ~(y < x)
      BY <2>1, <2>2
    <2> QED BY <2>1, <2>3
  <1> QED BY <1>3 DEF Min

LEMMA MaxOfNats ==
  ASSUME NEW I, NEW n \in Nat, I \subseteq 0..n, I # {}
  PROVE  Max(I) \in I /\ \A y \in I : Max(I) >= y
  <1> DEFINE J == {n - y : y \in I}
  <1>0. \A y \in I : y \in Nat /\ n - y \in Nat
    OBVIOUS
  <1>1. J \subseteq Nat /\ J # {}
    <2>1. J # {}
      OBVIOUS
    <2> QED BY <1>0, <2>1
  <1>2. Min(J) \in J /\ \A y \in J : Min(J) <= y
    <2> HIDE DEF J
    <2> QED BY <1>1, MinOfNats
  <1>3. PICK x \in I : Min(J) = n - x
    BY <1>2
  <1>4. ASSUME NEW y \in I PROVE x >= y
    <2>1. n - y \in J
      OBVIOUS
    <2>2. n - x <= n - y
      BY <1>2, <1>3, <2>1
    <2> QED BY <1>0, <2>2
  <1> QED BY <1>4 DEF Max

-----------------------------------------------------------------------------
\* Subsequences.

Sub(r, q) ==
    /\ Len(r) <= Len(q)
    /\ \E m \in [1..Len(r) -> 1..Len(q)] :
          /\ \A i \in 1..Len(r) : r[i] = q[m[i]]
          /\ \A i, j \in 1..Len(r) : i < j => m[i] < m[j]

LEMMA SubSelf == ASSUME NEW S, NEW q \in Seq(S) PROVE Sub(q, q)
  <1> DEFINE m == [i \in 1..Len(q) |-> i]
  <1>1. m \in [1..Len(q) -> 1..Len(q)] /\ Len(q) \in Nat
    OBVIOUS
  <1>2. \A i \in 1..Len(q) : q[i] = q[m[i]]
    OBVIOUS
  <1>3. \A i, j \in 1..Len(q) : i < j => m[i] < m[j]
    OBVIOUS
  <1> HIDE DEF m
  <1> QED BY <1>1, <1>2, <1>3 DEF Sub

LEMMA SubTrans ==
  ASSUME NEW S, NEW p \in Seq(S), NEW q \in Seq(S), NEW r \in Seq(S), Sub(p, q), Sub(q, r)
  PROVE  Sub(p, r)
  <1>1. Len(p) \in Nat /\ Len(q) \in Nat /\ Len(r) \in Nat /\ Len(p) <= Len(q) /\ Len(q) <= Len(r)
    BY DEF Sub
  <1>2. PICK m \in [1..Len(p) -> 1..Len(q)] :
          /\ \A i \in 1..Len(p) : p[i] = q[m[i]]
          /\ \A i, j \in 1..Len(p) : i < j => m[i] < m[j]
    BY DEF Sub
  <1>3. PICK k \in [1..Len(q) -> 1..Len(r)] :
          /\ \A i \in 1..Len(q) : q[i] = r[k[i]]
          /\ \A i, j \in 1..Len(q) : i < j => k[i] < k[j]
    BY DEF Sub
  <1> DEFINE t == [i \in 1..Len(p) |-> k[m[i]]]
  <1>4. t \in [1..Len(p) -> 1..Len(r)] /\ \A i \in 1..Len(p) : p[i] = r[t[i]]
    BY <1>2, <1>3
  <1>5. \A i, j \in 1..Len(p) : i < j => t[i] < t[j]
    BY <1>2, <1>3
  <1>6. Len(p) <= Len(r)
    BY <1>1
  <1> HIDE DEF t
  <1> QED BY <1>4, <1>5, <1>6 DEF Sub

\* A suffix is a subsequence.
LEMMA SubSuffix ==
  ASSUME NEW S, NEW q \in Seq(S), NEW k \in 1..Len(q) + 1
  PROVE  /\ SubSeq(q, k, Len(q)) \in Seq(S)
         /\ Len(SubSeq(q, k, Len(q))) = Len(q) - k + 1
         /\ \A i \in 1..Len(q) - k + 1 : SubSeq(q, k, Len(q))[i] = q[i + k - 1]
         /\ Sub(SubSeq(q, k, Len(q)), q)
  <1> DEFINE r == SubSeq(q, k, Len(q))
             n == Len(q) - k + 1
             m == [i \in 1..n |-> i + k - 1]
  <1>1. r \in Seq(S) /\ Len(r) = n /\ \A i \in 1..n : r[i] = q[i + k - 1]
    BY SubSeqProperties
  <1>2. m \in [1..n -> 1..Len(q)] /\ n \in Nat /\ n <= Len(q)
    OBVIOUS
  <1>3. \A i \in 1..n : r[i] = q[m[i]]
    BY <1>1
  <1>4. \A i, j \in 1..n : i < j => m[i] < m[j]
    OBVIOUS
  <1> HIDE DEF m, r, n
  <1>5. Sub(r, q)
    BY <1>1, <1>2, <1>3, <1>4 DEF Sub
  <1> QED BY <1>1, <1>5 DEF r, n

\* A sequence with one element removed is a subsequence.
LEMMA SubRemove ==
  ASSUME NEW S, NEW q \in Seq(S), NEW k \in 1..Len(q)
  PROVE  /\ Without(q, k) \in Seq(S) /\ Len(Without(q, k)) = Len(q) - 1
         /\ Sub(Without(q, k), q)
  <1> DEFINE r == Without(q, k)
             a == SubSeq(q, 1, k - 1)
             b == SubSeq(q, k + 1, Len(q))
             m == [i \in 1..Len(q) - 1 |-> IF i < k THEN i ELSE i + 1]
  <1>0. Len(q) \in Nat
    OBVIOUS
  <1>1. a \in Seq(S) /\ Len(a) = k - 1 /\ \A i \in 1..k - 1 : a[i] = q[i]
    BY <1>0, SubSeqProperties
  <1>2. b \in Seq(S) /\ Len(b) = Len(q) - k /\ \A i \in 1..Len(q) - k : b[i] = q[i + k]
    BY <1>0, SubSeqProperties
  <1>3. r = a \o b
    BY DEF Without
  <1> HIDE DEF a, b, r
  <1>4. r \in Seq(S) /\ Len(r) = Len(q) - 1
    <2>1. r \in Seq(S) /\ Len(r) = Len(a) + Len(b)
      BY <1>1, <1>2, <1>3, ConcatProperties
    <2> QED BY <1>0, <1>1, <1>2, <2>1
  <1>5. \A i \in 1..Len(q) - 1 : r[i] = q[m[i]]
    <2> SUFFICES ASSUME NEW i \in 1..Len(q) - 1 PROVE r[i] = q[m[i]]
      OBVIOUS
    <2>1. r[i] = IF i <= Len(a) THEN a[i] ELSE b[i - Len(a)]
      BY <1>0, <1>1, <1>2, <1>3, ConcatProperties
    <2>2. CASE i < k
      BY <1>0, <1>1, <2>1, <2>2
    <2>3. CASE ~(i < k)
      <3>1. i - (k - 1) \in 1..Len(q) - k /\ i - (k - 1) + k = i + 1
        BY <1>0, <2>3
      <3>2. r[i] = b[i - (k - 1)]
        BY <1>0, <1>1, <2>1, <2>3
      <3> QED BY <1>2, <2>3, <3>1, <3>2
    <2> QED BY <2>2, <2>3
  <1>6. m \in [1..Len(q) - 1 -> 1..Len(q)] /\ \A i, j \in 1..Len(q) - 1 : i < j => m[i] < m[j]
    BY <1>0
  <1> HIDE DEF m
  <1>7. Sub(r, q)
    BY <1>0, <1>4, <1>5, <1>6 DEF Sub
  <1> QED BY <1>4, <1>7 DEF r

\* An element of a subsequence is an element of the sequence.
LEMMA SubElement ==
  ASSUME NEW r, NEW q, Sub(r, q), NEW i \in 1..Len(r) PROVE \E j \in 1..Len(q) : r[i] = q[j]
  BY DEF Sub

-----------------------------------------------------------------------------
\* The operators on queues.

Commit == [hash : Hotkeys \X Payloads, block : Blocks, first : Nat, last : Nat]

Ordered(q) == \A i, j \in 1..Len(q) : i < j => q[i].block <= q[j].block

\* Time and settings are naturals.
Settled == Tempo \in Nat /\ RevealPeriodEpochs \in Nat /\ block \in Nat

\* The index of the epoch never falls.
LEMMA EpochMonotone ==
  ASSUME NEW netuid \in Nat, NEW tempo \in Nat, NEW a \in Nat, NEW b \in Nat, a <= b
  PROVE  /\ get_epoch_index(netuid, tempo, a) \in Nat
         /\ get_epoch_index(netuid, tempo, b) \in Nat
         /\ get_epoch_index(netuid, tempo, a) <= get_epoch_index(netuid, tempo, b)
  <1> DEFINE x == a + netuid + 1
             y == b + netuid + 1
             d == tempo + 1
             p == x \div d
             q == y \div d
  <1>1. x \in Nat /\ y \in Nat /\ d \in Nat \ {0} /\ x <= y
    OBVIOUS
  <1>2. get_epoch_index(netuid, tempo, a) = p /\ get_epoch_index(netuid, tempo, b) = q
    BY DEF get_epoch_index
  <1> HIDE DEF x, y, d
  <1>3. p \in Nat /\ d * p \in Int /\ d * p <= x
    <2>1. p \in Nat /\ x % d \in 0..(d - 1) /\ d * p \in Int /\ x = d * p + (x % d)
      BY <1>1, Division
    <2> HIDE DEF p
    <2> QED BY <1>1, <2>1
  <1>4. q \in Nat /\ d * q \in Int /\ y < d * q + d
    <2>1. q \in Nat /\ y % d \in 0..(d - 1) /\ d * q \in Int /\ y = d * q + (y % d)
      BY <1>1, Division
    <2> HIDE DEF q
    <2> QED BY <1>1, <2>1
  <1> HIDE DEF p, q
  <1>5. CASE q < p
    <2>1. d * q + d <= d * p
      BY <1>1, <1>3, <1>4, <1>5, Step
    <2> QED BY <1>1, <1>3, <1>4, <2>1
  <1>6. CASE ~(q < p)
    BY <1>2, <1>3, <1>4, <1>6
  <1> QED BY <1>5, <1>6

\* What a commit's epoch says of expiry and window, for a later commit.
LEMMA LaterCommit ==
  ASSUME Settled, NEW c \in Commit, NEW d \in Commit, c.block <= d.block
  PROVE  /\ ~IsExpired(c) => ~IsExpired(d)
         /\ InWindow(d) /\ ~IsExpired(c) => InWindow(c)
         /\ InWindow(d) => ~IsExpired(d)
  <1>1. c.block \in Nat /\ d.block \in Nat /\ Netuid \in Nat
    BY WeightCommitsAssumption DEF Commit, Blocks
  <1> DEFINE now == get_epoch_index(Netuid, Tempo, block)
             ec == get_epoch_index(Netuid, Tempo, c.block)
             ed == get_epoch_index(Netuid, Tempo, d.block)
  <1>2. ec \in Nat /\ ed \in Nat /\ ec <= ed
    BY <1>1, EpochMonotone DEF Settled
  <1>3. now \in Nat /\ RevealPeriodEpochs \in Nat
    <2>1. Netuid \in Nat /\ Tempo \in Nat /\ block \in Nat /\ block <= block
      BY <1>1 DEF Settled
    <2> QED BY <2>1, EpochMonotone DEF Settled
  <1>4. /\ IsExpired(c) <=> now > ec + RevealPeriodEpochs
        /\ IsExpired(d) <=> now > ed + RevealPeriodEpochs
        /\ InWindow(c) <=> now = ec + RevealPeriodEpochs
        /\ InWindow(d) <=> now = ed + RevealPeriodEpochs
    BY DEF IsExpired, InWindow, is_commit_expired, is_reveal_block_range
  <1> HIDE DEF now, ec, ed
  <1> QED BY <1>2, <1>3, <1>4

\* A commit made now is not expired.
LEMMA NewNotExpired ==
  ASSUME Settled, NEW c, c.block = block PROVE ~IsExpired(c)
  <1>1. get_epoch_index(Netuid, Tempo, block) \in Nat
    <2>1. Netuid \in Nat /\ Tempo \in Nat /\ block \in Nat /\ block <= block
      BY WeightCommitsAssumption DEF Settled
    <2> QED BY <2>1, EpochMonotone
  <1> DEFINE e == get_epoch_index(Netuid, Tempo, block)
  <1>2. IsExpired(c) <=> e > e + RevealPeriodEpochs
    BY DEF IsExpired, is_commit_expired
  <1> HIDE DEF e
  <1>3. e \in Nat /\ RevealPeriodEpochs \in Nat
    BY <1>1 DEF Settled, e
  <1> QED BY <1>2, <1>3

\* DropExpired leaves a subsequence, and all that is not expired; of a queue in
\* order it leaves nothing that is.
LEMMA DropExpiredIs ==
  ASSUME NEW q \in Seq(Commit)
  PROVE  /\ DropExpired(q) \in Seq(Commit) /\ Sub(DropExpired(q), q)
         /\ \A i \in 1..Len(q) : ~IsExpired(q[i]) =>
               \E j \in 1..Len(DropExpired(q)) : DropExpired(q)[j] = q[i]
         /\ Settled /\ Ordered(q) =>
               \A j \in 1..Len(DropExpired(q)) : ~IsExpired(DropExpired(q)[j])
  <1> DEFINE I == {i \in 1..Len(q) : ~IsExpired(q[i])}
             k == Min(I)
             r == SubSeq(q, k, Len(q))
  <1>0. Len(q) \in Nat
    OBVIOUS
  <1>1. DropExpired(q) = IF (IF I = {} THEN 0 ELSE k) = 0 THEN << >>
                         ELSE SubSeq(q, IF I = {} THEN 0 ELSE k, Len(q))
    BY DEF DropExpired, FirstOf
  <1>2. CASE I = {}
    <2>1. DropExpired(q) = << >>
      BY <1>1, <1>2
    <2>2. << >> \in Seq(Commit) /\ Len(<< >>) = 0
      OBVIOUS
    <2>3. Sub(<< >>, q)
      <3> DEFINE e == << >>
                 m == [i \in 1..Len(e) |-> 1]
      <3>1. \A i \in 1..Len(e) : FALSE
        OBVIOUS
      <3>2. m \in [1..Len(e) -> 1..Len(q)] /\ Len(e) <= Len(q)
        BY <1>0
      <3> HIDE DEF m, e
      <3>3. Sub(e, q)
        BY <3>1, <3>2 DEF Sub
      <3> QED BY <3>3 DEF e
    <2> QED BY <1>2, <2>1, <2>2, <2>3
  <1>3. CASE I # {}
    <2>1. k \in I /\ (\A y \in I : k <= y) /\ k \in 1..Len(q)
      <3>1. I \subseteq Nat
        OBVIOUS
      <3>2. k \in I /\ \A y \in I : k <= y
        <4> HIDE DEF I
        <4> QED BY <1>3, <3>1, MinOfNats, Zenon DEF k
      <3> QED BY <3>2
    <2> HIDE DEF k
    <2>0. (IF I = {} THEN 0 ELSE k) = k
      BY <1>3
    <2>a. k # 0
      BY <1>0, <2>1
    <2>2. DropExpired(q) = r
      <3>1. DropExpired(q) = IF k = 0 THEN << >> ELSE SubSeq(q, k, Len(q))
        BY <1>1, <2>0, Zenon
      <3> QED BY <3>1, <2>a, Zenon
    <2>3. /\ r \in Seq(Commit) /\ Len(r) = Len(q) - k + 1 /\ Sub(r, q)
          /\ \A i \in 1..Len(q) - k + 1 : r[i] = q[i + k - 1]
      <3>1. k \in 1..Len(q) + 1
        BY <1>0, <2>1
      <3> QED BY <3>1, SubSuffix
    <2> HIDE DEF r
    <2>4. ASSUME NEW i \in 1..Len(q), ~IsExpired(q[i]) PROVE \E j \in 1..Len(r) : r[j] = q[i]
      <3>1. k <= i
        BY <2>1, <2>4
      <3>2. i - k + 1 \in 1..Len(q) - k + 1 /\ i - k + 1 + k - 1 = i
        BY <1>0, <2>1, <3>1
      <3> QED BY <2>3, <3>2
    <2>5. ASSUME Settled, Ordered(q), NEW j \in 1..Len(r) PROVE ~IsExpired(r[j])
      <3> DEFINE x == j + k - 1
      <3>1. x \in 1..Len(q) /\ r[j] = q[x] /\ (x = k \/ k < x)
        BY <1>0, <2>1, <2>3
      <3> HIDE DEF x
      <3>2. q[k] \in Commit /\ q[x] \in Commit /\ ~IsExpired(q[k])
        BY <2>1, <3>1
      <3>3. k < x => q[k].block <= q[x].block
        BY <2>1, <2>5, <3>1 DEF Ordered
      <3>4. k < x => ~IsExpired(q[x])
        BY <2>5, <3>2, <3>3, LaterCommit
      <3> QED BY <3>1, <3>2, <3>4
    <2> QED BY <2>2, <2>3, <2>4, <2>5
  <1> QED BY <1>2, <1>3

\* PositionOf is the first place of a payload's commit.
LEMMA PositionIs ==
  ASSUME NEW q \in Seq(Commit), NEW who, NEW payload
  PROVE  LET at == PositionOf(who, payload, q)
             I == {i \in 1..Len(q) : q[i].hash = Hash(who, payload)}
         IN  /\ at = 0 <=> I = {}
             /\ at # 0 => at \in I /\ \A i \in I : at <= i
  <1> DEFINE at == PositionOf(who, payload, q)
             I == {i \in 1..Len(q) : q[i].hash = Hash(who, payload)}
  <1>1. at = IF I = {} THEN 0 ELSE Min(I)
    BY DEF PositionOf, FirstOf
  <1>2. I \subseteq Nat /\ 0 \notin I
    OBVIOUS
  <1>3. I # {} => Min(I) \in I /\ \A y \in I : Min(I) <= y
    BY <1>2, MinOfNats
  <1> QED BY <1>1, <1>2, <1>3

\* What holds of the commits of a queue one by one and of its order holds of a
\* subsequence.
LEMMA SubOrdered ==
  ASSUME NEW q \in Seq(Commit), NEW r \in Seq(Commit), Sub(r, q), Ordered(q)
  PROVE  Ordered(r)
  <1>1. PICK m \in [1..Len(r) -> 1..Len(q)] :
          /\ \A i \in 1..Len(r) : r[i] = q[m[i]]
          /\ \A i, j \in 1..Len(r) : i < j => m[i] < m[j]
    BY DEF Sub
  <1> QED BY <1>1 DEF Ordered

\* A commit made after all others comes last.
LEMMA AppendOrdered ==
  ASSUME NEW q \in Seq(Commit), Ordered(q), NEW c \in Commit,
         \A i \in 1..Len(q) : q[i].block <= c.block
  PROVE  /\ Append(q, c) \in Seq(Commit) /\ Ordered(Append(q, c))
         /\ Len(Append(q, c)) = Len(q) + 1
         /\ \A i \in 1..Len(q) : Append(q, c)[i] = q[i]
         /\ Append(q, c)[Len(q) + 1] = c
  <1> DEFINE r == Append(q, c)
  <1>1. /\ r \in Seq(Commit) /\ Len(r) = Len(q) + 1 /\ Len(q) \in Nat
        /\ r[Len(q) + 1] = c
        /\ \A i \in 1..Len(q) : r[i] = q[i]
    BY AppendProperties
  <1> HIDE DEF r
  <1>2. ASSUME NEW i \in 1..Len(r), NEW j \in 1..Len(r), i < j PROVE r[i].block <= r[j].block
    <2>1. i \in 1..Len(q) /\ r[i] = q[i]
      BY <1>1, <1>2
    <2>2. CASE j = Len(q) + 1
      BY <1>1, <2>1, <2>2
    <2>3. CASE j # Len(q) + 1
      <3>1. j \in 1..Len(q) /\ r[j] = q[j]
        BY <1>1, <2>3
      <3> QED BY <1>2, <2>1, <3>1 DEF Ordered
    <2> QED BY <2>2, <2>3
  <1>3. Ordered(r)
    BY <1>2 DEF Ordered
  <1> QED BY <1>1, <1>3 DEF r

-----------------------------------------------------------------------------
\* The removals of a batch, one after the other.

WithoutFirst(who, s, p) == Without(s, PositionOf(who, p, s))

\* One removal leaves a subsequence; one that finds its payload is shorter.
LEMMA WithoutSub ==
  ASSUME NEW q \in Seq(Commit), NEW who, NEW p
  PROVE  /\ WithoutFirst(who, q, p) \in Seq(Commit) /\ Sub(WithoutFirst(who, q, p), q)
         /\ (\E i \in 1..Len(q) : q[i].hash = Hash(who, p)) =>
               Len(WithoutFirst(who, q, p)) < Len(q)
  <1> DEFINE at == PositionOf(who, p, q)
             I == {i \in 1..Len(q) : q[i].hash = Hash(who, p)}
  <1>0. Len(q) \in Nat
    OBVIOUS
  <1>1. (at = 0 <=> I = {}) /\ (at # 0 => at \in I)
    BY PositionIs
  <1> HIDE DEF at
  <1>2. CASE at # 0
    <2>1. at \in 1..Len(q)
      BY <1>1, <1>2
    <2>2. /\ Without(q, at) \in Seq(Commit) /\ Len(Without(q, at)) = Len(q) - 1
          /\ Sub(Without(q, at), q)
      BY <2>1, SubRemove
    <2>3. Len(Without(q, at)) < Len(q)
      BY <1>0, <2>2
    <2> QED BY <2>2, <2>3 DEF WithoutFirst, at
  <1>3. CASE at = 0
    <2>1. Without(q, 0) = SubSeq(q, 1, -1) \o SubSeq(q, 1, Len(q))
      BY DEF Without
    <2>2. SubSeq(q, 1, -1) = << >>
      BY SubSeqEmpty
    <2>3. SubSeq(q, 1, Len(q)) = q
      BY SubSeqFull
    <2>4. << >> \o q = q
      OBVIOUS
    <2>5. WithoutFirst(who, q, p) = q
      BY <1>3, <2>1, <2>2, <2>3, <2>4 DEF WithoutFirst, at
    <2>6. Sub(q, q)
      BY SubSelf
    <2> QED BY <1>1, <1>3, <2>5, <2>6
  <1> QED BY <1>2, <1>3

\* The recursive function of AfterBatch exists.
RemoveAll(who, q, ps, n, F) ==
    F = [k \in 0..n |-> IF k = 0 THEN q ELSE WithoutFirst(who, F[k - 1], ps[k])]

LEMMA RemoveAllExists ==
  ASSUME NEW who, NEW q, NEW ps, NEW n \in Nat
  PROVE  \E F : RemoveAll(who, q, ps, n, F)
  <1> DEFINE Value(F, k) == IF k = 0 THEN q ELSE WithoutFirst(who, F[k - 1], ps[k])
             T == {k \in Nat : \E F : \A j \in 0..k : F[j] = Value(F, j)}
  <1>1. 0 \in T
    <2> DEFINE F == [j \in 0..0 |-> q]
    <2>1. ASSUME NEW j \in 0..0 PROVE F[j] = Value(F, j)
      OBVIOUS
    <2> HIDE DEF F, Value
    <2> QED BY <2>1
  <1>2. ASSUME NEW k \in T PROVE k + 1 \in T
    <2>0. k \in Nat /\ k + 1 \in Nat
      BY <1>2
    <2>1. PICK F : \A j \in 0..k : F[j] = Value(F, j)
      BY <1>2
    <2> DEFINE G == [j \in 0..(k + 1) |-> IF j = k + 1 THEN Value(F, j) ELSE F[j]]
    <2>2. ASSUME NEW j \in 0..(k + 1) PROVE G[j] = Value(G, j)
      <3>1. G[j] = Value(F, j)
        <4>1. j = k + 1 \/ j \in 0..k
          BY <2>0
        <4> HIDE DEF Value
        <4> QED BY <2>0, <2>1, <4>1
      <3>2. j # 0 => G[j - 1] = F[j - 1]
        <4>1. j # 0 => j - 1 \in 0..(k + 1) /\ j - 1 # k + 1
          BY <2>0
        <4> HIDE DEF Value
        <4> QED BY <4>1
      <3> HIDE DEF G
      <3> QED BY <3>1, <3>2
    <2> HIDE DEF G, Value
    <2> QED BY <2>0, <2>2
  <1>3. n \in T
    <2> HIDE DEF T
    <2>1. T \subseteq Nat
      BY DEF T
    <2>2. T = Nat
      BY <1>1, <1>2, <2>1, SetInduction
    <2> QED BY <2>2
  <1>4. PICK F : \A j \in 0..n : F[j] = Value(F, j)
    BY <1>3
  <1> DEFINE H == [j \in 0..n |-> F[j]]
  <1>5. ASSUME NEW j \in 0..n PROVE H[j] = Value(H, j)
    <2>1. j # 0 => j - 1 \in 0..n
      OBVIOUS
    <2>2. j # 0 => H[j - 1] = F[j - 1]
      BY <2>1
    <2>3. H[j] = F[j]
      OBVIOUS
    <2> HIDE DEF H
    <2> QED BY <1>4, <2>2, <2>3
  <1>6. H = [j \in 0..n |-> H[j]]
    OBVIOUS
  <1> HIDE DEF H
  <1>7. RemoveAll(who, q, ps, n, H)
    BY <1>5, <1>6 DEF RemoveAll
  <1> QED BY <1>7

\* AfterBatch is its last value.
LEMMA AfterBatchLast ==
  ASSUME NEW who, NEW q, NEW ps \in Seq(Payloads)
  PROVE  \E F : RemoveAll(who, q, ps, Len(ps), F) /\ AfterBatch(who, q, ps) = F[Len(ps)]
  <1> DEFINE n == Len(ps)
             rest == CHOOSE F : F = [k \in 0..n |-> IF k = 0 THEN q ELSE WithoutFirst(who, F[k - 1], ps[k])]
  <1>1. n \in Nat
    OBVIOUS
  <1>2. \E F : RemoveAll(who, q, ps, n, F)
    BY <1>1, RemoveAllExists
  <1>3. RemoveAll(who, q, ps, n, rest)
    BY <1>2 DEF RemoveAll
  <1>4. AfterBatch(who, q, ps) = rest[n]
    BY DEF AfterBatch, WithoutFirst
  <1> HIDE DEF rest
  <1> QED BY <1>3, <1>4

\* A batch leaves a subsequence of the queue, and a shorter one when the first
\* of its payloads is in it.
LEMMA AfterBatchIs ==
  ASSUME NEW who, NEW q \in Seq(Commit), NEW ps \in Seq(Payloads)
  PROVE  /\ AfterBatch(who, q, ps) \in Seq(Commit) /\ Sub(AfterBatch(who, q, ps), q)
         /\ (ps # << >> /\ \E i \in 1..Len(q) : q[i].hash = Hash(who, ps[1])) =>
               Len(AfterBatch(who, q, ps)) < Len(q)
  <1> DEFINE n == Len(ps)
             Found == n # 0 /\ \E i \in 1..Len(q) : q[i].hash = Hash(who, ps[1])
  <1>0. n \in Nat /\ (ps # << >> => n # 0) /\ Len(q) \in Nat
    BY EmptySeq
  <1>1. PICK F : RemoveAll(who, q, ps, n, F) /\ AfterBatch(who, q, ps) = F[n]
    BY AfterBatchLast
  <1>2. F[0] = q
    BY <1>0, <1>1 DEF RemoveAll
  <1>3. ASSUME NEW k \in 0..(n - 1)
        PROVE  F[k + 1] = WithoutFirst(who, F[k], ps[k + 1])
    <2>1. k + 1 \in 0..n /\ k + 1 # 0 /\ (k + 1) - 1 = k
      BY <1>0
    <2> QED BY <1>1, <2>1 DEF RemoveAll
  <1> DEFINE Good(k) == /\ F[k] \in Seq(Commit) /\ Sub(F[k], q)
                        /\ k # 0 /\ Found => Len(F[k]) < Len(q)
             T == {k \in Nat : k <= n => Good(k)}
  <1>4. 0 \in T
    <2>1. Sub(q, q)
      BY SubSelf
    <2> QED BY <1>2, <2>1
  <1>5. ASSUME NEW k \in T PROVE k + 1 \in T
    <2>0. k \in Nat /\ k + 1 \in Nat
      BY <1>5
    <2>1. SUFFICES ASSUME k + 1 <= n PROVE Good(k + 1)
      BY <2>0
    <2>2. k \in 0..(n - 1) /\ k <= n /\ k + 1 # 0
      BY <1>0, <2>0, <2>1
    <2>3. Good(k)
      BY <1>5, <2>2
    <2> DEFINE r == F[k]
               t == F[k + 1]
    <2>4. t = WithoutFirst(who, r, ps[k + 1])
      BY <1>3, <2>2
    <2>5. r \in Seq(Commit) /\ Sub(r, q) /\ (k # 0 /\ Found => Len(r) < Len(q))
      BY <2>3
    <2>6. k = 0 => r = q
      BY <1>2
    <2> HIDE DEF r, t, Found
    <2>7. /\ t \in Seq(Commit) /\ Sub(t, r)
          /\ (\E i \in 1..Len(r) : r[i].hash = Hash(who, ps[k + 1])) => Len(t) < Len(r)
      BY <2>4, <2>5, WithoutSub
    <2>8. Sub(t, q)
      BY <2>5, <2>7, SubTrans
    <2>9. Len(t) \in Nat /\ Len(r) \in Nat /\ Len(t) <= Len(r) /\ Len(r) <= Len(q)
      BY <2>5, <2>7 DEF Sub
    <2>10. Found => Len(t) < Len(q)
      <3>1. CASE k = 0
        <4>1. ps[k + 1] = ps[1]
          BY <3>1
        <4>2. Found => Len(t) < Len(r)
          BY <2>6, <2>7, <3>1, <4>1 DEF Found
        <4> QED BY <2>6, <3>1, <4>2
      <3>2. CASE k # 0
        BY <1>0, <2>5, <2>9, <3>2
      <3> QED BY <3>1, <3>2
    <2> QED BY <2>7, <2>8, <2>10 DEF t
  <1>6. n \in T
    <2> HIDE DEF T, Good
    <2>1. T \subseteq Nat
      BY DEF T
    <2>2. T = Nat
      BY <1>4, <1>5, <2>1, SetInduction
    <2> QED BY <1>0, <2>2
  <1>7. Good(n)
    <2> HIDE DEF Good
    <2> QED BY <1>0, <1>6
  <1> QED BY <1>0, <1>1, <1>7

-----------------------------------------------------------------------------
\* The inductive invariant: besides the types and what the queues promise, no
\* commit is younger than the block, so that a new one comes last.

QueueOK(q, b) ==
    /\ q \in Seq(Commit) /\ Len(q) <= MaxCommits /\ Ordered(q)
    /\ \A i \in 1..Len(q) : q[i].block <= b

CommitsInv ==
    /\ TypeOK
    /\ DOMAIN WeightCommits = Hotkeys
    /\ \A h \in Hotkeys : QueueOK(WeightCommits[h], block)

LEMMA InvFacts ==
  ASSUME CommitsInv
  PROVE  /\ Settled /\ block \in Blocks /\ Netuid \in Nat \ {0} /\ MaxBlock \in Nat
         /\ MaxCommits \in Nat /\ RateLimit \in Nat
         /\ Keys \in [Uids -> Hotkeys] /\ LastUpdate \in [Uids -> Nat]
         /\ \A u \in Uids : LastUpdate[u] <= block
         /\ \A u, v \in Uids : Keys[u] = Keys[v] => u = v
         /\ \A h \in Hotkeys : WeightCommits[h] \in Seq(Commit)
  <1>1. /\ Settled /\ block \in Blocks /\ Netuid \in Nat \ {0} /\ MaxBlock \in Nat
        /\ MaxCommits \in Nat /\ RateLimit \in Nat
    BY WeightCommitsAssumption DEF CommitsInv, TypeOK, Settled, Blocks
  <1>2. LastUpdate \in [Uids -> 0..block]
    BY DEF CommitsInv, TypeOK
  <1>3. block \in Nat
    BY <1>1 DEF Settled
  <1>4. LastUpdate \in [Uids -> Nat] /\ \A u \in Uids : LastUpdate[u] <= block
    <2>1. \A u \in Uids : LastUpdate[u] \in 0..block
      BY <1>2
    <2> QED BY <1>2, <1>3, <2>1
  <1> QED BY <1>1, <1>4 DEF CommitsInv, TypeOK, QueueOK

\* A registered hotkey has one uid.
LEMMA UidOf ==
  ASSUME NEW h, is_hotkey_registered(h), \A u, v \in Uids : Keys[u] = Keys[v] => u = v
  PROVE  /\ get_uid(h) \in Uids /\ Keys[get_uid(h)] = h
         /\ \A u \in Uids : Keys[u] = h => u = get_uid(h)
  BY DEF is_hotkey_registered, get_uid

\* What remains of a queue is as good as the queue.
LEMMA SubQueueOK ==
  ASSUME NEW q, NEW r \in Seq(Commit), Sub(r, q), NEW b, QueueOK(q, b), MaxCommits \in Nat
  PROVE  QueueOK(r, b)
  <1>1. q \in Seq(Commit) /\ Len(q) <= MaxCommits /\ Ordered(q)
    BY DEF QueueOK
  <1>2. Ordered(r)
    BY <1>1, SubOrdered
  <1>3. Len(r) <= MaxCommits
    <2>1. Len(r) \in Nat /\ Len(q) \in Nat /\ Len(r) <= Len(q)
      BY <1>1 DEF Sub
    <2> QED BY <1>1, <2>1
  <1>4. ASSUME NEW i \in 1..Len(r) PROVE r[i].block <= b
    <2>1. PICK j \in 1..Len(q) : r[i] = q[j]
      BY SubElement
    <2> QED BY <2>1 DEF QueueOK
  <1> QED BY <1>2, <1>3, <1>4 DEF QueueOK

\* The queue without its expired commits.
LEMMA DroppedOK ==
  ASSUME CommitsInv, NEW h \in Hotkeys
  PROVE  LET q == DropExpired(WeightCommits[h]) IN
         /\ q \in Seq(Commit) /\ Sub(q, WeightCommits[h]) /\ QueueOK(q, block)
         /\ \A j \in 1..Len(q) : ~IsExpired(q[j])
         /\ \A i \in 1..Len(WeightCommits[h]) : ~IsExpired(WeightCommits[h][i]) =>
               \E j \in 1..Len(q) : q[j] = WeightCommits[h][i]
  <1> DEFINE w == WeightCommits[h]
             q == DropExpired(w)
  <1>1. w \in Seq(Commit) /\ Ordered(w) /\ QueueOK(w, block)
    BY DEF CommitsInv, QueueOK
  <1>2. Settled /\ MaxCommits \in Nat
    BY InvFacts
  <1> HIDE DEF w
  <1>3. /\ q \in Seq(Commit) /\ Sub(q, w)
        /\ \A i \in 1..Len(w) : ~IsExpired(w[i]) => \E j \in 1..Len(q) : q[j] = w[i]
        /\ \A j \in 1..Len(q) : ~IsExpired(q[j])
    BY <1>1, <1>2, DropExpiredIs
  <1> HIDE DEF q
  <1>4. QueueOK(q, block)
    BY <1>1, <1>2, <1>3, SubQueueOK
  <1> QED BY <1>3, <1>4 DEF q, w

\* A commit whose epoch has come is found: older ones of the same payload are
\* expired and popped, or are in their window too.
LEMMA InvRevealable == CommitsInv => QueuesOrdered /\ RevealableNow
  <1> SUFFICES ASSUME CommitsInv PROVE QueuesOrdered /\ RevealableNow
    OBVIOUS
  <1>1. QueuesOrdered
    BY DEF CommitsInv, QueueOK, QueuesOrdered, Ordered
  <1>2. ASSUME NEW h \in Hotkeys, NEW p \in Payloads, CommitRevealWeightsEnabled,
               NEW i \in 1..Len(WeightCommits[h]),
               WeightCommits[h][i].hash = Hash(h, p), InWindow(WeightCommits[h][i])
        PROVE  MayReveal(h, p)
    <2> DEFINE w == WeightCommits[h]
               q == DropExpired(w)
               at == PositionOf(h, p, q)
    <2>1. w \in Seq(Commit) /\ Settled
      BY InvFacts
    <2>2. /\ q \in Seq(Commit) /\ QueueOK(q, block)
          /\ \A j \in 1..Len(q) : ~IsExpired(q[j])
          /\ ~IsExpired(w[i]) => \E j \in 1..Len(q) : q[j] = w[i]
      BY DroppedOK
    <2>3. w[i] \in Commit /\ InWindow(w[i]) /\ w[i].hash = Hash(h, p)
      BY <1>2, <2>1
    <2>4. ~IsExpired(w[i])
      <3>1. w[i].block <= w[i].block
        BY <2>3 DEF Commit, Blocks
      <3> QED BY <2>1, <2>3, <3>1, LaterCommit
    <2>5. PICK j \in 1..Len(q) : q[j] = w[i]
      BY <2>2, <2>4
    <2> HIDE DEF q, w
    <2>6. at \in 1..Len(q) /\ at # 0 /\ at <= j
      BY <2>2, <2>3, <2>5, PositionIs
    <2> HIDE DEF at
    <2>7. q[at] \in Commit /\ q[j] \in Commit /\ q[at].block <= q[j].block
      <3>1. q[at] \in Commit /\ q[j] \in Commit
        BY <2>2, <2>6
      <3>2. at < j => q[at].block <= q[j].block
        BY <2>2, <2>6 DEF QueueOK, Ordered
      <3>3. at = j \/ at < j
        BY <2>6
      <3>4. q[j].block <= q[j].block
        BY <3>1 DEF Commit, Blocks
      <3> QED BY <3>1, <3>2, <3>3, <3>4
    <2>8. InWindow(q[at])
      BY <2>1, <2>2, <2>3, <2>5, <2>6, <2>7, LaterCommit
    <2> QED BY <1>2, <2>6, <2>8 DEF MayReveal, at, q, w
  <1> QED BY <1>1, <1>2 DEF RevealableNow

-----------------------------------------------------------------------------
\* Every step keeps the invariant.

\* A caller's queue is replaced by a good one.
LEMMA QueueStep ==
  ASSUME CommitsInv, NEW h \in Hotkeys, NEW r, QueueOK(r, block), block' = block,
         WeightCommits' = [WeightCommits EXCEPT ![h] = r]
  PROVE  /\ DOMAIN WeightCommits' = Hotkeys
         /\ \A k \in Hotkeys : QueueOK(WeightCommits'[k], block')
         /\ \A k \in Hotkeys : WeightCommits'[k] \in Seq(Commit)
         /\ \A k \in Hotkeys : WeightCommits'[k] = IF k = h THEN r ELSE WeightCommits[k]
  <1>1. DOMAIN WeightCommits = Hotkeys /\ \A k \in Hotkeys : QueueOK(WeightCommits[k], block)
    BY DEF CommitsInv
  <1>2. DOMAIN WeightCommits' = Hotkeys
        /\ \A k \in Hotkeys : WeightCommits'[k] = IF k = h THEN r ELSE WeightCommits[k]
    BY <1>1
  <1>3. \A k \in Hotkeys : QueueOK(WeightCommits'[k], block')
    BY <1>1, <1>2
  <1>4. \A k \in Hotkeys : WeightCommits'[k] \in Seq(Commit)
    BY <1>3 DEF QueueOK
  <1> QED BY <1>2, <1>3, <1>4

LEMMA UpdateType ==
  ASSUME CommitsInv PROVE LastUpdate \in [Uids -> 0..block] /\ block \in 0..block
  <1>1. block \in Nat
    BY InvFacts DEF Settled
  <1> QED BY <1>1 DEF CommitsInv, TypeOK

\* The reveal blocks stored with a commit are numbers.
LEMMA WindowType ==
  ASSUME NEW tempo \in Nat, NEW period \in Nat, NEW b \in Nat
  PROVE  LET w == get_reveal_blocks(Netuid, tempo, period, b) IN w.first \in Nat /\ w.last \in Nat
  <1> DEFINE e == get_epoch_index(Netuid, tempo, b)
             x == (e + period) * (tempo + 1)
             f == Monus(x, Netuid + 1)
  <1>1. Netuid \in Nat
    BY WeightCommitsAssumption
  <1>2. e \in Nat
    <2>1. b <= b
      OBVIOUS
    <2> QED BY <1>1, <2>1, EpochMonotone
  <1> HIDE DEF e
  <1>3. x \in Nat
    BY <1>2
  <1> HIDE DEF x
  <1>4. f \in Nat
    BY <1>1, <1>3 DEF Monus
  <1>5. get_reveal_blocks(Netuid, tempo, period, b) = [first |-> f, last |-> f + tempo]
    BY DEF get_reveal_blocks, x, e
  <1> HIDE DEF f
  <1>6. f + tempo \in Nat
    BY <1>4
  <1> QED BY <1>4, <1>5, <1>6

\* A commit joins what is left of the queue.
LEMMA CommitQueue ==
  ASSUME CommitsInv, NEW h \in Hotkeys, NEW p \in Payloads,
         Len(DropExpired(WeightCommits[h])) < MaxCommits
  PROVE  LET q == DropExpired(WeightCommits[h])
             w == get_reveal_blocks(Netuid, Tempo, RevealPeriodEpochs, block)
             c == [hash |-> Hash(h, p), block |-> block, first |-> w.first, last |-> w.last]
             r == Append(q, c)
         IN  /\ c \in Commit /\ QueueOK(r, block) /\ Len(r) = Len(q) + 1
             /\ \A i \in 1..Len(q) : r[i] = q[i]
             /\ r[Len(q) + 1] = c
  <1> DEFINE q == DropExpired(WeightCommits[h])
             w == get_reveal_blocks(Netuid, Tempo, RevealPeriodEpochs, block)
             c == [hash |-> Hash(h, p), block |-> block, first |-> w.first, last |-> w.last]
             r == Append(q, c)
  <1>1. q \in Seq(Commit) /\ QueueOK(q, block)
    BY DroppedOK
  <1>2. Settled /\ block \in Blocks /\ MaxCommits \in Nat
    BY InvFacts
  <1>3. w.first \in Nat /\ w.last \in Nat
    BY <1>2, WindowType DEF Settled
  <1>4. Len(q) < MaxCommits
    OBVIOUS
  <1> HIDE DEF q, w
  <1>5. c \in Commit /\ c.block = block
    BY <1>2, <1>3 DEF Commit, Hash
  <1> HIDE DEF c
  <1>6. \A i \in 1..Len(q) : q[i].block <= c.block
    BY <1>1, <1>5 DEF QueueOK
  <1>7. /\ r \in Seq(Commit) /\ Ordered(r) /\ Len(r) = Len(q) + 1
        /\ \A i \in 1..Len(q) : r[i] = q[i]
        /\ r[Len(q) + 1] = c
    BY <1>1, <1>5, <1>6, AppendOrdered DEF QueueOK
  <1>8. Len(q) \in Nat
    BY <1>1
  <1> HIDE DEF r
  <1>9. ASSUME NEW i \in 1..Len(r) PROVE r[i].block <= block
    <2>1. i \in 1..Len(q) \/ i = Len(q) + 1
      BY <1>7, <1>8
    <2>2. block <= block
      BY <1>2 DEF Settled
    <2> QED BY <1>1, <1>5, <1>7, <2>1, <2>2 DEF QueueOK
  <1>10. Len(r) <= MaxCommits
    BY <1>2, <1>4, <1>7, <1>8
  <1>11. QueueOK(r, block)
    BY <1>7, <1>9, <1>10 DEF QueueOK
  <1> QED BY <1>5, <1>7, <1>11 DEF r, c, q, w

LEMMA CommitStep ==
  ASSUME CommitsInv, NEW h \in Hotkeys, NEW p \in Payloads, do_commit_weights(h, p)
  PROVE  CommitsInv' /\ NoExpiredKept /\ Weights' = Weights
  <1> DEFINE q == DropExpired(WeightCommits[h])
             w == get_reveal_blocks(Netuid, Tempo, RevealPeriodEpochs, block)
             c == [hash |-> Hash(h, p), block |-> block, first |-> w.first, last |-> w.last]
             r == Append(q, c)
  <1>1. /\ MayCommit(h) /\ Len(q) < MaxCommits
        /\ WeightCommits' = [WeightCommits EXCEPT ![h] = r]
        /\ LastUpdate' = [LastUpdate EXCEPT ![get_uid(h)] = block]
        /\ UNCHANGED <<block, params, Keys, Weights, CRV3WeightCommits>>
    BY DEF do_commit_weights
  <1>2. /\ c \in Commit /\ QueueOK(r, block) /\ Len(r) = Len(q) + 1
        /\ \A i \in 1..Len(q) : r[i] = q[i]
        /\ r[Len(q) + 1] = c
    BY <1>1, CommitQueue
  <1>3. q \in Seq(Commit) /\ \A j \in 1..Len(q) : ~IsExpired(q[j])
    BY DroppedOK
  <1>4. c.block = block
    OBVIOUS
  <1> HIDE DEF q, c, r
  <1>5. /\ DOMAIN WeightCommits' = Hotkeys
        /\ \A k \in Hotkeys : QueueOK(WeightCommits'[k], block')
        /\ \A k \in Hotkeys : WeightCommits'[k] \in Seq(Commit)
        /\ \A k \in Hotkeys : WeightCommits'[k] = IF k = h THEN r ELSE WeightCommits[k]
    BY <1>1, <1>2, QueueStep
  <1>6. LastUpdate' \in [Uids -> 0..block]
    <2>1. LastUpdate \in [Uids -> 0..block] /\ block \in 0..block
      BY UpdateType
    <2> QED BY <1>1, <2>1
  <1>7. TypeOK'
    BY <1>1, <1>5, <1>6 DEF CommitsInv, TypeOK, Commit, params
  <1>8. ASSUME NEW i \in 1..Len(r) PROVE ~IsExpired(r[i])
    <2>1. Len(q) \in Nat
      BY <1>3
    <2>2. i \in 1..Len(q) \/ i = Len(q) + 1
      BY <1>2, <2>1
    <2>3. ~IsExpired(c)
      BY <1>4, InvFacts, NewNotExpired
    <2> QED BY <1>2, <1>3, <2>2, <2>3
  <1>9. NoExpiredKept
    <2> SUFFICES ASSUME NEW k \in Hotkeys, WeightCommits'[k] # WeightCommits[k],
                        NEW i \in 1..Len(WeightCommits'[k])
                 PROVE  ~IsExpired(WeightCommits[k][i])'
      BY DEF NoExpiredKept
    <2>1. WeightCommits'[k] = r
      BY <1>5
    <2>2. ~IsExpired(WeightCommits'[k][i])
      BY <1>8, <2>1
    <2> QED BY <1>1, <2>2 DEF IsExpired, params
  <1> QED BY <1>1, <1>5, <1>7, <1>9 DEF CommitsInv

\* A reveal leaves some of the commits that are not expired.
LEMMA RevealQueue ==
  ASSUME CommitsInv, NEW h \in Hotkeys, NEW r \in Seq(Commit),
         Sub(r, DropExpired(WeightCommits[h])),
         WeightCommits' = [WeightCommits EXCEPT ![h] = r], UNCHANGED <<block, params>>
  PROVE  /\ DOMAIN WeightCommits' = Hotkeys
         /\ \A k \in Hotkeys : QueueOK(WeightCommits'[k], block')
         /\ \A k \in Hotkeys : WeightCommits'[k] \in Seq(Commit)
         /\ WeightCommits'[h] = r
         /\ NoExpiredKept
  <1> DEFINE q == DropExpired(WeightCommits[h])
  <1>1. q \in Seq(Commit) /\ QueueOK(q, block) /\ \A j \in 1..Len(q) : ~IsExpired(q[j])
    BY DroppedOK
  <1>2. MaxCommits \in Nat
    BY InvFacts
  <1>3. Sub(r, q)
    OBVIOUS
  <1> HIDE DEF q
  <1>4. QueueOK(r, block)
    BY <1>1, <1>2, <1>3, SubQueueOK
  <1>5. /\ DOMAIN WeightCommits' = Hotkeys
        /\ \A k \in Hotkeys : QueueOK(WeightCommits'[k], block')
        /\ \A k \in Hotkeys : WeightCommits'[k] \in Seq(Commit)
        /\ \A k \in Hotkeys : WeightCommits'[k] = IF k = h THEN r ELSE WeightCommits[k]
    BY <1>4, QueueStep
  <1>6. NoExpiredKept
    <2> SUFFICES ASSUME NEW k \in Hotkeys, WeightCommits'[k] # WeightCommits[k],
                        NEW i \in 1..Len(WeightCommits'[k])
                 PROVE  ~IsExpired(WeightCommits[k][i])'
      BY DEF NoExpiredKept
    <2>1. WeightCommits'[k] = r
      BY <1>5
    <2>2. PICK j \in 1..Len(q) : r[i] = q[j]
      BY <1>3, <2>1, SubElement
    <2>3. ~IsExpired(WeightCommits'[k][i])
      BY <1>1, <2>1, <2>2
    <2> QED BY <2>3 DEF IsExpired, params
  <1> QED BY <1>5, <1>6

\* The weights of a neuron change to a payload its hotkey committed.
LEMMA RevealApplies ==
  ASSUME CommitsInv, NEW h \in Hotkeys, NEW p \in Payloads, SetRevealed(h, p),
         NEW q, Sub(q, WeightCommits[h]), NEW j \in 1..Len(q), q[j].hash = Hash(h, p), InWindow(q[j]),
         Len(WeightCommits'[h]) < Len(WeightCommits[h])
  PROVE  AppliedWereCommitted /\ Weights' \in [Uids -> Payloads \cup {NoWeights}]
  <1>1. is_hotkey_registered(h) /\ Weights' = [Weights EXCEPT ![get_uid(h)] = p]
    BY DEF SetRevealed
  <1>2. get_uid(h) \in Uids /\ Keys[get_uid(h)] = h
    BY <1>1, InvFacts, UidOf
  <1>3. Weights \in [Uids -> Payloads \cup {NoWeights}]
    BY DEF CommitsInv, TypeOK
  <1>4. \A u \in Uids : Weights'[u] = IF u = get_uid(h) THEN p ELSE Weights[u]
    BY <1>1, <1>3
  <1>5. Weights' \in [Uids -> Payloads \cup {NoWeights}]
    BY <1>1, <1>3
  <1>6. PICK i \in 1..Len(WeightCommits[h]) : q[j] = WeightCommits[h][i]
    BY SubElement
  <1>7. ASSUME NEW u \in Uids, Weights'[u] # Weights[u]
        PROVE  /\ \E k \in 1..Len(WeightCommits[Keys[u]]) :
                     /\ WeightCommits[Keys[u]][k].hash = Hash(Keys[u], Weights'[u])
                     /\ InWindow(WeightCommits[Keys[u]][k])
               /\ Len(WeightCommits'[Keys[u]]) < Len(WeightCommits[Keys[u]])
    <2>1. u = get_uid(h) /\ Keys[u] = h /\ Weights'[u] = p
      BY <1>2, <1>4, <1>7
    <2> QED BY <1>6, <2>1
  <1> QED BY <1>5, <1>7 DEF AppliedWereCommitted

LEMMA RevealStep ==
  ASSUME CommitsInv, NEW h \in Hotkeys, NEW p \in Payloads, do_reveal_weights(h, p)
  PROVE  CommitsInv' /\ NoExpiredKept /\ AppliedWereCommitted
  <1> DEFINE w == WeightCommits[h]
             q == DropExpired(w)
             at == PositionOf(h, p, q)
             r == SubSeq(q, at + 1, Len(q))
  <1>1. /\ at # 0 /\ InWindow(q[at])
        /\ WeightCommits' = [WeightCommits EXCEPT ![h] = r]
        /\ SetRevealed(h, p)
        /\ UNCHANGED <<block, params, Keys, LastUpdate, CRV3WeightCommits>>
    BY DEF do_reveal_weights, MayReveal
  <1>2. q \in Seq(Commit) /\ Sub(q, w) /\ w \in Seq(Commit)
    BY DroppedOK, InvFacts
  <1> HIDE DEF w, q
  <1>3. at \in 1..Len(q) /\ q[at].hash = Hash(h, p)
    BY <1>1, <1>2, PositionIs
  <1> HIDE DEF at
  <1>4. Len(q) \in Nat /\ Len(w) \in Nat /\ Len(q) <= Len(w)
    BY <1>2 DEF Sub
  <1>5. r \in Seq(Commit) /\ Len(r) = Len(q) - (at + 1) + 1 /\ Sub(r, q)
    <2>1. at + 1 \in 1..Len(q) + 1
      BY <1>3, <1>4
    <2> QED BY <1>2, <2>1, SubSuffix
  <1>6. Len(r) < Len(w)
    BY <1>3, <1>4, <1>5
  <1> HIDE DEF r
  <1>7. /\ DOMAIN WeightCommits' = Hotkeys
        /\ \A k \in Hotkeys : QueueOK(WeightCommits'[k], block')
        /\ \A k \in Hotkeys : WeightCommits'[k] \in Seq(Commit)
        /\ WeightCommits'[h] = r
        /\ NoExpiredKept
    BY <1>1, <1>5, RevealQueue DEF q, w
  <1>8. AppliedWereCommitted /\ Weights' \in [Uids -> Payloads \cup {NoWeights}]
    BY <1>1, <1>2, <1>3, <1>6, <1>7, RevealApplies DEF w
  <1>9. TypeOK'
    BY <1>1, <1>7, <1>8 DEF CommitsInv, TypeOK, Commit, params
  <1> QED BY <1>7, <1>8, <1>9 DEF CommitsInv

LEMMA BatchStep ==
  ASSUME CommitsInv, NEW h \in Hotkeys, NEW ps \in Seq(Payloads), do_batch_reveal_weights(h, ps)
  PROVE  CommitsInv' /\ NoExpiredKept /\ AppliedWereCommitted
  <1> DEFINE w == WeightCommits[h]
             q == DropExpired(w)
             r == AfterBatch(h, q, ps)
             Copies(p) == {i \in DOMAIN q : q[i].hash = Hash(h, p)}
             Wanted(p) == {i \in DOMAIN ps : ps[i] = p}
  <1>1. /\ \A p \in Range(ps) :
              Cardinality(Copies(p)) >= Cardinality(Wanted(p)) /\ InWindow(q[PositionOf(h, p, q)])
        /\ WeightCommits' = [WeightCommits EXCEPT ![h] = r]
        /\ IF ps = << >> THEN UNCHANGED Weights ELSE SetRevealed(h, ps[Len(ps)])
        /\ UNCHANGED <<block, params, Keys, LastUpdate, CRV3WeightCommits>>
    BY DEF do_batch_reveal_weights
  <1>2. q \in Seq(Commit) /\ Sub(q, w) /\ w \in Seq(Commit)
    BY DroppedOK, InvFacts
  <1> HIDE DEF w, q
  <1>3. /\ r \in Seq(Commit) /\ Sub(r, q)
        /\ (ps # << >> /\ \E i \in 1..Len(q) : q[i].hash = Hash(h, ps[1])) => Len(r) < Len(q)
    BY <1>2, AfterBatchIs
  <1> HIDE DEF r
  <1>4. /\ DOMAIN WeightCommits' = Hotkeys
        /\ \A k \in Hotkeys : QueueOK(WeightCommits'[k], block')
        /\ \A k \in Hotkeys : WeightCommits'[k] \in Seq(Commit)
        /\ WeightCommits'[h] = r
        /\ NoExpiredKept
    BY <1>1, <1>3, RevealQueue DEF q, w
  <1>5. ASSUME NEW n \in 1..Len(ps)
        PROVE  \E i \in 1..Len(q) : q[i].hash = Hash(h, ps[n]) /\ InWindow(q[i])
    <2> DEFINE p == ps[n]
               at == PositionOf(h, p, q)
    <2>1. p \in Range(ps) /\ n \in Wanted(p)
      BY DEF Range
    <2>2. IsFiniteSet(Wanted(p)) /\ Wanted(p) # {} /\ DOMAIN q = 1..Len(q) /\ Len(q) \in Nat
      <3>1. DOMAIN ps = 1..Len(ps) /\ Len(ps) \in Nat
        OBVIOUS
      <3>2. IsFiniteSet(1..Len(ps))
        BY <3>1, FS_Interval
      <3>3. IsFiniteSet(Wanted(p))
        BY <3>1, <3>2, FS_Subset
      <3> QED BY <1>2, <2>1, <3>3
    <2> HIDE DEF p, Wanted
    <2>3. Cardinality(Wanted(p)) \in Nat /\ Cardinality(Wanted(p)) # 0
      BY <2>2, FS_CardinalityType, FS_EmptySet
    <2>4. Copies(p) # {}
      <3>1. Copies(p) = {} => Cardinality(Copies(p)) = 0
        BY FS_EmptySet
      <3> QED BY <1>1, <2>1, <2>3, <3>1
    <2>5. at \in 1..Len(q) /\ q[at].hash = Hash(h, p)
      <3>1. {i \in 1..Len(q) : q[i].hash = Hash(h, p)} # {}
        BY <2>2, <2>4
      <3> QED BY <1>2, <3>1, PositionIs
    <2>6. InWindow(q[at])
      BY <1>1, <2>1
    <2> QED BY <2>5, <2>6 DEF p
  <1>6. AppliedWereCommitted /\ Weights' \in [Uids -> Payloads \cup {NoWeights}]
    <2>1. CASE ps = << >>
      <3>1. Weights' = Weights
        BY <1>1, <2>1
      <3> QED BY <3>1 DEF AppliedWereCommitted, CommitsInv, TypeOK
    <2>2. CASE ps # << >>
      <3>1. Len(ps) \in 1..Len(ps) /\ 1 \in 1..Len(ps) /\ ps[Len(ps)] \in Payloads
        <4>1. Len(ps) \in Nat /\ Len(ps) # 0
          BY <2>2, EmptySeq
        <4> QED BY <4>1
      <3>2. Len(WeightCommits'[h]) < Len(WeightCommits[h])
        <4>1. Len(r) < Len(q)
          BY <1>3, <1>5, <2>2, <3>1
        <4>2. Len(r) \in Nat /\ Len(q) \in Nat /\ Len(w) \in Nat /\ Len(q) <= Len(w)
          BY <1>2, <1>3 DEF Sub
        <4>3. Len(r) < Len(w)
          BY <4>1, <4>2
        <4> QED BY <1>4, <4>3 DEF w
      <3>3. PICK i \in 1..Len(q) : q[i].hash = Hash(h, ps[Len(ps)]) /\ InWindow(q[i])
        BY <1>5, <3>1
      <3>4. ps[Len(ps)] \in Payloads /\ SetRevealed(h, ps[Len(ps)])
        BY <1>1, <2>2, <3>1
      <3> QED BY <1>2, <3>2, <3>3, <3>4, RevealApplies DEF w
    <2> QED BY <2>1, <2>2
  <1>7. TypeOK'
    BY <1>1, <1>4, <1>6 DEF CommitsInv, TypeOK, Commit, params
  <1> QED BY <1>4, <1>6, <1>7 DEF CommitsInv

LEMMA SetWeightsStep ==
  ASSUME CommitsInv, NEW h \in Hotkeys, NEW p \in Payloads, set_weights(h, p)
  PROVE  CommitsInv' /\ NoExpiredKept /\ AppliedWereCommitted
  <1>1. /\ ~CommitRevealWeightsEnabled
        /\ Weights' = [Weights EXCEPT ![get_uid(h)] = p]
        /\ LastUpdate' = [LastUpdate EXCEPT ![get_uid(h)] = block]
        /\ UNCHANGED <<block, params, Keys, commits>>
    BY DEF set_weights
  <1>2. LastUpdate' \in [Uids -> 0..block]
    BY <1>1, UpdateType
  <1>3. Weights' \in [Uids -> Payloads \cup {NoWeights}]
    BY <1>1 DEF CommitsInv, TypeOK
  <1>4. TypeOK'
    BY <1>1, <1>2, <1>3 DEF CommitsInv, TypeOK, params, commits
  <1>5. CommitsInv'
    BY <1>1, <1>4 DEF CommitsInv, params, commits
  <1> QED BY <1>1, <1>5 DEF NoExpiredKept, AppliedWereCommitted, commits

\* An encrypted commit joins the queue of its epoch.
LEMMA EncryptedStep ==
  ASSUME CommitsInv, NEW h \in Hotkeys, NEW p \in Payloads, do_commit_crv3_weights(h, p)
  PROVE  CommitsInv' /\ NoExpiredKept /\ AppliedWereCommitted
  <1> DEFINE e == CommitEpoch(block)
             c == [who |-> h, payload |-> p, block |-> block]
             Entry == [who : Hotkeys, payload : Payloads, block : Blocks]
  <1>1. /\ CRV3WeightCommits' =
               [CRV3WeightCommits EXCEPT ![e] = Append(CRV3WeightCommits[e], c)]
        /\ LastUpdate' = [LastUpdate EXCEPT ![get_uid(h)] = block]
        /\ UNCHANGED <<block, params, Keys, Weights, WeightCommits>>
    BY DEF do_commit_crv3_weights
  <1>2. LastUpdate' \in [Uids -> 0..block]
    BY <1>1, UpdateType
  <1>3. DOMAIN CRV3WeightCommits = Epochs /\ \A x \in Epochs : CRV3WeightCommits[x] \in Seq(Entry)
    BY DEF CommitsInv, TypeOK
  <1>4. c \in Entry
    BY InvFacts
  <1> HIDE DEF e, c, Entry
  <1>5. DOMAIN CRV3WeightCommits' = Epochs /\ \A x \in Epochs : CRV3WeightCommits'[x] \in Seq(Entry)
    <2>1. DOMAIN CRV3WeightCommits' = Epochs
      BY <1>1, <1>3
    <2>2. ASSUME NEW x \in Epochs PROVE CRV3WeightCommits'[x] \in Seq(Entry)
      <3>1. CASE x = e
        <4>1. CRV3WeightCommits'[x] = Append(CRV3WeightCommits[x], c)
          BY <1>1, <1>3, <3>1
        <4> QED BY <1>3, <1>4, <4>1, AppendProperties
      <3>2. CASE x # e
        BY <1>1, <1>3, <3>2
      <3> QED BY <3>1, <3>2
    <2> QED BY <2>1, <2>2
  <1>6. TypeOK'
    BY <1>1, <1>2, <1>5 DEF CommitsInv, TypeOK, params, Entry
  <1>7. CommitsInv'
    BY <1>1, <1>6 DEF CommitsInv
  <1> QED BY <1>1, <1>7 DEF NoExpiredKept, AppliedWereCommitted

\* The epoch revealed at a block is one of those with a queue.
LEMMA RevealEpochIs ==
  ASSUME CommitsInv, block < MaxBlock
  PROVE  RevealEpoch(block + 1) \in Epochs /\ Epoch(block + 1) \in Epochs
  <1> DEFINE e == Epoch(block + 1)
             d == Monus(RevealPeriodEpochs, 1)
             x == block + 1 + Netuid + 1
             t == Tempo + 1
  <1>1. /\ Netuid \in Nat /\ MaxBlock \in Nat /\ block \in Nat /\ Tempo \in Nat
        /\ RevealPeriodEpochs \in Nat
    BY InvFacts DEF Settled
  <1>2. x \in Nat /\ t \in Nat \ {0} /\ x <= MaxBlock + Netuid + 1
    BY <1>1
  <1>3. e = x \div t
    BY DEF Epoch, get_epoch_index
  <1> HIDE DEF e, x, t
  <1>4. e \in Nat /\ t * e \in Int /\ t * e <= x
    <2> DEFINE r == x % t
               m == t * (x \div t)
    <2>1. x \div t \in Nat /\ r \in 0..(t - 1) /\ m \in Int /\ x = m + r
      BY <1>2, Division
    <2> HIDE DEF r, m
    <2>2. m <= x
      BY <1>2, <2>1
    <2> QED BY <1>3, <2>1, <2>2 DEF m
  <1>5. e <= x
    <2>1. e <= t * e
      BY <1>2, <1>4
    <2> HIDE DEF e
    <2> DEFINE m == t * e
    <2>2. m \in Int /\ e <= m /\ m <= x
      BY <1>4, <2>1
    <2> HIDE DEF m
    <2> QED BY <1>2, <1>4, <2>2
  <1>6. d \in Nat
    BY <1>1 DEF Monus
  <1> HIDE DEF d
  <1>7. Monus(e, d) \in Nat /\ Monus(e, d) <= e
    BY <1>4, <1>6 DEF Monus
  <1>8. RevealEpoch(block + 1) = Monus(e, d)
    BY DEF RevealEpoch, e, d
  <1> DEFINE r == Monus(e, d)
  <1> HIDE DEF r
  <1>9. r \in 0..(MaxBlock + Netuid + 2) /\ e \in 0..(MaxBlock + Netuid + 2)
    BY <1>1, <1>2, <1>4, <1>5, <1>7 DEF r
  <1> QED BY <1>8, <1>9 DEF Epochs, r, e

LEMMA BlockStep ==
  ASSUME CommitsInv, block_step
  PROVE  CommitsInv' /\ NoExpiredKept /\ AppliedWereCommitted
  <1> DEFINE b == block + 1
             e == RevealEpoch(b)
             entries == IF Epoch(b) < 2 THEN << >> ELSE CRV3WeightCommits[e]
             Entry == [who : Hotkeys, payload : Payloads, block : Blocks]
  <1>1. /\ block < MaxBlock /\ block' = b
        /\ IF should_run_epoch(Netuid, Tempo, b) THEN reveal_crv3_commits(b)
           ELSE UNCHANGED <<LastUpdate, Weights, CRV3WeightCommits>>
        /\ UNCHANGED <<params, Keys, WeightCommits>>
    BY DEF block_step
  <1>2. block \in Nat /\ MaxBlock \in Nat /\ b \in Nat /\ b \in Blocks
    <2>1. block \in Nat /\ MaxBlock \in Nat
      BY InvFacts DEF Settled
    <2> QED BY <1>1, <2>1 DEF Blocks
  <1>3. LastUpdate \in [Uids -> 0..b] /\ b \in 0..b
    <2>1. \A y \in 0..block : y \in 0..b
      BY <1>2
    <2>2. LastUpdate \in [Uids -> 0..block]
      BY UpdateType
    <2> QED BY <1>2, <2>1, <2>2
  <1>4. \A h \in Hotkeys : QueueOK(WeightCommits[h], b)
    <2> SUFFICES ASSUME NEW h \in Hotkeys PROVE QueueOK(WeightCommits[h], b)
      OBVIOUS
    <2>1. QueueOK(WeightCommits[h], block)
      BY DEF CommitsInv
    <2>2. ASSUME NEW i \in 1..Len(WeightCommits[h]) PROVE WeightCommits[h][i].block <= b
      <3>1. WeightCommits[h][i] \in Commit /\ WeightCommits[h][i].block <= block
        BY <2>1 DEF QueueOK
      <3>2. WeightCommits[h][i].block \in Nat
        BY <3>1 DEF Commit, Blocks
      <3> QED BY <1>2, <3>1, <3>2
    <2> QED BY <2>1, <2>2 DEF QueueOK
  <1>5. /\ LastUpdate' \in [Uids -> 0..b]
        /\ Weights' \in [Uids -> Payloads \cup {NoWeights}]
        /\ DOMAIN CRV3WeightCommits' = Epochs
        /\ \A x \in Epochs : CRV3WeightCommits'[x] \in Seq(Entry)
        /\ AppliedWereCommitted
    <2>0. /\ Weights \in [Uids -> Payloads \cup {NoWeights}] /\ DOMAIN CRV3WeightCommits = Epochs
          /\ \A x \in Epochs : CRV3WeightCommits[x] \in Seq(Entry)
      BY DEF CommitsInv, TypeOK
    <2> HIDE DEF Entry
    <2>a. << >> \in Seq(Entry)
      OBVIOUS
    <2>1. CASE ~should_run_epoch(Netuid, Tempo, b)
      <3>1. UNCHANGED <<LastUpdate, Weights, CRV3WeightCommits>>
        BY <1>1, <2>1
      <3> QED BY <1>3, <2>0, <3>1 DEF AppliedWereCommitted
    <2>2. CASE should_run_epoch(Netuid, Tempo, b)
      <3>0. reveal_crv3_commits(b)
        BY <1>1, <2>2
      <3>1. PICK ok \in SUBSET DOMAIN entries :
              LET Of(u) == {i \in ok : entries[i].who = Keys[u]} IN
              /\ Weights' = [u \in Uids |->
                     IF Of(u) = {} THEN Weights[u] ELSE entries[Max(Of(u))].payload]
              /\ LastUpdate' = [u \in Uids |->
                     IF CommitRevealWeightsEnabled \/ Of(u) = {} THEN LastUpdate[u] ELSE b]
              /\ CRV3WeightCommits' = [x \in Epochs |->
                     IF x \in ClearedEpochs(b) THEN << >> ELSE CRV3WeightCommits[x]]
        BY <3>0 DEF reveal_crv3_commits
      <3> DEFINE Of(u) == {i \in ok : entries[i].who = Keys[u]}
      <3>2. e \in Epochs
        BY <1>1, RevealEpochIs
      <3>3. entries \in Seq(Entry)
        BY <2>0, <2>a, <3>2
      <3>4. ASSUME NEW u \in Uids, Of(u) # {}
            PROVE  /\ Max(Of(u)) \in 1..Len(CRV3WeightCommits[e])
                   /\ Epoch(b) >= 2
                   /\ entries = CRV3WeightCommits[e]
                   /\ entries[Max(Of(u))].who = Keys[u]
                   /\ entries[Max(Of(u))].payload \in Payloads
        <4>1. PICK i \in DOMAIN entries : TRUE
          BY <3>4
        <4>2. entries # << >>
          BY <4>1
        <4>3. entries = CRV3WeightCommits[e] /\ ~(Epoch(b) < 2)
          BY <4>2
        <4>4. Epoch(b) \in Nat
          BY <1>1, RevealEpochIs, InvFacts DEF Epochs
        <4>5. Epoch(b) >= 2
          BY <4>3, <4>4
        <4> HIDE DEF entries
        <4>6. DOMAIN entries = 1..Len(entries) /\ Len(entries) \in Nat
          BY <3>3
        <4>7. Of(u) \subseteq 0..Len(entries)
          BY <4>6
        <4>8. Max(Of(u)) \in Of(u)
          <5> DEFINE O == Of(u)
          <5>1. O \subseteq 0..Len(entries) /\ O # {}
            BY <3>4, <4>7
          <5> HIDE DEF O
          <5>2. Max(O) \in O
            BY <4>6, <5>1, MaxOfNats
          <5> QED BY <5>2 DEF O
        <4>9. Max(Of(u)) \in 1..Len(entries) /\ entries[Max(Of(u))].who = Keys[u]
          BY <4>6, <4>8
        <4>10. entries[Max(Of(u))] \in Entry
          BY <3>3, <4>9
        <4> QED BY <4>3, <4>5, <4>9, <4>10 DEF Entry
      <3> HIDE DEF entries
      <3>5. LastUpdate' \in [Uids -> 0..b]
        <4>1. LastUpdate' = [u \in Uids |->
                     IF CommitRevealWeightsEnabled \/ Of(u) = {} THEN LastUpdate[u] ELSE b]
          BY <3>1
        <4> HIDE DEF Of
        <4> QED BY <1>3, <4>1
      <3>6. Weights' \in [Uids -> Payloads \cup {NoWeights}]
            /\ \A u \in Uids : Weights'[u] =
                  IF Of(u) = {} THEN Weights[u] ELSE entries[Max(Of(u))].payload
        <4>1. Weights' = [u \in Uids |->
                     IF Of(u) = {} THEN Weights[u] ELSE entries[Max(Of(u))].payload]
          BY <3>1
        <4> HIDE DEF Of
        <4> QED BY <2>0, <3>4, <4>1
      <3>7. /\ DOMAIN CRV3WeightCommits' = Epochs
            /\ \A x \in Epochs : CRV3WeightCommits'[x] =
                  IF x \in ClearedEpochs(b) THEN << >> ELSE CRV3WeightCommits[x]
        BY <3>1
      <3>8. \A x \in Epochs : CRV3WeightCommits'[x] \in Seq(Entry)
        BY <2>0, <2>a, <3>7
      <3>9. AppliedWereCommitted
        <4>1. ASSUME NEW u \in Uids, Weights'[u] # Weights[u]
              PROVE  /\ should_run_epoch(Netuid, Tempo, block') /\ block' = block + 1
                     /\ \E x \in Epochs : \E i \in 1..Len(CRV3WeightCommits[x]) :
                           /\ CRV3WeightCommits[x][i].who = Keys[u]
                           /\ CRV3WeightCommits[x][i].payload = Weights'[u]
                           /\ CRV3WeightCommits'[x] = << >>
          <5>1. Of(u) # {} /\ Weights'[u] = entries[Max(Of(u))].payload
            BY <3>6, <4>1
          <5> DEFINE m == Max(Of(u))
          <5>2. /\ m \in 1..Len(CRV3WeightCommits[e]) /\ Epoch(b) >= 2
                /\ entries = CRV3WeightCommits[e] /\ entries[m].who = Keys[u]
            BY <3>4, <5>1
          <5>3. e \in ClearedEpochs(b)
            BY <3>2, <5>2 DEF ClearedEpochs
          <5>4. CRV3WeightCommits'[e] = << >>
            BY <3>2, <3>7, <5>3
          <5> QED BY <1>1, <2>2, <3>2, <5>1, <5>2, <5>4
        <4> QED BY <4>1 DEF AppliedWereCommitted
      <3> QED BY <3>5, <3>6, <3>7, <3>8, <3>9
    <2> QED BY <2>1, <2>2
  <1>6. TypeOK'
    BY <1>1, <1>2, <1>5 DEF CommitsInv, TypeOK, params, Entry
  <1>7. CommitsInv'
    BY <1>1, <1>4, <1>6 DEF CommitsInv
  <1> QED BY <1>1, <1>5, <1>7 DEF NoExpiredKept

\* Hyperparameters, registrations and key swaps.
LEMMA OtherStep ==
  ASSUME CommitsInv, Neurons \/ Settings
  PROVE  CommitsInv' /\ NoExpiredKept /\ AppliedWereCommitted
  <1>0. /\ Keys \in [Uids -> Hotkeys] /\ (\A u, v \in Uids : Keys[u] = Keys[v] => u = v)
        /\ block \in Nat
    BY InvFacts DEF Settled
  <1>1. ASSUME NEW t \in Tempos, sudo_set_tempo(t)
        PROVE  CommitsInv' /\ NoExpiredKept /\ AppliedWereCommitted
    BY <1>1 DEF sudo_set_tempo, CommitsInv, TypeOK, NoExpiredKept, AppliedWereCommitted, neurons, commits
  <1>2. ASSUME NEW r \in Periods, sudo_set_commit_reveal_weights_interval(r)
        PROVE  CommitsInv' /\ NoExpiredKept /\ AppliedWereCommitted
    BY <1>2 DEF sudo_set_commit_reveal_weights_interval, CommitsInv, TypeOK, NoExpiredKept,
                AppliedWereCommitted, neurons, commits
  <1>3. ASSUME NEW e \in BOOLEAN, sudo_set_commit_reveal_weights_enabled(e)
        PROVE  CommitsInv' /\ NoExpiredKept /\ AppliedWereCommitted
    BY <1>3 DEF sudo_set_commit_reveal_weights_enabled, CommitsInv, TypeOK, NoExpiredKept,
                AppliedWereCommitted, neurons, commits
  <1>4. ASSUME NEW u \in Uids, NEW new \in Hotkeys, ~is_hotkey_registered(new),
               Keys' = [Keys EXCEPT ![u] = new]
        PROVE  /\ Keys' \in [Uids -> Hotkeys] /\ \A v, w \in Uids : Keys'[v] = Keys'[w] => v = w
               /\ Keys' # Keys
    <2>1. \A v \in Uids : Keys[v] # new
      BY <1>4 DEF is_hotkey_registered
    <2>2. Keys' \in [Uids -> Hotkeys] /\ \A v \in Uids : Keys'[v] = IF v = u THEN new ELSE Keys[v]
      BY <1>0, <1>4
    <2> QED BY <1>0, <2>1, <2>2
  <1>5. ASSUME NEW u \in Uids, NEW new \in Hotkeys, replace_neuron(u, new)
        PROVE  CommitsInv' /\ NoExpiredKept /\ AppliedWereCommitted
    <2>1. /\ ~is_hotkey_registered(new) /\ Keys' = [Keys EXCEPT ![u] = new]
          /\ UNCHANGED <<block, params, LastUpdate, Weights, commits>>
      BY <1>5 DEF replace_neuron
    <2>2. Keys' \in [Uids -> Hotkeys] /\ \A v, w \in Uids : Keys'[v] = Keys'[w] => v = w
      BY <1>4, <2>1
    <2>3. TypeOK'
      BY <2>1, <2>2 DEF CommitsInv, TypeOK, params, commits
    <2> QED BY <2>1, <2>3 DEF CommitsInv, NoExpiredKept, AppliedWereCommitted, commits
  <1>6. ASSUME NEW old \in Hotkeys, NEW new \in Hotkeys, swap_hotkey(old, new)
        PROVE  CommitsInv' /\ NoExpiredKept /\ AppliedWereCommitted
    <2>1. /\ is_hotkey_registered(old) /\ ~is_hotkey_registered(new)
          /\ Keys' = [Keys EXCEPT ![get_uid(old)] = new]
          /\ WeightCommits' =
               IF WeightCommits[old] = << >> THEN WeightCommits
               ELSE [WeightCommits EXCEPT ![old] = << >>, ![new] = WeightCommits[old]]
          /\ UNCHANGED <<block, params, LastUpdate, Weights, CRV3WeightCommits>>
      BY <1>6 DEF swap_hotkey
    <2>2. get_uid(old) \in Uids
      BY <1>0, <2>1, UidOf
    <2>3. /\ Keys' \in [Uids -> Hotkeys] /\ (\A v, w \in Uids : Keys'[v] = Keys'[w] => v = w)
          /\ Keys' # Keys
      BY <1>4, <2>1, <2>2
    <2>4. QueueOK(<< >>, block)
      <3> DEFINE q == << >>
      <3>1. q \in Seq(Commit) /\ Len(q) = 0 /\ (\A i \in 1..Len(q) : FALSE) /\ 0 <= MaxCommits
        BY InvFacts
      <3> HIDE DEF q
      <3>2. QueueOK(q, block)
        BY <3>1 DEF QueueOK, Ordered
      <3> QED BY <3>2 DEF q
    <2>5. DOMAIN WeightCommits' = Hotkeys
          /\ \A h \in Hotkeys : WeightCommits'[h] = << >> \/ \E k \in Hotkeys : WeightCommits'[h] = WeightCommits[k]
      BY <2>1 DEF CommitsInv
    <2>6. \A h \in Hotkeys : QueueOK(WeightCommits'[h], block)
      BY <2>4, <2>5 DEF CommitsInv
    <2>7. \A h \in Hotkeys : WeightCommits'[h] \in Seq(Commit)
      BY <2>6 DEF QueueOK
    <2>8. TypeOK'
      BY <2>1, <2>3, <2>7 DEF CommitsInv, TypeOK, params, Commit
    <2>9. CommitsInv'
      BY <2>1, <2>5, <2>6, <2>8 DEF CommitsInv
    <2>10. NoExpiredKept
      BY <2>3 DEF NoExpiredKept
    <2> QED BY <2>1, <2>9, <2>10 DEF AppliedWereCommitted
  <1>7. CASE Neurons
    BY <1>5, <1>6, <1>7 DEF Neurons
  <1>8. CASE Settings
    BY <1>1, <1>2, <1>3, <1>8 DEF Settings
  <1> QED BY <1>7, <1>8

LEMMA InvInit == Init => CommitsInv
  <1> SUFFICES ASSUME Init PROVE CommitsInv
    OBVIOUS
  <1>1. block = 1 /\ WeightCommits = [h \in Hotkeys |-> << >>] /\ CRV3WeightCommits = [e \in Epochs |-> << >>]
    BY DEF Init
  <1> DEFINE q == << >>
  <1>2. q \in Seq(Commit) /\ Len(q) = 0 /\ (\A i \in 1..Len(q) : FALSE) /\ 0 <= MaxCommits
    BY WeightCommitsAssumption
  <1> HIDE DEF q
  <1>3. QueueOK(q, block)
    BY <1>2 DEF QueueOK, Ordered
  <1>4. TypeOK
    <2>1. \A h \in Hotkeys : WeightCommits[h] \in Seq(Commit)
      BY <1>1, <1>2 DEF q
    <2>2. LastUpdate \in [Uids -> 0..block]
      BY <1>1 DEF Init
    <2>3. block \in Blocks
      BY <1>1, WeightCommitsAssumption DEF Blocks
    <2> QED BY <1>1, <2>1, <2>2, <2>3 DEF Init, TypeOK, Commit
  <1> QED BY <1>1, <1>3, <1>4 DEF CommitsInv, q

LEMMA BatchType == ASSUME NEW ps \in Batches PROVE ps \in Seq(Payloads)
  <1>1. CASE ps = << >>
    BY <1>1
  <1>2. CASE \E p, q \in Payloads : ps = <<p, q>>
    BY <1>2
  <1> QED BY <1>1, <1>2 DEF Batches

LEMMA InvNext ==
  ASSUME CommitsInv, [Next]_vars PROVE CommitsInv' /\ NoExpiredKept /\ AppliedWereCommitted
  <1>1. ASSUME NEW h \in Hotkeys, NEW ps \in Batches, do_batch_reveal_weights(h, ps)
        PROVE  CommitsInv' /\ NoExpiredKept /\ AppliedWereCommitted
    BY <1>1, BatchStep, BatchType
  <1>2. ASSUME NEW h \in Hotkeys, NEW p \in Payloads, do_commit_weights(h, p)
        PROVE  CommitsInv' /\ NoExpiredKept /\ AppliedWereCommitted
    BY <1>2, CommitStep DEF AppliedWereCommitted
  <1>3. CASE UNCHANGED vars
    <2>1. CommitsInv'
      BY <1>3 DEF CommitsInv, TypeOK, vars, params, neurons, commits
    <2> QED BY <1>3, <2>1 DEF vars, params, neurons, commits, NoExpiredKept, AppliedWereCommitted
  <1>4. CASE Next
    BY <1>1, <1>2, <1>4, RevealStep, SetWeightsStep, EncryptedStep, BlockStep, OtherStep
       DEF Next, HashSteps, BatchSteps, Encrypted
  <1> QED BY <1>3, <1>4

\* Whatever the hotkeys, their number and the limits, and however commits,
\* reveals, batches, registrations, key swaps and changes of the settings are
\* interleaved, a hotkey's queue stays in order and within its limit, and each
\* commit whose epoch has come can be revealed.
THEOREM QueuesAlwaysOrdered == Spec => [](TypeOK /\ QueuesOrdered /\ RevealableNow)
  <1>1. Init => CommitsInv
    BY InvInit
  <1>2. CommitsInv /\ [Next]_vars => CommitsInv'
    BY InvNext
  <1>3. CommitsInv => TypeOK /\ QueuesOrdered /\ RevealableNow
    BY InvRevealable DEF CommitsInv
  <1> QED BY <1>1, <1>2, <1>3, PTL DEF Spec

\* A commit or a reveal leaves no expired commit behind, and with commit-reveal
\* on a neuron's weights change only to what the hotkey in its slot committed,
\* which is used up.
THEOREM RevealsAlwaysSound == Spec => RevealsSound
  <1>1. Init => CommitsInv
    BY InvInit
  <1>2. CommitsInv /\ [Next]_vars => CommitsInv'
    BY InvNext
  <1>3. CommitsInv /\ [Next]_vars => [NoExpiredKept /\ AppliedWereCommitted]_vars
    BY InvNext
  <1> QED BY <1>1, <1>2, <1>3, PTL DEF Spec, RevealsSound
=============================================================================
