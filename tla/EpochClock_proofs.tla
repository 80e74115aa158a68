-------------------------- MODULE EpochClock_proofs --------------------------
(***************************************************************************)
(* The two computations of the epoch agree, for every netuid and tempo:    *)
(* an epoch runs in the last block of each epoch index, and the stored     *)
(* reveal window of a commit is the epoch in which the reveal is accepted. *)
(***************************************************************************)
EXTENDS EpochClock, TLAPS

\* Quotient and remainder of a natural number.
LEMMA Division ==
    ASSUME NEW x \in Nat, NEW d \in Nat \ {0}
    PROVE  /\ x \div d \in Nat
           /\ x % d \in 0..(d - 1)
           /\ d * (x \div d) \in Int
           /\ x = d * (x \div d) + (x % d)
  <1> DEFINE q == x \div d
             r == x % d
             p == d * q
  <1>1. q \in Nat /\ r \in 0..(d - 1)
    OBVIOUS
  <1>2. r = x - p
    OBVIOUS
  <1>3. p \in Int
    BY <1>1
  <1> HIDE DEF p, q, r
  <1>4. x = p + r
    BY <1>1, <1>2, <1>3
  <1> QED BY <1>1, <1>3, <1>4 DEF p, q, r

\* A product grows by at least one factor when the other grows by one.
LEMMA Step ==
    ASSUME NEW d \in Nat \ {0}, NEW q \in Int, NEW r \in Int, q < r
    PROVE  d * q + d <= d * r
  <1>1. d * r - d * q = d * (r - q)
    OBVIOUS
  <1>2. d * (r - q) >= d
    BY r - q >= 1
  <1> QED BY <1>1, <1>2

\* A quotient is found from the interval its multiple lies in.
LEMMA QuotientIn ==
    ASSUME NEW x \in Nat, NEW d \in Nat \ {0}, NEW q \in Int
    PROVE  x \div d = q <=> d * q <= x /\ x < d * q + d
  <1> DEFINE p == x \div d
  <1>1. /\ p \in Nat /\ d * p <= x /\ x < d * p + d
        /\ d * p \in Int /\ d * q \in Int
    BY Division
  <1>2. CASE p < q
    BY <1>1, <1>2, Step
  <1>3. CASE q < p
    BY <1>1, <1>3, Step
  <1>4. CASE p = q
    BY <1>1, <1>4
  <1> QED BY <1>1, <1>2, <1>3, <1>4

\* An epoch runs (should_run_epoch) in exactly those blocks after which the
\* epoch index (get_epoch_index) of the next block is one higher; after every
\* other block it stays.
THEOREM EpochTurns ==
    ASSUME NEW netuid \in Nat, NEW tempo \in Nat \ {0}, NEW block \in Nat
    PROVE  get_epoch_index(netuid, tempo, block + 1)
             = get_epoch_index(netuid, tempo, block)
                 + (IF should_run_epoch(netuid, tempo, block) THEN 1 ELSE 0)
  <1> DEFINE x == block + netuid + 1
             d == tempo + 1
             q == x \div d
  <1>1. /\ x \in Nat /\ d \in Nat \ {0} /\ q \in Nat /\ x % d \in 0..tempo
        /\ d * q \in Int /\ x = d * q + (x % d)
    <2>1. x \in Nat /\ d \in Nat \ {0}
      OBVIOUS
    <2> HIDE DEF x, d
    <2>2. q \in Nat /\ x % d \in 0..(d - 1) /\ d * q \in Int /\ x = d * q + (x % d)
      BY <2>1, Division
    <2> QED BY <2>1, <2>2 DEF d
  <1>2. get_epoch_index(netuid, tempo, block) = q
    BY DEF get_epoch_index
  <1>3. get_epoch_index(netuid, tempo, block + 1) = (x + 1) \div d
    <2>1. block + 1 + netuid + 1 = x + 1
      OBVIOUS
    <2> QED BY <2>1 DEF get_epoch_index
  <1>4. should_run_epoch(netuid, tempo, block) <=> x % d = tempo
    <2>1. blocks_until_next_epoch(netuid, tempo, block) = tempo - (x % d)
      BY DEF blocks_until_next_epoch
    <2> HIDE DEF x, d
    <2> QED BY <1>1, <2>1 DEF should_run_epoch
  <1>5. d = tempo + 1
    OBVIOUS
  <1> HIDE DEF x, d, q
  <1> DEFINE m == d * q
             r == x % d
  <1>m. m \in Int /\ r \in 0..tempo /\ x = m + r
    BY <1>1
  <1>6. CASE r = tempo
    <2>1. d * (q + 1) = m + d
      BY <1>1
    <2>2. x + 1 \in Nat /\ q + 1 \in Int
      BY <1>1
    <2>3. (x + 1) \div d = q + 1 <=> m + d <= x + 1 /\ x + 1 < m + d + d
      <3>1. (x + 1) \div d = q + 1
              <=> d * (q + 1) <= x + 1 /\ x + 1 < d * (q + 1) + d
        BY <1>1, <2>2, QuotientIn, Zenon
      <3> QED BY <2>1, <3>1, Zenon
    <2> HIDE DEF m, r
    <2>4. m + d <= x + 1 /\ x + 1 < m + d + d
      BY <1>1, <1>5, <1>6, <1>m
    <2>5. (x + 1) \div d = q + 1
      BY <2>3, <2>4
    <2> QED BY <1>2, <1>3, <1>4, <1>6, <2>5 DEF r
  <1>7. CASE r # tempo
    <2>1. x + 1 \in Nat /\ q \in Int
      BY <1>1
    <2>2. (x + 1) \div d = q <=> m <= x + 1 /\ x + 1 < m + d
      BY <1>1, <2>1, QuotientIn
    <2> HIDE DEF m, r
    <2>3. m <= x + 1 /\ x + 1 < m + d
      BY <1>1, <1>5, <1>7, <1>m
    <2>4. (x + 1) \div d = q
      BY <2>2, <2>3
    <2> QED BY <1>1, <1>2, <1>3, <1>4, <1>7, <2>4 DEF r
  <1> QED BY <1>6, <1>7

\* The reveal window stored with a commit (get_reveal_blocks) is exactly the
\* set of blocks in which is_reveal_block_range lets the commit be revealed,
\* for every tempo, every netuid and every reveal period of at least one.
THEOREM RevealWindow ==
    ASSUME NEW netuid \in Nat, NEW tempo \in Nat, NEW period \in Nat \ {0},
           NEW commit_block \in Nat, NEW block \in Nat
    PROVE  LET w == get_reveal_blocks(netuid, tempo, period, commit_block)
           IN  w.first <= block /\ block <= w.last
                 <=> is_reveal_block_range(netuid, tempo, period, commit_block, block)
  <1> DEFINE n == netuid + 1
             d == tempo + 1
             c == commit_block + n
             q == c \div d
             first == Monus((q + period) * d, n)
  <1>1. n \in Nat /\ d \in Nat \ {0} /\ c \in Nat /\ block + n \in Nat
    OBVIOUS
  <1>2. c >= n
    OBVIOUS
  <1>3. get_epoch_index(netuid, tempo, commit_block) = q
    <2>1. commit_block + netuid + 1 = c
      OBVIOUS
    <2> QED BY <2>1 DEF get_epoch_index
  <1>4. get_epoch_index(netuid, tempo, block) = (block + n) \div d
    <2>1. block + netuid + 1 = block + n
      OBVIOUS
    <2> QED BY <2>1 DEF get_epoch_index
  <1>5. get_reveal_blocks(netuid, tempo, period, commit_block)
          = [first |-> first, last |-> first + tempo]
    BY <1>3 DEF get_reveal_blocks
  <1>6. d = tempo + 1
    OBVIOUS
  <1> HIDE DEF n, d, c, q
  <1>7. q \in Nat /\ c < d * q + d /\ d * q \in Int
    BY <1>1, Division DEF q
  <1>8. d * (q + period) \in Int /\ (q + period) * d = d * (q + period)
    BY <1>1, <1>7
  <1>9. d * q + d <= d * (q + period)
    BY <1>1, <1>7, Step, q < q + period
  <1>10. first = d * (q + period) - n
    BY <1>1, <1>2, <1>7, <1>8, <1>9 DEF Monus
  <1>11. first <= block /\ block <= first + tempo <=> (block + n) \div d = q + period
    <2>1. (block + n) \div d = q + period
            <=> d * (q + period) <= block + n /\ block + n < d * (q + period) + d
      BY <1>1, <1>7, QuotientIn, q + period \in Int
    <2> QED BY <1>1, <1>6, <1>8, <1>10, <2>1
  <1> QED BY <1>3, <1>4, <1>5, <1>11 DEF is_reveal_block_range

\* blocks_until_next_epoch counts right: it is below the length of an epoch,
\* and an epoch runs when that many blocks have passed.
THEOREM EpochComes ==
    ASSUME NEW netuid \in Nat, NEW tempo \in Nat \ {0}, NEW block \in Nat
    PROVE  LET k == blocks_until_next_epoch(netuid, tempo, block)
           IN  k \in 0..tempo /\ should_run_epoch(netuid, tempo, block + k)
  <1> DEFINE x == block + netuid + 1
             d == tempo + 1
             q == x \div d
             r == x % d
             m == d * q
             k == tempo - r
             y == x + k
  <1>1. x \in Nat /\ d \in Nat \ {0} /\ d = tempo + 1
    OBVIOUS
  <1>2. blocks_until_next_epoch(netuid, tempo, block) = k
    BY DEF blocks_until_next_epoch
  <1>3. k \in Int => block + k + netuid + 1 = y
    OBVIOUS
  <1>4. should_run_epoch(netuid, tempo, block + k)
          <=> tempo - ((block + k + netuid + 1) % d) = 0
    BY DEF should_run_epoch, blocks_until_next_epoch
  <1> HIDE DEF x, d
  <1>5. q \in Nat /\ r \in 0..(d - 1) /\ m \in Int /\ x = m + r
    BY <1>1, Division
  <1>6. y \div d = q <=> m <= y /\ y < m + d
    <2>1. y \in Nat
      BY <1>1, <1>5
    <2>2. q \in Int
      BY <1>5
    <2> HIDE DEF q, y
    <2> QED BY <1>1, <2>1, <2>2, QuotientIn, Zenon
  <1> HIDE DEF m, q, r
  <1>7. k \in 0..tempo /\ y = m + tempo /\ y \in Nat
    BY <1>1, <1>5
  <1> HIDE DEF y, k
  <1>8. y \div d = q
    BY <1>1, <1>5, <1>6, <1>7
  <1>9. y = m + (y % d) /\ y % d \in Int
    <2>1. y = d * (y \div d) + (y % d) /\ y % d \in 0..(d - 1)
      BY <1>1, <1>7, Division, Zenon
    <2>2. y = m + (y % d)
      BY <1>8, <2>1, Zenon DEF m
    <2>3. y % d \in Int
      BY <1>1, <2>1
    <2> QED BY <2>2, <2>3
  <1>10. y % d = tempo
    BY <1>5, <1>7, <1>9
  <1> QED BY <1>2, <1>3, <1>4, <1>7, <1>10
=============================================================================
