--------------------------- MODULE Crowdloan_proofs ---------------------------
(***************************************************************************)
(* The books of pallet-crowdloan balance for every number of accounts and  *)
(* crowdloans: the funds account holds what the record says, the deposit   *)
(* stays in, contributors are counted exactly and a finalized crowdloan    *)
(* never changes.  Then, with the laws of sums: the contributions add up   *)
(* to what was raised, and only finalize moves wealth between accounts.    *)
(***************************************************************************)
EXTENDS Crowdloan, Sums_proofs, FiniteSetTheorems, TLAPS

\* What holds of one crowdloan: a finalized one is past its end, which is why
\* contribute need not look at the flag.
LoanOK(i) ==
    /\ Exists(i) =>
         /\ Crowdloans[i].deposit > 0 /\ Crowdloans[i].min_contribution > 0
         /\ Crowdloans[i].finalized => now >= Crowdloans[i].end
    /\ Live(i) =>
         /\ funds[i] = Crowdloans[i].raised
         /\ Crowdloans[i].raised <= Crowdloans[i].cap
         /\ Contributions[i][Crowdloans[i].creator] >= Crowdloans[i].deposit
         /\ Crowdloans[i].contributors_count = Cardinality(Contributors(i))
         /\ Crowdloans[i].contributors_count <= MaxContributors
    /\ ~Exists(i) => funds[i] = 0
    /\ i >= NextCrowdloanId => ~Exists(i) /\ Contributors(i) = {}

\* The inductive invariant.
CrowdloanInv == TypeOK /\ \A i \in CrowdloanIds : LoanOK(i)

\* Crowdloan j as a step on another crowdloan leaves it.
Untouched(j) ==
    /\ Exists(j)' <=> Exists(j)
    /\ Exists(j) => Crowdloans'[j] = Crowdloans[j]
    /\ Contributions'[j] = Contributions[j]
    /\ funds'[j] = funds[j]

\* Whatever leaves a crowdloan alone, with time and ids moving forward only,
\* keeps its invariant.
LEMMA UntouchedOK ==
    ASSUME CrowdloanInv, NEW j \in CrowdloanIds, Untouched(j),
           now' \in Nat, now' >= now,
           NextCrowdloanId' \in Nat, NextCrowdloanId' >= NextCrowdloanId
    PROVE  LoanOK(j)'
<1>1. /\ LoanOK(j) /\ now \in Nat /\ NextCrowdloanId \in Nat /\ j \in Nat
      /\ Exists(j) => Crowdloans[j].end \in Nat
  BY CrowdloanAssumption DEF CrowdloanInv, TypeOK, Exists, CrowdloanInfo
<1>2. Contributors(j)' = Contributors(j)
  BY DEF Untouched, Contributors
<1>3. Live(j)' <=> Live(j)
  BY DEF Untouched, Live, Exists
<1>4. CASE Exists(j)
  BY <1>1, <1>2, <1>3, <1>4 DEF Untouched, LoanOK, Live
<1>5. CASE ~Exists(j)
  BY <1>1, <1>2, <1>3, <1>5 DEF Untouched, LoanOK, Live
<1>. QED BY <1>4, <1>5

\* The initial state: no crowdloan exists.
LEMMA InitInv == Init => CrowdloanInv
<1>. SUFFICES ASSUME Init PROVE CrowdloanInv
  OBVIOUS
<1>1. \A i \in CrowdloanIds : LoanOK(i)
  BY DEF Init, LoanOK, Live, Exists, Contributors
<1>. QED BY <1>1, CrowdloanAssumption DEF Init, CrowdloanInv, TypeOK

\* The contributors of a crowdloan are finitely many.
LEMMA ContributorsFinite ==
    ASSUME NEW i PROVE IsFiniteSet(Contributors(i)) /\ Cardinality(Contributors(i)) \in Nat
BY CrowdloanAssumption, FS_Subset, FS_CardinalityType DEF Contributors

\* A transfer leaves the payer a natural amount.
LEMMA LeftAfterType ==
    ASSUME NEW b \in Nat, NEW amount \in Nat, b >= amount PROVE LeftAfter(b, amount) \in Nat
BY DEF LeftAfter

\* create: the deposit of the new crowdloan is its only contribution.
LEMMA CreateInv ==
    ASSUME CrowdloanInv,
           NEW who \in Accounts, NEW deposit \in Nat, NEW min \in Nat, NEW cap \in Nat,
           NEW end \in Nat, NEW call \in Calls, NEW target \in Accounts \cup {NoAccount},
           NEW i, i = NextCrowdloanId,
           create(who, deposit, min, cap, end, call, target)
    PROVE  CrowdloanInv'
<1>1. /\ i \in CrowdloanIds /\ i \in Nat /\ ~Exists(i) /\ funds[i] = 0
      /\ Contributors(i) = {} /\ Contributions[i] \in [Accounts -> Nat]
      /\ balance[who] \in Nat /\ balance[who] >= deposit
  BY CrowdloanAssumption DEF create, CrowdloanInv, TypeOK, LoanOK
<1>2. /\ NextCrowdloanId' = i + 1 /\ now' = now
      /\ DOMAIN Crowdloans' = DOMAIN Crowdloans \cup {i}
  BY DEF create
<1>3. TypeOK'
  <2>1. Crowdloans' \in [DOMAIN Crowdloans' -> CrowdloanInfo]
    BY DEF create, CrowdloanInv, TypeOK, CrowdloanInfo
  <2>2. balance' \in [Accounts -> Nat]
    BY <1>1, LeftAfterType DEF create, CrowdloanInv, TypeOK
  <2>3. /\ Contributions' \in [CrowdloanIds -> [Accounts -> Nat]]
        /\ funds' \in [CrowdloanIds -> Nat]
    BY <1>1 DEF create, CrowdloanInv, TypeOK
  <2>. QED BY <1>1, <1>2, <2>1, <2>2, <2>3 DEF CrowdloanInv, TypeOK
<1>4. \A j \in CrowdloanIds \ {i} : Untouched(j)
  BY <1>1 DEF create, CrowdloanInv, TypeOK, Untouched, Exists
<1>5. /\ Exists(i)' /\ funds'[i] = deposit /\ deposit \in Nat \ {0} /\ cap > deposit
      /\ min > 0
      /\ Crowdloans'[i] =
            [creator |-> who, deposit |-> deposit, min_contribution |-> min,
             end |-> end, cap |-> cap, raised |-> deposit, call |-> call,
             target |-> target, finalized |-> FALSE, contributors_count |-> 1]
      /\ \A a \in Accounts : Contributions'[i][a] = IF a = who THEN deposit ELSE 0
  BY <1>1, CrowdloanAssumption DEF create, CrowdloanInv, TypeOK, Exists, Contributors
<1>6. Contributors(i)' = {who}
  BY <1>5 DEF Contributors
<1>7. Cardinality(Contributors(i)') = 1
  BY <1>6, FS_Singleton
<1>8. LoanOK(i)'
  BY <1>1, <1>2, <1>5, <1>7, CrowdloanAssumption DEF LoanOK, Live
<1>9. ASSUME NEW j \in CrowdloanIds, j # i PROVE LoanOK(j)'
  <2>1. Untouched(j) /\ now' \in Nat /\ now' >= now
        /\ NextCrowdloanId' \in Nat /\ NextCrowdloanId' >= NextCrowdloanId
    BY <1>1, <1>2, <1>4, <1>9, CrowdloanAssumption DEF CrowdloanInv, TypeOK
  <2>. QED BY <2>1, UntouchedOK
<1>. QED BY <1>1, <1>3, <1>8, <1>9 DEF CrowdloanInv

\* A step on one crowdloan keeps the invariant when it keeps that crowdloan's.
LEMMA OneLoanStep ==
    ASSUME CrowdloanInv, NEW i \in CrowdloanIds,
           now' = now, NextCrowdloanId' = NextCrowdloanId, TypeOK',
           \A j \in CrowdloanIds \ {i} : Untouched(j),
           LoanOK(i)'
    PROVE  CrowdloanInv'
<1>1. ASSUME NEW j \in CrowdloanIds, j # i PROVE LoanOK(j)'
  <2>1. Untouched(j) /\ now' \in Nat /\ now' >= now
        /\ NextCrowdloanId' \in Nat /\ NextCrowdloanId' >= NextCrowdloanId
    BY <1>1, CrowdloanAssumption DEF CrowdloanInv, TypeOK
  <2>. QED BY <2>1, UntouchedOK
<1>. QED BY <1>1 DEF CrowdloanInv

\* What the invariant says of an existing crowdloan, in the form the steps use.
LEMMA LoanFacts ==
    ASSUME CrowdloanInv, NEW i \in CrowdloanIds, Exists(i)
    PROVE  /\ i \in DOMAIN Crowdloans /\ Crowdloans[i] \in CrowdloanInfo /\ LoanOK(i)
           /\ Contributions[i] \in [Accounts -> Nat] /\ funds[i] \in Nat
           /\ now \in Nat /\ NextCrowdloanId \in Nat
           /\ balance \in [Accounts -> Nat]
           /\ Crowdloans \in [DOMAIN Crowdloans -> CrowdloanInfo]
BY CrowdloanAssumption DEF CrowdloanInv, TypeOK, Exists

\* Updating the two numbers that contributing and withdrawing change.
LEMMA UpdatedInfo ==
    ASSUME NEW L \in CrowdloanInfo, NEW r \in Nat, NEW c \in Nat
    PROVE  [L EXCEPT !.raised = r, !.contributors_count = c] \in CrowdloanInfo
BY DEF CrowdloanInfo

\* contribute: record, count, contribution and funds grow together.
LEMMA ContributeInv ==
    ASSUME CrowdloanInv, NEW i \in CrowdloanIds, NEW who \in Accounts, NEW offer \in Nat,
           contribute(who, i, offer)
    PROVE  CrowdloanInv'
<1>1. /\ Exists(i) /\ LoanOK(i) /\ Crowdloans[i] \in CrowdloanInfo
      /\ Contributions[i] \in [Accounts -> Nat] /\ balance \in [Accounts -> Nat]
      /\ now < Crowdloans[i].end /\ now \in Nat
  BY LoanFacts DEF contribute
<1>2. Live(i)
  BY <1>1 DEF Live, LoanOK, CrowdloanInfo
<1>. DEFINE amount == Accepted(i, offer)
            new == NewContributor(who, i)
<1>3. amount \in Nat \ {0} /\ Crowdloans[i].raised + amount <= Crowdloans[i].cap
  BY <1>1 DEF contribute, Accepted, CrowdloanInfo, LoanOK
<1>4. /\ Exists(i)' /\ funds'[i] = funds[i] + amount
      /\ Crowdloans'[i] = [Crowdloans[i] EXCEPT !.raised = @ + amount,
                                              !.contributors_count = @ + new]
      /\ \A a \in Accounts : Contributions'[i][a] =
            IF a = who THEN Contributions[i][a] + amount ELSE Contributions[i][a]
  BY <1>1 DEF contribute, CrowdloanInv, TypeOK, Exists
<1>5. TypeOK'
  <2>1. [Crowdloans[i] EXCEPT !.raised = @ + amount, !.contributors_count = @ + new]
            \in CrowdloanInfo
    <3>1. Crowdloans[i].raised + amount \in Nat /\ Crowdloans[i].contributors_count + new \in Nat
      BY <1>1, <1>3 DEF CrowdloanInfo, NewContributor
    <3>. HIDE DEF amount, new
    <3>. QED BY <1>1, <3>1, UpdatedInfo
  <2>2. Crowdloans' \in [DOMAIN Crowdloans' -> CrowdloanInfo]
        /\ DOMAIN Crowdloans' = DOMAIN Crowdloans
    BY <1>1, <2>1 DEF contribute, CrowdloanInv, TypeOK
  <2>3. balance' \in [Accounts -> Nat]
    BY <1>1, <1>3, LeftAfterType DEF contribute
  <2>4. /\ Contributions' \in [CrowdloanIds -> [Accounts -> Nat]]
        /\ funds' \in [CrowdloanIds -> Nat]
    BY <1>3 DEF contribute, CrowdloanInv, TypeOK
  <2>. QED BY <2>2, <2>3, <2>4 DEF contribute, CrowdloanInv, TypeOK
<1>6. \A j \in CrowdloanIds \ {i} : Untouched(j)
  BY DEF contribute, CrowdloanInv, TypeOK, Untouched, Exists
<1>7. Contributors(i)' = Contributors(i) \cup {who}
  BY <1>1, <1>3, <1>4 DEF Contributors
<1>8. /\ Cardinality(Contributors(i)') = Cardinality(Contributors(i)) + new
      /\ Cardinality(Contributors(i)) \in Nat
  <2>1. who \in Contributors(i) <=> Contributions[i][who] # 0
    BY DEF Contributors
  <2>. QED BY <1>7, <2>1, ContributorsFinite, FS_AddElement DEF NewContributor
<1>9. LoanOK(i)'
  <2>1. now' = now /\ NextCrowdloanId' = NextCrowdloanId
        /\ Crowdloans[i].contributors_count < MaxContributors
    BY DEF contribute
  <2>2. Contributions'[i][Crowdloans[i].creator] >= Crowdloans[i].deposit
    BY <1>1, <1>2, <1>3, <1>4 DEF LoanOK, CrowdloanInfo
  <2>3. new \in Nat /\ new <= 1
    BY DEF NewContributor
  <2>. HIDE DEF amount, new
  <2>. QED BY <1>1, <1>2, <1>3, <1>4, <1>8, <2>1, <2>2, <2>3, CrowdloanAssumption
           DEF LoanOK, Live, CrowdloanInfo
<1>. HIDE DEF amount, new
<1>. QED BY <1>5, <1>6, <1>9, OneLoanStep DEF contribute

\* withdraw: the creator keeps the deposit in, anybody else is counted out.
LEMMA WithdrawInv ==
    ASSUME CrowdloanInv, NEW i \in CrowdloanIds, NEW who \in Accounts, withdraw(who, i)
    PROVE  CrowdloanInv'
<1>1. /\ Exists(i) /\ Live(i) /\ LoanOK(i) /\ Crowdloans[i] \in CrowdloanInfo
      /\ Contributions[i] \in [Accounts -> Nat] /\ balance \in [Accounts -> Nat]
      /\ funds[i] \in Nat
  BY LoanFacts DEF withdraw, Live
<1>. DEFINE amount == Withdrawable(who, i)
            L == Crowdloans[i]
            rest == IF who = L.creator THEN L.contributors_count ELSE L.contributors_count - 1
<1>2. /\ amount \in Nat \ {0} /\ amount <= funds[i] /\ amount <= Contributions[i][who]
      /\ amount <= L.raised
      /\ Contributions[i][who] - amount = IF who = L.creator THEN L.deposit ELSE 0
  BY <1>1 DEF withdraw, WithdrawFunds, Withdrawable, CrowdloanInfo, LoanOK
<1>3. /\ Exists(i)' /\ funds'[i] = funds[i] - amount
      /\ Crowdloans'[i] = [L EXCEPT !.raised = @ - amount, !.contributors_count = rest]
      /\ \A a \in Accounts : Contributions'[i][a] =
            IF a = who THEN Contributions[i][a] - amount ELSE Contributions[i][a]
  BY <1>1 DEF withdraw, WithdrawFunds, CrowdloanInv, TypeOK, Exists
<1>4. /\ Contributors(i)' = IF who = L.creator THEN Contributors(i) ELSE Contributors(i) \ {who}
      /\ who \in Contributors(i)
  BY <1>1, <1>2, <1>3 DEF Contributors, LoanOK, CrowdloanInfo
<1>5. rest = Cardinality(Contributors(i)') /\ rest \in Nat /\ rest <= L.contributors_count
  <2>1. L.contributors_count = Cardinality(Contributors(i))
    BY <1>1 DEF LoanOK
  <2>2. IsFiniteSet(Contributors(i)) /\ Cardinality(Contributors(i)) \in Nat
    BY ContributorsFinite
  <2>3. /\ Cardinality(Contributors(i) \ {who}) = Cardinality(Contributors(i)) - 1
        /\ IsFiniteSet(Contributors(i) \ {who})
    BY <1>4, <2>2, FS_RemoveElement
  <2>4. Cardinality(Contributors(i) \ {who}) \in Nat
    BY <2>3, FS_CardinalityType
  <2>. QED BY <1>4, <2>1, <2>2, <2>3, <2>4
<1>6. TypeOK'
  <2>1. [L EXCEPT !.raised = @ - amount, !.contributors_count = rest] \in CrowdloanInfo
    <3>1. L.raised - amount \in Nat /\ rest \in Nat /\ L \in CrowdloanInfo
      BY <1>1, <1>2, <1>5 DEF CrowdloanInfo
    <3>. HIDE DEF amount, rest, L
    <3>. QED BY <3>1, UpdatedInfo
  <2>2. Crowdloans' \in [DOMAIN Crowdloans' -> CrowdloanInfo]
        /\ DOMAIN Crowdloans' = DOMAIN Crowdloans
    BY <1>1, <2>1 DEF withdraw, CrowdloanInv, TypeOK
  <2>3. balance' \in [Accounts -> Nat]
    BY <1>1, <1>2 DEF withdraw, WithdrawFunds
  <2>4. /\ Contributions' \in [CrowdloanIds -> [Accounts -> Nat]]
        /\ funds' \in [CrowdloanIds -> Nat]
    BY <1>1, <1>2 DEF withdraw, WithdrawFunds, CrowdloanInv, TypeOK
  <2>. QED BY <2>2, <2>3, <2>4 DEF withdraw, CrowdloanInv, TypeOK
<1>7. \A j \in CrowdloanIds \ {i} : Untouched(j)
  BY DEF withdraw, WithdrawFunds, CrowdloanInv, TypeOK, Untouched, Exists
<1>8. LoanOK(i)'
  <2>1. now' = now /\ NextCrowdloanId' = NextCrowdloanId
    BY DEF withdraw
  <2>2. Contributions'[i][L.creator] >= L.deposit
    BY <1>1, <1>2, <1>3 DEF LoanOK, CrowdloanInfo
  <2>. HIDE DEF amount, rest
  <2>. QED BY <1>1, <1>2, <1>3, <1>5, <2>1, <2>2, CrowdloanAssumption
           DEF LoanOK, Live, CrowdloanInfo
<1>. HIDE DEF amount, L, rest
<1>. QED BY <1>6, <1>7, <1>8, OneLoanStep DEF withdraw

\* refund: those refunded are counted out, and never include the creator.
LEMMA RefundInv ==
    ASSUME CrowdloanInv, NEW i \in CrowdloanIds, refund(i)
    PROVE  CrowdloanInv'
<1>1. /\ Exists(i) /\ Live(i) /\ LoanOK(i) /\ Crowdloans[i] \in CrowdloanInfo
      /\ Contributions[i] \in [Accounts -> Nat] /\ balance \in [Accounts -> Nat]
      /\ funds[i] \in Nat
  BY LoanFacts DEF refund, Live
<1>. DEFINE R == ToRefund(i)
            total == Total(i, R)
            L == Crowdloans[i]
            rest == L.contributors_count - Cardinality(R)
<1>2. R \subseteq Contributors(i) \ {L.creator}
  BY DEF ToRefund
<1>. HIDE DEF R
<1>3. total \in Nat /\ total <= funds[i] /\ total <= L.raised
  BY <1>1 DEF refund, RefundFunds, LoanOK, R
<1>. HIDE DEF total
<1>4. /\ Exists(i)' /\ funds'[i] = funds[i] - total
      /\ Crowdloans'[i] = [L EXCEPT !.raised = @ - total, !.contributors_count = rest]
      /\ \A a \in Accounts : Contributions'[i][a] = IF a \in R THEN 0 ELSE Contributions[i][a]
  BY <1>1 DEF refund, RefundFunds, CrowdloanInv, TypeOK, Exists, R, total
<1>5. Contributors(i)' = Contributors(i) \ R
  BY <1>4 DEF Contributors
<1>6. rest = Cardinality(Contributors(i)') /\ rest \in Nat /\ rest <= L.contributors_count
  <2>1. L.contributors_count = Cardinality(Contributors(i))
    BY <1>1 DEF LoanOK
  <2>2. IsFiniteSet(Contributors(i)) /\ Cardinality(Contributors(i)) \in Nat
    BY ContributorsFinite
  <2>3. Contributors(i) \cap R = R
    BY <1>2
  <2>4. /\ Cardinality(Contributors(i) \ R) = Cardinality(Contributors(i)) - Cardinality(R)
        /\ IsFiniteSet(Contributors(i) \ R)
    BY <2>2, <2>3, FS_Difference
  <2>5. Cardinality(Contributors(i) \ R) \in Nat /\ Cardinality(R) \in Nat
    BY <1>2, <2>2, <2>4, FS_CardinalityType, FS_Subset
  <2>. QED BY <1>5, <2>1, <2>2, <2>4, <2>5
<1>7. TypeOK'
  <2>1. [L EXCEPT !.raised = @ - total, !.contributors_count = rest] \in CrowdloanInfo
    <3>1. L.raised - total \in Nat /\ rest \in Nat /\ L \in CrowdloanInfo
      BY <1>1, <1>3, <1>6 DEF CrowdloanInfo
    <3>. HIDE DEF rest, L
    <3>. QED BY <3>1, UpdatedInfo
  <2>2. Crowdloans' \in [DOMAIN Crowdloans' -> CrowdloanInfo]
        /\ DOMAIN Crowdloans' = DOMAIN Crowdloans
    BY <1>1, <2>1 DEF refund, CrowdloanInv, TypeOK, R, total
  <2>3. balance' \in [Accounts -> Nat]
    BY <1>1 DEF refund, RefundFunds
  <2>4. /\ Contributions' \in [CrowdloanIds -> [Accounts -> Nat]]
        /\ funds' \in [CrowdloanIds -> Nat]
    BY <1>1, <1>3 DEF refund, RefundFunds, CrowdloanInv, TypeOK, R, total
  <2>. QED BY <2>2, <2>3, <2>4 DEF refund, CrowdloanInv, TypeOK
<1>8. \A j \in CrowdloanIds \ {i} : Untouched(j)
  BY DEF refund, RefundFunds, CrowdloanInv, TypeOK, Untouched, Exists
<1>9. LoanOK(i)'
  <2>1. now' = now /\ NextCrowdloanId' = NextCrowdloanId
    BY DEF refund
  <2>2. Contributions'[i][L.creator] >= L.deposit
    BY <1>1, <1>2, <1>4 DEF LoanOK, CrowdloanInfo
  <2>. HIDE DEF rest
  <2>. QED BY <1>1, <1>3, <1>4, <1>6, <2>1, <2>2, CrowdloanAssumption
           DEF LoanOK, Live, CrowdloanInfo
<1>. HIDE DEF L, rest
<1>. QED BY <1>7, <1>8, <1>9, OneLoanStep DEF refund

\* dissolve: the funds account is emptied.
LEMMA DissolveInv ==
    ASSUME CrowdloanInv, NEW i \in CrowdloanIds, dissolve(i)
    PROVE  CrowdloanInv'
<1>1. /\ Exists(i) /\ Live(i) /\ LoanOK(i) /\ Crowdloans[i] \in CrowdloanInfo
      /\ Contributions[i] \in [Accounts -> Nat] /\ balance \in [Accounts -> Nat]
      /\ funds[i] \in Nat /\ NextCrowdloanId \in Nat /\ i \in Nat
  BY LoanFacts, CrowdloanAssumption DEF dissolve, Live
<1>. DEFINE who == Crowdloans[i].creator
            amount == Contributions[i][who]
<1>2. who \in Accounts /\ amount \in Nat /\ funds[i] = amount
  BY <1>1 DEF dissolve, DissolveFunds, LoanOK, CrowdloanInfo
<1>3. TypeOK'
  <2>1. Crowdloans' \in [DOMAIN Crowdloans' -> CrowdloanInfo]
        /\ DOMAIN Crowdloans' = DOMAIN Crowdloans \ {i}
    BY DEF dissolve, CrowdloanInv, TypeOK
  <2>2. balance' \in [Accounts -> Nat]
    BY <1>1, <1>2 DEF dissolve, DissolveFunds
  <2>3. /\ Contributions' \in [CrowdloanIds -> [Accounts -> Nat]]
        /\ funds' \in [CrowdloanIds -> Nat]
    BY <1>1, <1>2 DEF dissolve, DissolveFunds, CrowdloanInv, TypeOK
  <2>. QED BY <2>1, <2>2, <2>3 DEF dissolve, CrowdloanInv, TypeOK
<1>4. \A j \in CrowdloanIds \ {i} : Untouched(j)
  BY DEF dissolve, DissolveFunds, CrowdloanInv, TypeOK, Untouched, Exists
<1>5. LoanOK(i)'
  <2>1. ~Exists(i)' /\ funds'[i] = 0 /\ NextCrowdloanId' = NextCrowdloanId
    BY <1>1, <1>2 DEF dissolve, DissolveFunds, CrowdloanInv, TypeOK, Exists
  <2>2. ~(i >= NextCrowdloanId)
    BY <1>1 DEF LoanOK
  <2>. QED BY <2>1, <2>2 DEF LoanOK, Live
<1>. QED BY <1>3, <1>4, <1>5, OneLoanStep DEF dissolve

\* The stored call keeps the types; what it does to the contributions and the
\* funds no longer matters once the crowdloan is finalized.
LEMMA DispatchTypes ==
    ASSUME CrowdloanInv, NEW i \in CrowdloanIds, Live(i),
           Dispatch(i) \/ (Crowdloans[i].target \in Accounts /\ PayTarget(i))
    PROVE  /\ Contributions' \in [CrowdloanIds -> [Accounts -> Nat]]
           /\ funds' \in [CrowdloanIds -> Nat]
           /\ balance' \in [Accounts -> Nat]
           /\ \A j \in CrowdloanIds \ {i} :
                 Contributions'[j] = Contributions[j] /\ funds'[j] = funds[j]
<1>1. /\ Exists(i) /\ LoanOK(i) /\ Crowdloans[i] \in CrowdloanInfo
      /\ Contributions \in [CrowdloanIds -> [Accounts -> Nat]]
      /\ balance \in [Accounts -> Nat] /\ funds \in [CrowdloanIds -> Nat]
  BY LoanFacts DEF Live, CrowdloanInv, TypeOK
<1>2. CASE WithdrawFunds(Crowdloans[i].creator, i)
  <2>1. /\ Crowdloans[i].creator \in Accounts
        /\ Withdrawable(Crowdloans[i].creator, i) \in Nat
        /\ Withdrawable(Crowdloans[i].creator, i) <= Contributions[i][Crowdloans[i].creator]
        /\ Withdrawable(Crowdloans[i].creator, i) <= funds[i]
    BY <1>1, <1>2 DEF WithdrawFunds, Withdrawable, CrowdloanInfo
  <2>. QED BY <1>1, <1>2, <2>1 DEF WithdrawFunds
<1>3. CASE RefundFunds(i)
  BY <1>1, <1>3 DEF RefundFunds
<1>4. CASE DissolveFunds(i)
  <2>1. Crowdloans[i].creator \in Accounts
    BY <1>1 DEF CrowdloanInfo
  <2>. QED BY <1>1, <1>4, <2>1 DEF DissolveFunds
<1>5. CASE UNCHANGED <<Contributions, balance, funds>>
  BY <1>1, <1>5
<1>6. CASE Crowdloans[i].target \in Accounts /\ PayTarget(i)
  <2>1. Crowdloans[i].raised \in Nat
    BY <1>1 DEF CrowdloanInfo
  <2>. QED BY <1>1, <1>6, <2>1 DEF PayTarget
<1>. QED BY <1>2, <1>3, <1>4, <1>5, <1>6 DEF Dispatch

\* finalize: only the flag of the record changes.
LEMMA FinalizeInv ==
    ASSUME CrowdloanInv, NEW i \in CrowdloanIds, finalize(i)
    PROVE  CrowdloanInv'
<1>1. /\ Exists(i) /\ Live(i) /\ LoanOK(i) /\ Crowdloans[i] \in CrowdloanInfo
      /\ now >= Crowdloans[i].end
      /\ Dispatch(i) \/ (Crowdloans[i].target \in Accounts /\ PayTarget(i))
      /\ now' = now /\ NextCrowdloanId' = NextCrowdloanId
      /\ NextCrowdloanId \in Nat /\ i \in Nat
  BY LoanFacts, CrowdloanAssumption DEF finalize, Live
<1>2. /\ Contributions' \in [CrowdloanIds -> [Accounts -> Nat]]
      /\ funds' \in [CrowdloanIds -> Nat]
      /\ balance' \in [Accounts -> Nat]
      /\ \A j \in CrowdloanIds \ {i} :
            Contributions'[j] = Contributions[j] /\ funds'[j] = funds[j]
  BY <1>1, DispatchTypes
<1>3. Crowdloans' = [Crowdloans EXCEPT ![i].finalized = TRUE]
  BY DEF finalize
<1>4. /\ Crowdloans'[i] = [Crowdloans[i] EXCEPT !.finalized = TRUE]
      /\ DOMAIN Crowdloans' = DOMAIN Crowdloans
      /\ Crowdloans' \in [DOMAIN Crowdloans' -> CrowdloanInfo]
      /\ \A j \in DOMAIN Crowdloans \ {i} : Crowdloans'[j] = Crowdloans[j]
  <2>1. [Crowdloans[i] EXCEPT !.finalized = TRUE] \in CrowdloanInfo
    BY <1>1 DEF CrowdloanInfo
  <2>. QED BY <1>1, <1>3, <2>1 DEF CrowdloanInv, TypeOK, Exists
<1>5. TypeOK'
  BY <1>1, <1>2, <1>4 DEF CrowdloanInv, TypeOK
<1>6. \A j \in CrowdloanIds \ {i} : Untouched(j)
  BY <1>2, <1>4 DEF Untouched, Exists
<1>7. LoanOK(i)'
  <2>1. /\ Crowdloans'[i].finalized /\ Crowdloans'[i].end = Crowdloans[i].end
        /\ Crowdloans'[i].deposit = Crowdloans[i].deposit
        /\ Crowdloans'[i].min_contribution = Crowdloans[i].min_contribution
    BY <1>1, <1>4 DEF CrowdloanInfo
  <2>2. Exists(i)' /\ ~(i >= NextCrowdloanId)
    BY <1>1, <1>4 DEF Exists, LoanOK
  <2>. QED BY <1>1, <2>1, <2>2 DEF LoanOK, Live
<1>. QED BY <1>1, <1>5, <1>6, <1>7, OneLoanStep

\* update_min_contribution: one field of an unfinalized crowdloan changes.
LEMMA UpdateMinInv ==
    ASSUME CrowdloanInv, NEW i \in CrowdloanIds, NEW v \in Nat, update_min_contribution(i, v)
    PROVE  CrowdloanInv'
<1>1. /\ Exists(i) /\ Live(i) /\ LoanOK(i) /\ Crowdloans[i] \in CrowdloanInfo
  BY LoanFacts DEF update_min_contribution, Live
<1>2. [Crowdloans[i] EXCEPT !.min_contribution = v] \in CrowdloanInfo
  BY <1>1 DEF CrowdloanInfo
<1>3. TypeOK'
  BY <1>1, <1>2 DEF update_min_contribution, CrowdloanInv, TypeOK
<1>4. \A j \in CrowdloanIds \ {i} : Untouched(j)
  BY DEF update_min_contribution, CrowdloanInv, TypeOK, Untouched, Exists
<1>5. Crowdloans'[i] = [Crowdloans[i] EXCEPT !.min_contribution = v] /\ Exists(i)'
  BY <1>1 DEF update_min_contribution, CrowdloanInv, TypeOK, Exists
<1>6. Contributors(i)' = Contributors(i)
  BY DEF update_min_contribution, Contributors
<1>7. LoanOK(i)'
  BY <1>1, <1>5, <1>6, CrowdloanAssumption DEF update_min_contribution, LoanOK, Live, CrowdloanInfo
<1>. QED BY <1>3, <1>4, <1>7, OneLoanStep DEF update_min_contribution

\* update_end: one field of an unfinalized crowdloan changes.
LEMMA UpdateEndInv ==
    ASSUME CrowdloanInv, NEW i \in CrowdloanIds, NEW v \in Nat, update_end(i, v)
    PROVE  CrowdloanInv'
<1>1. /\ Exists(i) /\ Live(i) /\ LoanOK(i) /\ Crowdloans[i] \in CrowdloanInfo
  BY LoanFacts DEF update_end, Live
<1>2. [Crowdloans[i] EXCEPT !.end = v] \in CrowdloanInfo
  BY <1>1 DEF CrowdloanInfo
<1>3. TypeOK'
  BY <1>1, <1>2 DEF update_end, CrowdloanInv, TypeOK
<1>4. \A j \in CrowdloanIds \ {i} : Untouched(j)
  BY DEF update_end, CrowdloanInv, TypeOK, Untouched, Exists
<1>5. Crowdloans'[i] = [Crowdloans[i] EXCEPT !.end = v] /\ Exists(i)'
  BY <1>1 DEF update_end, CrowdloanInv, TypeOK, Exists
<1>6. Contributors(i)' = Contributors(i)
  BY DEF update_end, Contributors
<1>7. LoanOK(i)'
  BY <1>1, <1>5, <1>6, CrowdloanAssumption DEF update_end, LoanOK, Live, CrowdloanInfo
<1>. QED BY <1>3, <1>4, <1>7, OneLoanStep DEF update_end

\* update_cap: one field of an unfinalized crowdloan changes.
LEMMA UpdateCapInv ==
    ASSUME CrowdloanInv, NEW i \in CrowdloanIds, NEW v \in Nat, update_cap(i, v)
    PROVE  CrowdloanInv'
<1>1. /\ Exists(i) /\ Live(i) /\ LoanOK(i) /\ Crowdloans[i] \in CrowdloanInfo
  BY LoanFacts DEF update_cap, Live
<1>2. [Crowdloans[i] EXCEPT !.cap = v] \in CrowdloanInfo
  BY <1>1 DEF CrowdloanInfo
<1>3. TypeOK'
  BY <1>1, <1>2 DEF update_cap, CrowdloanInv, TypeOK
<1>4. \A j \in CrowdloanIds \ {i} : Untouched(j)
  BY DEF update_cap, CrowdloanInv, TypeOK, Untouched, Exists
<1>5. Crowdloans'[i] = [Crowdloans[i] EXCEPT !.cap = v] /\ Exists(i)'
  BY <1>1 DEF update_cap, CrowdloanInv, TypeOK, Exists
<1>6. Contributors(i)' = Contributors(i)
  BY DEF update_cap, Contributors
<1>7. LoanOK(i)'
  BY <1>1, <1>5, <1>6, CrowdloanAssumption DEF update_cap, LoanOK, Live, CrowdloanInfo
<1>. QED BY <1>3, <1>4, <1>7, OneLoanStep DEF update_cap

\* Every step keeps the invariant.
LEMMA StepInv == CrowdloanInv /\ [Next]_vars => CrowdloanInv'
<1>. SUFFICES ASSUME CrowdloanInv, [Next]_vars PROVE CrowdloanInv'
  OBVIOUS
<1>1. ASSUME NEW who \in Accounts, NEW deposit \in Amounts, NEW min \in Amounts,
             NEW cap \in Amounts, NEW end \in 0..MaxBlock + 1, NEW call \in Calls,
             NEW target \in Accounts \cup {NoAccount},
             create(who, deposit, min, cap, end, call, target)
      PROVE  CrowdloanInv'
  BY <1>1, CreateInv, CrowdloanAssumption
<1>2. ASSUME NEW i \in CrowdloanIds, NEW who \in Accounts, NEW offer \in Amounts,
             contribute(who, i, offer)
      PROVE  CrowdloanInv'
  BY <1>2, ContributeInv, CrowdloanAssumption
<1>3. ASSUME NEW i \in CrowdloanIds, NEW who \in Accounts, withdraw(who, i)
      PROVE  CrowdloanInv'
  BY <1>3, WithdrawInv
<1>4. ASSUME NEW i \in CrowdloanIds, finalize(i) PROVE CrowdloanInv'
  BY <1>4, FinalizeInv
<1>5. ASSUME NEW i \in CrowdloanIds, refund(i) PROVE CrowdloanInv'
  BY <1>5, RefundInv
<1>6. ASSUME NEW i \in CrowdloanIds, dissolve(i) PROVE CrowdloanInv'
  BY <1>6, DissolveInv
<1>7. ASSUME NEW i \in CrowdloanIds, NEW v \in Amounts, update_min_contribution(i, v)
      PROVE  CrowdloanInv'
  BY <1>7, UpdateMinInv, CrowdloanAssumption
<1>8. ASSUME NEW i \in CrowdloanIds, NEW v \in 0..MaxBlock + 1, update_end(i, v)
      PROVE  CrowdloanInv'
  BY <1>8, UpdateEndInv, CrowdloanAssumption
<1>9. ASSUME NEW i \in CrowdloanIds, NEW v \in Amounts, update_cap(i, v)
      PROVE  CrowdloanInv'
  BY <1>9, UpdateCapInv, CrowdloanAssumption
<1>10. ASSUME NextBlock \/ UNCHANGED vars PROVE CrowdloanInv'
  <2>1. TypeOK' /\ now \in Nat /\ now' \in Nat /\ now' >= now
        /\ NextCrowdloanId' = NextCrowdloanId /\ NextCrowdloanId \in Nat
    BY <1>10, CrowdloanAssumption DEF NextBlock, vars, CrowdloanInv, TypeOK
  <2>2. \A j \in CrowdloanIds : Untouched(j)
    BY <1>10 DEF NextBlock, vars, Untouched, Exists
  <2>3. ASSUME NEW j \in CrowdloanIds PROVE LoanOK(j)'
    BY <2>1, <2>2, UntouchedOK
  <2>. QED BY <2>1, <2>3 DEF CrowdloanInv
<1>. QED BY <1>1, <1>2, <1>3, <1>4, <1>5, <1>6, <1>7, <1>8, <1>9, <1>10 DEF Next, Creates, CallsOn

\* The inductive invariant of the pallet's storage holds in every state.
THEOREM Books == Spec => []CrowdloanInv
BY InitInv, StepInv, PTL DEF Spec

\* For every crowdloan, whatever its contributors and its creator do and in
\* whatever order, the funds account holds exactly what was raised until
\* finalize spends it, and nothing once it is dissolved.
THEOREM FundsAlwaysMatch == Spec => []FundsMatchRaised
<1>1. CrowdloanInv => FundsMatchRaised
  BY DEF CrowdloanInv, LoanOK, FundsMatchRaised
<1>. QED BY <1>1, Books, PTL

\* The creator's deposit cannot leave an unfinalized crowdloan but by
\* dissolving it.
THEOREM DepositIsKept == Spec => []DepositKept
<1>1. CrowdloanInv => DepositKept
  BY DEF CrowdloanInv, LoanOK, DepositKept, Live
<1>. QED BY <1>1, Books, PTL

\* contributors_count, maintained by four calls, is exact and bounded.
THEOREM CountAlwaysExact == Spec => []CountIsExact
<1>1. CrowdloanInv => CountIsExact
  BY DEF CrowdloanInv, LoanOK, CountIsExact
<1>. QED BY <1>1, Books, PTL

\* The books of every crowdloan agree in every state.
THEOREM BooksAlwaysAgree == Spec => []BooksAgree
<1>1. CrowdloanInv => TypeOK
  BY DEF CrowdloanInv
<1>. QED BY <1>1, Books, FundsAlwaysMatch, DepositIsKept, CountAlwaysExact, PTL DEF BooksAgree

\* No call touches a finalized crowdloan again: contribute is kept out by the
\* end that has passed, everything else by the flag.
THEOREM FinalizedIsForever == Spec => FinalizedForever
<1>1. ASSUME CrowdloanInv, [Next]_vars, NEW i \in CrowdloanIds, Exists(i), Crowdloans[i].finalized
      PROVE  Exists(i)' /\ Crowdloans'[i] = Crowdloans[i]
             /\ Contributions'[i] = Contributions[i] /\ funds'[i] = funds[i]
  <2>1. /\ now \in Nat /\ Crowdloans[i].end \in Nat /\ now >= Crowdloans[i].end
        /\ i \in Nat /\ NextCrowdloanId \in Nat /\ i # NextCrowdloanId
        /\ Crowdloans \in [DOMAIN Crowdloans -> CrowdloanInfo]
        /\ Contributions \in [CrowdloanIds -> [Accounts -> Nat]]
        /\ funds \in [CrowdloanIds -> Nat]
    BY <1>1, CrowdloanAssumption DEF CrowdloanInv, TypeOK, LoanOK, Exists, CrowdloanInfo
  <2>2. ASSUME NEW who \in Accounts, NEW deposit, NEW min, NEW cap, NEW end, NEW call, NEW target,
               create(who, deposit, min, cap, end, call, target)
        PROVE  Untouched(i)
    BY <1>1, <2>1, <2>2 DEF create, Untouched, Exists
  <2>3. ASSUME NEW j \in CrowdloanIds, NEW who \in Accounts, NEW offer, contribute(who, j, offer)
        PROVE  Untouched(i)
    <3>1. j # i
      BY <2>1, <2>3 DEF contribute
    <3>. QED BY <2>1, <2>3, <3>1 DEF contribute, Untouched, Exists
  <2>4. ASSUME NEW j \in CrowdloanIds, NEW who \in Accounts, withdraw(who, j)
        PROVE  Untouched(i)
    <3>1. j # i
      BY <1>1, <2>4 DEF withdraw
    <3>. QED BY <2>1, <2>4, <3>1 DEF withdraw, WithdrawFunds, Untouched, Exists
  <2>5. ASSUME NEW j \in CrowdloanIds, finalize(j) PROVE Untouched(i)
    <3>1. j # i /\ Live(j) /\ Crowdloans' = [Crowdloans EXCEPT ![j].finalized = TRUE]
          /\ (Dispatch(j) \/ (Crowdloans[j].target \in Accounts /\ PayTarget(j)))
      BY <1>1, <2>5 DEF finalize, Live
    <3>2. Contributions'[i] = Contributions[i] /\ funds'[i] = funds[i]
      BY <1>1, <3>1, DispatchTypes
    <3>. QED BY <2>1, <3>1, <3>2 DEF Untouched, Exists
  <2>6. ASSUME NEW j \in CrowdloanIds, refund(j) PROVE Untouched(i)
    <3>1. j # i
      BY <1>1, <2>6 DEF refund
    <3>. QED BY <2>1, <2>6, <3>1 DEF refund, RefundFunds, Untouched, Exists
  <2>7. ASSUME NEW j \in CrowdloanIds, dissolve(j) PROVE Untouched(i)
    <3>1. j # i
      BY <1>1, <2>7 DEF dissolve
    <3>. QED BY <2>1, <2>7, <3>1 DEF dissolve, DissolveFunds, Untouched, Exists
  <2>8. ASSUME NEW j \in CrowdloanIds, NEW v,
               update_min_contribution(j, v) \/ update_end(j, v) \/ update_cap(j, v)
        PROVE  Untouched(i)
    <3>1. j # i
      BY <1>1, <2>8 DEF update_min_contribution, update_end, update_cap
    <3>. QED BY <2>1, <2>8, <3>1
             DEF update_min_contribution, update_end, update_cap, Untouched, Exists
  <2>9. ASSUME NextBlock \/ UNCHANGED vars PROVE Untouched(i)
    BY <2>9 DEF NextBlock, vars, Untouched, Exists
  <2>10. Untouched(i)
    BY <1>1, <2>2, <2>3, <2>4, <2>5, <2>6, <2>7, <2>8, <2>9 DEF Next, Creates, CallsOn
  <2>. QED BY <1>1, <2>10 DEF Untouched
<1>2. CrowdloanInv /\ [Next]_vars =>
        [\A i \in CrowdloanIds : Exists(i) /\ Crowdloans[i].finalized =>
          /\ Exists(i)' /\ Crowdloans'[i] = Crowdloans[i]
          /\ Contributions'[i] = Contributions[i]
          /\ funds'[i] = funds[i]]_vars
  BY <1>1
<1>. QED BY <1>2, Books, PTL DEF Spec, FinalizedForever

-----------------------------------------------------------------------------
\* What was raised is what was contributed.

\* What holds of one crowdloan's contributions.
ShareOK(i) ==
    /\ Live(i) => Crowdloans[i].raised = Total(i, Accounts)
    /\ ~Exists(i) => Contributors(i) = {}

\* Whatever leaves a crowdloan's record and contributions alone keeps it.
LEMMA UntouchedShare ==
    ASSUME NEW j, ShareOK(j), Untouched(j) PROVE ShareOK(j)'
<1>1. Contributors(j)' = Contributors(j) /\ Total(j, Accounts)' = Total(j, Accounts)
  BY DEF Untouched, Contributors, Total
<1>2. (Live(j)' <=> Live(j)) /\ (Live(j) => Crowdloans'[j].raised = Crowdloans[j].raised)
  BY DEF Untouched, Live
<1>. QED BY <1>1, <1>2 DEF ShareOK, Untouched

\* The total after the contribution of one account changed.
LEMMA TotalUpdate ==
    ASSUME NEW i \in CrowdloanIds, NEW who \in Accounts,
           Contributions[i] \in [Accounts -> Nat], Contributions'[i] \in [Accounts -> Nat],
           \A a \in Accounts \ {who} : Contributions'[i][a] = Contributions[i][a]
    PROVE  /\ Total(i, Accounts) \in Nat
           /\ Total(i, Accounts)' =
                 Total(i, Accounts) - Contributions[i][who] + Contributions'[i][who]
<1>1. SumFunctionOnSet(Contributions[i], Accounts) \in Nat
  BY SumLaws, CrowdloanAssumption
<1>2. SumFunctionOnSet(Contributions'[i], Accounts) =
         SumFunctionOnSet(Contributions[i], Accounts) - Contributions[i][who] + Contributions'[i][who]
  <2>. DEFINE f == Contributions[i]
              g == Contributions'[i]
  <2>1. \A a \in Accounts : f[a] \in Nat /\ g[a] \in Nat
    OBVIOUS
  <2>2. \A a \in Accounts \ {who} : g[a] = f[a]
    OBVIOUS
  <2>3. IsFiniteSet(Accounts)
    BY CrowdloanAssumption
  <2>. HIDE DEF f, g
  <2>4. SumFunctionOnSet(g, Accounts) = SumFunctionOnSet(f, Accounts) - f[who] + g[who]
    BY <2>1, <2>2, <2>3, SumUpdate
  <2>. QED BY <2>4 DEF f, g
<1>. QED BY <1>1, <1>2 DEF Total

\* The total after some contributions were removed.
LEMMA TotalWithout ==
    ASSUME NEW i \in CrowdloanIds, NEW R \in SUBSET Accounts,
           Contributions[i] \in [Accounts -> Nat],
           \A a \in Accounts : Contributions'[i][a] = IF a \in R THEN 0 ELSE Contributions[i][a]
    PROVE  /\ Total(i, Accounts) \in Nat /\ Total(i, R) \in Nat
           /\ Total(i, Accounts)' = Total(i, Accounts) - Total(i, R)
<1>. DEFINE f == Contributions[i]
            g == Contributions'[i]
            K == Accounts \ R
            F(S) == SumFunctionOnSet(f, S)
            G(S) == SumFunctionOnSet(g, S)
<1>1. IsFiniteSet(Accounts) /\ IsFiniteSet(R) /\ IsFiniteSet(K) /\ K \in SUBSET Accounts
  BY CrowdloanAssumption, FS_Subset
<1>2. \A a \in Accounts : f[a] \in Nat /\ g[a] \in Nat
  OBVIOUS
<1>3. F(Accounts) \in Nat /\ F(R) \in Nat /\ F(K) \in Nat
  BY <1>1, <1>2, SumLaws
<1>4. F(Accounts) = F(R) + F(K)
  BY <1>1, <1>2, SumSplit
<1>5. G(Accounts) = G(R) + G(K)
  BY <1>1, <1>2, SumSplit
<1>6. G(R) = 0
  <2>1. \A a \in R : g[a] = 0
    OBVIOUS
  <2>. QED BY <1>1, <2>1, SumZero
<1>7. G(K) = F(K)
  <2>1. \A a \in K : f[a] \in Nat /\ g[a] = f[a]
    OBVIOUS
  <2>. QED BY <1>1, <2>1, SumSame
<1>8. Total(i, Accounts) = F(Accounts) /\ Total(i, R) = F(R) /\ Total(i, Accounts)' = G(Accounts)
  BY DEF Total
<1>. HIDE DEF F, G, K, f, g
<1>. QED BY <1>3, <1>4, <1>5, <1>6, <1>7, <1>8

\* A step of the calls that change contributions, on the crowdloan they change.
LEMMA CreateShare ==
    ASSUME CrowdloanInv, NEW who \in Accounts, NEW deposit \in Nat, NEW min, NEW cap, NEW end,
           NEW call, NEW target, NEW i \in CrowdloanIds, i = NextCrowdloanId, ShareOK(i),
           create(who, deposit, min, cap, end, call, target)
    PROVE  /\ ShareOK(i)' /\ \A j \in CrowdloanIds \ {i} : Untouched(j)
           /\ ~Live(i) /\ Live(i)' /\ \A a \in Accounts : Contributions[i][a] = 0
           /\ Contributions'[i] = [Contributions[i] EXCEPT ![who] = deposit]
<1>1. /\ i \in Nat /\ ~Exists(i)
      /\ Contributors(i) = {} /\ Contributions[i] \in [Accounts -> Nat]
      /\ Contributions \in [CrowdloanIds -> [Accounts -> Nat]]
      /\ funds \in [CrowdloanIds -> Nat]
  BY CrowdloanAssumption DEF create, CrowdloanInv, TypeOK, LoanOK
<1>2. \A j \in CrowdloanIds \ {i} : Untouched(j)
  BY <1>1 DEF create, Untouched, Exists
<1>3. /\ Exists(i)' /\ Crowdloans'[i].raised = deposit /\ Crowdloans'[i].finalized = FALSE
      /\ Contributions'[i] = [Contributions[i] EXCEPT ![who] = deposit]
  BY <1>1 DEF create, Exists
<1>4. \A a \in Accounts : Contributions[i][a] = 0
  BY <1>1 DEF Contributors
<1>5. Total(i, Accounts)' = deposit
  <2>1. Total(i, Accounts) = 0
    BY <1>4, SumZero, CrowdloanAssumption DEF Total
  <2>2. /\ Contributions'[i] \in [Accounts -> Nat] /\ Contributions'[i][who] = deposit
        /\ \A a \in Accounts \ {who} : Contributions'[i][a] = Contributions[i][a]
    BY <1>1, <1>3
  <2>3. Total(i, Accounts)' =
                 Total(i, Accounts) - Contributions[i][who] + Contributions'[i][who]
    BY <1>1, <2>2, TotalUpdate
  <2>4. Contributions[i][who] = 0
    BY <1>4
  <2>. QED BY <2>1, <2>2, <2>3, <2>4
<1>6. ShareOK(i)'
  BY <1>3, <1>5 DEF ShareOK
<1>. QED BY <1>1, <1>2, <1>3, <1>4, <1>6 DEF Live

\* contribute on crowdloan i.
LEMMA ContributeShare ==
    ASSUME CrowdloanInv, NEW i \in CrowdloanIds, NEW who \in Accounts, NEW offer \in Nat,
           ShareOK(i), contribute(who, i, offer)
    PROVE  /\ ShareOK(i)' /\ \A j \in CrowdloanIds \ {i} : Untouched(j)
           /\ Live(i) /\ Live(i)' /\ Accepted(i, offer) \in Nat
           /\ Contributions'[i] = [Contributions[i] EXCEPT ![who] = @ + Accepted(i, offer)]
<1>1. /\ Exists(i) /\ LoanOK(i) /\ Crowdloans[i] \in CrowdloanInfo
      /\ Contributions[i] \in [Accounts -> Nat]
      /\ now < Crowdloans[i].end /\ now \in Nat
  BY LoanFacts DEF contribute
<1>2. Live(i)
  BY <1>1 DEF Live, LoanOK, CrowdloanInfo
<1>. DEFINE amount == Accepted(i, offer)
<1>3. amount \in Nat
  BY <1>1 DEF contribute, Accepted, CrowdloanInfo
<1>4. \A j \in CrowdloanIds \ {i} : Untouched(j)
  BY DEF contribute, CrowdloanInv, TypeOK, Untouched, Exists
<1>5. /\ Exists(i)' /\ Crowdloans'[i].raised = Crowdloans[i].raised + amount
      /\ Crowdloans'[i].finalized = Crowdloans[i].finalized
      /\ Contributions'[i] = [Contributions[i] EXCEPT ![who] = @ + amount]
  BY <1>1 DEF contribute, CrowdloanInv, TypeOK, Exists, CrowdloanInfo
<1>. HIDE DEF amount
<1>6. Total(i, Accounts)' = Total(i, Accounts) + amount
  <2>1. /\ Contributions'[i] \in [Accounts -> Nat]
        /\ Contributions'[i][who] = Contributions[i][who] + amount
        /\ \A a \in Accounts \ {who} : Contributions'[i][a] = Contributions[i][a]
    BY <1>1, <1>3, <1>5
  <2>2. /\ Total(i, Accounts) \in Nat
        /\ Total(i, Accounts)' =
                 Total(i, Accounts) - Contributions[i][who] + Contributions'[i][who]
    BY <1>1, <2>1, TotalUpdate
  <2>3. Contributions[i][who] \in Nat
    BY <1>1
  <2>. QED BY <1>3, <2>1, <2>2, <2>3
<1>7. ShareOK(i)' /\ Live(i)'
  BY <1>2, <1>5, <1>6 DEF ShareOK, Live
<1>. QED BY <1>2, <1>3, <1>4, <1>5, <1>7 DEF amount

\* withdraw on crowdloan i.
LEMMA WithdrawShare ==
    ASSUME CrowdloanInv, NEW i \in CrowdloanIds, NEW who \in Accounts,
           ShareOK(i), withdraw(who, i)
    PROVE  /\ ShareOK(i)' /\ \A j \in CrowdloanIds \ {i} : Untouched(j)
           /\ Live(i) /\ Live(i)'
           /\ Withdrawable(who, i) \in Nat /\ Contributions[i][who] - Withdrawable(who, i) \in Nat
           /\ Contributions'[i] = [Contributions[i] EXCEPT ![who] = @ - Withdrawable(who, i)]
<1>1. /\ Exists(i) /\ Live(i) /\ LoanOK(i) /\ Crowdloans[i] \in CrowdloanInfo
      /\ Contributions[i] \in [Accounts -> Nat]
  BY LoanFacts DEF withdraw, Live
<1>. DEFINE amount == Withdrawable(who, i)
<1>2. amount \in Nat /\ Contributions[i][who] - amount \in Nat
  BY <1>1 DEF withdraw, WithdrawFunds, Withdrawable, CrowdloanInfo
<1>3. \A j \in CrowdloanIds \ {i} : Untouched(j)
  BY DEF withdraw, WithdrawFunds, CrowdloanInv, TypeOK, Untouched, Exists
<1>4. /\ Exists(i)' /\ Crowdloans'[i].raised = Crowdloans[i].raised - amount
      /\ Crowdloans'[i].finalized = Crowdloans[i].finalized
      /\ Contributions'[i] = [Contributions[i] EXCEPT ![who] = @ - amount]
  BY <1>1 DEF withdraw, WithdrawFunds, CrowdloanInv, TypeOK, Exists, CrowdloanInfo
<1>. HIDE DEF amount
<1>5. Total(i, Accounts)' = Total(i, Accounts) - amount
  <2>1. /\ Contributions'[i] \in [Accounts -> Nat]
        /\ Contributions'[i][who] = Contributions[i][who] - amount
        /\ \A a \in Accounts \ {who} : Contributions'[i][a] = Contributions[i][a]
    BY <1>1, <1>2, <1>4
  <2>2. /\ Total(i, Accounts) \in Nat
        /\ Total(i, Accounts)' =
                 Total(i, Accounts) - Contributions[i][who] + Contributions'[i][who]
    BY <1>1, <2>1, TotalUpdate
  <2>3. Contributions[i][who] \in Nat
    BY <1>1
  <2>. QED BY <1>2, <2>1, <2>2, <2>3
<1>6. ShareOK(i)' /\ Live(i)'
  BY <1>1, <1>4, <1>5 DEF ShareOK, Live
<1>. QED BY <1>1, <1>2, <1>3, <1>4, <1>6 DEF amount

\* refund on crowdloan i.
LEMMA RefundShare ==
    ASSUME CrowdloanInv, NEW i \in CrowdloanIds, ShareOK(i), refund(i)
    PROVE  /\ ShareOK(i)' /\ \A j \in CrowdloanIds \ {i} : Untouched(j)
           /\ Live(i) /\ Live(i)'
           /\ Contributions'[i] =
                 [a \in Accounts |-> IF a \in ToRefund(i) THEN 0 ELSE Contributions[i][a]]
<1>1. /\ Exists(i) /\ Live(i) /\ LoanOK(i) /\ Crowdloans[i] \in CrowdloanInfo
      /\ Contributions[i] \in [Accounts -> Nat]
  BY LoanFacts DEF refund, Live
<1>. DEFINE R == ToRefund(i)
<1>2. R \in SUBSET Accounts
  BY DEF ToRefund, Contributors
<1>3. \A j \in CrowdloanIds \ {i} : Untouched(j)
  BY DEF refund, RefundFunds, CrowdloanInv, TypeOK, Untouched, Exists
<1>4. /\ Exists(i)' /\ Crowdloans'[i].raised = Crowdloans[i].raised - Total(i, R)
      /\ Crowdloans'[i].finalized = Crowdloans[i].finalized
      /\ Contributions'[i] = [a \in Accounts |-> IF a \in R THEN 0 ELSE Contributions[i][a]]
  BY <1>1 DEF refund, RefundFunds, CrowdloanInv, TypeOK, Exists, CrowdloanInfo
<1>. HIDE DEF R
<1>5. Total(i, Accounts)' = Total(i, Accounts) - Total(i, R)
  <2>1. \A a \in Accounts : Contributions'[i][a] = IF a \in R THEN 0 ELSE Contributions[i][a]
    BY <1>4
  <2>. QED BY <1>1, <1>2, <2>1, TotalWithout
<1>6. ShareOK(i)' /\ Live(i)'
  BY <1>1, <1>4, <1>5 DEF ShareOK, Live
<1>. QED BY <1>1, <1>3, <1>4, <1>6 DEF R

\* dissolve on crowdloan i: the creator's was the only contribution left.
LEMMA DissolveShare ==
    ASSUME CrowdloanInv, NEW i \in CrowdloanIds, ShareOK(i), dissolve(i)
    PROVE  /\ ShareOK(i)' /\ \A j \in CrowdloanIds \ {i} : Untouched(j)
           /\ Live(i) /\ ~Live(i)' /\ Crowdloans[i].creator \in Accounts
           /\ \A a \in Accounts \ {Crowdloans[i].creator} : Contributions[i][a] = 0
<1>1. /\ Exists(i) /\ Live(i) /\ LoanOK(i) /\ Crowdloans[i] \in CrowdloanInfo
      /\ Contributions[i] \in [Accounts -> Nat] /\ IsFiniteSet(Accounts)
  BY LoanFacts, CrowdloanAssumption DEF dissolve, Live
<1>. DEFINE who == Crowdloans[i].creator
            f == Contributions[i]
            K == Accounts \ {who}
<1>2. who \in Accounts /\ f[who] = Crowdloans[i].raised
  BY <1>1 DEF dissolve, DissolveFunds, CrowdloanInfo
<1>3. \A j \in CrowdloanIds \ {i} : Untouched(j)
  BY DEF dissolve, DissolveFunds, CrowdloanInv, TypeOK, Untouched, Exists
<1>4. ~Exists(i)' /\ Contributions'[i] = [Contributions[i] EXCEPT ![who] = 0]
  BY <1>1 DEF dissolve, DissolveFunds, CrowdloanInv, TypeOK, Exists
<1>5. \A a \in K : f[a] = 0
  <2>1. /\ SumFunctionOnSet(f, Accounts) = f[who] + SumFunctionOnSet(f, K)
        /\ SumFunctionOnSet(f, Accounts) = f[who] /\ f[who] \in Nat
        /\ \A S \in SUBSET Accounts : SumFunctionOnSet(f, S) \in Nat
    BY <1>1, <1>2, SumLaws DEF ShareOK, Total
  <2>2. SumFunctionOnSet(f, K) = 0
    BY <2>1
  <2>3. ASSUME NEW a \in K PROVE f[a] = 0
    <3>1. SumFunctionOnSet(f, K) = f[a] + SumFunctionOnSet(f, K \ {a})
      BY <1>1, SumLaws
    <3>2. f[a] \in Nat /\ SumFunctionOnSet(f, K \ {a}) \in Nat
      BY <1>1, <2>1
    <3>. QED BY <2>2, <3>1, <3>2
  <2>. QED BY <2>3
<1>6. Contributors(i)' = {}
  BY <1>1, <1>4, <1>5 DEF Contributors
<1>. QED BY <1>1, <1>2, <1>3, <1>4, <1>5, <1>6 DEF ShareOK, Live

\* The calls that leave every contribution and every amount raised alone.
LEMMA OtherShare ==
    ASSUME CrowdloanInv, NEW i \in CrowdloanIds, ShareOK(i), NEW v,
           \/ update_min_contribution(i, v) \/ update_end(i, v) \/ update_cap(i, v)
    PROVE  /\ ShareOK(i)' /\ \A j \in CrowdloanIds \ {i} : Untouched(j)
           /\ Live(i)' <=> Live(i)
           /\ Contributions' = Contributions /\ balance' = balance
<1>. USE DEF update_min_contribution, update_end, update_cap
<1>1. Exists(i) /\ Live(i) /\ Crowdloans[i] \in CrowdloanInfo
  BY LoanFacts DEF Live
<1>2. \A j \in CrowdloanIds \ {i} : Untouched(j)
  BY DEF CrowdloanInv, TypeOK, Untouched, Exists
<1>3. /\ Exists(i)' /\ Crowdloans'[i].raised = Crowdloans[i].raised
      /\ Crowdloans'[i].finalized = Crowdloans[i].finalized
  BY <1>1 DEF CrowdloanInv, TypeOK, Exists, CrowdloanInfo
<1>4. Contributions' = Contributions /\ balance' = balance
  OBVIOUS
<1>5. Total(i, Accounts)' = Total(i, Accounts)
  BY <1>4 DEF Total
<1>. HIDE DEF update_min_contribution, update_end, update_cap
<1>. QED BY <1>1, <1>2, <1>3, <1>4, <1>5 DEF ShareOK, Live

\* finalize: once finalized, nothing is claimed of the contributions.
LEMMA FinalizeShare ==
    ASSUME CrowdloanInv, NEW i \in CrowdloanIds, finalize(i)
    PROVE  /\ ShareOK(i)' /\ \A j \in CrowdloanIds \ {i} : Untouched(j)
           /\ Live(i) /\ Exists(i)' /\ Crowdloans'[i].finalized
<1>1. /\ Live(i) /\ Crowdloans[i] \in CrowdloanInfo
      /\ Dispatch(i) \/ (Crowdloans[i].target \in Accounts /\ PayTarget(i))
      /\ Crowdloans' = [Crowdloans EXCEPT ![i].finalized = TRUE]
      /\ Crowdloans \in [DOMAIN Crowdloans -> CrowdloanInfo] /\ i \in DOMAIN Crowdloans
  BY LoanFacts DEF finalize, Live, Exists
<1>2. \A j \in CrowdloanIds \ {i} :
            Contributions'[j] = Contributions[j] /\ funds'[j] = funds[j]
  BY <1>1, DispatchTypes
<1>3. Exists(i)' /\ Crowdloans'[i].finalized
  BY <1>1 DEF Exists, CrowdloanInfo
<1>4. \A j \in CrowdloanIds \ {i} : Untouched(j)
  BY <1>1, <1>2 DEF Untouched, Exists
<1>. QED BY <1>1, <1>3, <1>4 DEF ShareOK, Live

\* Every step keeps the contributions of every crowdloan in step with what it
\* raised.
LEMMA StepShares ==
    ASSUME CrowdloanInv, \A i \in CrowdloanIds : ShareOK(i), [Next]_vars
    PROVE  \A i \in CrowdloanIds : ShareOK(i)'
<1>. DEFINE On(i) == ShareOK(i)' /\ \A j \in CrowdloanIds \ {i} : Untouched(j)
<1>1. ASSUME NEW i \in CrowdloanIds, On(i) PROVE \A j \in CrowdloanIds : ShareOK(j)'
  BY <1>1, UntouchedShare
<1>2. ASSUME NEW who \in Accounts, NEW deposit \in Amounts, NEW min \in Amounts,
             NEW cap \in Amounts, NEW end \in 0..MaxBlock + 1, NEW call \in Calls,
             NEW target \in Accounts \cup {NoAccount},
             create(who, deposit, min, cap, end, call, target)
      PROVE  \E i \in CrowdloanIds : On(i)
  <2>1. deposit \in Nat
    BY CrowdloanAssumption
  <2>2. PICK i \in CrowdloanIds : i = NextCrowdloanId
    BY <1>2 DEF create
  <2>3. On(i)
    BY <1>2, <2>1, <2>2, CreateShare
  <2>. QED BY <2>3
<1>3. ASSUME NEW i \in CrowdloanIds, NEW who \in Accounts, NEW offer \in Amounts,
             contribute(who, i, offer)
      PROVE  On(i)
  BY <1>3, ContributeShare, CrowdloanAssumption
<1>4. ASSUME NEW i \in CrowdloanIds, NEW who \in Accounts, withdraw(who, i) PROVE On(i)
  BY <1>4, WithdrawShare
<1>5. ASSUME NEW i \in CrowdloanIds, finalize(i) PROVE On(i)
  BY <1>5, FinalizeShare
<1>6. ASSUME NEW i \in CrowdloanIds, refund(i) PROVE On(i)
  BY <1>6, RefundShare
<1>7. ASSUME NEW i \in CrowdloanIds, dissolve(i) PROVE On(i)
  BY <1>7, DissolveShare
<1>8. ASSUME NEW i \in CrowdloanIds, NEW v,
             \/ update_min_contribution(i, v) \/ update_end(i, v) \/ update_cap(i, v)
      PROVE  On(i)
  BY <1>8, OtherShare
<1>9. ASSUME NextBlock \/ UNCHANGED vars PROVE \A j \in CrowdloanIds : ShareOK(j)'
  <2>1. \A j \in CrowdloanIds : Untouched(j)
    BY <1>9 DEF NextBlock, vars, Untouched, Exists
  <2>. QED BY <2>1, UntouchedShare
<1>. HIDE DEF On
<1>10. \/ \E i \in CrowdloanIds : On(i)
       \/ NextBlock \/ UNCHANGED vars
  BY <1>2, <1>3, <1>4, <1>5, <1>6, <1>7, <1>8 DEF Next, Creates, CallsOn
<1>. QED BY <1>1, <1>9, <1>10

\* The books and the contributions, together.
SharesInv == CrowdloanInv /\ \A i \in CrowdloanIds : ShareOK(i)

LEMMA SharesHold == Spec => []SharesInv
<1>1. Init => SharesInv
  BY InitInv DEF Init, SharesInv, ShareOK, Live, Exists, Contributors
<1>2. SharesInv /\ [Next]_vars => SharesInv'
  BY StepInv, StepShares DEF SharesInv
<1>. QED BY <1>1, <1>2, PTL DEF Spec

\* Until a crowdloan is finalized, what it raised is exactly the sum of what
\* is recorded for its contributors, through every sequence of contribute,
\* withdraw and refund; once dissolved no contribution is left behind.
THEOREM RaisedIsAlwaysContributed == Spec => []RaisedIsContributed
<1>1. SharesInv => RaisedIsContributed
  BY DEF SharesInv, CrowdloanInv, LoanOK, ShareOK, RaisedIsContributed
<1>. QED BY <1>1, SharesHold, PTL

-----------------------------------------------------------------------------
\* Wealth: only finalize moves it.

\* The shares of an account, and what one of them does to the sum.
LEMMA WealthUpdate ==
    ASSUME TypeOK, TypeOK', NEW i \in CrowdloanIds, NEW a \in Accounts,
           \A j \in CrowdloanIds \ {i} : Untouched(j)
    PROVE  /\ SumFunctionOnSet(Shares(a), CrowdloanIds) \in Nat
           /\ Shares(a)[i] \in Nat /\ Shares(a)'[i] \in Nat
           /\ SumFunctionOnSet(Shares(a), CrowdloanIds)' =
                 SumFunctionOnSet(Shares(a), CrowdloanIds) - Shares(a)[i] + Shares(a)'[i]
<1>. DEFINE f == Shares(a)
            g == Shares(a)'
<1>1. /\ \A j \in CrowdloanIds : f[j] \in Nat /\ g[j] \in Nat
      /\ \A j \in CrowdloanIds : f[j] \in Nat
  BY DEF TypeOK, Shares
<1>2. \A j \in CrowdloanIds \ {i} : g[j] = f[j]
  BY DEF Shares, Untouched, Live
<1>3. IsFiniteSet(CrowdloanIds)
  BY CrowdloanAssumption
<1>. HIDE DEF f, g
<1>4. SumFunctionOnSet(g, CrowdloanIds) = SumFunctionOnSet(f, CrowdloanIds) - f[i] + g[i]
  BY <1>1, <1>2, <1>3, SumUpdate
<1>5. SumFunctionOnSet(f, CrowdloanIds) \in Nat
  BY <1>1, <1>3, SumLaws
<1>. QED BY <1>1, <1>4, <1>5 DEF f, g

\* What a transfer costs its payer beyond the amount is dust.
LEMMA LeftAfterDust ==
    ASSUME NEW b \in Nat, NEW amount \in Nat, b >= amount
    PROVE  /\ LeftAfter(b, amount) \in Nat
           /\ IsDust(LeftAfter(b, amount), (b - amount) - LeftAfter(b, amount))
BY CrowdloanAssumption DEF LeftAfter, IsDust

\* Account a loses at most dust in this step, and gains nothing.
LosesDust(a) == IsDust(balance'[a], Wealth(a) - Wealth(a)')

\* Of a step on crowdloan i it is enough to look at the balance and the share
\* in i.
LEMMA WealthStep ==
    ASSUME TypeOK, TypeOK', NEW i \in CrowdloanIds, NEW a \in Accounts,
           \A j \in CrowdloanIds \ {i} : Untouched(j),
           IsDust(balance'[a], (balance[a] + Shares(a)[i]) - (balance'[a] + Shares(a)'[i]))
    PROVE  LosesDust(a)
<1>1. balance[a] \in Nat /\ balance'[a] \in Nat
  BY DEF TypeOK
<1>. DEFINE F == SumFunctionOnSet(Shares(a), CrowdloanIds)
            G == SumFunctionOnSet(Shares(a), CrowdloanIds)'
            x == Shares(a)[i]
            y == Shares(a)'[i]
<1>2. F \in Nat /\ x \in Nat /\ y \in Nat /\ G = F - x + y
  BY WealthUpdate
<1>3. Wealth(a) = balance[a] + F /\ Wealth(a)' = balance'[a] + G
  BY DEF Wealth
<1>4. IsDust(balance'[a], (balance[a] + x) - (balance'[a] + y))
  OBVIOUS
<1>. HIDE DEF F, G, x, y
<1>5. Wealth(a) - Wealth(a)' = (balance[a] + x) - (balance'[a] + y)
  BY <1>1, <1>2, <1>3
<1>. QED BY <1>4, <1>5 DEF LosesDust

\* Nothing is dust.
LEMMA NoDust == \A left : IsDust(left, 0)
BY DEF IsDust

\* create: the deposit moves from the balance to the share.
LEMMA CreateWealth ==
    ASSUME SharesInv, TypeOK', NEW who \in Accounts, NEW deposit \in Nat, NEW min, NEW cap,
           NEW end, NEW call, NEW target, NEW i \in CrowdloanIds, i = NextCrowdloanId,
           create(who, deposit, min, cap, end, call, target), NEW a \in Accounts
    PROVE  LosesDust(a)
<1>1. CrowdloanInv /\ ShareOK(i) /\ TypeOK
  BY DEF SharesInv, CrowdloanInv
<1>2. /\ \A j \in CrowdloanIds \ {i} : Untouched(j)
      /\ ~Live(i) /\ Live(i)' /\ Contributions[i][a] = 0
      /\ Contributions'[i] = [Contributions[i] EXCEPT ![who] = deposit]
  BY <1>1, CreateShare
<1>3. /\ Contributions[i] \in [Accounts -> Nat] /\ balance \in [Accounts -> Nat]
  BY <1>1 DEF TypeOK
<1>4. Shares(a)[i] = 0 /\ Shares(a)'[i] = IF a = who THEN deposit ELSE 0
  BY <1>2, <1>3 DEF Shares
<1>5. /\ balance[a] \in Nat /\ balance[who] >= deposit
      /\ balance'[a] = IF a = who THEN LeftAfter(balance[a], deposit) ELSE balance[a]
  BY <1>3 DEF create
<1>6. IsDust(balance'[a], (balance[a] + Shares(a)[i]) - (balance'[a] + Shares(a)'[i]))
  <2>1. CASE a = who
    <3>1. /\ LeftAfter(balance[a], deposit) \in Nat
          /\ IsDust(LeftAfter(balance[a], deposit),
                    (balance[a] - deposit) - LeftAfter(balance[a], deposit))
      BY <1>5, <2>1, LeftAfterDust
    <3>2. (balance[a] + 0) - (LeftAfter(balance[a], deposit) + deposit)
             = (balance[a] - deposit) - LeftAfter(balance[a], deposit)
      BY <1>5, <3>1
    <3>. QED BY <1>4, <1>5, <2>1, <3>1, <3>2
  <2>2. CASE a # who
    <3>1. (balance[a] + 0) - (balance[a] + 0) = 0
      BY <1>5
    <3>. QED BY <1>4, <1>5, <2>2, <3>1, NoDust
  <2>. QED BY <2>1, <2>2
<1>. QED BY <1>1, <1>2, <1>6, WealthStep

\* contribute: what is accepted moves from the balance to the share.
LEMMA ContributeWealth ==
    ASSUME SharesInv, TypeOK', NEW i \in CrowdloanIds, NEW who \in Accounts, NEW offer \in Nat,
           contribute(who, i, offer), NEW a \in Accounts
    PROVE  LosesDust(a)
<1>. DEFINE amount == Accepted(i, offer)
<1>1. CrowdloanInv /\ ShareOK(i) /\ TypeOK
  BY DEF SharesInv, CrowdloanInv
<1>2. /\ \A j \in CrowdloanIds \ {i} : Untouched(j)
      /\ Live(i) /\ Live(i)' /\ amount \in Nat
      /\ Contributions'[i] = [Contributions[i] EXCEPT ![who] = @ + amount]
  BY <1>1, ContributeShare
<1>3. /\ Contributions[i] \in [Accounts -> Nat] /\ balance \in [Accounts -> Nat]
  BY <1>1 DEF TypeOK
<1>. DEFINE c == Contributions[i][a]
            b == balance[a]
<1>4. /\ Shares(a)[i] = c /\ c \in Nat
      /\ Shares(a)'[i] = IF a = who THEN c + amount ELSE c
  BY <1>2, <1>3 DEF Shares
<1>5. /\ b \in Nat /\ (a = who => b >= amount)
      /\ balance'[a] = IF a = who THEN LeftAfter(b, amount) ELSE b
  BY <1>3 DEF contribute
<1>6. IsDust(balance'[a], (b + Shares(a)[i]) - (balance'[a] + Shares(a)'[i]))
  <2>. HIDE DEF amount, b, c
  <2>1. CASE a = who
    <3>1. /\ LeftAfter(b, amount) \in Nat
          /\ IsDust(LeftAfter(b, amount), (b - amount) - LeftAfter(b, amount))
      BY <1>2, <1>5, <2>1, LeftAfterDust
    <3>2. (b + c) - (LeftAfter(b, amount) + (c + amount)) = (b - amount) - LeftAfter(b, amount)
      BY <1>2, <1>4, <1>5, <3>1
    <3>. QED BY <1>4, <1>5, <2>1, <3>1, <3>2
  <2>2. CASE a # who
    <3>1. (b + c) - (b + c) = 0
      BY <1>4, <1>5
    <3>. QED BY <1>4, <1>5, <2>2, <3>1, NoDust
  <2>. QED BY <2>1, <2>2
<1>. QED BY <1>1, <1>2, <1>6, WealthStep

\* withdraw: what is withdrawn moves from the share to the balance.
LEMMA WithdrawWealth ==
    ASSUME SharesInv, TypeOK', NEW i \in CrowdloanIds, NEW who \in Accounts,
           withdraw(who, i), NEW a \in Accounts
    PROVE  LosesDust(a)
<1>. DEFINE amount == Withdrawable(who, i)
<1>1. CrowdloanInv /\ ShareOK(i) /\ TypeOK
  BY DEF SharesInv, CrowdloanInv
<1>2. /\ \A j \in CrowdloanIds \ {i} : Untouched(j)
      /\ Live(i) /\ Live(i)' /\ amount \in Nat
      /\ Contributions'[i] = [Contributions[i] EXCEPT ![who] = @ - amount]
  BY <1>1, WithdrawShare
<1>3. /\ Contributions[i] \in [Accounts -> Nat] /\ balance \in [Accounts -> Nat]
  BY <1>1 DEF TypeOK
<1>. DEFINE c == Contributions[i][a]
            b == balance[a]
<1>4. /\ Shares(a)[i] = c /\ c \in Nat
      /\ Shares(a)'[i] = IF a = who THEN c - amount ELSE c
  BY <1>2, <1>3 DEF Shares
<1>5. b \in Nat /\ balance'[a] = IF a = who THEN b + amount ELSE b
  BY <1>3 DEF withdraw, WithdrawFunds
<1>6. IsDust(balance'[a], (b + Shares(a)[i]) - (balance'[a] + Shares(a)'[i]))
  <2>. HIDE DEF amount, b, c
  <2>1. (b + c) - (b + c) = 0 /\ (b + c) - ((b + amount) + (c - amount)) = 0
    BY <1>2, <1>4, <1>5
  <2>. QED BY <1>4, <1>5, <2>1, NoDust
<1>. QED BY <1>1, <1>2, <1>6, WealthStep

\* refund: whoever is refunded gets the share back as balance.
LEMMA RefundWealth ==
    ASSUME SharesInv, TypeOK', NEW i \in CrowdloanIds, refund(i), NEW a \in Accounts
    PROVE  LosesDust(a)
<1>1. CrowdloanInv /\ ShareOK(i) /\ TypeOK
  BY DEF SharesInv, CrowdloanInv
<1>2. /\ \A j \in CrowdloanIds \ {i} : Untouched(j)
      /\ Live(i) /\ Live(i)'
      /\ Contributions'[i][a] = IF a \in ToRefund(i) THEN 0 ELSE Contributions[i][a]
  BY <1>1, RefundShare
<1>3. /\ Contributions[i] \in [Accounts -> Nat] /\ balance \in [Accounts -> Nat]
  BY <1>1 DEF TypeOK
<1>. DEFINE c == Contributions[i][a]
            b == balance[a]
<1>4. /\ Shares(a)[i] = c /\ c \in Nat
      /\ Shares(a)'[i] = IF a \in ToRefund(i) THEN 0 ELSE c
  BY <1>2, <1>3 DEF Shares
<1>5. b \in Nat /\ balance'[a] = IF a \in ToRefund(i) THEN b + c ELSE b
  BY <1>3 DEF refund, RefundFunds
<1>6. IsDust(balance'[a], (b + Shares(a)[i]) - (balance'[a] + Shares(a)'[i]))
  <2>. HIDE DEF b, c
  <2>1. (b + c) - (b + c) = 0 /\ (b + c) - ((b + c) + 0) = 0
    BY <1>4, <1>5
  <2>. QED BY <1>4, <1>5, <2>1, NoDust
<1>. QED BY <1>1, <1>2, <1>6, WealthStep

\* dissolve: the creator, the last contributor, gets the share back.
LEMMA DissolveWealth ==
    ASSUME SharesInv, TypeOK', NEW i \in CrowdloanIds, dissolve(i), NEW a \in Accounts
    PROVE  LosesDust(a)
<1>1. CrowdloanInv /\ ShareOK(i) /\ TypeOK
  BY DEF SharesInv, CrowdloanInv
<1>. DEFINE who == Crowdloans[i].creator
            c == Contributions[i][a]
            b == balance[a]
<1>2. /\ \A j \in CrowdloanIds \ {i} : Untouched(j)
      /\ Live(i) /\ ~Live(i)' /\ (a # who => c = 0)
  BY <1>1, DissolveShare
<1>3. /\ Contributions[i] \in [Accounts -> Nat] /\ balance \in [Accounts -> Nat]
  BY <1>1 DEF TypeOK
<1>4. Shares(a)[i] = c /\ c \in Nat /\ Shares(a)'[i] = 0
  BY <1>2, <1>3 DEF Shares
<1>5. b \in Nat /\ balance'[a] = IF a = who THEN b + c ELSE b
  BY <1>3 DEF dissolve, DissolveFunds
<1>6. IsDust(balance'[a], (b + Shares(a)[i]) - (balance'[a] + Shares(a)'[i]))
  <2>. HIDE DEF b, c
  <2>1. (b + c) - ((b + c) + 0) = 0 /\ (b + 0) - (b + 0) = 0
    BY <1>4, <1>5
  <2>. QED BY <1>2, <1>4, <1>5, <2>1, NoDust
<1>. QED BY <1>1, <1>2, <1>6, WealthStep

\* No crowdloan is finalized in this step.
NoneFinalized ==
    \A i \in CrowdloanIds : Live(i) => ~(Exists(i)' /\ Crowdloans'[i].finalized)

LEMMA StepWealth ==
    ASSUME SharesInv, [Next]_vars, NoneFinalized, NEW a \in Accounts
    PROVE  LosesDust(a)
<1>0. CrowdloanInv /\ TypeOK /\ TypeOK'
  BY StepInv DEF SharesInv, CrowdloanInv
<1>1. ASSUME NEW who \in Accounts, NEW deposit \in Amounts, NEW min \in Amounts,
             NEW cap \in Amounts, NEW end \in 0..MaxBlock + 1, NEW call \in Calls,
             NEW target \in Accounts \cup {NoAccount},
             create(who, deposit, min, cap, end, call, target)
      PROVE  LosesDust(a)
  <2>1. deposit \in Nat
    BY CrowdloanAssumption
  <2>2. PICK i \in CrowdloanIds : i = NextCrowdloanId
    BY <1>1 DEF create
  <2>. QED BY <1>0, <1>1, <2>1, <2>2, CreateWealth
<1>2. ASSUME NEW i \in CrowdloanIds, NEW who \in Accounts, NEW offer \in Amounts,
             contribute(who, i, offer)
      PROVE  LosesDust(a)
  BY <1>0, <1>2, ContributeWealth, CrowdloanAssumption
<1>3. ASSUME NEW i \in CrowdloanIds, NEW who \in Accounts, withdraw(who, i) PROVE LosesDust(a)
  BY <1>0, <1>3, WithdrawWealth
<1>4. ASSUME NEW i \in CrowdloanIds, finalize(i) PROVE FALSE
  BY <1>0, <1>4, FinalizeShare DEF NoneFinalized
<1>5. ASSUME NEW i \in CrowdloanIds, refund(i) PROVE LosesDust(a)
  BY <1>0, <1>5, RefundWealth
<1>6. ASSUME NEW i \in CrowdloanIds, dissolve(i) PROVE LosesDust(a)
  BY <1>0, <1>6, DissolveWealth
<1>7. ASSUME Wealth(a)' = Wealth(a), Wealth(a) \in Nat PROVE LosesDust(a)
  BY <1>7, NoDust DEF LosesDust
<1>8. Wealth(a) \in Nat
  <2>1. \A j \in CrowdloanIds : Shares(a)[j] \in Nat
    BY <1>0 DEF TypeOK, Shares
  <2>2. SumFunctionOnSet(Shares(a), CrowdloanIds) \in Nat
    BY <2>1, SumLaws, CrowdloanAssumption
  <2>3. balance[a] \in Nat
    BY <1>0 DEF TypeOK
  <2>. QED BY <2>2, <2>3 DEF Wealth
<1>9. ASSUME NEW i \in CrowdloanIds, NEW v,
             \/ update_min_contribution(i, v) \/ update_end(i, v) \/ update_cap(i, v)
      PROVE  LosesDust(a)
  <2>1. ShareOK(i)
    BY DEF SharesInv
  <2>2. /\ \A j \in CrowdloanIds \ {i} : Untouched(j)
        /\ Live(i)' <=> Live(i)
        /\ Contributions' = Contributions /\ balance' = balance
    BY <1>0, <1>9, <2>1, OtherShare
  <2>3. \A j \in CrowdloanIds : Live(j)' <=> Live(j)
    BY <2>2 DEF Untouched, Live
  <2>4. Shares(a)' = Shares(a)
    BY <2>2, <2>3 DEF Shares
  <2>5. Wealth(a)' = Wealth(a)
    BY <2>2, <2>4 DEF Wealth
  <2>. QED BY <1>7, <1>8, <2>5
<1>10. ASSUME NextBlock \/ UNCHANGED vars PROVE LosesDust(a)
  <2>1. Contributions' = Contributions /\ balance' = balance /\ Crowdloans' = Crowdloans
    BY <1>10 DEF NextBlock, vars
  <2>2. Shares(a)' = Shares(a)
    BY <2>1 DEF Shares, Live, Exists
  <2>3. Wealth(a)' = Wealth(a)
    BY <2>1, <2>2 DEF Wealth
  <2>. QED BY <1>7, <1>8, <2>3
<1>. QED BY <1>1, <1>2, <1>3, <1>4, <1>5, <1>6, <1>9, <1>10 DEF Next, Creates, CallsOn

\* Whatever the existential deposit: unless it finalizes a crowdloan, a call
\* makes nobody richer, and nobody poorer but for the dust of an account whose
\* balance a transfer uses up.
THEOREM OnlyFinalizeMoves == Spec => OnlyFinalizeMovesWealth
<1>1. SharesInv /\ [Next]_vars =>
        [(\A i \in CrowdloanIds : Live(i) => ~(Exists(i)' /\ Crowdloans'[i].finalized))
            => \A a \in Accounts : IsDust(balance'[a], Wealth(a) - Wealth(a)')]_vars
  BY StepWealth DEF NoneFinalized, LosesDust
<1>. QED BY <1>1, SharesHold, PTL DEF Spec, OnlyFinalizeMovesWealth
=============================================================================
