------------------------------ MODULE Crowdloan ------------------------------
(***************************************************************************)
(* pallet-crowdloan: accounts pool funds in an account of their own per    *)
(* crowdloan until its end; the creator of one that raised its cap         *)
(* finalizes it, any other is refunded and dissolved.                      *)
(*                                                                         *)
(* Accounts are numbers, in the order storage iterates over Contributions. *)
(* An amount of 0 in Contributions is an absent entry: deposits and        *)
(* contributions are positive.  A dispatchable that fails is rolled back,  *)
(* so it is no step.  CurrentCrowdloanId is written and cleared within     *)
(* finalize and is not visible between steps.                              *)
(***************************************************************************)
EXTENDS Integers, FiniteSets, Functions

CONSTANTS
    Accounts,                     \* a set of naturals
    MinimumDeposit, AbsoluteMinimumContribution,
    MinimumBlockDuration, MaximumBlockDuration,
    RefundContributorsLimit,      \* contributors refunded by one call (50)
    MaxContributors,              \* (500)
    ExistentialDeposit,           \* an account with less is removed (500)
    NoAccount,                    \* no target address
    Calls,                        \* bound: what the call stored with a crowdloan
                                  \* may do when finalize dispatches it: nothing to
                                  \* the crowdloan ("other"), or a call of this pallet
    CrowdloanIds,                 \* bound: 0..k, the ids that may be given out
    Amounts,                      \* bound: the amounts callers name
    MaxBlock,                     \* bound: the last block explored
    InitialBalance                \* what every account starts with

ASSUME CrowdloanAssumption ==
    /\ Accounts \subseteq Nat /\ IsFiniteSet(Accounts)
    /\ MinimumDeposit \in Nat \ {0} /\ MinimumDeposit >= ExistentialDeposit
    /\ AbsoluteMinimumContribution \in Nat \ {0}
    /\ MinimumBlockDuration \in Nat /\ MaximumBlockDuration \in Nat
    /\ RefundContributorsLimit \in Nat /\ MaxContributors \in Nat \ {0}
    /\ ExistentialDeposit \in Nat
    /\ NoAccount \notin Accounts
    /\ Calls \subseteq {"none", "other", "withdraw", "refund", "dissolve"}
    /\ CrowdloanIds \subseteq Nat /\ IsFiniteSet(CrowdloanIds)
    /\ Amounts \subseteq Nat /\ MaxBlock \in Nat /\ InitialBalance \in Nat

VARIABLES
    now,             \* the block number
    NextCrowdloanId,
    Crowdloans,      \* [existing id -> CrowdloanInfo]
    Contributions,   \* [id -> [account -> amount]]
    balance,         \* [account -> free balance]
    funds            \* [id -> balance of the crowdloan's funds account]

vars == <<now, NextCrowdloanId, Crowdloans, Contributions, balance, funds>>

CrowdloanInfo ==
    [creator : Accounts, deposit : Nat, min_contribution : Nat, end : Nat, cap : Nat,
     raised : Nat, call : Calls, target : Accounts \cup {NoAccount},
     finalized : BOOLEAN, contributors_count : Nat]

Init ==
    /\ now = 0
    /\ NextCrowdloanId = 0
    /\ Crowdloans = [i \in {} |-> 0]
    /\ Contributions = [i \in CrowdloanIds |-> [a \in Accounts |-> 0]]
    /\ balance = [a \in Accounts |-> InitialBalance]
    /\ funds = [i \in CrowdloanIds |-> 0]

Exists(i) == i \in DOMAIN Crowdloans
Contributors(i) == {a \in Accounts : Contributions[i][a] # 0}

ensure_valid_end(end) ==
    /\ now < end
    /\ end - now >= MinimumBlockDuration
    /\ end - now <= MaximumBlockDuration

-----------------------------------------------------------------------------
\* The currency's transfer, with Preservation::Expendable: what would leave
\* the payer below the existential deposit is dust, and a payee must end up
\* with the existential deposit at least.
LeftAfter(b, amount) == IF b - amount < ExistentialDeposit THEN 0 ELSE b - amount
CanReceive(a, amount) == balance[a] + amount >= ExistentialDeposit

-----------------------------------------------------------------------------
\* The dispatchables.

create(who, deposit, min_contribution, cap, end, call, target) ==
    LET i == NextCrowdloanId IN
    /\ i \in CrowdloanIds
    /\ deposit >= MinimumDeposit
    /\ cap > deposit
    /\ min_contribution >= AbsoluteMinimumContribution
    /\ ensure_valid_end(end)
    /\ balance[who] >= deposit
    /\ NextCrowdloanId' = i + 1
    /\ Crowdloans' = [j \in DOMAIN Crowdloans \cup {i} |->
           IF j = i
             THEN [creator |-> who, deposit |-> deposit, min_contribution |-> min_contribution,
                   end |-> end, cap |-> cap, raised |-> deposit, call |-> call,
                   target |-> target, finalized |-> FALSE, contributors_count |-> 1]
             ELSE Crowdloans[j]]
    /\ Contributions' = [Contributions EXCEPT ![i][who] = deposit]
    /\ balance' = [balance EXCEPT ![who] = LeftAfter(@, deposit)]
    /\ funds' = [funds EXCEPT ![i] = @ + deposit]
    /\ UNCHANGED now

\* Mutant: the offer is not cut to what is left to raise.
Accepted_unclipped(i, offer) == offer

\* What is accepted of an offer: at most what is left to raise.
Accepted(i, offer) ==
    LET left == Crowdloans[i].cap - Crowdloans[i].raised
    IN  IF offer <= left THEN offer ELSE left

\* Mutant: every contribution counts as a new contributor.
NewContributor_always(who, i) == 1

NewContributor(who, i) == IF Contributions[i][who] = 0 THEN 1 ELSE 0

contribute(who, i, offer) ==
    LET amount == Accepted(i, offer) IN
    /\ Exists(i)
    /\ now < Crowdloans[i].end
    /\ Crowdloans[i].raised < Crowdloans[i].cap
    /\ offer >= Crowdloans[i].min_contribution
    /\ Crowdloans[i].contributors_count < MaxContributors
    /\ balance[who] >= amount
    /\ Crowdloans' = [Crowdloans EXCEPT ![i].raised = @ + amount,
                                        ![i].contributors_count = @ + NewContributor(who, i)]
    /\ Contributions' = [Contributions EXCEPT ![i][who] = @ + amount]
    /\ balance' = [balance EXCEPT ![who] = LeftAfter(@, amount)]
    /\ funds' = [funds EXCEPT ![i] = @ + amount]
    /\ UNCHANGED <<now, NextCrowdloanId>>

\* Mutant: the creator may take out the deposit too.
Withdrawable_with_deposit(who, i) == Contributions[i][who]

\* What an account can take out: the creator only what exceeds the deposit.
Withdrawable(who, i) ==
    Contributions[i][who] - (IF who = Crowdloans[i].creator THEN Crowdloans[i].deposit ELSE 0)

\* The part of withdraw outside the crowdloan's own record.
WithdrawFunds(who, i) ==
    LET amount == Withdrawable(who, i) IN
    /\ Contributions[i][who] > 0
    /\ amount > 0
    /\ funds[i] >= amount
    /\ CanReceive(who, amount)
    /\ Contributions' = [Contributions EXCEPT ![i][who] = @ - amount]
    /\ balance' = [balance EXCEPT ![who] = @ + amount]
    /\ funds' = [funds EXCEPT ![i] = @ - amount]

\* Mutant: the amount raised is not updated.
withdraw_keeps_raised(who, i) ==
    /\ Exists(i)
    /\ ~Crowdloans[i].finalized
    /\ WithdrawFunds(who, i)
    /\ Crowdloans' = [Crowdloans EXCEPT
           ![i].contributors_count = IF who = Crowdloans[i].creator THEN @ ELSE @ - 1]
    /\ UNCHANGED <<now, NextCrowdloanId>>

\* Mutant: the creator is counted out although the deposit stays.
withdraw_counts_creator(who, i) ==
    /\ Exists(i)
    /\ ~Crowdloans[i].finalized
    /\ WithdrawFunds(who, i)
    /\ Crowdloans' = [Crowdloans EXCEPT ![i].raised = @ - Withdrawable(who, i),
                                        ![i].contributors_count = @ - 1]
    /\ UNCHANGED <<now, NextCrowdloanId>>

withdraw(who, i) ==
    /\ Exists(i)
    /\ ~Crowdloans[i].finalized
    /\ WithdrawFunds(who, i)
    /\ Crowdloans' = [Crowdloans EXCEPT
           ![i].raised = @ - Withdrawable(who, i),
           ![i].contributors_count = IF who = Crowdloans[i].creator THEN @ ELSE @ - 1]
    /\ UNCHANGED <<now, NextCrowdloanId>>

\* Mutant: the limit is applied before the creator is filtered out.
ToRefund_limits_first(i) ==
    {a \in Contributors(i) :
        Cardinality({b \in Contributors(i) : b <= a}) <= RefundContributorsLimit}
      \ {Crowdloans[i].creator}

\* The next contributors to refund: the first ones, in storage order, that
\* are not the creator, as many as one call may refund.
ToRefund(i) ==
    LET others == Contributors(i) \ {Crowdloans[i].creator}
    IN  {a \in others : Cardinality({b \in others : b <= a}) <= RefundContributorsLimit}

Total(i, S) == SumFunctionOnSet(Contributions[i], S)

RefundFunds(i) ==
    /\ Total(i, ToRefund(i)) \in 0..funds[i]
    /\ \A a \in ToRefund(i) : CanReceive(a, Contributions[i][a])
    /\ Contributions' = [Contributions EXCEPT ![i] =
           [a \in Accounts |-> IF a \in ToRefund(i) THEN 0 ELSE @[a]]]
    /\ balance' = [a \in Accounts |->
           IF a \in ToRefund(i) THEN balance[a] + Contributions[i][a] ELSE balance[a]]
    /\ funds' = [funds EXCEPT ![i] = @ - Total(i, ToRefund(i))]

refund(i) ==
    /\ Exists(i)
    /\ now >= Crowdloans[i].end
    /\ ~Crowdloans[i].finalized
    /\ RefundFunds(i)
    /\ Crowdloans' = [Crowdloans EXCEPT
           ![i].raised = @ - Total(i, ToRefund(i)),
           ![i].contributors_count = @ - Cardinality(ToRefund(i))]
    /\ UNCHANGED <<now, NextCrowdloanId>>

\* Mutant: does not wait for everybody else's refund.
DissolveFunds_early(i) ==
    LET who == Crowdloans[i].creator
        amount == Contributions[i][who]
    IN
    /\ amount # 0
    /\ funds[i] >= amount
    /\ CanReceive(who, amount)
    /\ Contributions' = [Contributions EXCEPT ![i][who] = 0]
    /\ balance' = [balance EXCEPT ![who] = @ + amount]
    /\ funds' = [funds EXCEPT ![i] = @ - amount]

DissolveFunds(i) ==
    LET who == Crowdloans[i].creator
        amount == Contributions[i][who]
    IN
    /\ amount # 0
    /\ amount = Crowdloans[i].raised
    /\ funds[i] >= amount
    /\ CanReceive(who, amount)
    /\ Contributions' = [Contributions EXCEPT ![i][who] = 0]
    /\ balance' = [balance EXCEPT ![who] = @ + amount]
    /\ funds' = [funds EXCEPT ![i] = @ - amount]

dissolve(i) ==
    /\ Exists(i)
    /\ ~Crowdloans[i].finalized
    /\ DissolveFunds(i)
    /\ Crowdloans' = [j \in DOMAIN Crowdloans \ {i} |-> Crowdloans[j]]
    /\ UNCHANGED <<now, NextCrowdloanId>>

\* The transfer to the target address, which leaves the funds account empty.
PayTarget(i) ==
    LET target == Crowdloans[i].target IN
    /\ funds[i] >= Crowdloans[i].raised
    /\ CanReceive(target, Crowdloans[i].raised)
    /\ funds' = [funds EXCEPT ![i] = @ - Crowdloans[i].raised]
    /\ balance' = [balance EXCEPT ![target] = @ + Crowdloans[i].raised]
    /\ UNCHANGED Contributions

\* Without a target the stored call runs on the untouched crowdloan, with the
\* creator's origin.
Dispatch(i) ==
    CASE Crowdloans[i].call = "withdraw" -> WithdrawFunds(Crowdloans[i].creator, i)
      [] Crowdloans[i].call = "refund"   -> RefundFunds(i)
      [] Crowdloans[i].call = "dissolve" -> DissolveFunds(i)
      [] OTHER                           -> UNCHANGED <<Contributions, balance, funds>>

\* The record was read before the transfer and the dispatch, and is written
\* back after them: what the call did to it is lost.  After the transfer to a
\* target the funds account is empty: of this pallet's calls, only a refund
\* with nobody to pay succeeds.
finalize(i) ==
    /\ Exists(i)
    /\ now >= Crowdloans[i].end
    /\ Crowdloans[i].raised = Crowdloans[i].cap
    /\ ~Crowdloans[i].finalized
    /\ IF Crowdloans[i].target \in Accounts
         THEN /\ \/ Crowdloans[i].call \in {"none", "other"}
                 \/ Crowdloans[i].call = "refund" /\ ToRefund(i) = {}
              /\ PayTarget(i)
         ELSE Dispatch(i)
    /\ Crowdloans' = [Crowdloans EXCEPT ![i].finalized = TRUE]
    /\ UNCHANGED <<now, NextCrowdloanId>>

\* The three updates are the creator's.
update_min_contribution(i, new_min_contribution) ==
    /\ Exists(i)
    /\ ~Crowdloans[i].finalized
    /\ new_min_contribution >= AbsoluteMinimumContribution
    /\ Crowdloans' = [Crowdloans EXCEPT ![i].min_contribution = new_min_contribution]
    /\ UNCHANGED <<now, NextCrowdloanId, Contributions, balance, funds>>

\* Mutant: the end of a finalized crowdloan can be moved.
update_end_any(i, new_end) ==
    /\ Exists(i)
    /\ ensure_valid_end(new_end)
    /\ Crowdloans' = [Crowdloans EXCEPT ![i].end = new_end]
    /\ UNCHANGED <<now, NextCrowdloanId, Contributions, balance, funds>>

update_end(i, new_end) ==
    /\ Exists(i)
    /\ ~Crowdloans[i].finalized
    /\ ensure_valid_end(new_end)
    /\ Crowdloans' = [Crowdloans EXCEPT ![i].end = new_end]
    /\ UNCHANGED <<now, NextCrowdloanId, Contributions, balance, funds>>

update_cap(i, new_cap) ==
    /\ Exists(i)
    /\ ~Crowdloans[i].finalized
    /\ new_cap >= Crowdloans[i].raised
    /\ Crowdloans' = [Crowdloans EXCEPT ![i].cap = new_cap]
    /\ UNCHANGED <<now, NextCrowdloanId, Contributions, balance, funds>>

NextBlock ==
    /\ now < MaxBlock
    /\ now' = now + 1
    /\ UNCHANGED <<NextCrowdloanId, Crowdloans, Contributions, balance, funds>>

Creates ==
    \E who \in Accounts, deposit, min, cap \in Amounts, end \in 0..MaxBlock + 1,
       call \in Calls, target \in Accounts \cup {NoAccount} :
       create(who, deposit, min, cap, end, call, target)

CallsOn(i) ==
    \/ \E who \in Accounts, offer \in Amounts : contribute(who, i, offer)
    \/ \E who \in Accounts : withdraw(who, i)
    \/ finalize(i)
    \/ refund(i)
    \/ dissolve(i)
    \/ \E min \in Amounts : update_min_contribution(i, min)
    \/ \E end \in 0..MaxBlock + 1 : update_end(i, end)
    \/ \E cap \in Amounts : update_cap(i, cap)

Next == Creates \/ (\E i \in CrowdloanIds : CallsOn(i)) \/ NextBlock

Spec == Init /\ [][Next]_vars

\* Somebody, it need not be the creator, keeps calling refund, and blocks keep
\* coming.
FairSpec ==
    /\ Spec
    /\ WF_vars(NextBlock)
    /\ \A i \in CrowdloanIds : WF_vars(refund(i))

-----------------------------------------------------------------------------
\* What is promised.

\* The types of the pallet's storage.
TypeOK ==
    /\ now \in 0..MaxBlock
    /\ NextCrowdloanId \in Nat
    /\ DOMAIN Crowdloans \subseteq CrowdloanIds
    /\ Crowdloans \in [DOMAIN Crowdloans -> CrowdloanInfo]
    /\ Contributions \in [CrowdloanIds -> [Accounts -> Nat]]
    /\ balance \in [Accounts -> Nat]
    /\ funds \in [CrowdloanIds -> Nat]

Live(i) == Exists(i) /\ ~Crowdloans[i].finalized

\* Until a crowdloan is finalized its funds account holds exactly what the
\* record says was raised; a crowdloan that does not exist holds nothing.
FundsMatchRaised ==
    \A i \in CrowdloanIds :
        /\ Live(i) => funds[i] = Crowdloans[i].raised
        /\ ~Exists(i) => funds[i] = 0

\* Until a crowdloan is finalized, what was raised is the sum of what is
\* recorded for the contributors and never exceeds the cap: withdraw, refund
\* and dissolve can return every contribution.  None is left behind when the
\* crowdloan is dissolved.
RaisedIsContributed ==
    \A i \in CrowdloanIds :
        /\ Live(i) => /\ Crowdloans[i].raised = Total(i, Accounts)
                      /\ Crowdloans[i].raised <= Crowdloans[i].cap
        /\ ~Exists(i) => Contributors(i) = {}

\* The creator's deposit stays in a crowdloan until it is finalized or
\* dissolved, whatever is withdrawn or refunded in between.
DepositKept ==
    \A i \in CrowdloanIds : Live(i) =>
        /\ Contributions[i][Crowdloans[i].creator] >= Crowdloans[i].deposit
        /\ Crowdloans[i].deposit > 0

\* contributors_count, which bounds the work of refunding, is the number of
\* entries of Contributions and stays within MaxContributors.
CountIsExact ==
    \A i \in CrowdloanIds : Live(i) =>
        /\ Crowdloans[i].contributors_count = Cardinality(Contributors(i))
        /\ Crowdloans[i].contributors_count <= MaxContributors

\* The pallet's books agree: funds account, record and contributions of every
\* crowdloan, each written by a different part of contribute, withdraw, refund,
\* dissolve and finalize.
BooksAgree == TypeOK /\ FundsMatchRaised /\ DepositKept /\ CountIsExact

\* A finalized crowdloan is over: although contribute does not look at the
\* finalized flag, no call changes the record, the recorded contributions or
\* the funds of a finalized crowdloan again.
FinalizedForever ==
    [][\A i \in CrowdloanIds : Exists(i) /\ Crowdloans[i].finalized =>
          /\ Exists(i)' /\ Crowdloans'[i] = Crowdloans[i]
          /\ Contributions'[i] = Contributions[i]
          /\ funds'[i] = funds[i]]_vars

\* What an account owns: its balance and its shares of unfinalized crowdloans.
Shares(a) == [i \in CrowdloanIds |-> IF Live(i) THEN Contributions[i][a] ELSE 0]
Wealth(a) == balance[a] + SumFunctionOnSet(Shares(a), CrowdloanIds)

\* What a step may cost an account that is left with balance left: nothing, or,
\* when its balance is used up, less than the existential deposit.
IsDust(left, lost) == lost = 0 \/ (left = 0 /\ lost \in 1..ExistentialDeposit - 1)

\* Nobody gains or loses by creating, contributing, withdrawing, refunding or
\* dissolving, whoever makes the call, but for the dust of an account that
\* spends its balance down: only finalizing moves wealth.
OnlyFinalizeMovesWealth ==
    [][(\A i \in CrowdloanIds : Live(i) => ~(Exists(i)' /\ Crowdloans'[i].finalized))
          => \A a \in Accounts : IsDust(balance'[a], Wealth(a) - Wealth(a)')]_vars

\* The documented use of refund: once a crowdloan has ended, repeated calls of
\* refund return everyone's contribution but the creator's, unless it is
\* finalized, dissolved or given a new end meanwhile.
RefundCompletes ==
    \A i \in CrowdloanIds :
        (Live(i) /\ now >= Crowdloans[i].end)
            ~> \/ ~Live(i)
               \/ now < Crowdloans[i].end
               \/ Contributors(i) \subseteq {Crowdloans[i].creator}
=============================================================================
