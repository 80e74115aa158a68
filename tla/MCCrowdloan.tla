----------------------------- MODULE MCCrowdloan -----------------------------
(***************************************************************************)
(* Crowdloan for TLC.  A behaviour is of one of two kinds, chosen first:   *)
(* one crowdloan with every account, call and target, or two crowdloans    *)
(* side by side that draw on the same accounts, small and without a call.  *)
(***************************************************************************)
EXTENDS Crowdloan

CONSTANT Outsider   \* the account that has no part in two crowdloans

VARIABLE kind

MCvars == <<vars, kind>>

MCInit == Init /\ kind \in {"one", "two"}

OneCrowdloan ==
    /\ kind = "one"
    /\ \/ NextCrowdloanId = 0 /\ Creates
       \/ CallsOn(0)
       \/ NextBlock
    /\ UNCHANGED kind

\* Of two accounts, with the smallest deposit and contribution, which stay.
SmallCreates ==
    \E who \in Accounts \ {Outsider}, cap \in Amounts, end \in 0..MaxBlock + 1 :
       create(who, MinimumDeposit, AbsoluteMinimumContribution, cap, end, "none", NoAccount)

TwoCrowdloans ==
    /\ kind = "two"
    /\ \/ SmallCreates
       \/ \E i \in CrowdloanIds : CallsOn(i)
       \/ NextBlock
    /\ balance'[Outsider] = balance[Outsider]
    /\ \A i \in DOMAIN Crowdloans \cap DOMAIN Crowdloans' :
          /\ Crowdloans'[i].min_contribution = Crowdloans[i].min_contribution
          /\ Crowdloans'[i].cap = Crowdloans[i].cap
    /\ UNCHANGED kind

\* Somebody, it need not be the creator, keeps calling refund, and blocks keep
\* coming.
MCSpec ==
    /\ MCInit /\ [][OneCrowdloan \/ TwoCrowdloans]_MCvars
    /\ WF_MCvars(NextBlock /\ UNCHANGED kind)
    /\ \A i \in CrowdloanIds : WF_MCvars(refund(i) /\ UNCHANGED kind)
=============================================================================
