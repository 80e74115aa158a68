--------------------------- MODULE MCWeightCommits ---------------------------
(***************************************************************************)
(* WeightCommits for TLC.  A behaviour is of one of two kinds, chosen      *)
(* first: a few calls of every kind at any blocks, or any number of        *)
(* commits and reveals of both kinds while neurons and settings stay.      *)
(***************************************************************************)
EXTENDS WeightCommits, TLC

CONSTANTS
    MaxCalls,   \* bound on the calls of a behaviour of the first kind
    FewBlocks   \* bound on its blocks

ASSUME MCWeightCommitsAssumption == Payloads # {}

VARIABLES kind, calls

MCvars == <<vars, kind, calls>>

\* Hotkeys are interchangeable.
Symm == Permutations(Hotkeys)

MCInit ==
    /\ Init
    /\ kind \in {"few", "stable"}
    /\ calls = 0
    /\ kind = "stable" => CommitRevealWeightsEnabled /\ Tempo # 0

FewCalls ==
    /\ kind = "few" /\ Next
    /\ calls' = calls + (IF block' = block THEN 1 ELSE 0)
    /\ calls' <= MaxCalls /\ block' <= FewBlocks
    /\ UNCHANGED kind

\* The payloads do not matter here.
StableSteps ==
    /\ kind = "stable"
    /\ LET p == CHOOSE q \in Payloads : TRUE IN
       \/ \E h \in Hotkeys : do_commit_weights(h, p) \/ do_reveal_weights(h, p) \/ do_commit_crv3_weights(h, p)
       \/ block_step
    /\ UNCHANGED <<kind, calls>>

MCSpec == MCInit /\ [][FewCalls \/ StableSteps]_MCvars

\* The queues of commits are in order and within their limit, whatever moves
\* them, and a commit whose epoch has come can be revealed; while neurons and
\* settings stay, the stored reveal blocks are the accepted ones, commits are
\* a rate limit apart and no encrypted commit outstays its epoch (weights.rs,
\* reveal_crv3_commits).
CommitsSound ==
    /\ TypeOK /\ QueuesOrdered /\ RevealableNow
    /\ kind = "stable" => WindowsAgree /\ CommitsSpaced /\ CRV3NotLate

\* While neurons and settings stay, the chain tries an encrypted commit at the
\* epoch one reveal period after it, and at no other (reveal_crv3_commits).
EncryptedRevealsOnTime == [][kind = "stable" => CRV3OnTime]_MCvars
=============================================================================
