------------------------------ MODULE Governance ------------------------------
(***************************************************************************)
(* The Triumvirate proposes motions (pallet-collective), the Senate votes  *)
(* on them through pallet-subtensor, and Root closes them.  The Senate is  *)
(* filled with the root network's hotkeys of highest stake.  Both          *)
(* membership pallets are external.                                        *)
(***************************************************************************)
EXTENDS Integers, FiniteSets, Sequences, SequencesExt

CONSTANTS
    GovHotkeys,         \* hotkeys, as integers in account order
    GovOwner,           \* the coldkey that owns each hotkey
    Triumvirs,          \* accounts that may sit in the Triumvirate
    Motions,            \* hashes of the calls that may be proposed
    SenateMaxMembers,
    CouncilMaxProposals,
    CouncilMotionDuration,
    MotionDurations,    \* the durations proposers ask for
    NoPrime,            \* the absence of a prime member
    GovSenate,          \* the Senate to start with
    GovStakes,          \* the stakes on the root network, by hotkey
    MaxMotions,         \* bound on ProposalCount
    MaxGovBlock         \* bound on the block number

ASSUME GovernanceAssumption ==
    /\ GovHotkeys \subseteq Nat
    /\ GovOwner \in [GovHotkeys -> GovHotkeys]
    /\ NoPrime \notin Triumvirs \cup GovHotkeys

VARIABLE gov

(* ProposalOf has the key set of Voting.  Senate and Members are sorted lists
   without duplicates in the code.  cast, executed, orphans and a motion's
   electorate are history: the standing vote of each hotkey on each motion,
   the motions executed, the hotkeys that Root took from the Senate without a
   vote removal, and the seats when the motion was proposed. *)
GovInitial ==
    {[Proposals |-> <<>>, Voting |-> <<>>, ProposalCount |-> 0,
      Members |-> Triumvirs, Prime |-> NoPrime, Senate |-> GovSenate, RootUids |-> GovHotkeys,
      Stake |-> stake, block |-> 1, cast |-> {}, executed |-> {}, orphans |-> {}] :
        stake \in GovStakes}

-----------------------------------------------------------------------------
(* pallet-collective. *)

is_member(who) == who \in gov.Members

can_propose(who) == is_member(who)

get_count(G) == Cardinality(G.Senate)

Open(G) == DOMAIN G.Voting

remove_proposal(G, h) ==
    [G EXCEPT !.Proposals = SelectSeq(@, LAMBDA p : p # h),
              !.Voting = [p \in Open(G) \ {h} |-> G.Voting[p]]]

do_disapprove_proposal(G, h) == remove_proposal(G, h)

(* The call runs with the origin Members(yes, seats); its effect is outside
   this module. *)
do_approve_proposal(G, h, yes, seats) ==
    [remove_proposal(G, h) EXCEPT
        !.executed = @ \cup {[index |-> G.Voting[h].index, yes |-> yes, seats |-> seats,
                              ayes |-> G.Voting[h].ayes, prime |-> G.Prime,
                              electorate |-> G.Voting[h].electorate]}]

do_propose_proposed(threshold, h, duration) ==
    /\ h \notin Open(gov)
    /\ Len(gov.Proposals) < CouncilMaxProposals
    /\ gov.ProposalCount < MaxMotions
    /\ gov' = [gov EXCEPT
                 !.Proposals = Append(@, h),
                 !.ProposalCount = @ + 1,
                 !.Voting = [p \in Open(gov) \cup {h} |->
                                IF p # h THEN gov.Voting[p]
                                ELSE [index |-> gov.ProposalCount, threshold |-> threshold,
                                      ayes |-> {}, nays |-> {}, end |-> gov.block + duration,
                                      electorate |-> get_count(gov)]]]

\* Mutant: half of the seats are enough.
propose_by_half(who, h, duration) ==
    /\ can_propose(who)
    /\ duration >= CouncilMotionDuration
    /\ do_propose_proposed(get_count(gov) \div 2, h, duration)

propose(who, h, duration) ==
    /\ can_propose(who)
    /\ duration >= CouncilMotionDuration
    /\ do_propose_proposed(get_count(gov) \div 2 + 1, h, duration)

(* The vote of who on motion h once it is recorded. *)
Recorded(v, who, approve) ==
    [v EXCEPT !.ayes = IF approve THEN @ \cup {who} ELSE @ \ {who},
              !.nays = IF approve THEN @ \ {who} ELSE @ \cup {who}]

\* Mutant: the index is not compared.
do_vote_any_index(who, h, index, approve) ==
    /\ h \in Open(gov)
    /\ who \notin (IF approve THEN gov.Voting[h].ayes ELSE gov.Voting[h].nays)
    /\ gov' = [gov EXCEPT !.Voting[h] = Recorded(@, who, approve),
                          !.cast = {c \in @ : c.who # who \/ c.index # index}
                                     \cup {[who |-> who, index |-> index, approve |-> approve]}]

do_vote(who, h, index, approve) ==
    /\ h \in Open(gov)
    /\ gov.Voting[h].index = index
    /\ who \notin (IF approve THEN gov.Voting[h].ayes ELSE gov.Voting[h].nays)
    /\ gov' = [gov EXCEPT !.Voting[h] = Recorded(@, who, approve),
                          !.cast = {c \in @ : c.who # who \/ c.index # index}
                                     \cup {[who |-> who, index |-> index, approve |-> approve]}]

default_vote(prime_vote) == prime_vote

(* Votes are enough for approval or rejection, or else the motion must have
   ended, and the prime member's vote stands for every abstention. *)
do_close(h, index) ==
    /\ h \in Open(gov)
    /\ gov.Voting[h].index = index
    /\ LET voting == gov.Voting[h]
           yes == Cardinality(voting.ayes)
           no == Cardinality(voting.nays)
           seats == get_count(gov)
           absent == IF seats > yes + no THEN seats - (yes + no) ELSE 0
           yes_at_end == IF default_vote(gov.Prime \in voting.ayes) THEN yes + absent ELSE yes
       IN  IF yes >= voting.threshold
           THEN gov' = do_approve_proposal(gov, h, yes, seats)
           ELSE IF (IF seats > no THEN seats - no ELSE 0) < voting.threshold
           THEN gov' = do_disapprove_proposal(gov, h)
           ELSE /\ gov.block >= voting.end
                /\ gov' = IF yes_at_end >= voting.threshold
                          THEN do_approve_proposal(gov, h, yes_at_end, seats)
                          ELSE do_disapprove_proposal(gov, h)

close(h, index) == do_close(h, index)

disapprove_proposal(h) ==
    /\ h \in Open(gov)
    /\ gov' = do_disapprove_proposal(gov, h)

Dropped(G, gone) ==
    [G EXCEPT !.Voting = [h \in Open(G) |->
                             [G.Voting[h] EXCEPT !.ayes = @ \ gone, !.nays = @ \ gone]],
              !.cast = {c \in @ : c.who \notin gone}]

remove_votes(G, who) == Dropped(G, {who})

change_members_sorted(G, outgoing, new) ==
    [Dropped(G, outgoing) EXCEPT !.Members = new, !.Prime = NoPrime]

set_prime(G, prime) == [G EXCEPT !.Prime = prime]

(* TriumvirateMembers: Root adds, removes or makes prime; a prime member that
   stays is prime again after the change. *)
TriumvirateMembers(G, new) ==
    LET changed == change_members_sorted(G, G.Members \ new, new)
    IN  IF G.Prime \in new THEN set_prime(changed, G.Prime) ELSE changed

ChangeTriumvirate(who) ==
    gov' = TriumvirateMembers(gov, IF is_member(who) THEN gov.Members \ {who}
                                   ELSE gov.Members \cup {who})

SetPrimeTriumvir(who) ==
    /\ is_member(who)
    /\ gov' = set_prime(gov, who)

-----------------------------------------------------------------------------
(* The Senate. *)

is_senate_member(h) == h \in gov.Senate

add_member(G, h) == [G EXCEPT !.Senate = @ \cup {h}, !.orphans = @ \ {h}]

\* Mutant: the votes of the old member stay.
swap_member_keeps_votes(G, rm, add) ==
    [G EXCEPT !.Senate = (@ \ {rm}) \cup {add}, !.orphans = @ \ {add}]

swap_member(G, rm, add) ==
    [remove_votes(G, rm) EXCEPT !.Senate = (@ \ {rm}) \cup {add}, !.orphans = @ \ {add}]

(* Last of the members sorted by falling stake; the sort is stable. *)
LowestMember(G) ==
    CHOOSE m \in G.Senate :
        \A o \in G.Senate : \/ G.Stake[m] < G.Stake[o]
                            \/ G.Stake[m] = G.Stake[o] /\ m >= o

\* Mutant: the newcomer may have the stake of the lowest member.
join_senate_if_eligible_on_tie(hotkey) ==
    IF Cardinality(gov.Senate) < SenateMaxMembers THEN add_member(gov, hotkey)
    ELSE IF gov.Stake[LowestMember(gov)] <= gov.Stake[hotkey]
    THEN swap_member(gov, LowestMember(gov), hotkey)
    ELSE gov

join_senate_if_eligible(hotkey) ==
    IF Cardinality(gov.Senate) < SenateMaxMembers THEN add_member(gov, hotkey)
    ELSE IF gov.Stake[LowestMember(gov)] < gov.Stake[hotkey]
    THEN swap_member(gov, LowestMember(gov), hotkey)
    ELSE gov

do_adjust_senate(hotkey) ==
    /\ hotkey \in gov.RootUids
    /\ ~ is_senate_member(hotkey)
    /\ gov' = join_senate_if_eligible(hotkey)
    /\ hotkey \in gov'.Senate

do_vote_root(coldkey, hotkey, h, index, approve) ==
    /\ GovOwner[hotkey] = coldkey
    /\ is_senate_member(hotkey)
    /\ do_vote(hotkey, h, index, approve)

(* A hotkey swap hands on the seat and the root registration, not the votes. *)
swap_senate_member(old, new) ==
    /\ old # new /\ old \in gov.RootUids /\ new \notin gov.RootUids
    /\ is_senate_member(old) => ~ is_senate_member(new)
    /\ LET moved == IF is_senate_member(old) THEN swap_member(gov, old, new) ELSE gov
       IN  gov' = [moved EXCEPT !.RootUids = (@ \ {old}) \cup {new}]

(* SenateMembers::remove_member, by Root: nothing watches the Senate's
   membership, so the votes of the removed hotkey stay. *)
RemoveSenator(h) ==
    /\ is_senate_member(h)
    /\ gov' = [gov EXCEPT !.Senate = @ \ {h}, !.orphans = @ \cup {h}]

(* Replacement of a hotkey on the full root network leaves the Senate alone. *)
LeaveRoot(h) ==
    /\ h \in gov.RootUids
    /\ gov' = [gov EXCEPT !.RootUids = @ \ {h}]

NextGovBlock ==
    /\ gov.block < MaxGovBlock
    /\ gov' = [gov EXCEPT !.block = @ + 1]

GovNext ==
    \/ \E who \in Triumvirs, h \in Motions, d \in MotionDurations : propose(who, h, d)
    \/ \E c, k \in GovHotkeys, h \in Motions, i \in 0..MaxMotions, a \in BOOLEAN :
          do_vote_root(c, k, h, i, a)
    \/ \E h \in Motions, i \in 0..MaxMotions : close(h, i)
    \/ \E h \in Motions : disapprove_proposal(h)
    \/ \E who \in Triumvirs : ChangeTriumvirate(who) \/ SetPrimeTriumvir(who)
    \/ \E k \in GovHotkeys : do_adjust_senate(k) \/ RemoveSenator(k) \/ LeaveRoot(k)
    \/ \E old, new \in GovHotkeys : swap_senate_member(old, new)
    \/ NextGovBlock

GovSpec == gov \in GovInitial /\ [][GovNext]_gov

-----------------------------------------------------------------------------
(* A vote counted for an open motion is the voter's standing vote on that
   very motion: no vote survives on a motion proposed again under the same
   hash, and no hotkey is counted on both sides (Voting, do_vote,
   remove_proposal of pallet-collective). *)
VotesBelongToMotion ==
    \A h \in Open(gov) : LET v == gov.Voting[h] IN
        /\ \A w \in v.ayes : [who |-> w, index |-> v.index, approve |-> TRUE] \in gov.cast
        /\ \A w \in v.nays : [who |-> w, index |-> v.index, approve |-> FALSE] \in gov.cast

(* A motion executes at most once, and only when the hotkeys that said aye are
   more than half of the Senate that was seated when it was proposed, unless
   the prime member was one of them (threshold of propose, do_close). *)
ExecutedByMajority ==
    /\ \A e \in gov.executed : \/ 2 * Cardinality(e.ayes) > e.electorate
                               \/ e.prime \in e.ayes
    /\ \A e, f \in gov.executed : e.index = f.index => e = f
    /\ \A e \in gov.executed, h \in Open(gov) : e.index # gov.Voting[h].index

(* Every counted vote is that of a sitting senator, except of one that Root
   removed from the Senate directly: a seat lost to a higher stake or handed
   to another hotkey takes its votes along (ManageSenateMembers::swap_member). *)
LostSeatsLoseVotes ==
    \A h \in Open(gov) : gov.Voting[h].ayes \cup gov.Voting[h].nays
                            \subseteq gov.Senate \cup gov.orphans

(* A senator gives way only to a hotkey of strictly higher stake, and only the
   senator of lowest stake does, unless the seat follows a hotkey swap or Root
   acts (join_senate_if_eligible). *)
SeatsGoToHigherStake ==
    \A out \in gov.Senate \ gov'.Senate, in \in gov'.Senate \ gov.Senate :
      gov.RootUids = gov'.RootUids =>
         /\ gov.Stake[out] < gov.Stake[in]
         /\ \A m \in gov.Senate : gov.Stake[out] <= gov.Stake[m]
=============================================================================
