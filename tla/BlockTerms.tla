----------------------------- MODULE BlockTerms -----------------------------
(***************************************************************************)
(* What every block recomputes: the price and the difficulty of            *)
(* registration from the demand of the last interval (block_step.rs), the  *)
(* emission from how much has been issued (block_emission.rs), for TAO     *)
(* and for the alpha of each subnet, and each subnet's moving price        *)
(* (stake_utils.rs).                                                       *)
(*                                                                         *)
(* A subnet is one that was just created, whose bounds on the difficulty   *)
(* are both u64::MAX, or an established one; root and the owner move the   *)
(* bounds at any time, and nothing relates a minimum to a maximum.         *)
(***************************************************************************)
EXTENDS BlockEmission, FiniteSets, Sequences, TLC
LOCAL INSTANCE Functions
LOCAL INSTANCE FiniteSetsExt

CONSTANTS
    TermNets,                  \* subnets
    Issuances,                 \* bound: pairs of TAO and alpha issued before
    adjustment_interval, target_registrations, adjustment_alpha,   \* alpha in grains
    InitialBurn, InitialMinBurn, InitialMaxBurn, InitialDifficulty,
    U64Max,
    TermBounds,                \* bound: the values root and owners set
    EMAPriceHalvingBlocks, SubnetMovingAlpha,                      \* in grains
    Prices,                    \* prices a pool may show, in grains
    MaxTermBlock               \* bound

VARIABLE terms

Lesser(a, b) == IF a < b THEN a ELSE b
----------------------------------------------------------------------------
(***************************************************************************)
(* Emission.                                                               *)
(***************************************************************************)
(* The same function stores what it returns, whatever it was asked about; at
   the supply it returns before that. *)
StoreEmission(t, issuance) ==
    IF issuance >= TotalSupply THEN t
    ELSE [t EXCEPT !.blockEmission = get_block_emission_for_issuance(issuance)]

(* A subnet's part of the TAO, by moving price. *)
TaoShare(t, emitting, tao, n) ==
    LET total == FoldSet(LAMBDA m, sum : sum + t.moving[m], 0, emitting)
    IN IF total = 0 THEN 0 ELSE (fx(tao) * t.moving[n]) \div total

(* It is emitted only if the subnet allows registrations of some kind. *)
tao_in(t, emitting, tao, n) == IF n \in t.closed THEN 0 ELSE TaoShare(t, emitting, tao, n)

(* Alpha for that TAO at the pool's price, no more than the block's. *)
alpha_in(price, tao, alpha_emission) ==
    IF price = 0 THEN fx(alpha_emission) ELSE Lesser(fx_div(tao, price), fx(alpha_emission))
----------------------------------------------------------------------------
(***************************************************************************)
(* Moving price.                                                           *)
(***************************************************************************)
(* Mutant: the price is not capped at one. *)
update_moving_price_uncapped(t, n) ==
    LET since == t.block - (IF t.firstEmission[n] = 0 THEN 0 ELSE t.firstEmission[n] - 1)
        alpha == fx_mul(SubnetMovingAlpha, fx_div(fx(since), fx(since + EMAPriceHalvingBlocks)))
    IN [t EXCEPT !.moving[n] = fx_mul(alpha, t.price[n]) + fx_mul(Grain - alpha, @)]

(* Moves toward the pool's price, at most one, the faster the longer the
   subnet has been emitted to. *)
update_moving_price(t, n) ==
    LET since == t.block - (IF t.firstEmission[n] = 0 THEN 0 ELSE t.firstEmission[n] - 1)
        alpha == fx_mul(SubnetMovingAlpha, fx_div(fx(since), fx(since + EMAPriceHalvingBlocks)))
    IN [t EXCEPT !.moving[n] = fx_mul(alpha, Lesser(t.price[n], Grain)) + fx_mul(Grain - alpha, @)]
----------------------------------------------------------------------------
(***************************************************************************)
(* Terms of registration.                                                  *)
(***************************************************************************)
(* The old value and the one demand asks for, mixed by adjustment_alpha. *)
NextValue(current, registrations, target) ==
    LET updated == fx_div(fx(current) * (registrations + target), fx(target + target))
    IN fx_mul(adjustment_alpha, fx(current)) + fx_mul(Grain - adjustment_alpha, updated)

(* Kept between the bounds in force, the maximum first. *)
KeptWithin(next, min, max) ==
    IF next >= fx(max) THEN max ELSE IF next <= fx(min) THEN min ELSE to_num(next)

upgraded_difficulty(t, n, registrations, target) ==
    KeptWithin(NextValue(t.difficulty[n], registrations, target), t.minDifficulty[n], t.maxDifficulty[n])

(* Mutant: the lower bound is forgotten. *)
upgraded_burn_no_floor(t, n, registrations, target) ==
    KeptWithin(NextValue(t.burn[n], registrations, target), 0, t.maxBurn[n])

upgraded_burn(t, n, registrations, target) ==
    KeptWithin(NextValue(t.burn[n], registrations, target), t.minBurn[n], t.maxBurn[n])

(* The values of subnet n that move; history: they are settled. *)
Upgraded(t, n, total, burnToo, powToo) ==
    [t EXCEPT
       !.burn[n] = IF burnToo THEN upgraded_burn(t, n, total, target_registrations) ELSE @,
       !.difficulty[n] = IF powToo THEN upgraded_difficulty(t, n, total, target_registrations) ELSE @,
       !.settled = @ \cup (IF burnToo THEN {<<n, "burn">>} ELSE {})
                     \cup (IF powToo THEN {<<n, "difficulty">>} ELSE {})]

(* Mutant: few registrations cheapen what most of them used. *)
AdjustTerms_most_used(t, n) ==
    Upgraded(t, n, t.pow[n] + t.burned[n], t.burned[n] >= t.pow[n], t.pow[n] >= t.burned[n])

(* Cases A to F: many registrations raise the price of the kind most of them
   were, few lower the price of the other kind; if even, both move. *)
AdjustTerms(t, n) ==
    LET total == t.pow[n] + t.burned[n]
        many == total > target_registrations
        burnToo == IF many THEN t.burned[n] >= t.pow[n] ELSE t.pow[n] >= t.burned[n]
        powToo == IF many THEN t.pow[n] >= t.burned[n] ELSE t.burned[n] >= t.pow[n]
    IN Upgraded(t, n, total, burnToo, powToo)

adjust_registration_terms_for_network(t, n) ==
    IF t.block - t.lastAdjustment[n] >= adjustment_interval
    THEN [AdjustTerms(t, n) EXCEPT !.lastAdjustment[n] = t.block, !.pow[n] = 0, !.burned[n] = 0]
    ELSE t
----------------------------------------------------------------------------
(* What init_new_network leaves, and a subnet whose difficulty was opened. *)
FreshTerms == [minDifficulty |-> U64Max, maxDifficulty |-> U64Max]
OpenTerms == [minDifficulty |-> InitialDifficulty - 2, maxDifficulty |-> 2 * InitialDifficulty]

BlockTermsInitial ==
    {[block |-> 1, issuance |-> issued[1], blockEmission |-> DefaultBlockEmission,
      alphaIssued |-> [n \in TermNets |-> issued[2]],
      burn |-> [n \in TermNets |-> InitialBurn],
      minBurn |-> [n \in TermNets |-> InitialMinBurn], maxBurn |-> [n \in TermNets |-> InitialMaxBurn],
      difficulty |-> [n \in TermNets |-> InitialDifficulty],
      minDifficulty |-> [n \in TermNets |-> bounds.minDifficulty],
      maxDifficulty |-> [n \in TermNets |-> bounds.maxDifficulty],
      pow |-> [n \in TermNets |-> 0], burned |-> [n \in TermNets |-> 0],
      lastAdjustment |-> [n \in TermNets |-> 0],
      firstEmission |-> [n \in TermNets |-> 0], closed |-> {},
      price |-> [n \in TermNets |-> Grain], moving |-> [n \in TermNets |-> 0],
      settled |-> {}, was |-> <<>>] : issued \in Issuances, bounds \in {FreshTerms, OpenTerms}}

BlockTermsInit == terms \in BlockTermsInitial

(* block_step: terms, then TAO's emission, then the coinbase, which asks for
   the emission of every subnet's alpha and moves the prices last. *)
BlockStep ==
    /\ terms.block < MaxTermBlock
    /\ LET emitting == {n \in TermNets : terms.firstEmission[n] > 0}
           adjusted == FoldSet(LAMBDA n, t : adjust_registration_terms_for_network(t, n),
                               [terms EXCEPT !.block = @ + 1], TermNets)
           tao == get_block_emission_for_issuance(adjusted.issuance)
           alpha(n) == get_block_emission_for_issuance(adjusted.alphaIssued[n])
           stored == FoldSet(LAMBDA n, t : StoreEmission(t, adjusted.alphaIssued[n]),
                             StoreEmission(adjusted, adjusted.issuance), emitting)
           share(n) == tao_in(adjusted, emitting, tao, n)
           paid == [stored EXCEPT
                      !.issuance = FoldSet(LAMBDA n, sum : sum + to_num(share(n)), @, emitting),
                      !.alphaIssued = [n \in TermNets |-> IF n \in emitting
                          THEN @[n] + alpha(n)
                                 + to_num(alpha_in(terms.price[n], TaoShare(adjusted, emitting, tao, n), alpha(n)))
                          ELSE @[n]]]
       IN terms' = [FoldSet(LAMBDA n, t : update_moving_price(t, n), paid, emitting)
                      EXCEPT !.was = [w \in {"block", "burn", "difficulty", "pow", "burned", "moving", "price", "issuance",
                                             "minBurn", "maxBurn", "minDifficulty", "maxDifficulty"} |-> terms[w]]]

(* A registration by work or by burning, at most three times the target. *)
Register(n, kind) ==
    /\ terms.pow[n] + terms.burned[n] < 3 * target_registrations
    /\ terms' = [terms EXCEPT ![kind][n] = @ + 1, !.was = <<>>]

Trade(n, p) ==
    /\ terms.price[n] # p
    /\ terms' = [terms EXCEPT !.price[n] = p, !.was = <<>>]

start_subnet(n) ==
    /\ terms.firstEmission[n] = 0
    /\ terms' = [terms EXCEPT !.firstEmission[n] = terms.block + 1, !.was = <<>>]

(* Root, and for the highest difficulty the owner, set any value. *)
SetTerm(n, term, settles, value) ==
    /\ terms[term][n] # value
    /\ terms' = [terms EXCEPT ![term][n] = value, !.settled = @ \ {<<n, settles>>}, !.was = <<>>]

SetBurnBound(n, value) ==
    \E bound \in {"minBurn", "maxBurn"} : SetTerm(n, bound, "burn", value)

SetDifficultyBound(n, value) ==
    \E bound \in {"minDifficulty", "maxDifficulty"} : SetTerm(n, bound, "difficulty", value)

SetDifficulty(n, value) == SetTerm(n, "difficulty", "difficulty", value)

(* Registration of both kinds is closed, or one of them is opened again. *)
SetRegistrations(n) ==
    terms' = [terms EXCEPT !.closed = (@ \ {n}) \cup ({n} \ @), !.was = <<>>]

BlockTermsNext ==
    \/ BlockStep
    \/ \E n \in TermNets, kind \in {"pow", "burned"} : Register(n, kind)
    \/ \E n \in TermNets, p \in Prices : Trade(n, p)
    \/ \E n \in TermNets : start_subnet(n) \/ SetRegistrations(n)
    \/ \E n \in TermNets, value \in TermBounds :
          SetBurnBound(n, value) \/ SetDifficultyBound(n, value) \/ SetDifficulty(n, value)

BlockTermsSpec == BlockTermsInit /\ [][BlockTermsNext]_terms
----------------------------------------------------------------------------
(***************************************************************************)
(* Properties.                                                             *)
(***************************************************************************)
Stepped == terms.was # <<>>

(* No more TAO is ever issued than the total supply, nor alpha of a subnet,
   which is emitted twice a block, whatever was issued before: the halvings
   end the emission before the check for it has to. *)
SupplyNeverExceeded ==
    terms.issuance <= TotalSupply /\ \A n \in TermNets : terms.alphaIssued[n] <= TotalSupply

(* From its first adjustment on a value keeps within its bounds, until root or
   the owner moves one of them or the value itself; with the minimum above the
   maximum it is one of the two.  (Before that it need not: the difficulty of
   a new subnet is below the minimum, and a bound does not move the value.) *)
Settled(n, kind, value, min, max) ==
    <<n, kind>> \in terms.settled => value \in (min .. max) \cup (IF min > max THEN {min, max} ELSE {})
TermsWithinBounds ==
    \A n \in TermNets :
        /\ Settled(n, "burn", terms.burn[n], terms.minBurn[n], terms.maxBurn[n])
        /\ Settled(n, "difficulty", terms.difficulty[n], terms.minDifficulty[n], terms.maxDifficulty[n])

(* Of a value within its bounds: after an interval with more registrations
   than the target it did not become cheaper, and after one with fewer not
   dearer; the kind of registration that fewest used is never made dearer, nor
   the one that most used cheaper. *)
FollowsDemand(old, new, min, max, total, mine, others) ==
    old \in min .. max =>
        /\ total > target_registrations => new >= old /\ (others > mine => new = old)
        /\ total <= target_registrations => new <= old /\ (others < mine => new = old)
DemandSetsTerms ==
    Stepped => \A n \in TermNets :
        LET was == terms.was
            total == was.pow[n] + was.burned[n]
        IN /\ FollowsDemand(was.burn[n], terms.burn[n], was.minBurn[n], was.maxBurn[n],
                            total, was.burned[n], was.pow[n])
           /\ FollowsDemand(was.difficulty[n], terms.difficulty[n], was.minDifficulty[n], was.maxDifficulty[n],
                            total, was.pow[n], was.burned[n])

(* The moving price moves toward the pool's price, or toward one if that is
   higher, and never past it; rounding takes at most two grains. *)
MovingPriceBetween ==
    Stepped => \A n \in TermNets :
        LET aim == Lesser(terms.was.price[n], Grain)
            old == terms.was.moving[n]
        IN IF old <= aim THEN terms.moving[n] \in (old - 2) .. aim
           ELSE terms.moving[n] \in (aim - 2) .. old

(* BlockEmission, "global_block_emission" in lib.rs, is TAO's emission of the
   block just stepped. *)
GlobalBlockEmission ==
    Stepped => terms.blockEmission = get_block_emission_for_issuance(terms.was.issuance)
=============================================================================
