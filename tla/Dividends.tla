------------------------------ MODULE Dividends ------------------------------
(***************************************************************************)
(* Who owns a validator's stake and who is paid for it: hotkeys that lend  *)
(* part of their stake to child hotkeys, the stake weights Yuma consensus  *)
(* uses (staking/stake_utils.rs), and the split of an epoch's dividends    *)
(* between a child, its parents and the stakers on root                    *)
(* (coinbase/run_coinbase.rs).                                             *)
(*                                                                         *)
(* One subnet and root.  U96F32 numbers are integers in units of 1/Unit,   *)
(* every product and quotient rounded down as the code's are; u64::MAX,    *)
(* of which child proportions are fractions, is Whole, u16::MAX is Full.   *)
(* Children and parents are two lists, as in ChildKeys and ParentKeys; how *)
(* long a change of children waits, and what a key swap does to the lists, *)
(* is in ChildKeys, and a start may be what such a swap leaves.            *)
(***************************************************************************)
EXTENDS Integers, FiniteSets, Sequences, TLC
LOCAL INSTANCE Functions
LOCAL INSTANCE SequencesExt

CONSTANTS
    Kin,              \* hotkeys
    KinOwner,         \* their coldkeys
    Whole, Full,      \* the largest u64, the largest u16
    Unit,             \* fractions of a U96F32
    KinStarts,        \* initial stakes and families: [alpha, root, children, parents]
    OwnerKin,         \* the hotkey of the subnet's owner
    KinTake,          \* the delegate take of the hotkeys
    KinOrder,         \* the hotkeys by uid; a uid may have none
    Proportions,      \* proportions a parent may give
    Takes,            \* childkey takes
    Pays,             \* epochs: <<dividends, pending alpha, pending TAO, owner's cut>>
    TaoWeight,        \* the weight of TAO on root, out of Whole
    MaxKinSteps

VARIABLE kin

(* Of the values of a function, a list included. *)
Sum(f) == FoldFunction(+, 0, f)

times(a, b) == (a * b) \div Unit

over(a, b) == IF b = 0 THEN 0 ELSE (a * Unit) \div b

minus(a, b) == IF a > b THEN a - b ELSE 0

float(n) == n * Unit

floor(x) == x \div Unit

get_tao_weight == over(float(TaoWeight), float(Whole))

normalized(proportion) == over(float(proportion), float(Whole))

get_children(h) == kin.children[h]

get_parents(h) == kin.parents[h]
----------------------------------------------------------------------------
(***************************************************************************)
(* Stake weights.                                                          *)
(***************************************************************************)
(* What the entries of a list are given of the stakes of(entry). *)
Given(list, of(_)) == Sum([i \in DOMAIN list |-> times(float(of(list[i][2])), normalized(list[i][1]))])

(* Own stake, less what is lent to children, plus what parents lend. *)
Inherited(stake, h) ==
    floor(minus(float(stake[h]), Given(get_children(h), LAMBDA c : stake[h]))
            + Given(get_parents(h), LAMBDA p : stake[p]))

(* Mutant: what a parent lends is read off the child's own stake. *)
get_inherited_for_hotkey_on_subnet_own(h) ==
    floor(minus(float(kin.alpha[h]), Given(get_children(h), LAMBDA c : kin.alpha[h]))
            + Given(get_parents(h), LAMBDA p : kin.alpha[h]))

get_inherited_for_hotkey_on_subnet(h) == Inherited(kin.alpha, h)

get_tao_inherited_for_hotkey_on_subnet(h) == Inherited(kin.root, h)

(* Mutant: TAO counts in full. *)
get_stake_weights_for_hotkey_on_subnet_unweighted(h) ==
    LET alpha_stake == float(get_inherited_for_hotkey_on_subnet(h))
        tao_stake == float(get_tao_inherited_for_hotkey_on_subnet(h))
    IN [total |-> alpha_stake + tao_stake, alpha |-> alpha_stake, tao |-> tao_stake]

get_stake_weights_for_hotkey_on_subnet(h) ==
    LET alpha_stake == float(get_inherited_for_hotkey_on_subnet(h))
        tao_stake == float(get_tao_inherited_for_hotkey_on_subnet(h))
    IN [total |-> alpha_stake + times(tao_stake, get_tao_weight), alpha |-> alpha_stake, tao |-> tao_stake]

(* The same for the neurons in order of uid; a uid without a key has none. *)
get_stake_weights_for_kin ==
    LET alpha_stake == [u \in DOMAIN KinOrder |->
            IF KinOrder[u] \in Kin THEN float(get_inherited_for_hotkey_on_subnet(KinOrder[u])) ELSE 0]
        tao_stake == [u \in DOMAIN KinOrder |->
            IF KinOrder[u] \in Kin THEN float(get_tao_inherited_for_hotkey_on_subnet(KinOrder[u])) ELSE 0]
    IN [total |-> [u \in DOMAIN KinOrder |-> alpha_stake[u] + times(tao_stake[u], get_tao_weight)],
        alpha |-> alpha_stake, tao |-> tao_stake]

(* Validators with a permit and more stake than the threshold, by stake;
   the hotkeys come in any order and those of equal stake stay in it. *)
get_validators(permits, threshold) ==
    LET stake(u) == get_stake_weights_for_hotkey_on_subnet(KinOrder[u]).total
        chosen == {u \in permits : KinOrder[u] \in Kin /\ stake(u) > threshold}
    IN {s \in [1 .. Cardinality(chosen) -> chosen] :
          /\ Range(s) = chosen
          /\ \A i \in 1 .. (Len(s) - 1) : stake(s[i]) <= stake(s[i + 1])}
----------------------------------------------------------------------------
(***************************************************************************)
(* Dividends.                                                              *)
(***************************************************************************)
(* What a hotkey keeps for itself, root stake weighted. *)
get_self_contribution(h) ==
    LET remaining == FoldLeft(LAMBDA r, c : minus(r, normalized(c[1])), Unit, get_children(h))
    IN floor(times(float(kin.alpha[h]), remaining)
               + times(times(float(kin.root[h]), remaining), get_tao_weight))

ParentContribution(p) ==
    times(float(kin.alpha[p[2]]), normalized(p[1]))
      + times(times(float(kin.root[p[2]]), normalized(p[1])), get_tao_weight)

(* Mutant: the take is added to the child and stays with the parent. *)
get_parent_child_dividends_distribution_take_twice(h, dividends) ==
    LET parents == get_parents(h)
        contribution == [i \in DOMAIN parents |-> ParentContribution(parents[i])]
        total == float(get_self_contribution(h)) + Sum(contribution)
        emission == [i \in DOMAIN parents |-> times(float(dividends), over(contribution[i], total))]
        take == [i \in DOMAIN parents |->
            IF KinOwner[parents[i][2]] = KinOwner[h] THEN 0
            ELSE times(over(float(kin.take[h]), float(Full)), emission[i])]
    IN Append([i \in DOMAIN parents |-> <<parents[i][2], floor(emission[i])>>],
              <<h, floor(minus(float(dividends), Sum(emission)) + Sum(take))>>)

(* Each parent has its share of the dividends, less the child's take unless
   both have one owner; the child has the rest and the takes. *)
get_parent_child_dividends_distribution(h, dividends) ==
    LET parents == get_parents(h)
        contribution == [i \in DOMAIN parents |-> ParentContribution(parents[i])]
        total == float(get_self_contribution(h)) + Sum(contribution)
        emission == [i \in DOMAIN parents |-> times(float(dividends), over(contribution[i], total))]
        take == [i \in DOMAIN parents |->
            IF KinOwner[parents[i][2]] = KinOwner[h] THEN 0
            ELSE times(over(float(kin.take[h]), float(Full)), emission[i])]
    IN Append([i \in DOMAIN parents |-> <<parents[i][2], floor(minus(emission[i], take[i]))>>],
              <<h, floor(minus(float(dividends), Sum(emission)) + Sum(take))>>)

(* hotkey_emission: hotkey -> [incentive, dividend]. *)
calculate_dividends_and_incentives(hotkey_emission) ==
    LET tuples == FlattenSeq(SetToSeq({
            get_parent_child_dividends_distribution(h, hotkey_emission[h].dividend) : h \in DOMAIN hotkey_emission}))
        Of(k) == SelectSeq(tuples, LAMBDA t : t[1] = k)
    IN [incentives |-> [h \in DOMAIN hotkey_emission |-> hotkey_emission[h].incentive],
        dividends |-> [k \in {tuples[i][1] : i \in DOMAIN tuples} |->
            Sum([i \in DOMAIN Of(k) |-> float(Of(k)[i][2])])]]

get_stake_map(hotkeys) == [h \in hotkeys |-> [alpha |-> kin.alpha[h], root |-> kin.root[h]]]

(* Mutant: the root shares are of the alpha total. *)
calculate_dividend_distribution_one_total(pending_alpha, pending_tao, stake_map, dividends) ==
    LET keys == DOMAIN dividends \cap DOMAIN stake_map
        root_alpha(h) == times(float(stake_map[h].root), get_tao_weight)
        root_divs == [h \in keys |->
            times(dividends[h], over(root_alpha(h), float(stake_map[h].alpha) + root_alpha(h)))]
        alpha_divs == [h \in keys |-> minus(dividends[h], root_divs[h])]
    IN [alpha |-> [h \in keys |-> times(float(pending_alpha), over(alpha_divs[h], Sum(alpha_divs)))],
        tao |-> [h \in keys |-> times(float(pending_tao), over(root_divs[h], Sum(alpha_divs)))]]

(* A hotkey's dividends count as root's in the proportion its stake is on
   root; the pending TAO goes by those, the pending alpha by the others. *)
calculate_dividend_distribution(pending_alpha, pending_tao, stake_map, dividends) ==
    LET keys == DOMAIN dividends \cap DOMAIN stake_map
        root_alpha(h) == times(float(stake_map[h].root), get_tao_weight)
        root_divs == [h \in keys |->
            times(dividends[h], over(root_alpha(h), float(stake_map[h].alpha) + root_alpha(h)))]
        alpha_divs == [h \in keys |-> minus(dividends[h], root_divs[h])]
    IN [alpha |-> [h \in keys |-> times(float(pending_alpha), over(alpha_divs[h], Sum(alpha_divs)))],
        tao |-> [h \in keys |-> times(float(pending_tao), over(root_divs[h], Sum(root_divs)))]]

calculate_dividend_and_incentive_distribution(pending_tao, pending_alpha, hotkey_emission) ==
    LET Paid(of, split) == [incentives |-> of.incentives, alpha |-> split.alpha, tao |-> split.tao]
        Split(of) == Paid(of, calculate_dividend_distribution(pending_alpha, pending_tao,
                                  get_stake_map(DOMAIN of.dividends), of.dividends))
    IN Split(calculate_dividends_and_incentives(hotkey_emission))
----------------------------------------------------------------------------
(***************************************************************************)
(* The network: stake moves, children are set, and an epoch pays.          *)
(***************************************************************************)
DividendsInitial ==
    {[alpha |-> s.alpha, root |-> s.root, children |-> s.children, parents |-> s.parents,
      take |-> [h \in Kin |-> 0], step |-> 0,
      paid |-> [alpha |-> 0, tao |-> 0, toAlpha |-> 0, toTao |-> 0]] : s \in KinStarts}

DividendsInit == kin \in DividendsInitial

(* The lists do_schedule_children accepts: children never take more than all
   of a parent's stake, nor does a hotkey have itself for a child. *)
Accepted(h) ==
    {SetToSeq({<<share[c], c>> : c \in {c \in Kin \ {h} : share[c] > 0}}) :
        share \in {f \in [Kin \ {h} -> Proportions \cup {0}] : Sum(f) <= Whole}}

(* A pending change comes due: the hotkey leaves the lists of its old
   children, and is appended to those of the new ones. *)
do_set_pending_children(h, children) ==
    LET Holds(list, c) == \E i \in DOMAIN list : list[i][2] = c
        Left(c) == IF Holds(kin.children[h], c) THEN SelectSeq(kin.parents[c], LAMBDA e : e[2] # h) ELSE kin.parents[c]
        mine(c) == SelectSeq(children, LAMBDA e : e[2] = c)
    IN /\ kin.children[h] # children
       /\ kin' = [kin EXCEPT
            !.children[h] = children,
            !.parents = [c \in Kin |-> Left(c) \o [i \in DOMAIN mine(c) |-> <<mine(c)[i][1], h>>]],
            !.step = @ + 1]

do_set_childkey_take(h, t) ==
    /\ kin.take[h] # t
    /\ kin' = [kin EXCEPT !.take[h] = t, !.step = @ + 1]

get_hotkey_take_float == over(float(KinTake), float(Full))

(* Mutant: the take is not taken off what the nominators get. *)
Credited_twice(divs) == floor(times(get_hotkey_take_float, divs)) + floor(divs)

(* What a hotkey and its nominators are credited of its dividends. *)
Credited(divs) ==
    LET take == times(get_hotkey_take_float, divs)
    IN floor(take) + floor(minus(divs, take))

Entry(f, k) == IF k \in DOMAIN f THEN f[k] ELSE 0

(* The owner's hotkey has the cut, and no incentive. *)
distribute_dividends_and_incentives(owner_cut, r) ==
    [alpha |-> [k \in Kin |-> (IF k = OwnerKin THEN owner_cut ELSE Entry(r.incentives, k)) + Credited(Entry(r.alpha, k))],
     root |-> [k \in Kin |-> Credited(Entry(r.tao, k))]]

(* An epoch that gave all dividends d, and as much for mining, to one hotkey;
   stake grows by the pay. *)
PayEpoch(h, d, pending_alpha, pending_tao, owner_cut) ==
    \E pay \in {distribute_dividends_and_incentives(owner_cut,
                   calculate_dividend_and_incentive_distribution(pending_tao, pending_alpha,
                       h :> [incentive |-> d, dividend |-> d]))} :
        kin' = [kin EXCEPT
          !.alpha = [k \in Kin |-> @[k] + pay.alpha[k]],
          !.root = [k \in Kin |-> @[k] + pay.root[k]],
          !.paid = [alpha |-> owner_cut + (IF h = OwnerKin THEN 0 ELSE d) + pending_alpha, tao |-> pending_tao,
                    toAlpha |-> Sum(pay.alpha), toTao |-> Sum(pay.root)],
          !.step = @ + 1]

DividendsNext ==
    /\ kin.step < MaxKinSteps
    /\ \/ \E h \in Kin : \E children \in Accepted(h) : do_set_pending_children(h, children)
       \/ \E h \in Kin, t \in Takes : do_set_childkey_take(h, t)
       \/ \E h \in Kin, p \in Pays : PayEpoch(h, p[1], p[2], p[3], p[4])

DividendsSpec == DividendsInit /\ [][DividendsNext]_kin
----------------------------------------------------------------------------
(***************************************************************************)
(* Properties.                                                             *)
(***************************************************************************)
(* The two lists are one relation, as they are until a key swap to a hotkey
   that has family. *)
FamiliesAgree ==
    \A p, c \in Kin :
        LET down == SelectSeq(kin.children[p], LAMBDA e : e[2] = c)
            up == SelectSeq(kin.parents[c], LAMBDA e : e[2] = p)
        IN [i \in DOMAIN down |-> down[i][1]] = [i \in DOMAIN up |-> up[i][1]]

(* Lending stake to children neither makes nor loses stake as long as the two
   lists agree: the inherited stakes add up to the real ones, but for less than
   one unit per hotkey.  A parent that is listed twice is counted twice. *)
InheritanceConserves ==
    LET inherited == Sum([h \in Kin |-> get_inherited_for_hotkey_on_subnet(h)])
    IN FamiliesAgree =>
         /\ inherited <= Sum(kin.alpha)
         /\ inherited + Cardinality(Kin) > Sum(kin.alpha)

(* The shares of a validator's dividends, take included, never exceed them,
   and rounding loses less than one unit for each share, whether or not the
   lists agree. *)
DividendsConserve ==
    \A h \in Kin, p \in Pays :
        LET shares == get_parent_child_dividends_distribution(h, p[1])
            total == Sum([i \in DOMAIN shares |-> shares[i][2]])
        IN /\ total <= p[1]
           /\ total + Len(shares) > p[1]

(* An epoch credits no more alpha and no more TAO than was set aside for it:
   pending emission, incentives and the owner's cut, whatever takes, families
   and roundings are (distribute_dividends_and_incentives). *)
PaysWithinPending ==
    /\ kin.paid.toAlpha <= kin.paid.alpha
    /\ kin.paid.toTao <= kin.paid.tao

(* The view and the epoch weigh hotkeys by two pieces of code; the validators
   the view lists are those the epoch's table puts above the threshold, in the
   order of that table, whether all have a permit or all but one. *)
ValidatorsByTableWeight ==
    LET table == get_stake_weights_for_kin.total
    IN \A v \in DOMAIN KinOrder \cup {0} :
         LET permits == DOMAIN KinOrder \ {v}
         IN \A s \in get_validators(permits, Unit) :
              /\ Range(s) = {u \in permits : KinOrder[u] \in Kin /\ table[u] > Unit}
              /\ \A i, j \in DOMAIN s : i < j => table[s[i]] <= table[s[j]]
=============================================================================
