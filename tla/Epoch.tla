-------------------------------- MODULE Epoch --------------------------------
(***************************************************************************)
(* The Yuma consensus epoch of one subnet (epoch/run_epoch.rs): validators *)
(* set weights, neurons are replaced, stake moves, and at the end of each  *)
(* tempo the epoch turns weights, stake and bonds into incentives,         *)
(* dividends, permits and new bonds.  Uids start at 1.  The chain runs     *)
(* epoch; epoch_dense is the version its tests compare it with.            *)
(***************************************************************************)
EXTENDS EpochMath

CONSTANTS
    EpochUids,          \* number of neurons
    EpochNetuid, EpochTempo, ActivityCutoff, MinStake, MaxAllowedValidators,
    MinAllowedWeights,
    RaoEmission,
    AlphaFloorDivisor,  \* 40: alpha is at least U16Max / 40
    SigmoidDivisor,     \* 100: the unit of the sigmoid steepness
    AverageUnit,        \* 1000000: the unit of the bonds moving average
    EpochParameters,    \* records of hyperparameters to start with
    EpochStakes,        \* stake vectors
    WeightRows,         \* rows of pairs <<uid, value>> given to set_weights
    AlphaPairs,         \* pairs for do_set_alpha_values
    MaxEpochBlock

VARIABLE yuma

Zeros == [i \in 1 .. EpochUids |-> 0]

Empty == [i \in 1 .. EpochUids |-> <<>>]

(* A subnet whose neurons registered in block 0. *)
FreshSubnet(p, s, block) ==
    [block |-> block, params |-> p, stake |-> s, Weights |-> Empty, Bonds |-> Empty,
     LastUpdate |-> Zeros, BlockAtRegistration |-> Zeros,
     ValidatorPermit |-> [i \in 1 .. EpochUids |-> FALSE], result |-> <<>>]

-----------------------------------------------------------------------------
(* What both versions read. *)

inactive(N) == Each(N.LastUpdate, LAMBDA updated : updated + ActivityCutoff < N.block)

last_tempo(N) == Most(N.block - EpochTempo, 0)

get_float_kappa(N) == u16_proportion_to_fixed(N.params.kappa)

get_float_bonds_penalty(N) == u16_proportion_to_fixed(N.params.bonds_penalty)

(* Stake below the threshold counts as none. *)
NormalizedStake(N) ==
    inplace_normalize(Each(N.stake, LAMBDA s : IF s < MinStake THEN 0 ELSE Fixed(s)))

new_validator_permits(stake) == is_topk_nonzero(stake, MaxAllowedValidators)

validator_forbids(N) == Each(N.ValidatorPermit, LAMBDA b : ~ b)

ActiveStake(N, stake) ==
    inplace_normalize(inplace_mask_vector(validator_forbids(N),
                                          inplace_mask_vector(inactive(N), stake)))

get_weights_sparse(N) == EachEntry(N.Weights, LAMBDA i, j, v : Fixed(v))

get_weights(N) == Each(get_weights_sparse(N), LAMBDA row : Dense(row, EpochUids))

get_bonds_sparse(N) == EachEntry(N.Bonds, LAMBDA i, j, v : Fixed(v))

get_bonds(N) == Each(get_bonds_sparse(N), LAMBDA row : Dense(row, EpochUids))

get_bonds_sparse_fixed_proportion(N) ==
    EachEntry(get_bonds_sparse(N), LAMBDA i, j, v : fixed_to_fixed_u16_proportion(v))

get_bonds_fixed_proportion(N) ==
    EachCell(get_bonds(N), LAMBDA i, j, v : fixed_to_fixed_u16_proportion(v))

-----------------------------------------------------------------------------
(* Moving average of the bonds. *)

compute_disabled_liquid_alpha(N) ==
    One - safe_div(Fixed(N.params.bonds_moving_average), Fixed(AverageUnit))

alpha_sigmoid(consensus, weight, bond, alpha_low, alpha_high, steepness) ==
    LET diff_buy == clamp_value(weight - consensus, 0, One)
        diff_sell == clamp_value(bond - weight, 0, One)
        combined_diff == IF weight >= bond THEN diff_buy ELSE diff_sell
        exponent == mul(- safe_div(steepness, Fixed(SigmoidDivisor)),
                        combined_diff - (One \div 2))
        sigmoid == safe_div(One, One + Exp(exponent))
    IN  clamp_value(alpha_low + mul(sigmoid, alpha_high - alpha_low), alpha_low, alpha_high)

AlphaFor(N, consensus, weight, bond) ==
    alpha_sigmoid(consensus, weight, bond,
                  u16_proportion_to_fixed(N.params.alpha_low),
                  u16_proportion_to_fixed(N.params.alpha_high), Fixed(N.params.steepness))

compute_liquid_alpha_values(N, weights, bonds, consensus) ==
    EachCell(weights, LAMBDA i, j, w : AlphaFor(N, consensus[j], w, bonds[i][j]))

(* The cursor that looks a column up stops at the first entry not before it:
   an entry of an unsorted row can be missed. *)
Peek(row, j) ==
    LET rest == SelectSeq(row, LAMBDA e : e[1] >= j)
    IN  IF rest # <<>> /\ rest[1][1] = j THEN rest[1][2] ELSE 0

compute_liquid_alpha_values_sparse(N, weights, bonds, consensus) ==
    Vec([i \in DOMAIN weights |->
        Vec([j \in DOMAIN consensus |->
            AlphaFor(N, consensus[j], Peek(weights[i], j), Peek(bonds[i], j))])])

LiquidAlphaApplies(N, consensus) ==
    N.params.liquid_alpha /\ \E j \in DOMAIN consensus : consensus[j] # 0

compute_bonds(N, weights, bonds, consensus) ==
    IF LiquidAlphaApplies(N, consensus)
    THEN mat_ema_alpha(weights, bonds, compute_liquid_alpha_values(N, weights, bonds, consensus))
    ELSE mat_ema(weights, bonds, compute_disabled_liquid_alpha(N))

compute_bonds_sparse(N, weights, bonds, consensus) ==
    IF LiquidAlphaApplies(N, consensus)
    THEN mat_ema_alpha_sparse(weights, bonds,
                              compute_liquid_alpha_values_sparse(N, weights, bonds, consensus))
    ELSE mat_ema_sparse(weights, bonds, compute_disabled_liquid_alpha(N))

compute_ema_bonds_normal(N, bonds_delta, bonds) ==
    mat_ema(bonds_delta, bonds, compute_disabled_liquid_alpha(N))

compute_ema_bonds_normal_sparse(N, bonds_delta, bonds) ==
    mat_ema_sparse(bonds_delta, bonds, compute_disabled_liquid_alpha(N))

-----------------------------------------------------------------------------
(* From weights to incentives. *)

\* Mutant: weights on a neuron registered since they were set still count.
SparseWeights_outdated(N) ==
    LET permitted == mask_rows_sparse(validator_forbids(N), get_weights_sparse(N))
        diag == IF N.params.owner_uid # 0
                THEN mask_diag_sparse_except_index(permitted, N.params.owner_uid)
                ELSE mask_diag_sparse(permitted)
    IN  inplace_row_normalize_sparse(diag)

(* Owner uid 0: the owner's hotkey is not registered. *)
SparseWeights(N) ==
    LET permitted == mask_rows_sparse(validator_forbids(N), get_weights_sparse(N))
        diag == IF N.params.owner_uid # 0
                THEN mask_diag_sparse_except_index(permitted, N.params.owner_uid)
                ELSE mask_diag_sparse(permitted)
    IN  inplace_row_normalize_sparse(
            vec_mask_sparse_matrix(diag, N.LastUpdate, N.BlockAtRegistration))

(* The diagonal is masked a second time, the owner's entry included. *)
DenseWeights(N) ==
    LET outdated == [i \in 1 .. EpochUids |->
                        [j \in 1 .. EpochUids |-> N.LastUpdate[i] <= N.BlockAtRegistration[j]]]
        permitted == inplace_mask_rows(validator_forbids(N), get_weights(N))
        diag == IF N.params.owner_uid # 0
                THEN inplace_mask_diag_except_index(permitted, N.params.owner_uid)
                ELSE inplace_mask_diag(permitted)
    IN  inplace_row_normalize(inplace_mask_matrix(outdated, inplace_mask_diag(diag)))

SparseConsensus(N, weights, active_stake) ==
    LET Ranked(consensus, clipped_weights, ranks) ==
            [consensus |-> consensus, weights |-> weights, clipped_weights |-> clipped_weights,
             validator_trust |-> row_sum_sparse(clipped_weights),
             trust |-> vecdiv(ranks, matmul_sparse(weights, active_stake, EpochUids)),
             incentive |-> inplace_normalize(ranks)]
        Clipped(consensus, clipped_weights) ==
            Ranked(consensus, clipped_weights, matmul_sparse(clipped_weights, active_stake, EpochUids))
        Agreed(consensus) == Clipped(consensus, col_clip_sparse(weights, consensus))
    IN  Agreed(weighted_median_col_sparse(active_stake, weights, EpochUids, get_float_kappa(N)))

DenseConsensus(N, weights, active_stake) ==
    LET Ranked(consensus, clipped_weights, ranks) ==
            [consensus |-> consensus, weights |-> weights, clipped_weights |-> clipped_weights,
             validator_trust |-> row_sum(clipped_weights),
             trust |-> vecdiv(ranks, matmul(weights, active_stake)),
             incentive |-> inplace_normalize(ranks)]
        Clipped(consensus, clipped_weights) ==
            Ranked(consensus, clipped_weights, matmul(clipped_weights, active_stake))
        Agreed(consensus) == Clipped(consensus, inplace_col_clip(weights, consensus))
    IN  Agreed(weighted_median_col(active_stake, weights, get_float_kappa(N)))

-----------------------------------------------------------------------------
(* From weights and bonds to dividends. *)

SparseBonds(N, C, active_stake) ==
    LET weights_for_bonds == interpolate_sparse(C.weights, C.clipped_weights, EpochUids,
                                                get_float_bonds_penalty(N))
        Masked(bonds) == scalar_vec_mask_sparse_matrix(bonds, last_tempo(N), N.BlockAtRegistration)
        Normalized(bonds) == inplace_col_normalize_sparse(bonds, EpochUids)
        Yuma3(bonds) ==
            [ema_bonds |-> bonds,
             dividends |-> inplace_normalize(
                 vec_mul(row_sum_sparse(mat_vec_mul_sparse(Normalized(bonds), C.incentive)),
                         active_stake))]
        Yuma(ema_bonds) ==
            [ema_bonds |-> inplace_col_max_upscale_sparse(ema_bonds, EpochUids),
             dividends |-> inplace_normalize(matmul_transpose_sparse(ema_bonds, C.incentive))]
    IN  IF N.params.yuma3
        THEN Yuma3(compute_bonds_sparse(N, weights_for_bonds,
                       Masked(get_bonds_sparse_fixed_proportion(N)), C.consensus))
        ELSE Yuma(Normalized(compute_ema_bonds_normal_sparse(N,
                       Normalized(row_hadamard_sparse(weights_for_bonds, active_stake)),
                       Normalized(Masked(get_bonds_sparse(N))))))

DenseBonds(N, C, active_stake) ==
    LET weights_for_bonds == interpolate(C.weights, C.clipped_weights, get_float_bonds_penalty(N))
        Masked(bonds) == inplace_mask_cols(
                            Each(N.BlockAtRegistration, LAMBDA r : last_tempo(N) <= r), bonds)
        Yuma3(bonds) ==
            [ema_bonds |-> bonds,
             dividends |-> inplace_normalize(
                 vec_mul(row_sum(mat_vec_mul(inplace_col_normalize(bonds), C.incentive)), active_stake))]
        Yuma(ema_bonds) ==
            [ema_bonds |-> inplace_col_max_upscale(ema_bonds),
             dividends |-> inplace_normalize(matmul_transpose(ema_bonds, C.incentive))]
    IN  IF N.params.yuma3
        THEN Yuma3(compute_bonds(N, weights_for_bonds, Masked(get_bonds_fixed_proportion(N)),
                       C.consensus))
        ELSE Yuma(inplace_col_normalize(compute_ema_bonds_normal(N,
                       inplace_col_normalize(row_hadamard(weights_for_bonds, active_stake)),
                       inplace_col_normalize(Masked(get_bonds(N))))))

-----------------------------------------------------------------------------
(* Emission, and what is stored. *)

Rao(x) == (x * RaoEmission) \div One

\* Mutant: the sum to normalize with leaves the dividends out.
Emissions_overpaid(stake, active_stake, incentive, dividends) ==
    [server |-> Each(inplace_normalize_using_sum(incentive, sum(incentive)), Rao),
     validator |-> Each(inplace_normalize_using_sum(dividends, sum(incentive)), Rao),
     combined |-> inplace_normalize([i \in DOMAIN incentive |-> incentive[i] + dividends[i]])]

(* With no emission to share, validators are paid by stake. *)
Emissions(stake, active_stake, incentive, dividends) ==
    LET combined == [i \in DOMAIN incentive |-> incentive[i] + dividends[i]]
        emission_sum == sum(combined)
        fallback == IF is_zero(active_stake) THEN stake ELSE active_stake
        validator == IF emission_sum = 0 THEN fallback
                     ELSE inplace_normalize_using_sum(dividends, emission_sum)
    IN  [server |-> Each(inplace_normalize_using_sum(incentive, emission_sum), Rao),
         validator |-> Each(validator, Rao),
         combined |-> IF emission_sum = 0 THEN fallback ELSE inplace_normalize(combined)]

ValuesOf(N, stake, C, B, E) ==
    [StakeWeight |-> vec_fixed_proportions_to_u16(stake),
     Active |-> Each(inactive(N), LAMBDA b : ~ b),
     Emission |-> Each(E.combined, Rao),
     Rank |-> vec_fixed_proportions_to_u16(C.incentive),
     Trust |-> vec_fixed_proportions_to_u16(C.trust),
     Consensus |-> vec_fixed_proportions_to_u16(C.consensus),
     Incentive |-> vec_fixed_proportions_to_u16(C.incentive),
     Dividends |-> vec_fixed_proportions_to_u16(B.dividends),
     PruningScores |-> vec_max_upscale_to_u16(E.combined),
     ValidatorTrust |-> vec_fixed_proportions_to_u16(C.validator_trust),
     server_emission |-> E.server, validator_emission |-> E.validator]

\* Mutant: bonds are cleared only when the old permit is kept.
WithBonds_keeps(N, permits, rows) ==
    [i \in DOMAIN N.Bonds |-> IF permits[i] THEN rows[i] ELSE N.Bonds[i]]

(* Bonds are set for permitted uids and cleared for those that lose the permit. *)
WithBonds(N, permits, rows) ==
    [i \in DOMAIN N.Bonds |->
        IF permits[i] THEN rows[i] ELSE IF N.ValidatorPermit[i] THEN <<>> ELSE N.Bonds[i]]

Stored(N, stake, C, B, E, rows) ==
    [N EXCEPT !.result = ValuesOf(N, stake, C, B, E),
              !.ValidatorPermit = new_validator_permits(stake),
              !.Bonds = WithBonds(N, new_validator_permits(stake), rows)]

SparseRows(bonds) == EachEntry(bonds, LAMBDA i, j, v : fixed_proportion_to_u16(v))

DenseRows(bonds) == Each(bonds, LAMBDA row : [j \in DOMAIN row |-> <<j, fixed_proportion_to_u16(row[j])>>])

(* The epoch in its stages: stake, consensus, bonds, emission. *)
epoch(N) ==
    LET Paid(stake, active_stake, C, B) ==
            Stored(N, stake, C, B, Emissions(stake, active_stake, C.incentive, B.dividends),
                   SparseRows(B.ema_bonds))
        Bonded(stake, active_stake, C) == Paid(stake, active_stake, C, SparseBonds(N, C, active_stake))
        Agreed(stake, active_stake) ==
            Bonded(stake, active_stake, SparseConsensus(N, SparseWeights(N), active_stake))
        Staked(stake) == Agreed(stake, ActiveStake(N, stake))
    IN  Staked(NormalizedStake(N))

epoch_dense(N) ==
    LET Paid(stake, active_stake, C, B) ==
            Stored(N, stake, C, B, Emissions(stake, active_stake, C.incentive, B.dividends),
                   DenseRows(B.ema_bonds))
        Bonded(stake, active_stake, C) == Paid(stake, active_stake, C, DenseBonds(N, C, active_stake))
        Agreed(stake, active_stake) ==
            Bonded(stake, active_stake, DenseConsensus(N, DenseWeights(N), active_stake))
        Staked(stake) == Agreed(stake, ActiveStake(N, stake))
    IN  Staked(NormalizedStake(N))

-----------------------------------------------------------------------------
should_run_epoch(block) == (block + EpochNetuid + 1) % (EpochTempo + 1) = 0

(* The state after the first epoch, which gives the first permits. *)
EpochInitial ==
    LET first == CHOOSE block \in 1 .. EpochTempo + 1 : should_run_epoch(block)
    IN  {epoch(FreshSubnet(p, s, first)) : p \in EpochParameters, s \in EpochStakes}

is_self_weight(uid, row) == Len(row) = 1 /\ row[1][1] = uid

check_validator_permit(uid, row) == is_self_weight(uid, row) \/ yuma.ValidatorPermit[uid]

check_length(uid, row) ==
    is_self_weight(uid, row) \/ Len(row) >= Least(EpochUids, MinAllowedWeights)

has_duplicate_uids(row) == \E k, l \in DOMAIN row : k < l /\ row[k][1] = row[l][1]

contains_invalid_uids(row) == \E k \in DOMAIN row : row[k][1] \notin 1 .. EpochUids

max_weight_limited(uid, values, row) ==
    \/ is_self_weight(uid, row)
    \/ yuma.params.max_weight_limit = U16MaxValue
    \/ check_vec_max_limited(values, yuma.params.max_weight_limit)

(* Without commit-reveal; the rate limit and the version key are in WeightCommits. *)
do_set_weights(uid, row) ==
    LET values == vec_u16_max_upscale_to_u16(Each(row, LAMBDA e : e[2]))
    IN  /\ Len(row) <= EpochUids
        /\ yuma.stake[uid] >= MinStake
        /\ check_validator_permit(uid, row)
        /\ ~ has_duplicate_uids(row)
        /\ ~ contains_invalid_uids(row)
        /\ check_length(uid, row)
        /\ max_weight_limited(uid, values, row)
        /\ yuma' = [yuma EXCEPT !.Weights[uid] = Vec([k \in DOMAIN row |-> <<row[k][1], values[k]>>]),
                                !.LastUpdate[uid] = yuma.block]

clear_neuron(N, uid) ==
    [N EXCEPT !.Bonds[uid] = <<>>,
              !.result.Emission[uid] = 0, !.result.Trust[uid] = 0,
              !.result.Consensus[uid] = 0, !.result.Incentive[uid] = 0,
              !.result.Dividends[uid] = 0]

(* A new hotkey under the uid: weights, last update and permit stay. *)
replace_neuron(uid) ==
    /\ uid # yuma.params.owner_uid
    /\ yuma' = clear_neuron([yuma EXCEPT !.BlockAtRegistration[uid] = yuma.block], uid)

MoveStake(s) == s # yuma.stake /\ yuma' = [yuma EXCEPT !.stake = s]

do_reset_bonds(uid) ==
    /\ yuma.params.bonds_reset
    /\ yuma' = [yuma EXCEPT !.Bonds = KeepEntries(@, LAMBDA i, j, v : j # uid)]

do_set_alpha_values(alpha_low, alpha_high) ==
    /\ yuma.params.liquid_alpha
    /\ alpha_high >= U16MaxValue \div AlphaFloorDivisor
    /\ alpha_low >= U16MaxValue \div AlphaFloorDivisor /\ alpha_low <= alpha_high
    /\ yuma' = [yuma EXCEPT !.params.alpha_low = alpha_low, !.params.alpha_high = alpha_high]

EpochBlock ==
    /\ yuma.block < MaxEpochBlock
    /\ \E N \in {[yuma EXCEPT !.block = @ + 1]} :
          yuma' = IF should_run_epoch(N.block) THEN epoch(N) ELSE N

EpochNext ==
    \/ EpochBlock
    \/ \E uid \in 1 .. EpochUids :
          \/ \E row \in WeightRows : do_set_weights(uid, row)
          \/ replace_neuron(uid)
          \/ do_reset_bonds(uid)
    \/ \E s \in EpochStakes : MoveStake(s)
    \/ \E p \in AlphaPairs : do_set_alpha_values(p[1], p[2])

EpochSpec == yuma \in EpochInitial /\ [][EpochNext]_yuma

-----------------------------------------------------------------------------
(* A step in which the epoch ran. *)
EpochRan == yuma'.block # yuma.block /\ should_run_epoch(yuma'.block)

DenseRow(row) == [j \in 1 .. EpochUids |-> At(row, j)]

(* The sparse epoch the chain runs computes what the dense one the tests
   compare it with does, except in the two places where the code differs: the
   dense one drops the owner's weight on itself (epoch_dense masks the diagonal
   twice) and, with liquid alpha, keeps a decayed bond where there is no weight
   any more and reads rows in any order (compute_liquid_alpha_values_sparse,
   mat_ema_alpha_sparse). *)
DenseAndSparseAgree ==
    LET selfish == yuma.params.owner_uid # 0
                     /\ At(yuma.Weights[yuma.params.owner_uid], yuma.params.owner_uid) # 0
        clipped == SparseConsensus(yuma, SparseWeights(yuma),
                                   ActiveStake(yuma, NormalizedStake(yuma))).clipped_weights
        faded == \E i, j \in 1 .. EpochUids : At(yuma.Bonds[i], j) # 0 /\ At(clipped[i], j) = 0
        unsorted == \E i \in 1 .. EpochUids : \E k, l \in DOMAIN yuma.Weights[i] :
                       k < l /\ yuma.Weights[i][k][1] > yuma.Weights[i][l][1]
        liquid == yuma.params.yuma3 /\ yuma.params.liquid_alpha
    IN  selfish \/ (liquid /\ (faded \/ unsorted)) \/
        \E sparse \in {epoch(yuma)}, dense \in {epoch_dense(yuma)} :
            /\ sparse.result = dense.result
            /\ Each(sparse.Bonds, DenseRow) = Each(dense.Bonds, DenseRow)

(* An epoch pays no more than the emission it was given, rounding included
   (inplace_normalize_using_sum, the fallback to stake). *)
EpochPaysAtMostEmission ==
    sum(yuma.result.server_emission) + sum(yuma.result.validator_emission) <= RaoEmission

(* Only neurons with a validator permit hold bonds, although the permits change
   at every epoch and only the rows of some uids are written (epoch, clear_neuron). *)
BondsNeedAPermit ==
    \A i \in 1 .. EpochUids : yuma.Bonds[i] # <<>> => yuma.ValidatorPermit[i]

(* A neuron earns an incentive only from a weight set after it registered, by an
   active validator with stake (vec_mask_sparse_matrix, mask_rows_sparse). *)
IncentiveComesFromLiveWeights ==
    EpochRan =>
      \A j \in 1 .. EpochUids : yuma'.result.Incentive[j] > 0 =>
         \E i \in 1 .. EpochUids :
             /\ yuma.ValidatorPermit[i] /\ yuma.stake[i] >= MinStake
             /\ yuma.LastUpdate[i] > yuma.BlockAtRegistration[j]
             /\ yuma.LastUpdate[i] + ActivityCutoff >= yuma'.block
             /\ At(yuma.Weights[i], j) > 0

(* The permits of an epoch go to the highest stakes, at most as many as allowed
   and none to a neuron without stake (is_topk_nonzero). *)
PermitsGoToTopStake ==
    EpochRan =>
      LET permits == {i \in 1 .. EpochUids : yuma'.ValidatorPermit[i]}
          staked == {i \in 1 .. EpochUids : yuma.stake[i] >= MinStake /\ yuma.stake[i] > 0}
      IN  /\ permits \subseteq staked
          /\ Cardinality(permits) = Least(Cardinality(staked), MaxAllowedValidators)
          /\ \A i \in permits, j \in staked \ permits : yuma.stake[i] >= yuma.stake[j]
=============================================================================
