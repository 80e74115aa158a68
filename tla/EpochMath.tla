------------------------------ MODULE EpochMath ------------------------------
(***************************************************************************)
(* The vector and matrix functions of the epoch (epoch/math.rs) in fixed   *)
(* point: a number x stands for x / One.  A dense matrix is a sequence of  *)
(* rows, a sparse one a sequence of rows of pairs <<column, value>>;       *)
(* indices start at 1.  No sparse row names a column twice (set_weights    *)
(* refuses it), so adding to a cell and setting it are the same.           *)
(***************************************************************************)
EXTENDS Integers, Sequences, SequencesExt, FiniteSets

CONSTANTS
    UBits,     \* bits of a u16
    Exp(_)     \* the exponential function, external

U16MaxValue == 2 ^ UBits - 1

One == 2 ^ (2 * UBits)

MaxFixed == 2 ^ (4 * UBits - 1) - 1

Sat(x) == IF x > MaxFixed THEN MaxFixed ELSE IF x < - MaxFixed - 1 THEN - MaxFixed - 1 ELSE x

Fixed(n) == Sat(n * One)

(* Multiplication rounds down, division towards zero; dividing by zero gives 0. *)
mul(x, y) == Sat((x * y) \div One)

safe_div(x, y) == IF y = 0 THEN 0 ELSE Sat((x * One) \div y)

Least(x, y) == IF x < y THEN x ELSE y

Most(x, y) == IF x < y THEN y ELSE x

round(x) == ((2 * x + One) \div (2 * One)) * One

(* The vector f, as a tuple of values rather than a function still to be applied. *)
Vec(f) == f \o <<>>

Each(x, Op(_)) == Vec([i \in DOMAIN x |-> Op(x[i])])

EachCell(m, Op(_, _, _)) == Vec([i \in DOMAIN m |-> Vec([j \in DOMAIN m[i] |-> Op(i, j, m[i][j])])])

EachEntry(m, Op(_, _, _)) ==
    Vec([i \in DOMAIN m |->
        Vec([k \in DOMAIN m[i] |-> <<m[i][k][1], Op(i, m[i][k][1], m[i][k][2])>>])])

KeepEntries(m, Test(_, _, _)) ==
    Vec([i \in DOMAIN m |-> SelectSeq(m[i], LAMBDA e : Test(i, e[1], e[2]))])

(* The value of a sparse row in a column. *)
At(row, j) == FoldLeft(LAMBDA acc, e : IF e[1] = j THEN Sat(acc + e[2]) ELSE acc, 0, row)

Dense(row, columns) == Vec([j \in 1 .. columns |-> At(row, j)])

Sparse(row) == SelectSeq(Vec([j \in DOMAIN row |-> <<j, row[j]>>]), LAMBDA e : e[2] > 0)

-----------------------------------------------------------------------------
(* Conversions. *)

fixed_to_u16(x) == Most(0, Least(x \div One, U16MaxValue))

fixed_to_fixed_u16_proportion(x) == safe_div(x, Fixed(U16MaxValue))

u16_proportion_to_fixed(x) == safe_div(Fixed(x), Fixed(U16MaxValue))

fixed_proportion_to_u16(x) == fixed_to_u16(mul(x, Fixed(U16MaxValue)))

vec_fixed_proportions_to_u16(vec) == Each(vec, fixed_proportion_to_u16)

Largest(vec) == FoldLeft(Most, vec[1], vec)

(* Above the threshold the product with U16MaxValue would not fit. *)
vec_max_upscale_to_u16(vec) ==
    IF vec = <<>> THEN <<>>
    ELSE LET val == Largest(vec)
             threshold == Fixed(2 ^ (UBits - 1))
         IN  IF val = 0 THEN Each(vec, LAMBDA e : fixed_to_u16(mul(e, Fixed(U16MaxValue))))
             ELSE IF val > threshold
             THEN Each(vec, LAMBDA e : fixed_to_u16(round(mul(e, safe_div(Fixed(U16MaxValue), val)))))
             ELSE Each(vec, LAMBDA e : fixed_to_u16(round(safe_div(mul(e, Fixed(U16MaxValue)), val))))

vec_u16_max_upscale_to_u16(vec) == vec_max_upscale_to_u16(Each(vec, Fixed))

-----------------------------------------------------------------------------
(* Vectors. *)

sum(x) == FoldLeft(LAMBDA a, b : a + b, 0, x)

is_zero(x) == sum(x) = 0

(* Position in the ascending stable sort. *)
RankOf(x, i) ==
    Cardinality({j \in DOMAIN x : x[j] < x[i] \/ (x[j] = x[i] /\ j < i)}) + 1

is_topk(x, k) == Vec([i \in DOMAIN x |-> RankOf(x, i) > Len(x) - k])

\* Mutant: with fewer entries than k, all are chosen.
is_topk_nonzero_all(x, k) == is_topk(x, k)

is_topk_nonzero(x, k) == Vec([i \in DOMAIN x |-> x[i] # 0 /\ RankOf(x, i) > Len(x) - k])

inplace_normalize_using_sum(x, x_sum) ==
    IF x_sum = 0 THEN x ELSE Each(x, LAMBDA v : safe_div(v, x_sum))

inplace_normalize(x) == inplace_normalize_using_sum(x, sum(x))

check_vec_max_limited(vec, max_limit) ==
    vec # <<>> => Largest(inplace_normalize(Each(vec, Fixed))) <= u16_proportion_to_fixed(max_limit)

vecdiv(x, y) == Vec([i \in DOMAIN x |-> safe_div(x[i], y[i])])

inplace_mask_vector(mask, x) == Vec([i \in DOMAIN x |-> IF mask[i] THEN 0 ELSE x[i]])

vec_mul(a, b) == Vec([i \in DOMAIN a |-> mul(a[i], b[i])])

clamp_value(value, low, high) == Most(Least(value, high), low)

-----------------------------------------------------------------------------
(* Dense matrices. *)

row_sum(m) == Each(m, sum)

col_sum(m) == Vec([j \in DOMAIN m[1] |-> FoldLeft(LAMBDA acc, row : Sat(acc + row[j]), 0, m)])

inplace_row_normalize(m) == Each(m, inplace_normalize)

inplace_col_normalize(m) ==
    LET col_sums == col_sum(m)
    IN  EachCell(m, LAMBDA i, j, v : IF col_sums[j] = 0 THEN v ELSE safe_div(v, col_sums[j]))

col_max(m) == Vec([j \in DOMAIN m[1] |-> FoldLeft(LAMBDA acc, row : Most(acc, row[j]), 0, m)])

inplace_col_max_upscale(m) ==
    LET col_maxes == col_max(m)
    IN  EachCell(m, LAMBDA i, j, v : IF col_maxes[j] = 0 THEN v ELSE safe_div(v, col_maxes[j]))

inplace_mask_matrix(mask, m) == EachCell(m, LAMBDA i, j, v : IF mask[i][j] THEN 0 ELSE v)

inplace_mask_rows(mask, m) == EachCell(m, LAMBDA i, j, v : IF mask[i] THEN 0 ELSE v)

inplace_mask_cols(mask, m) == EachCell(m, LAMBDA i, j, v : IF mask[j] THEN 0 ELSE v)

inplace_mask_diag(m) == EachCell(m, LAMBDA i, j, v : IF i = j THEN 0 ELSE v)

inplace_mask_diag_except_index(m, except_index) ==
    EachCell(m, LAMBDA i, j, v : IF i = j /\ i # except_index THEN 0 ELSE v)

row_hadamard(m, vector) == EachCell(m, LAMBDA i, j, v : mul(vector[i], v))

matmul(m, vector) == col_sum(row_hadamard(m, vector))

matmul_transpose(m, vector) ==
    Each(m, LAMBDA row : FoldLeft(LAMBDA acc, v : Sat(acc + v), 0, vec_mul(row, vector)))

inplace_col_clip(m, col_threshold) == EachCell(m, LAMBDA i, j, v : Least(col_threshold[j], v))

inplace_clip(m, threshold, upper, lower) ==
    EachCell(m, LAMBDA i, j, v : IF v >= threshold THEN upper ELSE lower)

interpolate(mat1, mat2, ratio) ==
    IF ratio = 0 THEN mat1
    ELSE IF ratio = One THEN mat2
    ELSE EachCell(mat1, LAMBDA i, j, v : v + mul(ratio, mat2[i][j] - v))

mat_vec_mul(m, vector) == Each(m, LAMBDA row : vec_mul(row, vector))

hadamard(mat1, mat2) == EachCell(mat1, LAMBDA i, j, v : mul(v, mat2[i][j]))

mat_ema(new, old, alpha) ==
    EachCell(new, LAMBDA i, j, v : Sat(mul(alpha, v) + mul(One - alpha, old[i][j])))

mat_ema_alpha(new, old, alpha) ==
    EachCell(new, LAMBDA i, j, v :
        LET decayed_val == mul(One - alpha[i][j], old[i][j])
            purchase_increment == Most(mul(alpha[i][j], v), 0)
        IN  Least(decayed_val + purchase_increment, One))

-----------------------------------------------------------------------------
(* Sparse matrices. *)

row_sum_sparse(m) == Each(m, LAMBDA row : FoldLeft(LAMBDA acc, e : acc + e[2], 0, row))

col_sum_sparse(m, columns) ==
    Vec([j \in 1 .. columns |-> FoldLeft(LAMBDA acc, row : Sat(acc + At(row, j)), 0, m)])

inplace_row_normalize_sparse(m) ==
    LET sums == row_sum_sparse(m)
    IN  EachEntry(m, LAMBDA i, j, v : IF sums[i] > 0 THEN safe_div(v, sums[i]) ELSE v)

inplace_col_normalize_sparse(m, columns) ==
    LET col_sums == col_sum_sparse(m, columns)
    IN  EachEntry(m, LAMBDA i, j, v : IF col_sums[j] = 0 THEN v ELSE safe_div(v, col_sums[j]))

inplace_col_max_upscale_sparse(m, columns) ==
    LET maxes == Vec([j \in 1 .. columns |->
                        FoldLeft(LAMBDA acc, row : Most(acc, At(row, j)), 0, m)])
    IN  EachEntry(m, LAMBDA i, j, v : IF maxes[j] = 0 THEN v ELSE safe_div(v, maxes[j]))

\* The mask function of every call is <=: entries no later than a block.
scalar_vec_mask_sparse_matrix(m, scalar, vector) ==
    KeepEntries(m, LAMBDA i, j, v : scalar > vector[j])

vec_mask_sparse_matrix(m, first_vector, second_vector) ==
    KeepEntries(m, LAMBDA i, j, v : first_vector[i] > second_vector[j])

mask_rows_sparse(mask, m) == Vec([i \in DOMAIN m |-> IF mask[i] THEN <<>> ELSE m[i]])

mask_diag_sparse(m) == KeepEntries(m, LAMBDA i, j, v : i # j)

mask_diag_sparse_except_index(m, except_index) ==
    KeepEntries(m, LAMBDA i, j, v : i # j \/ i = except_index)

row_hadamard_sparse(m, vector) == EachEntry(m, LAMBDA i, j, v : mul(v, vector[i]))

matmul_sparse(m, vector, columns) == col_sum_sparse(row_hadamard_sparse(m, vector), columns)

matmul_transpose_sparse(m, vector) ==
    Each(m, LAMBDA row :
        FoldLeft(LAMBDA acc, e : Sat(acc + mul(vector[e[1]], e[2])), 0, row))

col_clip_sparse(m, col_threshold) ==
    EachEntry(KeepEntries(m, LAMBDA i, j, v : ~ (col_threshold[j] < v /\ col_threshold[j] = 0)),
              LAMBDA i, j, v : Least(col_threshold[j], v))

clip_sparse(m, threshold, upper, lower) ==
    EachEntry(m, LAMBDA i, j, v : IF v < threshold THEN lower ELSE upper)

interpolate_sparse(mat1, mat2, columns, ratio) ==
    IF ratio = 0 THEN mat1
    ELSE IF ratio = One THEN mat2
    ELSE Vec([i \in DOMAIN mat1 |->
            Sparse([j \in 1 .. columns |->
                At(mat1[i], j) + mul(ratio, At(mat2[i], j) - At(mat1[i], j))])])

mat_vec_mul_sparse(m, vector) ==
    KeepEntries(EachEntry(m, LAMBDA i, j, v : mul(v, vector[j])), LAMBDA i, j, v : v # 0)

hadamard_sparse(mat1, mat2, columns) ==
    Vec([i \in DOMAIN mat1 |->
        Sparse([j \in 1 .. columns |-> mul(At(mat1[i], j), At(mat2[i], j))])])

mat_ema_sparse(new, old, alpha) ==
    Vec([i \in DOMAIN new |->
        Sparse([j \in DOMAIN new |->
            Sat(mul(alpha, At(new[i], j)) + mul(One - alpha, At(old[i], j)))])])

(* Only the entries of new are in the result. *)
mat_ema_alpha_sparse(new, old, alpha) ==
    KeepEntries(
        EachEntry(new, LAMBDA i, j, v :
            LET decayed_val == mul(One - alpha[i][j], At(old[i], j))
                purchase_increment == Most(mul(alpha[i][j], v), 0)
            IN  Least(decayed_val + purchase_increment, One)),
        LAMBDA i, j, v : v > 0)

-----------------------------------------------------------------------------
(* The stake-weighted median. *)

RECURSIVE weighted_median(_, _, _, _, _, _)

weighted_median(stake, score, partition_idx, minority, partition_lo, partition_hi) ==
    LET n == Len(partition_idx)
        pivot == score[partition_idx[(n \div 2) + 1]]
        lower == SelectSeq(partition_idx, LAMBDA idx : score[idx] < pivot)
        upper == SelectSeq(partition_idx, LAMBDA idx : score[idx] > pivot)
        lo_stake == FoldLeft(LAMBDA acc, idx : acc + stake[idx], 0, lower)
        hi_stake == FoldLeft(LAMBDA acc, idx : acc + stake[idx], 0, upper)
        lo == partition_lo + lo_stake
        hi == partition_hi - hi_stake
    IN  IF n = 0 THEN 0
        ELSE IF n = 1 THEN score[partition_idx[1]]
        ELSE IF lo <= minority /\ minority < hi THEN pivot
        ELSE IF minority < lo /\ lower # <<>>
        THEN weighted_median(stake, score, lower, minority, partition_lo, lo)
        ELSE IF hi <= minority /\ upper # <<>>
        THEN weighted_median(stake, score, upper, minority, hi, partition_hi)
        ELSE pivot

(* The rows with stake, and their normalized stake. *)
UsedRows(stake) == SelectSeq([i \in DOMAIN stake |-> i], LAMBDA i : stake[i] > 0)

UsedStake(stake) == inplace_normalize(Each(UsedRows(stake), LAMBDA i : stake[i]))

ColumnMedian(stake, column, majority) ==
    LET use_stake == UsedStake(stake)
        stake_sum == sum(use_stake)
    IN  weighted_median(use_stake, column, [i \in DOMAIN use_stake |-> i], stake_sum - majority,
                        0, stake_sum)

weighted_median_col(stake, score, majority) ==
    Vec([c \in DOMAIN score[1] |->
        IF UsedRows(stake) = <<>> THEN 0
        ELSE ColumnMedian(stake, Each(UsedRows(stake), LAMBDA r : score[r][c]), majority)])

\* Mutant: the scores of all rows are paired with the stake of the used ones.
weighted_median_col_sparse_shifted(stake, score, columns, majority) ==
    Vec([c \in 1 .. columns |->
        ColumnMedian(stake, [k \in DOMAIN UsedRows(stake) |-> At(score[k], c)], majority)])

weighted_median_col_sparse(stake, score, columns, majority) ==
    Vec([c \in 1 .. columns |->
        ColumnMedian(stake, Each(UsedRows(stake), LAMBDA r : At(score[r], c)), majority)])
=============================================================================
