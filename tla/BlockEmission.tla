---------------------------- MODULE BlockEmission ----------------------------
(***************************************************************************)
(* How much a block emits, from how much has been issued                   *)
(* (coinbase/block_emission.rs), for TAO and for the alpha of a subnet.    *)
(* Fixed-point numbers are integers in units of 1/Grain, rounded down.     *)
(***************************************************************************)
EXTENDS Integers

CONSTANTS
    Grain,                     \* fractions of a fixed-point number
    TotalSupply,               \* also twice the constant the halvings use
    DefaultBlockEmission

fx_mul(a, b) == (a * b) \div Grain

fx_div(a, b) == IF b = 0 THEN 0 ELSE (a * Grain) \div b

fx(n) == n * Grain

to_num(x) == x \div Grain
------------------------------------------------------------------------------
(* The whole part of log2, of a fixed-point number of at least one. *)
log2_floor(x) == CHOOSE k \in 0 .. 30 : fx(2 ^ k) <= x /\ x < fx(2 ^ (k + 1))

(* Mutant: only the check against the supply. *)
get_block_emission_for_issuance_unhalved(issuance) ==
    IF issuance >= TotalSupply THEN 0 ELSE DefaultBlockEmission

(* Halved each time what is left of the supply is halved. *)
get_block_emission_for_issuance(issuance) ==
    IF issuance >= TotalSupply THEN 0
    ELSE LET left == Grain - fx_div(issuance, TotalSupply)
             multiplier == fx(2 ^ log2_floor(fx_div(Grain, left)))
         IN to_num(fx_mul(fx_div(Grain, multiplier), fx(DefaultBlockEmission)))
==============================================================================
