------------------------------ MODULE SharePool ------------------------------
(***************************************************************************)
(* primitives/share-pool: a value shared by the holders of a pool in       *)
(* proportion to their shares.  A hotkey's stake on a subnet is such a     *)
(* pool, its holders are the coldkeys.                                     *)
(*                                                                         *)
(* Shares and values per share are fixed-point numbers.  A number x is     *)
(* held as the natural x * One, where the code has One = 2^64, and every   *)
(* product and quotient is rounded down where the code rounds it.          *)
(***************************************************************************)
EXTENDS Integers, FiniteSetsExt

CONSTANTS
    One,               \* 2^64 in U64F64
    DustRatio,         \* a remainder below 1/DustRatio of a share is dropped (100,000)
    YearOfEmission,    \* headroom that the value per share must keep (2,628,000 TAO)
    MaxValuePerShare   \* the largest fixed-point number (2^64)

ASSUME SharePoolAssumption ==
    /\ One \in Nat \ {0} /\ DustRatio \in Nat \ {0}
    /\ YearOfEmission \in Nat /\ MaxValuePerShare \in Nat

EmptyPool(Keys) == [value |-> 0, denominator |-> 0, share |-> [k \in Keys |-> 0]]

value_per_share(p) == (p.value * One * One) \div p.denominator

get_value_from_shares(p, share) ==
    IF p.denominator = 0 THEN 0 ELSE (value_per_share(p) * share) \div (One * One)

get_value(p, key) == get_value_from_shares(p, p.share[key])

update_value_for_all(p, update) ==
    [p EXCEPT !.value = IF @ + update > 0 THEN @ + update ELSE 0]

(* The shares bought or sold for the amount |update|. *)
get_shares_per_update(p, update) ==
    IF value_per_share(p) = 0 THEN 0 ELSE (update * One * One) \div value_per_share(p)

(* Whether adding the amount would change the key's share at all. *)
sim_update_value_for_one(p, update) ==
    p.denominator /= 0 => get_shares_per_update(p, update) /= 0

Monus(a, b) == IF a > b THEN a - b ELSE 0

(* What would be left is too little, or too few shares carry the value. *)
LowPrecision(p, key, share, denominator) ==
    \/ share * DustRatio < p.share[key]
    \/ denominator = 0
    \/ ((p.value + YearOfEmission) * One) \div denominator > MaxValuePerShare

(* A zero denominator means an empty pool: its first holder gets all. *)
AddValue(p, key, update) ==
    LET bought == IF p.denominator = 0 THEN update * One ELSE get_shares_per_update(p, update)
        held == IF p.denominator = 0 THEN 0 ELSE p.share[key]
    IN  [pool |-> update_value_for_all([p EXCEPT !.denominator = @ + bought,
                                                 !.share[key] = held + bought], update),
         actual |-> update]

\* Mutant: the last shares of a key leave the denominator as it is.
RemoveValue_keeps_denominator(p, key, update) ==
    LET sold == get_shares_per_update(p, update)
    IN  [pool |-> update_value_for_all([p EXCEPT !.share[key] = Monus(@, sold)], -update),
         actual |-> -update]

\* Mutant: the key keeps its shares.
RemoveValue_keeps_share(p, key, update) ==
    LET sold == get_shares_per_update(p, update)
    IN  [pool |-> update_value_for_all([p EXCEPT !.denominator = Monus(@, sold)], -update),
         actual |-> -update]

RemoveValue(p, key, update) ==
    LET sold  == get_shares_per_update(p, update)
        share == Monus(p.share[key], sold)
        denominator == Monus(p.denominator, sold)
    IN  IF LowPrecision(p, key, share, denominator)
        THEN [pool |-> update_value_for_all([p EXCEPT !.denominator = Monus(@, p.share[key]),
                                                      !.share[key] = 0],
                                            -get_value(p, key)),
              actual |-> -get_value(p, key)]
        ELSE [pool |-> update_value_for_all([p EXCEPT !.denominator = denominator,
                                                      !.share[key] = share], -update),
              actual |-> -update]

(* The new pool and the update that was really made. A sale that rounds to
   no shares takes the branch for additions and lowers the value alone. *)
update_value_for_one(p, key, update) ==
    IF update >= 0 THEN AddValue(p, key, update)
    ELSE IF p.denominator = 0
         THEN [pool |-> update_value_for_all(p, update), actual |-> update]
    ELSE IF get_shares_per_update(p, -update) = 0
         THEN [pool |-> update_value_for_all(p, update), actual |-> update]
    ELSE RemoveValue(p, key, -update)

TotalShares(p) == MapThenSumSet(LAMBDA k : p.share[k], DOMAIN p.share)

TotalValue(p) == MapThenSumSet(LAMBDA k : get_value(p, k), DOMAIN p.share)
=============================================================================
