------------------------------ MODULE TickIndex ------------------------------
(* Ticks of the swap pallet (pallets/swap/src/tick.rs): the bounded tick index *)
(* with its checked and saturating arithmetic, the conversion between ticks    *)
(* and square-root prices, and ActiveTickIndexManager seen from outside: a set *)
(* of active ticks that is asked for the closest one.  The real price curve    *)
(* 1.0001^(tick/2) is abstracted to an increasing function SqrtPriceAt.        *)
EXTENDS Integers, FiniteSetsExt

CONSTANTS
    TickMax,      \* TickIndex::MAX; TickIndex::MIN is its negation
    SqrtPriceAt   \* [TickMin..TickMax -> fixed-point square-root price]

TickMin == -TickMax

Ticks == TickMin..TickMax

ASSUME TicksAssumption ==
    /\ TickMax \in Nat \ {0}
    /\ \A s, t \in Ticks : s < t => SqrtPriceAt[s] < SqrtPriceAt[t]

NoTick == TickMax + 1

-----------------------------------------------------------------------------
(* Index arithmetic *)

Bounded(i) == IF i > TickMax THEN TickMax ELSE IF i < TickMin THEN TickMin ELSE i

current_bounded(i) == Bounded(i)

tick_new(i) == IF i \in Ticks THEN i ELSE NoTick

tick_next(i) == tick_new(i + 1)

tick_prev(i) == tick_new(i - 1)

unwrap_or(t, default) == IF t = NoTick THEN default ELSE t

-----------------------------------------------------------------------------
(* Prices *)

as_sqrt_price_bounded(i) == SqrtPriceAt[Bounded(i)]

\* The tick whose half-open price interval holds the price, or NoTick.  The
\* interval of TickMax has no upper end in the model.
try_from_sqrt_price(price) ==
    LET below == {t \in Ticks : SqrtPriceAt[t] <= price}
    IN  IF below = {} THEN NoTick ELSE Max(below)

from_sqrt_price_bounded(price) ==
    unwrap_or(try_from_sqrt_price(price),
              IF price > SqrtPriceAt[TickMax] THEN TickMax ELSE TickMin)

-----------------------------------------------------------------------------
(* Active ticks *)

find_closest_lower(active, i) ==
    LET below == {t \in active : t <= i} IN IF below = {} THEN NoTick ELSE Max(below)

find_closest_higher(active, i) ==
    LET above == {t \in active : t >= i} IN IF above = {} THEN NoTick ELSE Min(above)

\* With nothing active at or below it, the last tick counts as active.
tick_is_active(active, i) == unwrap_or(find_closest_lower(active, i), TickMax) = i
=============================================================================
