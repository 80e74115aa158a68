-------------------------------- MODULE Swap --------------------------------
(* The swap pallet of one subnet: concentrated liquidity, swaps that walk from *)
(* active tick to active tick, fees, and the liquidity calls, with the TAO and *)
(* alpha that callers and reserves hold around them.  Fixed-point numbers are  *)
(* integers in units of 1/FixedOne, rounded down where the code rounds down;   *)
(* division by zero gives zero, as safe_div does.                              *)
EXTENDS TickIndex, FiniteSets, TLC

CONSTANTS
    FixedOne,          \* 1 of the U64F64 and I64F64 numbers
    RateOne,           \* u16::MAX, the whole of a fee rate
    MaxFeeRate, MaxPositions, MinimumLiquidity, MinimumReserve,
    Providers,         \* coldkeys that add liquidity and swap
    ProviderTao, ProviderAlpha,   \* what each holds at first
    ReserveTao, ReserveAlpha,     \* SubnetTAO and SubnetAlphaIn at first
    TickRanges,        \* bound: the pairs of ticks callers name
    SwapAmounts, SwapLimits, LiquidityAmounts, LiquidityDeltas, FeeRates, Emissions,
    MaxSwapOps         \* bound on the operations of a behaviour

VARIABLE swap

Protocol == "protocol"

\* The loop of swap_inner is bounded by MAX_SWAP_ITERATIONS; an instance has
\* fewer ticks than that.
MaxSwapIterations == 1000

FixMul(a, b) == (a * b) \div FixedOne

FixDiv(a, b) == IF b = 0 THEN 0 ELSE (a * FixedOne) \div b

Fix(n) == n * FixedOne

ToNum(a) == IF a < 0 THEN 0 ELSE a \div FixedOne

SatSub(a, b) == IF a > b THEN a - b ELSE 0

\* Bound: no square root of the instances is above this.
MaxRoot == 4 * FixedOne

IntSqrt(n) == CHOOSE r \in 0..MaxRoot : r * r <= n /\ n < (r + 1) * (r + 1)

-----------------------------------------------------------------------------
(* Positions and their fees *)

TickAt(s, i) ==
    IF i \in DOMAIN s.ticks THEN s.ticks[i] ELSE [net |-> 0, gross |-> 0, tao |-> 0, alpha |-> 0]

\* FeeGlobalTao for the quote token, FeeGlobalAlpha for the other
FeeGlobal(s, token) == s.fee[token]

fees_above(s, i, token) ==
    IF i <= current_bounded(s.tick) THEN FeeGlobal(s, token) - TickAt(s, i)[token]
    ELSE TickAt(s, i)[token]

fees_below(s, i, token) ==
    IF i <= current_bounded(s.tick) THEN TickAt(s, i)[token]
    ELSE FeeGlobal(s, token) - TickAt(s, i)[token]

fees_in_range(s, p, token) ==
    FeeGlobal(s, token) - fees_below(s, p.low, token) - fees_above(s, p.high, token)

PositionNew(s, owner, low, high, liquidity) ==
    LET p == [owner |-> owner, low |-> low, high |-> high, liquidity |-> liquidity,
              tao |-> 0, alpha |-> 0]
    IN  [p EXCEPT !.tao = fees_in_range(s, p, "tao"), !.alpha = fees_in_range(s, p, "alpha")]

to_token_amounts(p, price) ==
    LET low  == SqrtPriceAt[p.low]
        high == SqrtPriceAt[p.high]
        Alpha(from) == ToNum(p.liquidity * SatSub(FixDiv(FixedOne, from), FixDiv(FixedOne, high)))
        Tao(to) == ToNum(p.liquidity * SatSub(to, low))
    IN  IF price < low THEN [tao |-> 0, alpha |-> Alpha(low)]
        ELSE IF price > high THEN [tao |-> Tao(high), alpha |-> 0]
        ELSE [tao |-> Tao(price), alpha |-> Alpha(price)]

\* Mutant: the position is not told what it has been paid.
collect_fees_again(s, p) ==
    LET Fee(token) == ToNum(p.liquidity * (fees_in_range(s, p, token) - p[token]))
    IN  [fee_tao |-> Fee("tao"), fee_alpha |-> Fee("alpha"), position |-> p]

collect_fees(s, p) ==
    LET Fee(token) == ToNum(p.liquidity * (fees_in_range(s, p, token) - p[token]))
    IN  [fee_tao |-> Fee("tao"), fee_alpha |-> Fee("alpha"),
         position |-> [p EXCEPT !.tao = fees_in_range(s, p, "tao"),
                                !.alpha = fees_in_range(s, p, "alpha")]]

-----------------------------------------------------------------------------
(* Liquidity at ticks *)

NetLiquidity(liquidity, upper) == IF upper THEN -liquidity ELSE liquidity

add_liquidity_at_index(s, i, liquidity, upper) ==
    LET old == IF i \in DOMAIN s.ticks THEN s.ticks[i]
               ELSE [net |-> 0, gross |-> 0,
                     tao |-> IF i > current_bounded(s.tick) THEN s.fee.tao ELSE 0,
                     alpha |-> IF i > current_bounded(s.tick) THEN s.fee.alpha ELSE 0]
        new == [old EXCEPT !.net = @ + NetLiquidity(liquidity, upper), !.gross = @ + liquidity]
    IN  [s EXCEPT !.ticks = [t \in DOMAIN s.ticks \cup {i} |-> IF t = i THEN new ELSE s.ticks[t]],
                  !.active = @ \cup {i}]

\* Mutant: an emptied tick stays in the index of active ticks.
remove_liquidity_keeps_active(s, i, liquidity, upper) ==
    LET new == [s.ticks[i] EXCEPT !.net = @ - NetLiquidity(liquidity, upper),
                                  !.gross = SatSub(@, liquidity)]
    IN  IF i \notin DOMAIN s.ticks THEN s
        ELSE IF new.gross = 0
        THEN [s EXCEPT !.ticks = [t \in DOMAIN s.ticks \ {i} |-> s.ticks[t]]]
        ELSE [s EXCEPT !.ticks[i] = new]

remove_liquidity_at_index(s, i, liquidity, upper) ==
    LET new == [s.ticks[i] EXCEPT !.net = @ - NetLiquidity(liquidity, upper),
                                  !.gross = SatSub(@, liquidity)]
    IN  IF i \notin DOMAIN s.ticks THEN s
        ELSE IF new.gross = 0
        THEN [s EXCEPT !.ticks = [t \in DOMAIN s.ticks \ {i} |-> s.ticks[t]], !.active = @ \ {i}]
        ELSE [s EXCEPT !.ticks[i] = new]

update_liquidity_if_needed(s, low, high, delta) ==
    IF low <= current_bounded(s.tick) /\ current_bounded(s.tick) < high
    THEN [s EXCEPT !.liquidity = SatSub(@ + delta, 0)] ELSE s

clamp_sqrt_price(s, tick) ==
    IF tick >= TickMax \/ tick <= TickMin
    THEN [s EXCEPT !.price = as_sqrt_price_bounded(tick)] ELSE s

count_positions(s, owner) == Cardinality({id \in DOMAIN s.positions : s.positions[id].owner = owner})

WithPosition(s, id, p) ==
    [s EXCEPT !.positions = [i \in DOMAIN @ \cup {id} |-> IF i = id THEN p ELSE s.positions[i]]]

WithoutPosition(s, id) == [s EXCEPT !.positions = [i \in DOMAIN @ \ {id} |-> s.positions[i]]]

\* Nothing orders tick_low and tick_high.
add_liquidity_not_insert(s, owner, low, high, liquidity) ==
    LET s1 == add_liquidity_at_index(s, low, liquidity, FALSE)
        s2 == add_liquidity_at_index(s1, high, liquidity, TRUE)
        s3 == clamp_sqrt_price(s2, current_bounded(s2.tick))
        s4 == update_liquidity_if_needed(s3, low, high, liquidity)
        p  == PositionNew(s4, owner, low, high, liquidity)
    IN  [state |-> [s4 EXCEPT !.last_id = @ + 1, !.initialized = TRUE],
         position |-> p, amounts |-> to_token_amounts(p, s4.price)]

tao_reserve(s) == s.subnet_tao + s.tao_provided

alpha_reserve(s) == s.subnet_alpha_in + s.alpha_provided

maybe_initialize_v3(s) ==
    LET price == IntSqrt(FixedOne * FixDiv(tao_reserve(s), alpha_reserve(s)))
        tick  == from_sqrt_price_bounded(price)
        liq   == IntSqrt(tao_reserve(s) * alpha_reserve(s))
        added == add_liquidity_not_insert([s EXCEPT !.price = price, !.tick = tick],
                                          Protocol, TickMin, TickMax, liq)
    IN  IF s.initialized THEN s
        ELSE WithPosition([added.state EXCEPT !.base = liq], added.state.last_id, added.position)

\* Only the position's own liquidity changes: neither the ticks nor the current
\* liquidity follow it.
adjust_protocol_liquidity(s, tao_delta, alpha_delta) ==
    LET ids == {id \in DOMAIN s.positions : s.positions[id].owner = Protocol}
        id  == Min(ids)
        old == to_token_amounts(s.positions[id], s.price)
    IN  IF ids = {} THEN s
        ELSE [s EXCEPT !.positions[id].liquidity =
                IntSqrt((old.tao + tao_delta) * (old.alpha + alpha_delta))]

-----------------------------------------------------------------------------
(* One step of a swap *)

\* Mutant: a buy looks for its edge from the current tick, not from the next.
tick_edge_from_current(s, order) ==
    IF order = "Buy"
    THEN unwrap_or(find_closest_higher(s.active, s.tick), TickMax)
    ELSE LET inside == tick_is_active(s.active, s.tick) /\ s.price > as_sqrt_price_bounded(s.tick)
         IN  unwrap_or(find_closest_lower(s.active,
                IF inside THEN s.tick ELSE unwrap_or(tick_prev(s.tick), TickMin)), TickMin)

tick_edge(s, order) ==
    IF order = "Buy"
    THEN unwrap_or(find_closest_higher(s.active, unwrap_or(tick_next(s.tick), TickMax)), TickMax)
    ELSE LET inside == tick_is_active(s.active, s.tick) /\ s.price > as_sqrt_price_bounded(s.tick)
         IN  unwrap_or(find_closest_lower(s.active,
                IF inside THEN s.tick ELSE unwrap_or(tick_prev(s.tick), TickMin)), TickMin)

calculate_fee_amount(s, amount) == ToNum(amount * FixDiv(s.rate, RateOne))

current_liquidity_safe(s) == SatSub(s.liquidity, MinimumLiquidity)

add_fees(s, order, fee) ==
    LET token == IF order = "Sell" THEN "alpha" ELSE "tao"
    IN  IF current_liquidity_safe(s) = 0 THEN s
        ELSE [s EXCEPT !.fee[token] = @ + FixDiv(fee, current_liquidity_safe(s))]

\* Mutant: the price at which alpha is bought back is not squared.
convert_deltas_once(s, order, delta_in) ==
    LET L     == Fix(s.liquidity)
        sell  == FixDiv(L, FixDiv(L, s.price) + Fix(delta_in))
        buy   == FixDiv(L, FixMul(L, s.price) + Fix(delta_in))
    IN  IF delta_in = 0 THEN 0
        ELSE ToNum(delta_in * (IF order = "Sell" THEN sell ELSE buy))

convert_deltas(s, order, delta_in) ==
    LET L     == Fix(s.liquidity)
        sell  == FixMul(FixDiv(L, FixDiv(L, s.price) + Fix(delta_in)), s.price)
        buy   == FixDiv(L, FixMul(FixMul(L, s.price) + Fix(delta_in), s.price))
    IN  IF delta_in = 0 THEN 0
        ELSE ToNum(delta_in * (IF order = "Sell" THEN sell ELSE buy))

\* Without liquidity the target is beyond every edge.
sqrt_price_target(order, liquidity, price, delta_in) ==
    IF liquidity = 0 THEN (IF order = "Sell" THEN 0 ELSE Fix(SqrtPriceAt[TickMax]))
    ELSE IF order = "Sell"
    THEN FixDiv(FixedOne, FixDiv(delta_in, liquidity) + FixDiv(FixedOne, price))
    ELSE FixDiv(delta_in, liquidity) + price

delta_in_to(order, liquidity, price, target) ==
    IF order = "Sell"
    THEN ToNum(liquidity * SatSub(FixDiv(FixedOne, target), FixDiv(FixedOne, price)))
    ELSE ToNum(liquidity * SatSub(target, price))

price_is_closer(order, p, q) == IF order = "Buy" THEN p <= q ELSE p >= q

\* Mutant: the fee is charged on top of the whole amount.
SwapStepNew_fee_on_top(s, order, remaining, limit) ==
    LET edge == tick_edge(s, order)
        fee  == calculate_fee_amount(s, remaining)
    IN  [order |-> order, limit |-> limit, edge_tick |-> edge,
         edge |-> as_sqrt_price_bounded(edge), fee |-> fee, possible |-> remaining,
         target |-> sqrt_price_target(order, s.liquidity, s.price, remaining)]

SwapStepNew(s, order, remaining, limit) ==
    LET edge == tick_edge(s, order)
        fee  == calculate_fee_amount(s, remaining)
    IN  [order |-> order, limit |-> limit, edge_tick |-> edge,
         edge |-> as_sqrt_price_bounded(edge), fee |-> fee, possible |-> SatSub(remaining, fee),
         target |-> sqrt_price_target(order, s.liquidity, s.price, SatSub(remaining, fee))]

\* Where the step ends: at the full amount, at the caller's limit, or at the
\* edge; ending exactly at the edge crosses it on a buy and not on a sell.
determine_action(s, st) ==
    LET Closer(p, q) == price_is_closer(st.order, p, q)
        full    == Closer(st.target, st.limit) /\ Closer(st.target, st.edge)
        limited == Closer(st.limit, st.target) /\ Closer(st.limit, st.edge)
        final   == IF full THEN st.target ELSE IF limited THEN st.limit ELSE st.edge
        natural == IF Closer(st.limit, st.target) THEN st.limit ELSE st.target
        delta   == IF full THEN st.possible
                   ELSE delta_in_to(st.order, s.liquidity, s.price, final)
    IN  [final |-> final, delta_in |-> delta,
         fee |-> IF full THEN st.fee ELSE ToNum(delta * FixDiv(s.rate, RateOne - s.rate)),
         crossing |-> IF natural = st.edge THEN st.order = "Buy" ELSE ~full /\ ~limited]

update_liquidity_at_crossing(s, order) ==
    LET net == s.ticks[tick_edge(s, order)].net
    IN  [s EXCEPT !.liquidity = SatSub(@ + (IF order = "Sell" THEN -net ELSE net), 0)]

process_swap(s, st, act) ==
    LET charged == add_fees(s, st.order, act.fee)
        flipped == [charged EXCEPT !.ticks[st.edge_tick].tao = charged.fee.tao - @,
                                   !.ticks[st.edge_tick].alpha = charged.fee.alpha - @]
        crossed == IF act.crossing THEN update_liquidity_at_crossing(flipped, st.order) ELSE charged
    IN  IF act.crossing /\ st.edge_tick \notin DOMAIN s.ticks THEN [error |-> TRUE]
        ELSE [error |-> FALSE, delta_in |-> act.delta_in, fee |-> act.fee, crossing |-> act.crossing,
              delta_out |-> convert_deltas(charged, st.order, act.delta_in),
              state |-> [crossed EXCEPT !.price = act.final,
                                        !.tick = from_sqrt_price_bounded(act.final)]]

SwapStep(s, order, remaining, limit) ==
    LET st == SwapStepNew(s, order, remaining, limit)
    IN  process_swap(s, st, determine_action(s, st))

\* The loop of swap_inner from one state: the amounts taken and paid so far.
RECURSIVE Swapping(_, _, _, _, _)
Swapping(s, order, remaining, limit, acc) ==
    LET r    == SwapStep(s, order, remaining, limit)
        took == r.delta_in + r.fee
        acc1 == [paid_in |-> acc.paid_in + r.delta_in, fee |-> acc.fee + r.fee,
                 paid_out |-> acc.paid_out + r.delta_out, steps |-> acc.steps + 1]
    IN  IF remaining = 0 THEN [ok |-> acc.steps <= MaxSwapIterations, state |-> s] @@ acc
        ELSE IF r.error THEN [ok |-> FALSE]
        ELSE Swapping(r.state, order,
                      IF ~r.crossing \/ took = 0 THEN 0 ELSE SatSub(remaining, took), limit, acc1)

swap_inner(s, order, amount, limit) ==
    IF tao_reserve(s) < MinimumReserve \/ alpha_reserve(s) < MinimumReserve THEN [ok |-> FALSE]
    ELSE Swapping(maybe_initialize_v3(s), order, amount, limit,
                  [paid_in |-> 0, fee |-> 0, paid_out |-> 0, steps |-> 0])

\* A failed swap is rolled back, except one that would overdraw the reserve:
\* its caller fails and rolls it back.  No failure is a step.
do_swap(s, order, amount, limit) ==
    LET r == swap_inner(s, order, amount, limit)
        reserve == IF order = "Buy" THEN alpha_reserve(s) ELSE tao_reserve(s)
    IN  IF r.ok THEN [r EXCEPT !.ok = r.paid_out <= reserve] ELSE r

sim_swap(s, order, amount, limit) == swap_inner(s, order, amount, limit)

-----------------------------------------------------------------------------
(* Liquidity calls *)

\* Mutant: the caller's balances are not looked at.
do_add_liquidity_unbacked(s, c, low, high, liquidity) ==
    LET r == add_liquidity_not_insert(s, c, low, high, liquidity)
    IN  [ok |-> s.enabled /\ count_positions(s, c) <= MaxPositions /\ liquidity >= MinimumLiquidity,
         tao |-> r.amounts.tao, alpha |-> r.amounts.alpha,
         state |-> WithPosition(r.state, r.state.last_id, r.position)]

do_add_liquidity(s, c, low, high, liquidity) ==
    LET r == add_liquidity_not_insert(s, c, low, high, liquidity)
    IN  [ok |-> /\ s.enabled
                /\ count_positions(s, c) <= MaxPositions
                /\ s.tao[c] >= r.amounts.tao /\ s.alpha[c] >= r.amounts.alpha
                /\ liquidity >= MinimumLiquidity,
         tao |-> r.amounts.tao, alpha |-> r.amounts.alpha,
         state |-> WithPosition(r.state, r.state.last_id, r.position)]

do_remove_liquidity(s, c, id) ==
    LET p == s.positions[id]
        fees == collect_fees(s, p)
        s1 == remove_liquidity_at_index(s, p.low, p.liquidity, FALSE)
        s2 == remove_liquidity_at_index(s1, p.high, p.liquidity, TRUE)
        s3 == update_liquidity_if_needed(s2, p.low, p.high, -p.liquidity)
    IN  to_token_amounts(p, s.price) @@ fees @@ [state |-> WithoutPosition(s3, id)]

\* The amounts are those of the requested change, also when the position is
\* eliminated because too little of it would remain.
do_modify_position(s, c, id, delta) ==
    LET p    == s.positions[id]
        low  == SqrtPriceAt[p.low]
        high == SqrtPriceAt[p.high]
        abs  == IF delta < 0 THEN -delta ELSE delta
        inside == low <= s.price /\ s.price <= high
        box  == IF s.price < low THEN low ELSE IF s.price > high THEN high ELSE s.price
        alpha == abs * SatSub(FixDiv(FixedOne, box), FixDiv(FixedOne, high))
        tao  == abs * SatSub(box, low)
        fees == collect_fees(s, p)
        gone == delta < 0 /\ SatSub(p.liquidity, abs) < MinimumLiquidity
        size == IF gone THEN p.liquidity ELSE abs
        s1   == IF inside THEN [s EXCEPT !.liquidity = SatSub(@ + delta, 0)] ELSE s
        s2   == IF delta > 0
                THEN add_liquidity_at_index(add_liquidity_at_index(s1, p.low, size, FALSE),
                                            p.high, size, TRUE)
                ELSE remove_liquidity_at_index(remove_liquidity_at_index(s1, p.low, size, FALSE),
                                               p.high, size, TRUE)
    IN  [ok |-> /\ s.enabled
                /\ abs >= MinimumLiquidity
                /\ IF delta > 0 THEN Fix(s.tao[c]) >= tao /\ Fix(s.alpha[c]) >= alpha
                   ELSE p.liquidity >= abs,
         tao |-> ToNum(tao), alpha |-> ToNum(alpha),
         fee_tao |-> fees.fee_tao, fee_alpha |-> fees.fee_alpha, removed |-> gone,
         state |-> IF gone THEN WithoutPosition(s2, id)
                   ELSE WithPosition(s2, id, [fees.position EXCEPT !.liquidity = @ + delta])]

\* Mutant: what the users' part cannot cover is not taken from the protocol's.
decrease_provided_no_carry(s, own, provided, amount) == [s EXCEPT ![provided] = SatSub(@, amount)]

\* Reserves: what users provide is used up before the protocol's own.
decrease_provided(s, own, provided, amount) ==
    [s EXCEPT ![provided] = SatSub(@, amount),
              ![own] = SatSub(@, SatSub(amount, s[provided]))]

Credit(s, c, tao, alpha) == [s EXCEPT !.tao[c] = @ + tao, !.alpha[c] = @ + alpha]

-----------------------------------------------------------------------------
(* The state and its operations.  `base` is the liquidity the protocol's       *)
(* position was created with, `last` the outcome of the last operation.        *)

NoTrade == [op |-> "none"]

NewPool ==
    [initialized |-> FALSE, price |-> 0, tick |-> 0, liquidity |-> 0,
     fee |-> [tao |-> 0, alpha |-> 0], ticks |-> <<>>, active |-> {},
     positions |-> <<>>, last_id |-> 0, enabled |-> FALSE, rate |-> 1,
     subnet_tao |-> ReserveTao, subnet_alpha_in |-> ReserveAlpha,
     tao_provided |-> 0, alpha_provided |-> 0,
     tao |-> [c \in Providers |-> ProviderTao], alpha |-> [c \in Providers |-> ProviderAlpha],
     base |-> 0, ops |-> 0, last |-> NoTrade]

\* A subnet whose pool nobody has used yet, or one that has been swapped on once
\* and takes user liquidity.
PoolInitial == {NewPool, [maybe_initialize_v3(NewPool) EXCEPT !.enabled = TRUE]}

SwapInit == swap \in PoolInitial

Operated(s, last) == swap' = [s EXCEPT !.ops = @ + 1, !.last = last]

set_fee_rate ==
    \E rate \in FeeRates : rate <= MaxFeeRate /\ Operated([swap EXCEPT !.rate = rate], NoTrade)

\* The owner may enable, the root may also disable.
toggle_user_liquidity == Operated([swap EXCEPT !.enabled = ~@], NoTrade)

add_liquidity ==
    \E c \in Providers, range \in TickRanges, L \in LiquidityAmounts :
      \E r \in {do_add_liquidity(swap, c, range[1], range[2], L)} :
            /\ r.ok
            /\ Operated([Credit(r.state, c, -r.tao, -r.alpha) EXCEPT
                        !.tao_provided = @ + r.tao, !.alpha_provided = @ + r.alpha],
                    [op |-> "add", id |-> r.state.last_id])

PositionsOf(c) == {id \in DOMAIN swap.positions : swap.positions[id].owner = c}

remove_liquidity ==
    \E c \in Providers : \E id \in PositionsOf(c) :
      \E r \in {do_remove_liquidity(swap, c, id)} :
        LET s == Credit(r.state, c, r.tao + r.fee_tao, r.alpha + r.fee_alpha)
        IN  Operated(decrease_provided(decrease_provided(s, "subnet_tao", "tao_provided", r.tao),
                                   "subnet_alpha_in", "alpha_provided", r.alpha), NoTrade)

\* The provided reserves are left alone.
modify_position ==
    \E c \in Providers, delta \in LiquidityDeltas : \E id \in PositionsOf(c) :
      \E r \in {do_modify_position(swap, c, id, delta)} :
        LET sign == IF delta > 0 THEN -1 ELSE 1
            s == Credit(r.state, c, sign * r.tao + r.fee_tao, sign * r.alpha + r.fee_alpha)
        IN  /\ r.ok
            /\ Operated(s, [op |-> "modify", id |-> id, removed |-> r.removed, position |-> swap.positions[id],
                        tao |-> r.tao, alpha |-> r.alpha])

\* Callers that name a limit first simulate the largest swap up to it.
WithinLimit(order, amount, limit) ==
    \/ limit = (IF order = "Buy" THEN SqrtPriceAt[TickMax] ELSE 0)
    \/ LET r == sim_swap(swap, order, Max(SwapAmounts) * 4, limit)
       IN  r.ok /\ amount <= r.paid_in + r.fee

swap_tao_for_alpha(c, amount, limit) ==
    \E r \in {do_swap(swap, "Buy", amount, limit)} :
        /\ swap.tao[c] >= amount
        /\ WithinLimit("Buy", amount, limit)
        /\ r.ok
        /\ Operated([decrease_provided(Credit(r.state, c, -amount, r.paid_out),
                                   "subnet_alpha_in", "alpha_provided", r.paid_out) EXCEPT
                    !.subnet_tao = @ + r.paid_in],
                [op |-> "Buy", amount |-> amount, limit |-> limit,
                 paid_in |-> r.paid_in, fee |-> r.fee, paid_out |-> r.paid_out])

swap_alpha_for_tao(c, amount, limit) ==
    \E r \in {do_swap(swap, "Sell", amount, limit)} :
        /\ swap.alpha[c] >= amount
        /\ WithinLimit("Sell", amount, limit)
        /\ r.ok
        /\ Operated([decrease_provided(Credit(r.state, c, r.paid_out, -amount),
                                   "subnet_tao", "tao_provided", r.paid_out) EXCEPT
                    !.subnet_alpha_in = @ + r.paid_in],
                [op |-> "Sell", amount |-> amount, limit |-> limit,
                 paid_in |-> r.paid_in, fee |-> r.fee, paid_out |-> r.paid_out])

\* The coinbase adds to the reserves and tells the pool.
InjectReserves ==
    \E tao \in Emissions, alpha \in Emissions :
        Operated([adjust_protocol_liquidity(swap, tao, alpha) EXCEPT
                !.subnet_tao = @ + tao, !.subnet_alpha_in = @ + alpha], NoTrade)

SwapNext ==
    /\ swap.ops < MaxSwapOps
    /\ \/ set_fee_rate
       \/ toggle_user_liquidity
       \/ add_liquidity
       \/ remove_liquidity
       \/ modify_position
       \/ \E c \in Providers, amount \in SwapAmounts, limit \in SwapLimits :
             swap_tao_for_alpha(c, amount, limit) \/ swap_alpha_for_tao(c, amount, limit)
       \/ InjectReserves

SwapSpec == SwapInit /\ [][SwapNext]_swap

-----------------------------------------------------------------------------
(* Properties *)

Trades == {"Buy", "Sell"}

\* The current tick and the price stay within the curve, and no holder and no
\* reserve goes below zero.
SwapTypeOK ==
    /\ swap.tick \in Ticks /\ swap.liquidity \in Nat
    /\ swap.price \in 0..SqrtPriceAt[TickMax]
    /\ \A c \in Providers : swap.tao[c] >= 0 /\ swap.alpha[c] >= 0
    /\ \A r \in {swap.subnet_tao, swap.subnet_alpha_in, swap.tao_provided, swap.alpha_provided} : r >= 0

Summed(S, F(_)) == MapThenSumSet(F, S)

\* add_liquidity_at_index, remove_liquidity_at_index and tick crossing keep three
\* pieces of storage together: a tick exists exactly when it is active, its gross
\* liquidity is that of the positions ending there, and its net liquidity is what
\* the positions starting there add less what those ending there take away.  The
\* protocol's position counts with the liquidity it was created with.
TicksMatchPositions ==
    LET Size(id) == IF swap.positions[id].owner = Protocol THEN swap.base
                    ELSE swap.positions[id].liquidity
        From(t) == Summed({id \in DOMAIN swap.positions : swap.positions[id].low = t}, Size)
        To(t) == Summed({id \in DOMAIN swap.positions : swap.positions[id].high = t}, Size)
    IN  /\ swap.active = DOMAIN swap.ticks
        /\ \A t \in DOMAIN swap.ticks : /\ swap.ticks[t].gross = From(t) + To(t)
                                        /\ swap.ticks[t].net = From(t) - To(t)
        /\ \A id \in DOMAIN swap.positions :
              {swap.positions[id].low, swap.positions[id].high} \subseteq swap.active

\* A swap takes no more than it was offered, its fee included.
TakesNoMoreThanOffered ==
    swap.last.op \in Trades => swap.last.paid_in + swap.last.fee <= swap.last.amount

\* Over all the ticks it crosses, a buy never lowers the price and a sell never
\* raises it, and neither passes the caller's limit.  (The price is
\* zero until the pool is initialized, and stays zero when liquidity is added first.)
PriceMovesWithOrder ==
    /\ swap'.last.op = "Buy" /\ swap.price > 0
       => swap.price <= swap'.price /\ swap'.price <= swap'.last.limit
    /\ swap'.last.op = "Sell" /\ swap.price > 0
       => swap.price >= swap'.price /\ swap'.price >= swap'.last.limit

\* Nobody trades at a better price than the one quoted before the swap: a swap
\* that crosses ticks prices each part at the price it has moved to.
NeverBetterThanSpot ==
    /\ swap'.last.op = "Buy" /\ swap.price > 0
       => swap'.last.paid_out * swap.price <= FixDiv(swap'.last.paid_in * FixedOne, swap.price) + FixedOne
    /\ swap'.last.op = "Sell" /\ swap.price > 0
       => swap'.last.paid_out * FixedOne <= FixMul(swap'.last.paid_in * swap.price, swap.price) + FixedOne

AllTao(s) == s.subnet_tao + s.tao_provided + Summed(Providers, LAMBDA c : s.tao[c])

AllAlpha(s) == s.subnet_alpha_in + s.alpha_provided + Summed(Providers, LAMBDA c : s.alpha[c])

\* A trade moves TAO and alpha between the trader and the reserves and makes
\* none: of what the trader hands over, the fee and the unused rest reach nobody
\* yet, and what the trader gets is exactly what leaves the reserves.
TradesConserve ==
    LET t == swap'.last
    IN  /\ t.op = "Buy" => /\ AllTao(swap') = AllTao(swap) - t.amount + t.paid_in
                           /\ AllAlpha(swap') = AllAlpha(swap)
        /\ t.op = "Sell" => /\ AllAlpha(swap') = AllAlpha(swap) - t.amount + t.paid_in
                            /\ AllTao(swap') = AllTao(swap)

\* A position that has just been created, or has just been paid its fees, is owed
\* nothing: the fees outside its two ticks and its own snapshot agree.
FeesPaidOnce ==
    swap.last.op \in {"add", "modify"} /\ swap.last.id \in DOMAIN swap.positions =>
        LET owed == collect_fees(swap, swap.positions[swap.last.id])
        IN  owed.fee_tao = 0 /\ owed.fee_alpha = 0
=============================================================================
