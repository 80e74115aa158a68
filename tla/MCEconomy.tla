------------------------------ MODULE MCEconomy ------------------------------
(* A small instance of module Economy and of the stake views. *)
EXTENDS StakeViews

CONSTANTS h1, h2, c1, c2

MCHotkeys == {h1, h2}
MCColdkeys == {c1, c2}
MCNetuids == <<0, 1>>
MCRegistered == [n \in NetuidSet |-> <<[hotkey |-> h1, permit |-> TRUE, emission |-> 1]>>]
MCTempo == [n \in NetuidSet |-> 2]
MCSlippage == {1}

\* Over stakes, transfers, swaps, fees, takes and the emission of blocks: no TAO
\* comes from nothing, alpha is backed by its pool, shares add up and nobody
\* holds more than the pool has, stakers are on the lists that are iterated,
\* pending emission covers what was swapped, the total stake covers the pools,
\* and what the RPC shows of a staker is all there is (staking, share-pool,
\* run_coinbase.rs, delegate_info.rs, stake_info.rs).
MoneySound ==
    /\ EconomyTypeOK
    /\ NoTaoFromNothing /\ AlphaBacked
    /\ SharesAddUp /\ HoldersWithinPool /\ StakersListed
    /\ SwappedWithinPending /\ TotalStakeCoversPools
    /\ StakeInfoIsComplete /\ NominatorsSeeTheirStake
=============================================================================
