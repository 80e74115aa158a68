----------------------------- MODULE MCPallets -----------------------------
(***************************************************************************)
(* The pallets beside the subtensor pallet, and the parts of it that keep  *)
(* their own records, for TLC: the swap pallet, governance, proxies and    *)
(* batches, commitments with the beacon they wait for, the registry, the   *)
(* endpoints and identities, the migrations, and transaction validation.   *)
(*                                                                         *)
(* They share no storage, so a behaviour moves one of them, chosen first,  *)
(* and the others are not there.  Their state graphs lie side by side.     *)
(***************************************************************************)
EXTENDS Swap, Governance, Proxy, Commitments, Registry, Serving, Migrations, Transactions

CONSTANT MaxSteps      \* bound on what a behaviour spends, by pallet

VARIABLES pallet, steps

vars == <<pallet, steps, swap, gov, proxies, drand, commits, registry, serving, chain, txs>>

\* The initial states of the chosen pallet; another one is not there.
StatesOf(name, initial) == IF pallet = name THEN initial ELSE {"absent"}

Init ==
    /\ pallet \in DOMAIN MaxSteps
    /\ steps = 0
    /\ swap \in StatesOf("Swap", PoolInitial)
    /\ gov \in StatesOf("Governance", GovInitial)
    /\ proxies \in StatesOf("Proxy", ProxyInitial)
    /\ drand \in StatesOf("Commitments", {DrandInitial})
    /\ commits \in StatesOf("Commitments", {CommitmentsInitial})
    /\ registry \in StatesOf("Registry", {RegistryInitial})
    /\ serving \in StatesOf("Serving", {ServingInitial})
    /\ chain \in StatesOf("Migrations", MigrationsInitial)
    /\ txs \in StatesOf("Transactions", {TxInitial})

\* What a step spends: a block is free, and what the properties of a pallet
\* hardly depend on is dear.
Cost == CASE
    pallet = "Commitments" ->
        IF \/ drand'.config # drand.config \/ commits'.registered # commits.registered
           \/ commits'.maxSpace # commits.maxSpace THEN 4
        ELSE IF \E p \in drand'.pool \ drand.pool : p.by = "other" THEN 3
        ELSE IF commits' # commits /\ drand'.block = drand.block THEN 2 ELSE 1
 [] pallet = "Serving" -> IF serving'.block # serving.block THEN 0 ELSE 1
 [] pallet = "Transactions" ->
        IF txs'.block # txs.block THEN 0
        ELSE IF \/ txs'.agenda # txs.agenda \/ txs'.hotkeySwaps # txs.hotkeySwaps \/ txs'.setChildren # txs.setChildren
                \/ txs'.pool # txs.pool \/ txs'.frozen # txs.frozen THEN 1 ELSE 2
 [] OTHER -> 1

Moves(name) == pallet = name /\ steps < MaxSteps[name]

PayStep == steps' = steps + Cost /\ steps' <= MaxSteps[pallet] /\ UNCHANGED pallet

SwapMoves == Moves("Swap") /\ SwapNext /\ PayStep /\ UNCHANGED <<gov, proxies, drand, commits, registry, serving, chain, txs>>
GovernanceMoves == Moves("Governance") /\ GovNext /\ PayStep /\ UNCHANGED <<swap, proxies, drand, commits, registry, serving, chain, txs>>
ProxyMoves == Moves("Proxy") /\ ProxyNext /\ PayStep /\ UNCHANGED <<swap, gov, drand, commits, registry, serving, chain, txs>>
CommitmentsMove == Moves("Commitments") /\ CommitmentsNext /\ PayStep /\ UNCHANGED <<swap, gov, proxies, registry, serving, chain, txs>>
RegistryMoves == Moves("Registry") /\ RegistryNext /\ PayStep /\ UNCHANGED <<swap, gov, proxies, drand, commits, serving, chain, txs>>
ServingMoves == Moves("Serving") /\ ServingNext /\ PayStep /\ UNCHANGED <<swap, gov, proxies, drand, commits, registry, chain, txs>>
MigrationsMove == Moves("Migrations") /\ MigrationsNext /\ PayStep /\ UNCHANGED <<swap, gov, proxies, drand, commits, registry, serving, txs>>
TransactionsMove == Moves("Transactions") /\ TransactionsNext /\ PayStep /\ UNCHANGED <<swap, gov, proxies, drand, commits, registry, serving, chain>>

Next ==
    \/ SwapMoves \/ GovernanceMoves \/ ProxyMoves \/ CommitmentsMove
    \/ RegistryMoves \/ ServingMoves \/ MigrationsMove \/ TransactionsMove

Spec == Init /\ [][Next]_vars

-----------------------------------------------------------------------------
(* What is checked: the properties of each module, which states and explains
   them one by one, for the behaviours that move it. *)

\* The bookkeeping of the swap pallet: ticks carry the liquidity of the
\* positions around them, a trade takes no more than was offered, and the fees
\* of a position are paid out once (tick.rs, position.rs, do_swap).
PositionsSound == pallet = "Swap" =>
    SwapTypeOK /\ TicksMatchPositions /\ TakesNoMoreThanOffered /\ FeesPaidOnce

\* A trade moves the price with the order and past no limit, pays no more than
\* the spot price, and creates no token (swap_inner, SwapStep).
TradesSound == [][pallet = "Swap" => PriceMovesWithOrder /\ NeverBetterThanSpot /\ TradesConserve]_vars

\* The votes on a motion are the standing votes of members entitled to them,
\* and nothing runs without its majority (collective, senate swaps).
MotionsSound == pallet = "Governance" => VotesBelongToMotion /\ ExecutedByMajority /\ LostSeatsLoseVotes

\* A senator gives way only to a higher stake, whatever order hotkeys join in
\* (join_senate_if_eligible).
SeatsFollowStake == [][pallet = "Governance" => SeatsGoToHigherStake]_vars

\* Only what a proxy of that type may do runs on behalf of an account, an
\* announced call waits and runs once, deposits are held, and batch_all is
\* atomic (proxy and utility pallets, InstanceFilter).
ProxiesSound == pallet = "Proxy" =>
    OnlyWhatProxiesAllow /\ AnnouncedCallsWaitAndRunOnce /\ ProxyDepositsAreReserved /\ BatchAllIsAtomic

\* Workers store pulses without a gap and in order, whoever submits beside
\* them, one transaction per block at most is accepted, the index lists the
\* commitments that wait, deposits and space are accounted for, nothing is
\* revealed early, and fields survive their encoding (drand and commitments
\* pallets).
CommitmentsSound == pallet = "Commitments" =>
    /\ WorkersLeaveNoHole /\ LastStoredIsHighest /\ OneTransactionPerBlock
    /\ IndexIsExact /\ DepositsAreReserved /\ SpaceIsCounted /\ RevealsAreDue /\ FieldsSurviveEncoding

\* Whatever pulse a block brings, its hook reveals every commitment that is due and
\* leaves the others as they are (reveal_timelocked_commitments).
RevealsComeAtOnce == [][pallet = "Commitments" => RevealedAtOnce]_vars

\* The deposits of the registry are on hold, and what it stores decodes to
\* what was encoded, data of up to 64 bytes in full (registry pallet).
RegistrySound == pallet = "Registry" => HoldsCoverDeposits /\ RegistrationsSurviveEncoding

\* A replaced neuron leaves no endpoint, identities belong to what exists,
\* owners list their hotkeys, and a lookup by EVM key finds them all
\* (serving.rs, identity.rs, evm.rs, the key swaps).
RecordsSound == pallet = "Serving" =>
    /\ ReplacedNeuronsAreGone /\ SubnetIdentitiesHaveNetworks /\ IdentifiedOwnHotkeys
    /\ OwnersListTheirHotkeys /\ LookupFindsAll

\* Whichever migrations a chain has had, an upgrade brings it to a state in
\* which another one changes nothing and the totals, switches, memberships and
\* identities agree with what they summarise (on_runtime_upgrade).
MigrationsSound == pallet = "Migrations" =>
    /\ UpgradeSettles /\ TotalsAfterUpgrade /\ TradingMatchesStart
    /\ MembershipMatchesKeys /\ IdentitiesCarriedOver /\ NetworksCounted

\* Whatever is included when: nonces are taken in order, a coldkey that Root has
\* not swapped has one swap pending at most and signs no call that moves its
\* funds before it, and calls with a rate limit keep their distance
\* (check_nonce.rs, the transaction extension, schedule_swap_coldkey,
\* rate_limiting.rs).
TransactionsSound == pallet = "Transactions" =>
    /\ NoncesInOrder /\ ReadyIsNext /\ OneSwapPending /\ RecordsGoWithTheSwap
    /\ FrozenWhileScheduled /\ HotkeySwapsSpaced /\ SetChildrenSpaced
-----------------------------------------------------------------------------
(* The constants of the pallets. *)

MCMaxSteps == [name \in {"Swap", "Governance", "Proxy", "Commitments", "Registry", "Serving", "Migrations", "Transactions"} |->
    CASE name = "Governance" -> 6 [] name = "Commitments" -> 9 [] name = "Registry" -> 5 [] name = "Serving" -> 4
      [] name = "Transactions" -> 3 [] OTHER -> 20]

\* Square roots of prices a factor of sqrt(2) apart.
MCPrice == [t \in -TickMax..TickMax |-> CASE t = -2 -> 256 [] t = -1 -> 362 [] t = 0 -> 512 [] t = 1 -> 724 [] t = 2 -> 1024]
MCDeltas == {-4, 3}
MCRanges == {<<-1, 1>>, <<0, 2>>, <<1, -1>>}

MCGovOwner == [h \in 1..3 |-> 1]
MCGovStakes == {<<1, 0, 1>>, <<0, 0, 1>>}

Alicia == <<"alice">>
Bobbie == <<"bob">>
AddProxy(d, t, w) == [kind |-> "add_proxy", delegate |-> d, proxy_type |-> t, delay |-> w]
ByProxy(r, c) == [kind |-> "proxy", real |-> r, force_proxy_type |-> NoType, call |-> c]
PayCall == [kind |-> "transfer_all", small |-> FALSE]
WorkCall == [kind |-> "set_weights", small |-> FALSE]
FailCall == [kind |-> "failing"]
MCAccounts == {Alicia, Bobbie}
MCCalls ==
  {AddProxy(Bobbie, "Any", 0), AddProxy(Bobbie, "NonTransfer", 1), AddProxy(Bobbie, "NonTransfer", 0),
   [kind |-> "remove_proxy", delegate |-> Bobbie, proxy_type |-> "Any", delay |-> 0],
   [kind |-> "remove_proxies"],
   ByProxy(Alicia, [kind |-> "batch", calls |-> <<WorkCall, PayCall>>]),
   ByProxy(Alicia, [kind |-> "batch_all", calls |-> <<WorkCall, FailCall>>]),
   ByProxy(Alicia, [kind |-> "as_derivative", index |-> 0, call |-> PayCall]),
   ByProxy(Alicia, AddProxy(Bobbie, "NonCritical", 0)),
   [kind |-> "batch_all", calls |-> <<AddProxy(Bobbie, "NonTransfer", 1), WorkCall>>],
   [kind |-> "force_batch", calls |-> <<FailCall, PayCall>>],
   [kind |-> "announce", real |-> Alicia, call |-> WorkCall],
   [kind |-> "remove_announcement", real |-> Alicia, call |-> WorkCall],
   [kind |-> "reject_announcement", delegate |-> Bobbie, call |-> WorkCall],
   [kind |-> "proxy_announced", delegate |-> Bobbie, real |-> Alicia, force_proxy_type |-> "NonTransfer", call |-> WorkCall],
   [kind |-> "create_pure", proxy_type |-> "Any", index |-> 0, delay |-> 0],
   ByProxy(pure_account(Alicia, "Any", 0, 1), PayCall),
   ByProxy(pure_account(Alicia, "Any", 0, 1),
           [kind |-> "kill_pure", spawner |-> Alicia, proxy_type |-> "Any", index |-> 0, when |-> 1])}
MCRoot == {[kind |-> "dispatch_as", as_origin |-> Alicia, call |-> AddProxy(Bobbie, "Any", 0)],
           [kind |-> "with_weight", call |-> [kind |-> "batch", calls |-> <<PayCall, FailCall>>]]}

Field(kind, len, round, content) == [kind |-> kind, len |-> len, round |-> round, content |-> content]
MCFields == {<<Field("Raw", 1, 0, "")>>,
             <<Field("Raw", 1, 0, ""), Field("TimelockEncrypted", 2, 2, "x")>>,
             <<Field("TimelockEncrypted", 1, 1, "x"), Field("TimelockEncrypted", 1, 2, "y")>>,
             <<Field("TimelockEncrypted", 1, 2, "")>>,
             <<Field("ResetBondsFlag", 0, 0, ""), Field("None", 0, 0, "")>>}

\* Identities just within the limits of the two kinds, and just beyond.
SubnetIdentity(x) == [f \in {"subnet_name", "github_repo", "subnet_contact", "subnet_url", "discord", "description", "logo_url", "additional"} |-> x]
ChainIdentity(x) == [f \in {"name", "url", "github_repo", "image", "discord", "description", "additional"} |-> x]
MCIdentities == {SubnetIdentity(256), ChainIdentity(256), ChainIdentity(257), SubnetIdentity(257)}
MCInputs == {[ip |-> "plain", ip_type |-> 4, port |-> 1], [ip |-> "zero", ip_type |-> 6, port |-> 0]}

\* Chains whose networks 3 and 21, which migrations look for, exist.
MCChoices == {{1, 3, 21}, {1, 3, 11, 21}}
=============================================================================
