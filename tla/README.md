# A verification project for xsubtensor

This directory holds TLA+ models of the subtensor chain (a Substrate runtime
written in Rust), the TLC configurations that check them on small instances,
and TLAPS proofs of some of their properties for every instance.
`PROJECT.json` lists runs, mutants, the source lines behind every definition,
findings, hazards and theorems.

Run a model with `tlc -config X.cfg M` and a proof with `tlapm M.tla`.

## 1. The system

The runtime executes blocks one after another. In each block
`on_initialize` of pallet-subtensor runs first (`block_step`: adjust
registration terms, run the coinbase and the epochs that are due, apply pending
children), then the calls of the block in some order. A call that fails is
rolled back. So there are no threads; what is hard is the *order of calls and
hooks*, storage that is kept in several maps that must agree, values stored in
one block and used many blocks later under other settings, identities
(hotkeys, coldkeys, uids, netuids) that are reused or renamed in between, and
arithmetic that rounds. Off-chain workers (drand) and the transaction pool do
run beside the chain.

How the parts interact, and where it gets hard:

* The slot table is read by almost everything: weights, scores and registration
  blocks are per *uid*; commits, children, stake and ownership per *hotkey*.
  Registration replaces the hotkey behind a uid, a key swap renames it, a
  removed subnet frees its netuid for another. Every record that outlives such
  a step may end up with somebody else.
* The block hook acts on all subnets at once, before the calls of the block:
  limits are reset, epochs run, encrypted weights are revealed and children
  applied. Off-by-one errors between "the epoch runs", "the epoch index" and
  "the block of the call" are possible in each of them.
* Commits, pending children, timelocked commitments, announced calls and
  scheduled coldkey swaps wait for many blocks, under settings their owner or
  root may change.
* The stake of a hotkey is a pool whose shares coldkeys hold; staking calls,
  emission, dividends and takes all move the same ledger and round.
* `finalize` of a crowdloan, proxies, batches and motions dispatch stored calls,
  which may call the pallet again; refunds are spread over several calls of
  which each may fail.
* The same storage is shown to clients by eight views and some fifty methods of
  precompiles, each with its own list of reads.

The hazards of the code, each at its line, are in `PROJECT.json`.

## 2. Modules

Every module takes the names of the code. Common to all: a call that fails is
no step. Where a condition only decides *whether* a call succeeds and nothing
the module keeps depends on it, it is a nondeterministic choice.
`MC…` modules are instances for TLC, `…_proofs` hold theorems.

### Subnets and their neurons

* **Neurons** – the slot table (`subnets/uids.rs`, swaps, subnet creation and
  removal) as an abstract specification: every operation
  that writes one of the maps is an action. A registration into a full subnet
  replaces *some* neuron other than the owner's. `IsNetworkMember` has three
  values (no entry, `false`, `true`), because readers tell them apart.
  Removal of the root network is excluded.
* **Registration** – the detailed code (`subnets/registration.rs`,
  `coinbase/root.rs`, `coinbase/block_step.rs`): the three kinds of
  registration, the loop of `get_neuron_to_prune` with its two running minima,
  counters and limits, subnet creation and removal, and `block_step` with the
  adjustment of all networks and the epochs that are due (an epoch rewrites the
  pruning scores with arbitrary values). It extends `Neurons` with variables of
  its own and implements it: the mapping of the slot variables is the identity,
  and every registration, with the victim its loop finds, is a step of the
  table. Hyperparameters are constants.
* **EpochClock** – `blocks_until_next_epoch`, `should_run_epoch`,
  `get_epoch_index`, `get_reveal_blocks`, `is_reveal_block_range`,
  `is_commit_expired` as operators, used by `Registration`, `WeightCommits`
  and `ChildKeys`.
* **WeightCommits** – both kinds of commit on one subnet (`subnets/weights.rs`).
  A weight vector is a payload; the hash covers the hotkey that reveals it, as
  in the code. An encrypted entry carries the block it was committed at, which
  the code does not store, to state properties. Batch commit and batch set are
  sequences of the single calls; batch reveal is all-or-nothing and an action
  of its own. Decryption, the drand pulse and the acceptance of the weights
  succeed or fail nondeterministically.
* **ChildKeys** – the relation between parents and children on one subnet
  (`staking/set_children.rs`), with lists as in the code. Due changes are
  applied in any order, as the storage map may iterate.
* **Epoch** with **EpochMath** – the Yuma consensus epoch (`epoch/`): the sparse
  version the chain runs and the dense one its tests compare it with, function
  by function in fixed point, over weights, stake, replacements, bond resets and
  alpha values that change between epochs. The exponential is a parameter.
* **BlockEmission** – the emission of a block as a function of what has been
  issued, halving at every step of a logarithm; used by the next two.
* **Hyperparameters** – every call of admin-utils with the setters behind it,
  and the life of a subnet as far as its parameters go: lock cost, creation,
  start call, burned registrations, the issuance of blocks, removal. Of the
  price of a new network, what does not go into its pool is burned
  (`burn_tokens`); what a registration costs goes into the pool and is not.
* **BlockTerms** – what every block recomputes: burn and difficulty from the
  demand, the emission schedule, the moving price. Root, and for the highest
  difficulty the owner, move the bounds in between; a subnet starts with the
  bounds `init_new_network` leaves or with bounds opened by root.
* **Serving** – endpoints, certificates, identities, EVM addresses and lists of
  owned hotkeys, under registration, replacement, the three kinds of key swap
  and network removal.
* **SubnetViews** – the RPC views of a subnet and its neurons (`rpc_info/`). A
  map no other module keeps is read symbolically, so a view that reads the
  wrong map shows.

### Money

* **SharePool** – `primitives/share-pool` in fixed point.
* **Staking** – all staking calls over one ledger: add, remove, move, transfer,
  swap, with and without limits, recycle, burn, takes, small nominations. What
  pallet-swap answers is any outcome within a bound.
* **Coinbase** – the emission of a block into pools and pending amounts, and
  what an epoch pays out of them (`coinbase/run_coinbase.rs`).
* **Economy** – the composition of the two on one ledger; **StakeViews** – what
  `delegate_info.rs` and `stake_info.rs` show of it.
* **Dividends** – stake that parents lend to children, the stake weights of
  consensus, and the split of dividends between child, parents and root, with
  the owner's cut and the validator's take. `ChildKeys` and `ParentKeys` are two
  lists, as stored; among the starting families is one with a parent listed
  twice, which a key swap may leave (`ChildKeysDuplicates`).
* **Swap** – the liquidity pool of a subnet (`pallets/swap`): positions, ticks,
  fees, trades step by step, protocol liquidity, with **TickIndex** (the bounded
  index) and a price table in place of the 256-bit curve.
* **TickBitmap** – the three-layer bitmap in which ticks are found; it
  implements **ActiveTicks**, a set that is asked for the closest element.
* **Crowdloan** – all calls of the pallet. Stored calls are abstracted to those
  that touch the crowdloan itself and others; `finalize` writes back the record
  it read before dispatching. Dust and the existential deposit are modelled
  from the use of `pallet_balances`. Donations straight to a funds account are
  not.

### Calls, keys and records

* **Transactions** – the nonce check, every arm of the transaction extension,
  the rate limits, the schedule of coldkey swaps, swaps that root makes
  itself, the clean-up of hotkey swap records. A transaction may be included at
  any time, late or repeatedly.
* **Calls**, **Proxy** – the filters of the runtime; proxies, announcements and
  batches nested in each other.
* **Governance** – motions of the Triumvirate, votes of the Senate, and how
  seats are won by stake, handed on by a key swap and lost.
* **Drand**, **Commitments** – off-chain workers that submit pulses, with
  endpoints that lag or return bad ones, and payloads of other keys, which
  `validate_unsigned` accepts as well if they are signed; commitments that are encrypted to a
  future pulse and revealed by the block hook, composed with the bridge.
* **Registry** – identities with deposits, and the hand-written codec.
* **Migrations** – every migration `on_runtime_upgrade` calls, in its order,
  from any earlier point of the list.
* **Precompiles** – over `Hyperparameters` and `SubnetViews`: every method of the
  subnet, metagraph, neuron and balance-transfer precompiles, the methods of
  both staking precompiles that move stake or change proxies, and the pool
  reserves of the alpha precompile, behind the switches of `PrecompileEnable`
  (both staking precompiles share one). The views of stake and alpha prices and
  `getAlphaStakedValidators` are not modelled.

## 3. Runs

Where a run checks several statements about one part, the MC module names their
conjunction; each conjunct is defined and explained in the module of the part,
and a mutant in `PROJECT.json` breaks it (several mutants per property, where it
has several conjuncts).

| Run | Checks | Shows |
|---|---|---|
| `Registration` | `NeuronsInv`, `OwnerKeepsSlot`, `UidsAreStable`, `ImplementsNeurons`, `RegistrationsSound`, `PrunesAsDocumented`, `CountedIsRegistered` | the slot table is one consistent table in every order of operations and the code implements it; the loop prunes the neuron its comment describes; the counters agree with each other and with the neurons that came |
| `WeightCommits` | `CommitsSound`, `RevealsSound`, `EncryptedRevealsOnTime` | weights change under commit-reveal only to what was committed; queues stay ordered and revealable; windows are exact while settings are stable |
| `ChildKeys` | `FamiliesSound`, `ChildrenHaveWaited` | shares bounded, changes applied on time and not before with any swaps; the two maps mirror each other with swaps to hotkeys without family |
| `Crowdloan` | `BooksAgree`, `RaisedIsContributed`, `FinalizedForever`, `OnlyFinalizeMovesWealth`, `RefundCompletes` | the books balance, nested calls of `finalize` included; repeated refunds complete |
| `Economy` | `MoneySound`, `OthersKeepStake` | TAO and alpha stay backed, shares add up to their pool, nobody loses stake by a call of somebody else, the views show all stake |
| `Pallets` | `PositionsSound`, `TradesSound`, `MotionsSound`, `SeatsFollowStake`, `ProxiesSound`, `CommitmentsSound`, `RevealsComeAtOnce`, `RegistrySound`, `RecordsSound`, `MigrationsSound`, `TransactionsSound` | eight parts, one per behaviour |
| `Subnets` | `EpochSound`, `EpochStepsSound`, `KinSound`, `TermsSound`, `ParametersSound`, `ViewsSound`, `PrecompilesSound`, `CallsSound`, `LayersSound`, `ImplementsTickSet` | what is computed for a subnet, one part per behaviour; the bitmap implements a set |
| `NeuronsSpecific`, `ChildKeysDuplicates`, `CrowdloanRefundStuck`, `EconomyIssuance`, `SubnetsErased` | one each | the findings of section 4 |

### Bounds

* Several MC modules let a behaviour choose at the start which part or slice it
  explores (`pallet`, `part`, `kind`). The parts share no variable that both
  move, so this loses no interleaving; it only puts small state graphs side by
  side. `steps` or `calls` count what a behaviour spends; blocks are free or
  cheap, so that waiting is always possible.
* `Registration`: root and one subnet, four hotkeys, one more than slots, so
  subnets fill, prune, go and come back; several blocks (two epochs, an
  adjustment interval), an immunity period and score values, so that ties,
  immune neurons and maximal scores occur.
* `WeightCommits`: three hotkeys on two slots (replacements and swaps change the
  owner of a slot), two payloads, queues of two where the code has ten, seven
  blocks with tempo 0 to 2. Two queue places are enough for full,
  expired-at-front, repeated and out-of-order reveals.
* `ChildKeys`: three hotkeys (parent, child, third party), two children where
  the code has five, proportions 1 and 2 of a whole of 2; any swaps over three
  blocks, fresh swaps over six.
* `Crowdloan`: one crowdloan with all calls, or two side by side; refund batches
  of one, amounts that reach the cap exactly, from below and past it. The
  existential deposit is 2, no contribution is below it, and balances are odd,
  so that a transfer may leave dust; `CrowdloanRefundStuck` has a contribution
  below it.
* `Economy`: two hotkeys, two coldkeys, root and a subnet; two calls and a
  block, from several starting ledgers (staked or not, with or without pending
  emission). Minimum stake 2 with amounts 1 to 3, so that amounts below it,
  at it, and yields below it after slippage all occur.
* `Pallets`: five ticks and four operations on the pool; three senators for two
  seats; four nested extrinsics over three blocks; three rounds, two
  transactions in the pool; accounts and fields at the smallest number at which
  a record can change hands; all starting points of the migration list; two
  signers and three nonces over six blocks.
* `Subnets`: nine ticks in words of three bits, so all three layers are used;
  three neurons with two permits and every kind of epoch, three epochs with
  changes before and between them; three hotkeys lending to each other; two
  adjustments of the registration terms with a target of two, after up to nine
  registrations, a change of a term taking the place of three; every
  hyperparameter with two or three values, two changes of related parameters
  per behaviour; two calls of any methods of precompiles.

Symmetry is over interchangeable hotkeys in safety runs only.
Deadlock is checked for `NeuronsSpecific`; the last block bound stops every other
model.

### Fairness

Only `Crowdloan` and `CrowdloanRefundStuck` need it: blocks keep coming
(`WF(NextBlock)`) and somebody keeps calling `refund` (anybody may; the
documentation tells users to repeat the call). "On time" properties of the
other modules are safety properties over block numbers, which say more than an
eventuality would.

## 4. Findings

Five runs refute a sentence of a comment:

* `NeuronsSpecific`: `is_hotkey_registered_on_specific_network` also reports
  hotkeys with an entry that holds `false`, which a swap on all subnets leaves.
* `ChildKeysDuplicates`: duplicates among a child's parents are possible after
  a swap to a hotkey that already has family. `Mirrored` and `ProperFamilies`
  therefore are claimed for swaps to fresh hotkeys only.
* `CrowdloanRefundStuck`: one contributor who cannot receive a small refund
  blocks all refunds.
* `EconomyIssuance`: on root, whose mechanism is stable, staking changes the
  currency but not `TotalStake`, so the sum `try_state` checks drifts.
* `SubnetsErased`: `user_remove_network` says that it erases "the network and all
  its parameters" (`coinbase/root.rs:404`); `remove_network` erases eight of them.
  Those that `init_new_network` does not write either, such as the burn bounds and
  most switches, pass to the next subnet under the netuid.
  `ResetParametersAreFresh`, which holds, is about the others.

Three more sentences of the code are definitions in the modules that no run
checks, because TLC refutes each of them within seconds when it is put in the
place of the invariants of the run named here:

| Definition | Run | What the code does |
|---|---|---|
| `GlobalBlockEmission` (BlockTerms) | `Subnets` | `get_block_emission_for_issuance` stores its result as the global block emission also when it is asked about a subnet's alpha |
| `ValidatorsFitUids` (Hyperparameters) | `Subnets` | the limit is compared when validators are set, not when uids are lowered |
| `ReleasesAreExact` (Registry) | `Pallets` | the deposit is released from whoever clears the identity, who need not hold it |

Met while modelling: the formula in the
comment of `blocks_until_next_epoch` (`run_coinbase.rs:832`) is one block off
(its table is right); the comment on `reveal_epoch` (`run_coinbase.rs:864`) is
one epoch off; `refund` is documented for failed crowdloans and also accepts
one that raised its cap and has ended; `delegate_info.rs:73` uses a netuid as
the position in a list of the existing networks, which is right until a network
is dissolved (`Economy` has no gap among its netuids). Two disagreements are
with comments whose code the properties confirm:

* `Data` of the registry is said to be truncated "if the data is greater than
  32-bytes" (`registry/src/types.rs:36`), and to have raw variants "from 0-32"
  (`types.rs:125`). The bound of the type, `encode`, `decode` and the variants
  listed below that comment all go to 64 bytes, and
  `RegistrationsSurviveEncoding` shows that none of up to 64 bytes is truncated.
* `sudo_set_min_difficulty`, `sudo_set_max_burn` and `sudo_set_difficulty` are said
  to be callable "by the root account or subnet owner"
  (`admin-utils/src/lib.rs:220`, `707`, `734`), and call `ensure_root`;
  `SignersKeepToTheirSubnets` counts them among root's parameters.

## 5. Proofs

The proofs hold for every value of the constants that meets the named
assumptions of the modules; what a theorem needs beyond those is in its
statement. Each safety theorem has an inductive invariant, which TLC checked on
the instance of the run before it was proved.

* `Neurons_proofs`: `NeuronsInv`, the conjunction of the type invariant and the
  six state invariants, is inductive (`SlotTable`). The parts lean on each
  other: that `append_neuron` keeps `Keys` and `Uids` inverse needs that the slot
  it writes is free, and `replace_neuron` that the victim's is filled (both
  `SlotsContiguous`); a swap needs `MembershipAgrees`, since its guard reads
  `IsNetworkMember` and its effect is on `Uids`; a new subnet on a reused netuid
  needs `AbsentIsEmpty`. From the invariant follow
  `KeysAndUidsAreInverse`, `MembershipAlwaysAgrees` and the action properties
  `OwnerIsNeverPruned` and `UidsNeverMove` (no operation changes the holders of
  two slots of a subnet at once). Assumptions: at least one subnet besides root,
  capacity of at least two for subnets and one for root.
* `Registration_proofs`: `RegistrationInv` adds to `NeuronsInv` that every uid has
  a score and what the counters of a subnet have to do with each other and with
  the neurons that came; to be inductive it also needs that no neuron came in a
  block still to come, and that the block counter covers the newcomers and keeps
  its limit. From it `BooksAlwaysSound`. `RegistrationRefinesNeurons` shows step
  by step that registration implements the slot table; the step of a full subnet needs that the uid the
  loop returns is a filled slot other than the owner's. That comes from
  `PrunesAlwaysAsDocumented`: the loop is a recursive function of the uid, and
  an induction over the uids seen so far shows that its two running minima are
  the lowest scores among immune and other neurons, ties going to the oldest.
  Through the refinement `RegistrationKeepsTable` and `RegistrationKeepsSlots`
  carry the theorems on the table over. `EveryCountedIsRegistered` excludes that
  a registration is counted without a slot.
* `Crowdloan_proofs`: `CrowdloanInv` says of every crowdloan at once what its
  record, contributions and funds have to do with each other, and is inductive
  (`Books`). From it: `FundsAlwaysMatch`, `DepositIsKept`, `CountAlwaysExact`,
  their conjunction `BooksAlwaysAgree`,
  and `FinalizedIsForever` (`contribute` does not look at the flag and is kept
  out because the end has passed). `SharesInv` adds that what a crowdloan raised
  is the sum of its contributions (`RaisedIsAlwaysContributed`); the step of
  `refund`, which clears a batch of contributors, splits the sum.
  `OnlyFinalizeMoves` follows one account through every call, for any existential
  deposit: unless a crowdloan is finalized it never gains, and loses only what
  is left of a balance that a transfer uses up, which is less than the
  existential deposit. Assumptions: finitely many accounts, minimum deposit at least the existential deposit, as the runtime
  configures.
* `EpochClock_proofs`: for all tempos, netuids and blocks, `EpochTurns` (an
  epoch runs exactly in the last block of each epoch index), `RevealWindow`
  (the stored window is the accepted one; period at least 1) and `EpochComes`.
  All rest on one lemma on quotients.
* `WeightCommits_proofs`: whatever is popped, drained or removed from a queue
  leaves a subsequence of it, so one relation (`Sub`) carries order, bound and
  ownership through every call, batch reveals by an induction over the batch.
  `CommitsInv` says that queues are ordered, within their limit, and hold no
  commit from the future; order makes the popping of expired commits complete,
  since an older commit expires first. From it `QueuesAlwaysOrdered` and
  `RevealsAlwaysSound`, for any changes of tempo, period, slots and keys.
* `MCWeightCommits_proofs`: the same calls while neurons and settings stay.
  `StableInv` says that every stored commit was noted in `LastUpdate` at its
  block or later, that any two commits of a hotkey, in one queue or two, are a
  rate limit apart, that the stored window is the one of its block, and that an
  encrypted commit lies in the queue of its epoch and is not yet due.
  `EpochsRunIs` turns the number of epochs that ran into a difference of epoch
  indices, by induction over blocks; with it `StableCommits` and
  `StableReveals`, and from these `CommitsAlwaysSound` and
  `EncryptedAlwaysOnTime` for the specification the run explores.
* `Sums_proofs`: lemmas the others share: induction over the naturals in terms
  of sets, and sums over finite sets as the community modules fold them, which
  do not depend on the order of folding.

Model-checked only:

* liveness (`RefundCompletes`), and what needs fairness;
* the modules not named above: `ChildKeys`, the parts of `Economy`, `Pallets` and
  `Subnets`, and the refinement of `ActiveTicks` by `TickBitmap`. `EpochMath`,
  `Proxy` and `Swap` declare recursive operators, which the prover cannot handle
  in any module that reaches them, `MCPallets` and `MCSubnets` among these.

## 6. What holds only under conditions

* `WindowsAgree`, `CommitsSpaced` and `CRV3OnTime` hold while tempo, period and
  slots stay as they are: the stored window is not updated, and a newcomer
  takes over the slot's `LastUpdate`.
* `CRV3OnTime` leaves out the first epochs of the chain (`AtStart`). Encrypted
  commits due before epoch 2 of a subnet's numbering are dropped. With a reveal
  period over 3 the saturating subtraction that gives the epoch to reveal
  (`run_coinbase.rs:865`) yields 0 in epoch 2 already, so the commits of epoch 0
  are tried early; an attempt to prove `CRV3OnTime` without `AtStart` showed
  this. The run's periods are 1 and 2; TLC finds it with a period of 4.
* `WindowsAgree` needs a reveal period of at least 1. With 0, which
  `sudo_set_commit_reveal_weights_interval` accepts, the first reveal block of a
  commit of epoch 0 saturates at 0 and its last one lies beyond the epoch.
* Commits moved by a hotkey swap still hash the old hotkey and cannot be
  revealed by the new one.
* `OnlyFinalizeMovesWealth` allows for dust: an account whose balance a transfer
  uses up loses what is left below the existential deposit.
* `WorkersLeaveNoHole` is about rounds that workers pass over. Anybody's signed
  payload is accepted if its rounds rise, so others may leave a hole, and a
  timelock on a round that was passed over is never opened. An unverified pulse
  in a payload is skipped as well.
* `TermsWithinBounds` holds from the first adjustment after a bound or the value
  itself was set. Until then burn and difficulty may lie outside: a new subnet
  starts with both difficulty bounds at the maximum and a lower difficulty, and
  the setters do not compare.
* `LockCostOnlyDecays` excludes steps that stretch the lock reduction interval
  (root sets it, issuance falls), that create a network, and the step at which
  nothing is left to emit: with an interval of 0 nothing is taken off the price,
  which jumps back to what it was right after the last registration.
* `OneSwapPending` excludes coldkeys that root has swapped with `swap_coldkey`:
  that removes the record and leaves the scheduler's call.
* `FrozenWhileScheduled` is about the call that is signed; the transaction
  extension does not look into batches and proxy calls.
* `InheritanceConserves` needs that `ChildKeys` and `ParentKeys` list one another
  (`FamiliesAgree`); `DividendsConserve` and `PaysWithinPending` do not.
* `DenseAndSparseAgree` leaves out rows of weights with uids out of order, for
  which the cursor of the sparse liquid-alpha code skips entries.
* `NoncesInOrder` speaks of one life of an account; a reaped account starts over.
* `LookupFindsAll` is about limits that cover the network: the limit cuts the
  iteration before the filter.
* The deposits of commitments are covered by reserves but need not equal them; a
  fully revealed commitment is removed with its deposit still reserved. The
  runtime sets the deposits to zero.

## 7. What is not modelled

* The 256-bit conversion between ticks and square-root prices (`swap/src/tick.rs`
  from line 844), `log2` and the exponential: numeric kernels whose properties
  are about real numbers. They are increasing tables or parameters here.
* Cryptography: pulse and EVM signatures, timelock decryption, the work of a
  proof-of-work registration. Each is an outcome.
* Weights and fees of transactions, gas of precompiles, raw storage queries and
  the two signature precompiles.
* Token symbols (`subnets/symbols.rs`), a table of characters.
* `node/` assembles Substrate's services; chain specifications are data;
  `support/` and `build.rs` are compile-time tools, a fork of Substrate's
  procedural macros among them (some 16 000 lines); weight files are generated;
  `services/`, `subnet-*` and `scripts/` are demonstrations around a local
  network.
* Functions no code calls: `get_dynamic_tao_emission`, `quantile`,
  `sigmoid_safe`, `migrate_subnet_identities_to_v3`, `migrate_stake_threshold`.
* The faucet, and setting the child key take, a rate-limited write of one value.
* What a removed subnet leaves of commits and children for the next one with the
  netuid: `WeightCommits` and `ChildKeys` model one life of a subnet.
