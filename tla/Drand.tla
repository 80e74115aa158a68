------------------------------- MODULE Drand -------------------------------
(***************************************************************************)
(* The drand bridge (pallets/drand): off-chain workers fetch the pulses of *)
(* a randomness beacon and submit them in unsigned transactions; the chain *)
(* verifies and stores them by round.                                      *)
(*                                                                         *)
(* A worker runs after a block on the state of that block; what it submits *)
(* waits in a pool and is validated when a later block includes it.  An    *)
(* endpoint may lag behind the beacon, and may return a pulse that does    *)
(* not verify or does not decode; nothing is assumed about how many        *)
(* workers submit.  A transaction that fails leaves no trace: no step.     *)
(***************************************************************************)
EXTENDS Integers, Sequences, FiniteSets, FiniteSetsExt
LOCAL INSTANCE SequencesExt

CONSTANTS
  MaxRound,             \* bound: rounds of the beacon
  MaxDrandBlock,        \* bound: blocks
  MAX_PULSES_TO_FETCH,
  MaxPool,              \* bound: transactions that wait
  BadPulses             \* the ways an endpoint may spoil a pulse: of {"wrong", "garbled"}

ASSUME DrandConstants ==
  /\ {MaxRound, MaxDrandBlock, MaxPool} \subseteq Nat /\ MAX_PULSES_TO_FETCH \in Nat \ {0}
  /\ BadPulses \subseteq {"wrong", "garbled"}

VARIABLE drand

\* A pulse as it was received.
Pulse(round, kind) == [round |-> round, kind |-> kind]

\* The first endpoint that answers 200 with a body that decodes; none before the deadline: Err.
fetch_and_decode_from_any_endpoint(answers) ==
  IF \E i \in DOMAIN answers : answers[i] = "ok"
  THEN {CHOOSE i \in DOMAIN answers : answers[i] = "ok"} ELSE {}

\* Any round the beacon has reached may be the latest one an endpoint knows.
fetch_drand_latest(beacon) == 1 .. beacon
fetch_drand_by_round(round) == {Pulse(round, k) : k \in {"good"} \cup BadPulses}

\* The signature matches the public key of the configured beacon; one that does not decode is
\* an error.
verify(config, pulse) ==
  IF pulse.kind = "garbled" THEN "Err"
  ELSE IF pulse.kind = "good" /\ config = "quicknet" THEN "true" ELSE "false"

----------------------------------------------------------------------------
\* ---- the off-chain worker ---------------------------------------------------

\* The pulses of rounds first .. last, at most one of them spoiled.
Fetched(first, last) ==
  {[i \in 1 .. last - first + 1 |->
      IF first + i - 1 = bad THEN b ELSE Pulse(first + i - 1, "good")] :
     <<bad, b>> \in UNION {{r} \X fetch_drand_by_round(r) : r \in first .. last}}

\* Its write of LastStoredRound is discarded with the rest of a worker's storage changes.
fetch_drand_pulse_and_send_unsigned ==
  /\ Cardinality(drand.pool) < MaxPool
  /\ drand.nextUnsignedAt <= drand.block
  /\ \E current_round \in fetch_drand_latest(drand.beacon) :
       LET last_stored_round == IF drand.lastStoredRound = 0 THEN current_round - 1
                                ELSE drand.lastStoredRound
           behind == current_round - last_stored_round
           rounds_to_fetch == IF behind < MAX_PULSES_TO_FETCH THEN behind ELSE MAX_PULSES_TO_FETCH
       IN /\ current_round > last_stored_round
          /\ \E pulses \in Fetched(last_stored_round + 1, last_stored_round + rounds_to_fetch) :
               drand' = [drand EXCEPT !.pool = @ \cup
                           {[by |-> "worker", block_number |-> drand.block, pulses |-> pulses]}]

\* Any other payload, put together and signed by whoever likes: good pulses of rounds the
\* beacon has reached, in any order, for any block up to the next one.
SubmittedByOthers ==
  /\ Cardinality(drand.pool) < MaxPool
  /\ \E block_number \in 1 .. drand.block + 1, rounds \in BoundedSeq(1 .. drand.beacon, MAX_PULSES_TO_FETCH) :
       drand' = [drand EXCEPT !.pool = @ \cup
         {[by |-> "other", block_number |-> block_number,
           pulses |-> [i \in DOMAIN rounds |-> Pulse(rounds[i], "good")]]}]

----------------------------------------------------------------------------
\* ---- the unsigned transaction --------------------------------------------------

Stale_late(d, payload) == d.nextUnsignedAt > payload.block_number + 1
Stale(d, payload) == d.nextUnsignedAt > payload.block_number

validate_transaction_parameters(payload) ==
  /\ ~Stale(drand, payload)
  /\ ~ (drand.block < payload.block_number)               \* Future

\* Every payload is signed with the key it names; any key will do.
validate_unsigned(payload) == validate_transaction_parameters(payload)

\* The pulses that verify, in order; each must have a later round than the one before it.
Verified(config, pulses) == SelectSeq(pulses, LAMBDA p : verify(config, p) = "true")
Increasing_than_stored(last, pulses) == \A i \in DOMAIN pulses : pulses[i].round > last
Increasing(last, pulses) ==
  \A i \in DOMAIN pulses : pulses[i].round > (IF i = 1 THEN last ELSE pulses[i - 1].round)

\* NextUnsignedAt becomes the next block; the pool drops the payloads that are stale by then.
NextUnsigned(d) ==
  LET next == [d EXCEPT !.nextUnsignedAt = d.block + 1]
  IN [next EXCEPT !.pool = {p \in @ : ~Stale(next, p)}]

\* History: the rounds a payload passes over for good, because a pulse of them did not verify
\* or because it was not a worker that put it together.
PassedOver(payload, last, rounds) ==
  {r \in last + 1 .. Max(rounds \cup {0}) \ rounds :
     payload.by = "other" \/ \E i \in DOMAIN payload.pulses : payload.pulses[i].round = r}

write_pulse ==
  \E payload \in drand.pool :
    LET stored == Verified(drand.config, payload.pulses)
        rounds == {stored[i].round : i \in DOMAIN stored}
    IN /\ validate_unsigned(payload)
       /\ \A i \in DOMAIN payload.pulses : verify(drand.config, payload.pulses[i]) # "Err"
       /\ Increasing(drand.lastStoredRound, stored)
       /\ drand' = NextUnsigned([drand EXCEPT
            !.pulses = @ \cup rounds,
            !.lastStoredRound = IF stored = <<>> THEN @ ELSE stored[Len(stored)].round,
            !.pool = @ \ {payload}, !.accepted = Append(@, drand.block),
            !.skipped = @ \cup PassedOver(payload, drand.lastStoredRound, rounds)])

set_beacon_config ==
  \E config \in {"quicknet", "other"} \ {drand.config} :
    drand' = NextUnsigned([drand EXCEPT !.config = config])

\* The randomness of the last stored round; the default hash when it has no pulse.
random == IF drand.lastStoredRound \in drand.pulses THEN drand.lastStoredRound ELSE 0
random_at(round) == round \in drand.pulses

----------------------------------------------------------------------------

DrandInitial ==
  [block |-> 1, beacon |-> 1, pulses |-> {}, lastStoredRound |-> 0, nextUnsignedAt |-> 0,
   config |-> "quicknet", pool |-> {}, accepted |-> <<>>, skipped |-> {}]

DrandInit == drand = DrandInitial

BeaconRound == drand.beacon < MaxRound /\ drand' = [drand EXCEPT !.beacon = @ + 1]
NextBlock(d) == [d EXCEPT !.block = @ + 1]
DrandBlock == drand.block < MaxDrandBlock /\ drand' = NextBlock(drand)

DrandNext ==
  \/ fetch_drand_pulse_and_send_unsigned
  \/ SubmittedByOthers
  \/ write_pulse
  \/ set_beacon_config
  \/ BeaconRound
  \/ DrandBlock

DrandSpec == DrandInit /\ [][DrandNext]_drand

----------------------------------------------------------------------------

\* No worker leaves a hole: a round from the first stored one to LastStoredRound has its pulse,
\* unless the pulse an endpoint returned for it did not verify or the payload that passed it
\* over was not a worker's.  Workers race with the state of different blocks and with payloads
\* of others, and NextUnsignedAt admits only what was built on the current LastStoredRound.
\* (write_pulse asks no more than that rounds rise, so a payload of others may well leave a
\* hole; a timelock on a round that was passed over is never opened.)
WorkersLeaveNoHole ==
  \A first \in drand.pulses, r \in 1 .. drand.lastStoredRound :
    first <= r => r \in drand.pulses \cup drand.skipped

\* Whatever order the rounds of a payload come in, LastStoredRound is the highest round stored
\* and no round passed over is stored later: random() answers with the newest pulse, and the
\* next worker asks for rounds the chain does not have.
LastStoredIsHighest ==
  /\ drand.pulses # {} => drand.lastStoredRound = Max(drand.pulses)
  /\ drand.pulses \cap drand.skipped = {}

\* One transaction per block (the comment of NextUnsignedAt): a second one in the block is
\* refused by validate_transaction_parameters.
OneTransactionPerBlock ==
  \A i, j \in DOMAIN drand.accepted : drand.accepted[i] = drand.accepted[j] => i = j

=============================================================================
