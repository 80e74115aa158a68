----------------------------- MODULE EpochClock -----------------------------
(***************************************************************************)
(* The epoch arithmetic of pallet-subtensor.  A subnet with tempo t runs   *)
(* its epoch every t + 1 blocks, at an offset given by its netuid.  Two    *)
(* pieces of code compute it apart from each other: blocks_until_next_epoch *)
(* decides when an epoch runs, get_epoch_index numbers the epochs for the  *)
(* commit-reveal windows.                                                  *)
(***************************************************************************)
EXTENDS Integers

\* u64::MAX, the answer for a tempo of 0: a number of blocks never waited.
Never == -1

blocks_until_next_epoch(netuid, tempo, block) ==
    IF tempo = 0 THEN Never
    ELSE tempo - ((block + netuid + 1) % (tempo + 1))

should_run_epoch(netuid, tempo, block) ==
    blocks_until_next_epoch(netuid, tempo, block) = 0

get_epoch_index(netuid, tempo, block) == (block + netuid + 1) \div (tempo + 1)

Monus(a, b) == IF a >= b THEN a - b ELSE 0

\* Mutant: the window is one block short of an epoch.
get_reveal_blocks_short(netuid, tempo, period, commit_block) ==
    LET first == Monus((get_epoch_index(netuid, tempo, commit_block) + period) * (tempo + 1),
                       netuid + 1)
    IN  [first |-> first, last |-> first + tempo - 1]

\* The first and the last block of the epoch in which a commit is revealed.
get_reveal_blocks(netuid, tempo, period, commit_block) ==
    LET first == Monus((get_epoch_index(netuid, tempo, commit_block) + period) * (tempo + 1),
                       netuid + 1)
    IN  [first |-> first, last |-> first + tempo]

\* At block, a commit made at commit_block is in the epoch of its reveal.
is_reveal_block_range(netuid, tempo, period, commit_block, block) ==
    get_epoch_index(netuid, tempo, block)
        = get_epoch_index(netuid, tempo, commit_block) + period

\* At block, the epoch of its reveal is over.
is_commit_expired(netuid, tempo, period, commit_block, block) ==
    get_epoch_index(netuid, tempo, block)
        > get_epoch_index(netuid, tempo, commit_block) + period
=============================================================================
