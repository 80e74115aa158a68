------------------------------ MODULE ChildKeys ------------------------------
(***************************************************************************)
(* Child hotkeys on one subnet of pallet-subtensor: a hotkey passes shares *)
(* of its stake weight on to child hotkeys.                                *)
(*                                                                         *)
(* The relation is stored twice, as ChildKeys (parent -> children) and as  *)
(* ParentKeys (child -> parents), and the stake a neuron counts with reads *)
(* both.  A change is scheduled in PendingChildKeys, waits for a cool-down *)
(* and is applied by the block hook at the next epoch.  A hotkey swap      *)
(* rewrites all three maps.                                                *)
(*                                                                         *)
(* Ownership, stake thresholds and rate limits decide only whether a call  *)
(* succeeds and are left nondeterministic.  An empty list stands for an    *)
(* absent entry.                                                           *)
(***************************************************************************)
EXTENDS EpochClock, SequencesExt

CONSTANTS
    Hotkeys,
    Netuid, Tempo,
    MaxChildren,    \* children of a hotkey (5)
    MaxProportion,  \* what the proportions may sum up to (u64::MAX)
    Proportions,    \* bound: the proportions callers name
    Cooldown,       \* PendingChildKeyCooldown, in blocks (7200)
    MaxBlock        \* bound: the last block; changes are scheduled before it

ASSUME ChildKeysAssumption ==
    /\ Netuid \in Nat /\ Tempo \in Nat /\ MaxChildren \in Nat
    /\ MaxProportion \in Nat /\ Proportions \subseteq Nat
    /\ Cooldown \in Nat /\ MaxBlock \in Nat

VARIABLES
    block,
    ChildKeys,         \* [hotkey -> list of <<proportion, child>>]
    ParentKeys,        \* [hotkey -> list of <<proportion, parent>>]
    PendingChildKeys   \* [hotkey with a pending change -> children, cool_down_block]

vars == <<block, ChildKeys, ParentKeys, PendingChildKeys>>

KeysOf(list) == {list[i][2] : i \in DOMAIN list}

Total(list) == FoldLeft(LAMBDA sum, e : sum + e[1], 0, list)

Lists == UNION {[1..k -> Proportions \X Hotkeys] : k \in 0..MaxChildren}

Init ==
    /\ block = 0
    /\ ChildKeys = [h \in Hotkeys |-> << >>]
    /\ ParentKeys = [h \in Hotkeys |-> << >>]
    /\ PendingChildKeys = << >>

-----------------------------------------------------------------------------
\* Mutant: a child may be named twice.
AcceptsChildren_twice(h, children) ==
    /\ Len(children) <= MaxChildren
    /\ h \notin KeysOf(children)
    /\ Total(children) <= MaxProportion

AcceptsChildren(h, children) ==
    /\ Len(children) <= MaxChildren
    /\ h \notin KeysOf(children)
    /\ Total(children) <= MaxProportion
    /\ Cardinality(KeysOf(children)) = Len(children)

\* A change already pending is replaced, its cool-down included.
do_schedule_children(h, children) ==
    /\ block < MaxBlock
    /\ AcceptsChildren(h, children)
    /\ PendingChildKeys' = [k \in DOMAIN PendingChildKeys \cup {h} |->
           IF k = h THEN [children |-> children, cool_down_block |-> block + Cooldown]
           ELSE PendingChildKeys[k]]
    /\ UNCHANGED <<block, ChildKeys, ParentKeys>>

\* Mutant: the hotkey stays on the parent lists of its old children.
SetChildren_keeps_old(family, h) ==
    LET children == PendingChildKeys[h].children
        mine == [c \in Hotkeys |-> SelectSeq(children, LAMBDA e : e[2] = c)]
    IN  [child  |-> [family.child EXCEPT ![h] = children],
         parent |-> [c \in Hotkeys |->
                        family.parent[c] \o [i \in DOMAIN mine[c] |-> <<mine[c][i][1], h>>]]]

\* The pending change of h, applied to the two maps: h leaves the lists of its
\* old children, the list of children is replaced, and h is appended to the
\* lists of the new ones.
SetChildren(family, h) ==
    LET children == PendingChildKeys[h].children
        mine == [c \in Hotkeys |-> SelectSeq(children, LAMBDA e : e[2] = c)]
        Left(c) == IF c \in KeysOf(family.child[h])
                     THEN SelectSeq(family.parent[c], LAMBDA e : e[2] # h)
                     ELSE family.parent[c]
    IN  [child  |-> [family.child EXCEPT ![h] = children],
         parent |-> [c \in Hotkeys |->
                        Left(c) \o [i \in DOMAIN mine[c] |-> <<mine[c][i][1], h>>]]]

\* Mutant: a change is applied in the block its cool-down ends.
IsDue_at_end(h, b) == PendingChildKeys[h].cool_down_block <= b

IsDue(h, b) == PendingChildKeys[h].cool_down_block < b

\* Mutant: the loop ends before it applies anything when a change is not due.
DueAt_all(b) ==
    {h \in DOMAIN PendingChildKeys : \A k \in DOMAIN PendingChildKeys : IsDue(k, b)}

DueAt(b) == {h \in DOMAIN PendingChildKeys : IsDue(h, b)}

\* Every change whose cool-down is over is applied and removed, in the order
\* in which the storage map iterates.
do_set_pending_children(b) ==
    \E order \in SetToSeqs(DueAt(b)) :
        LET now == FoldLeft(SetChildren, [child |-> ChildKeys, parent |-> ParentKeys], order)
        IN  /\ ChildKeys' = now.child
            /\ ParentKeys' = now.parent
            /\ PendingChildKeys' =
                 [h \in DOMAIN PendingChildKeys \ DueAt(b) |-> PendingChildKeys[h]]

\* on_initialize of the next block: try_set_pending_children.
block_step ==
    /\ block < MaxBlock
    /\ block' = block + 1
    /\ IF should_run_epoch(Netuid, Tempo, block + 1)
         THEN do_set_pending_children(block + 1)
         ELSE UNCHANGED <<ChildKeys, ParentKeys, PendingChildKeys>>

\* remove_stake that takes the hotkey's stake below the threshold.
remove_stake(h) ==
    /\ h \in DOMAIN PendingChildKeys
    /\ PendingChildKeys' = [k \in DOMAIN PendingChildKeys \ {h} |-> PendingChildKeys[k]]
    /\ UNCHANGED <<block, ChildKeys, ParentKeys>>

-----------------------------------------------------------------------------
\* A hotkey swap.

Rename(list, old, new) ==
    [i \in DOMAIN list |-> IF list[i][2] = old THEN <<list[i][1], new>> ELSE list[i]]

\* Mutant: the children of old are added to new's own.
SwapFamily_merges(old, new) ==
    LET mine == ChildKeys[old]
        parent == [h \in Hotkeys |->
            IF h \in KeysOf(mine) THEN Rename(ParentKeys[h], old, new) ELSE ParentKeys[h]]
        theirs == parent[old]
        child == [ChildKeys EXCEPT ![old] = << >>, ![new] = @ \o mine]
    IN  [child  |-> [h \in Hotkeys |->
                        IF h \in KeysOf(theirs) THEN Rename(child[h], old, new) ELSE child[h]],
         parent |-> [parent EXCEPT ![old] = << >>, ![new] = theirs]]

\* The children of old become new's, replacing new's own, and their lists of
\* parents are renamed; then the same the other way round.
SwapFamily(old, new) ==
    LET mine == ChildKeys[old]
        child == [ChildKeys EXCEPT ![old] = << >>, ![new] = mine]
        parent == [h \in Hotkeys |->
            IF h \in KeysOf(mine) THEN Rename(ParentKeys[h], old, new) ELSE ParentKeys[h]]
        theirs == parent[old]
    IN  [child  |-> [h \in Hotkeys |->
                        IF h \in KeysOf(theirs) THEN Rename(child[h], old, new) ELSE child[h]],
         parent |-> [parent EXCEPT ![old] = << >>, ![new] = theirs]]

\* Mutant: the entry that names old stays.
Repoint_adds(children, old, new) ==
    LET i == SelectInSeq(children, LAMBDA e : e[2] = old)
    IN  IF i = 0 THEN children ELSE Append(children, <<children[i][1], new>>)

\* The first entry that names old goes, and one that names new comes last.
Repoint(children, old, new) ==
    LET i == SelectInSeq(children, LAMBDA e : e[2] = old)
    IN  IF i = 0 THEN children ELSE Append(RemoveAt(children, i), <<children[i][1], new>>)

\* A pending change of old becomes new's, replacing one of new's own; those of
\* other hotkeys that name old name new instead.
SwapPending(old, new) ==
    LET Was(h) == IF h = new /\ old \in DOMAIN PendingChildKeys THEN old ELSE h
        swapped == IF old \in DOMAIN PendingChildKeys THEN {new} ELSE {}
    IN  [h \in (DOMAIN PendingChildKeys \ {old}) \cup swapped |->
            [PendingChildKeys[Was(h)] EXCEPT !.children = Repoint(@, old, new)]]

perform_hotkey_swap_on_one_subnet(old, new) ==
    /\ old # new
    /\ ChildKeys' = SwapFamily(old, new).child
    /\ ParentKeys' = SwapFamily(old, new).parent
    /\ PendingChildKeys' = SwapPending(old, new)
    /\ UNCHANGED block

FamilySteps ==
    \/ \E h \in Hotkeys, children \in Lists : do_schedule_children(h, children)
    \/ \E h \in Hotkeys : remove_stake(h)
    \/ block_step

Next ==
    \/ FamilySteps
    \/ \E old, new \in Hotkeys : perform_hotkey_swap_on_one_subnet(old, new)

Spec == Init /\ [][Next]_vars

-----------------------------------------------------------------------------
\* What is promised.

Pending == [children : Lists, cool_down_block : Nat]

TypeOK ==
    /\ block \in 0..MaxBlock
    /\ ChildKeys \in [Hotkeys -> Seq(Proportions \X Hotkeys)]
    /\ ParentKeys \in [Hotkeys -> Seq(Proportions \X Hotkeys)]
    /\ DOMAIN PendingChildKeys \subseteq Hotkeys
    /\ PendingChildKeys \in [DOMAIN PendingChildKeys -> Pending]

\* The children of a hotkey never get more than all of its stake, and are
\* never more than MaxChildren, whatever is scheduled and swapped.
SharesBounded ==
    \A h \in Hotkeys :
        Total(ChildKeys[h]) <= MaxProportion /\ Len(ChildKeys[h]) <= MaxChildren

\* A scheduled change takes effect at the first epoch after its cool-down, for
\* every hotkey that has one, and not before.
AppliedOnTime ==
    \A h \in DOMAIN PendingChildKeys :
          \A b \in (PendingChildKeys[h].cool_down_block + 1)..block :
              ~should_run_epoch(Netuid, Tempo, b)

\* No child without having waited: a hotkey's list of children changes only to
\* a list that was pending with its cool-down over, or in a key swap.
ChildrenWaited ==
    block' # block => \A h \in Hotkeys :
       ChildKeys'[h] # ChildKeys[h] =>
           /\ h \in DOMAIN PendingChildKeys
           /\ ChildKeys'[h] = PendingChildKeys[h].children
           /\ PendingChildKeys[h].cool_down_block < block'

Count(list, entry) == Cardinality({i \in DOMAIN list : list[i] = entry})

\* The two maps are one relation: a child is on its parent's list with the
\* proportion with which the parent is on the child's.
Mirrored ==
    \A p, c \in Hotkeys, x \in Proportions :
        Count(ChildKeys[p], <<x, c>>) = Count(ParentKeys[c], <<x, p>>)

ProperList(h, list) == h \notin KeysOf(list) /\ Cardinality(KeysOf(list)) = Len(list)

\* No hotkey is its own child, or the child of the same parent twice, now or
\* in a pending change.
ProperFamilies ==
    /\ \A h \in Hotkeys : ProperList(h, ChildKeys[h]) /\ ProperList(h, ParentKeys[h])
    /\ \A h \in DOMAIN PendingChildKeys : ProperList(h, PendingChildKeys[h].children)

\* "There are no duplicates possible because I previously removed my self from
\* my old children" (do_set_pending_children): no hotkey is twice on a list of
\* parents.
NoDuplicateParents ==
    \A h \in Hotkeys : Cardinality(KeysOf(ParentKeys[h])) = Len(ParentKeys[h])
=============================================================================
