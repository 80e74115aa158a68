----------------------------- MODULE MCChildKeys -----------------------------
(***************************************************************************)
(* ChildKeys for TLC: three hotkeys.  A behaviour is of one of two kinds,  *)
(* chosen first: with swaps between any two hotkeys, or with swaps to a    *)
(* hotkey without family only, over more blocks.                           *)
(***************************************************************************)
EXTENDS ChildKeys

CONSTANT AnyBlocks   \* bound on the blocks of a behaviour with any swaps

VARIABLE kind

MCvars == <<vars, kind>>

Symm == Permutations(Hotkeys)

\* A hotkey that has no children and no parents, now or pending.
IsFresh(h) ==
    /\ ChildKeys[h] = << >> /\ ParentKeys[h] = << >>
    /\ h \notin DOMAIN PendingChildKeys
    /\ \A k \in DOMAIN PendingChildKeys : h \notin KeysOf(PendingChildKeys[k].children)

\* Bound: changes that are pending at a time, with fresh swaps.
MaxPending == 2

MCInit == Init /\ kind \in {"any", "fresh"}

AnySteps ==
    /\ kind = "any"
    /\ \/ block < AnyBlocks /\ FamilySteps
       \/ \E old, new \in Hotkeys : perform_hotkey_swap_on_one_subnet(old, new)
    /\ UNCHANGED kind

FreshSteps ==
    /\ kind = "fresh"
    /\ \/ FamilySteps
       \/ \E old, new \in Hotkeys : IsFresh(new) /\ perform_hotkey_swap_on_one_subnet(old, new)
    /\ Cardinality(DOMAIN PendingChildKeys') <= MaxPending
    /\ UNCHANGED kind

MCSpec == MCInit /\ [][AnySteps \/ FreshSteps]_MCvars

\* Whatever is scheduled and swapped, shares are bounded and scheduled changes
\* are applied at their epoch; with swaps to fresh hotkeys the two maps are one
\* relation, in which nobody is related twice or to itself (set_children.rs,
\* swap_hotkey.rs).
FamiliesSound ==
    /\ TypeOK /\ SharesBounded /\ AppliedOnTime
    /\ kind = "fresh" => Mirrored /\ ProperFamilies

\* A block changes a hotkey's children only to what was pending with its
\* cool-down over (do_set_pending_children).
ChildrenHaveWaited == [][ChildrenWaited]_MCvars
=============================================================================
