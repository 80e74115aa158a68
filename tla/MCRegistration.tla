---------------------------- MODULE MCRegistration ----------------------------
(***************************************************************************)
(* Registration for TLC.  A behaviour is of one of two kinds, chosen       *)
(* first: a few steps of every kind, or a run of blocks in which subnets   *)
(* come, fill, are pruned and go while scores, registration blocks and     *)
(* counters run.                                                           *)
(***************************************************************************)
EXTENDS Registration, TLC

CONSTANT MaxSteps      \* bound on the steps of a behaviour of the first kind

VARIABLES kind, steps

\* The accounts other than the genesis account are interchangeable.
Symm == Permutations(Hotkeys \ {GenesisHotkey})

MCInit == RegistrationInit /\ kind \in {"few", "long"} /\ steps = 0

FewSteps ==
    kind = "few" /\ steps < MaxSteps /\ RegistrationNext /\ steps' = steps + 1 /\ UNCHANGED kind

\* Without the calls that rename hotkeys or change the capacity.
LongNext ==
    \/ \E n \in NetUids, h \in Hotkeys : do_burned_registration(n, h)
    \/ \E n \in NetUids, h \in Hotkeys : do_registration(n, h)
    \/ \E h \in Hotkeys : do_root_register(h)
    \/ \E n \in NetUids, h \in Hotkeys : do_register_network(n, h)
    \/ \E n \in NetUids : remove_network(n)
    \/ \E n \in NetUids \ {ROOT}, h \in Hotkeys : do_set_sn_owner_hotkey(n, h)
    \/ block_step

LongSteps == kind = "long" /\ LongNext /\ UNCHANGED <<kind, steps>>

MCSpec == MCInit /\ [][FewSteps \/ LongSteps]_<<registrationVars, kind, steps>>
=============================================================================
