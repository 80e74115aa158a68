------------------------------ MODULE ActiveTicks ------------------------------
(* What ActiveTickIndexManager promises: a set of active ticks, asked for the  *)
(* closest active tick at or below, or at or above, a given one.               *)
EXTENDS TickIndex

VARIABLES active, answer

ActiveInit == active = {} /\ answer = NoTick

Insert(t) == active' = active \cup {t} /\ UNCHANGED answer

Remove(t) == active' = active \ {t} /\ UNCHANGED answer

FindClosest(t, lower) ==
    /\ answer' = IF lower THEN find_closest_lower(active, t) ELSE find_closest_higher(active, t)
    /\ UNCHANGED active

ActiveNext ==
    \E t \in Ticks :
        Insert(t) \/ Remove(t) \/ \E lower \in BOOLEAN : FindClosest(t, lower)

ActiveSpec == ActiveInit /\ [][ActiveNext]_<<active, answer>>
=============================================================================
