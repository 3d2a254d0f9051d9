---------------------------- MODULE SaveHistory ----------------------------
(***************************************************************************)
(* What the launchers take Cloud Save V2 to be while nobody deletes: a     *)
(* save is offered once and never rewritten; once it has been put in use,  *)
(* by its commit or by a restore, it can be handed back exactly as it was  *)
(* offered, for good, whatever replaces it; and a game uses one save at a  *)
(* time.                                                                   *)
(***************************************************************************)
CONSTANTS Games, Ids, Files

VARIABLES
    offered,  \* of each id, the save announced under it: none or one
    kept,     \* of each id, what a restore of it hands back: none or one
    inUse     \* of each game, the ids a launcher is told are current

history == <<offered, kept, inUse>>

Init ==
    /\ offered = [s \in Ids |-> {}]
    /\ kept = [s \in Ids |-> {}]
    /\ inUse = [g \in Games |-> {}]

Offer(s, g, F) ==
    /\ offered[s] = {}
    /\ offered' = [offered EXCEPT ![s] = {[game |-> g, files |-> F]}]
    /\ UNCHANGED <<kept, inUse>>

Use(s) ==
    /\ kept' = [kept EXCEPT ![s] = offered[s]]
    /\ \E save \in offered[s] : inUse' = [inUse EXCEPT ![save.game] = {s}]
    /\ UNCHANGED offered

Next ==
    \/ \E s \in Ids, g \in Games, F \in SUBSET Files : Offer(s, g, F)
    \/ \E s \in Ids : Use(s)

Spec == Init /\ [][Next]_history
=============================================================================
