------------------------------ MODULE MCSaves ------------------------------
(* Saves for TLC: one of its parts, the focus, moves in a behaviour, so     *)
(* that the state space is the sum of theirs and not the product.           *)
EXTENDS Saves, TLC

CONSTANT Components  \* the parts that may be the focus
VARIABLE focus

OneSlot == {"card"}
InOneSlot == [s \in Saves |-> "card"]
OfOneGame == [a \in Artifacts |-> "game"]

MCInit == focus \in Components /\ SavesInit

MCNext ==
    /\ \/ focus = "emulation" /\ EmulationStep
       \/ focus = "backups" /\ BackupsStep
    /\ UNCHANGED focus

MCSpec == MCInit /\ [][MCNext]_<<focus, allVars>>

Symmetry == {f @@ g : f \in Permutations(Saves), g \in Permutations(Requests)}
=============================================================================
