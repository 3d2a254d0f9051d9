---------------------------- MODULE ObjectStore ----------------------------
(***************************************************************************)
(* What the rest of hydra-server takes PUT /storage/{token} to be: an      *)
(* object is absent until an upload of it finishes, then it is there,      *)
(* whole, and it stays whole.  No reader ever finds half of one.           *)
(***************************************************************************)
CONSTANT Keys

VARIABLE object  \* what a download of each key would return

Init == object = [k \in Keys |-> "absent"]

Land(k) == object' = [object EXCEPT ![k] = "whole"]

Next == \E k \in Keys : Land(k)

Spec == Init /\ [][Next]_object
=============================================================================
