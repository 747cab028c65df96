------------------------- MODULE MCMessageDelivery -------------------------
(* Instances of MessageDelivery for TLC. *)
EXTENDS MessageDelivery, TLC
CONSTANTS c1, c2
TwoClients == {c1, c2}
OneClient == {c1}
NoClients == {}
Symmetry == Permutations(Client)
=============================================================================
