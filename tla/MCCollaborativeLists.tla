------------------------- MODULE MCCollaborativeLists --------------------------
(* The devices and their lists on small instances; see the README for each run. *)
EXTENDS CollaborativeLists

CONSTANTS c1, L1, L2

OneClient == {c1}
OneList   == {L1}
TwoLists  == {L1, L2}

AllKinds   == {"edit", "toggle", "order"}
NoReorders == {"edit", "toggle"}
================================================================================
