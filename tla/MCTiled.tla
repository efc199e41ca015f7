------------------------------ MODULE MCTiled ------------------------------
(***************************************************************************)
(* A dataset without holes: one watershed per level down to HUC12 that     *)
(* covers everything, and a HUC14 that is only in part divided into HUC16. *)
(***************************************************************************)
EXTENDS WatershedStack, Grid

All == Box(-3..-2, 1..1)

MCRow == {Unit([i \in 1..k |-> 1], All) : k \in 1..7}
           \cup {Unit([i \in 1..8 |-> 1], {At(-3, 1)})}

MCGeometry == {Shape({At(-3, 1)}), Shape({At(-2, 1)})}
=============================================================================
