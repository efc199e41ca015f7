------------------------------ MODULE MCNested ------------------------------
(***************************************************************************)
(* A nested dataset: two neighbouring regions that share a border.  The    *)
(* western one goes down to HUC12 everywhere, to HUC14 in one place and to *)
(* HUC16 in half of that; the eastern one has a hole below HUC2.           *)
(***************************************************************************)
EXTENDS WatershedStack, Grid

West == Box(-4..-2, 1..2)
WestHUC12 == {At(-4, 1), At(-4, 2), At(-3, 1)}   \* its envelope is larger
East == Box(-2..-1, 1..2)

MCRow ==
  {Unit([i \in 1..k |-> 1], West) : k \in 1..5}
    \cup {Unit(<<1, 1, 1, 1, 1, 1>>, WestHUC12),
          Unit(<<1, 1, 1, 1, 1, 2>>, {At(-3, 1), At(-3, 2), At(-2, 1), At(-2, 2)}),
          Unit(<<1, 1, 1, 1, 1, 1, 1>>, Box({-4}, 1..2)),
          Unit(<<1, 1, 1, 1, 1, 1, 1, 1>>, {At(-4, 1)}),
          Unit(<<2>>, East),
          Unit(<<2, 1>>, East \ {At(-1, 2)})}

MCGeometry ==
  {Shape({At(-4, 1)}),               \* down to HUC16
   Shape({At(-4, 2)}),               \* HUC14 without HUC16
   Shape({At(-3, 1)}),               \* on the border of two HUC12
   Shape({At(-3, 2)}),               \* only in the envelope of the first
   Shape({At(-2, 2)}),               \* on the border of the regions
   Shape({At(-1, 2)}),               \* in the hole
   Shape({At(-4, -3)}),              \* outside
   Shape({At(-4, 1), At(-3, 1)}),    \* WKT may be a line
   Shape({At(-3, 1), At(-1, 1)}),    \* that leaves the region
   Shape({})}                        \* POINT EMPTY

ASSUME Nested /\ Parented
=============================================================================
