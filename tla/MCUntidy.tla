------------------------------ MODULE MCUntidy ------------------------------
(***************************************************************************)
(* A dataset with everything the code does not rule out: siblings that     *)
(* overlap, children that reach out of their parent, a code that two rows  *)
(* share, children of a region that does not exist.                        *)
(***************************************************************************)
EXTENDS WatershedStack, Grid

A == At(-3, 1)
B == At(-2, 1)
C == At(-2, 2)

MCRow ==
  {Unit(<<1>>, {A}), Unit(<<2>>, {A, B}),
   Unit(<<1, 1>>, {A, B}), Unit(<<1, 2>>, {B, C}), Unit(<<3, 1>>, {A, B, C}),
   Unit(<<1, 1, 1>>, {A}), Unit(<<1, 1, 1>>, {A, B, C}),
   Unit(<<1, 1, 1, 1>>, {A, B, C}), Unit(<<1, 1, 1, 2>>, {A}),
   Unit(<<1, 1, 1, 1, 1>>, {A, B, C}),
   Unit(<<1, 1, 1, 1, 1, 1>>, {A, B, C}), Unit(<<1, 1, 1, 1, 1, 2>>, {B}),
   Unit(<<1, 1, 1, 1, 1, 1, 1>>, {A, C}),
   Unit(<<1, 1, 1, 1, 1, 1, 1, 1>>, {B, C})}

MCGeometry == {Shape({A}), Shape({B}), Shape({C}), Shape({A, C}), Shape({})}

ASSUME ~Nested
=============================================================================
