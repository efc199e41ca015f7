------------------------------ MODULE MCOracle ------------------------------
(***************************************************************************)
(* A region divided in two at the next level, and a point outside of it.   *)
(***************************************************************************)
EXTENDS Oracle, Grid

A == At(-3, 1)
B == At(-2, 1)

MCRow == {Unit(<<1>>, {A, B}), Unit(<<1, 1>>, {A}), Unit(<<1, 2>>, {B})}

MCGeometry == {Shape({A}), Shape({B}), Shape({At(-3, -3)})}

MCLine == [kind : {"point"}, id : {0, 1}, where : MCGeometry]
            \cup [kind : {"satellites", "other", "garbage"}, id : {0}, where : {NoPoint}]

ASSUME Nested /\ Parented
=============================================================================
