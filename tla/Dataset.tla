------------------------------ MODULE Dataset ------------------------------
(***************************************************************************)
(* The Watershed Boundary Dataset as search() reads it, and the part of    *)
(* GEOS it is read with.                                                   *)
(*                                                                         *)
(* The GeoPackage has one table per level, WBDHU2 .. WBDHU16.  Level k     *)
(* here is table WBDHU(2k), and a hydrologic unit code of 2k digits is a   *)
(* sequence of k two-digit groups.  A row is its code, the polygon stored  *)
(* in its "shape" column (the set of grid cells it covers) and the         *)
(* envelope written in the header of that blob.                            *)
(***************************************************************************)
EXTENDS Integers, SequencesExt

CONSTANTS Row,       \* all rows of all tables: [huc, cells, env] records
          NoRow,     \* "null" in a slot of the stack
          Geometry,  \* what a point source may ask about: [cells, env]
          NoPoint,   \* "null" in WatershedStack.point
          FloatMax,  \* std.math.floatMax(f64)
          FloatMin   \* std.math.floatMin(f64), the least positive double

Level == 1..8

Bounds == [minX : Int, maxX : Int, minY : Int, maxY : Int]

(* The pointBounds of a WatershedStack without a point, and those of a     *)
(* geometry whose extent GEOS cannot tell: they meet no envelope.          *)
NoBounds == [minX |-> FloatMax, maxX |-> FloatMin,
             minY |-> FloatMax, maxY |-> FloatMin]

WithinBounds(c, b) == /\ b.minX <= c.x /\ c.x <= b.maxX
                      /\ b.minY <= c.y /\ c.y <= b.maxY

(* The envelope of a geometry, stored or computed, bounds all of its       *)
(* cells.  This is all that the code relies on.                            *)
Enveloped(g) == /\ g.env \in Bounds
                /\ \A c \in g.cells : /\ c \in [x : Int, y : Int]
                                      /\ WithinBounds(c, g.env)

ASSUME DatasetAssumption ==
  /\ \A r \in Row : r.huc \in Seq(Nat) /\ Len(r.huc) \in Level
  /\ \A r \in Row : Enveloped(r)
  /\ \A g \in Geometry : Enveloped(g)
  /\ NoRow \notin Row
  /\ NoPoint \notin Geometry
  /\ FloatMax \in Int /\ FloatMin \in Int

-----------------------------------------------------------------------------
LevelOf(r) == Len(r.huc)

(* GEOSCovers_r(r, g) == 1.  GEOS answers 0 when g is empty.               *)
Covers(r, g) == g.cells # {} /\ g.cells \subseteq r.cells

(* The bounds updateStack() computes: GEOSGeom_getXMin_r and its siblings  *)
(* return 0 on an empty geometry.                                          *)
BoundsOf(g) == IF g.cells = {} THEN NoBounds ELSE g.env

(* Mutant: a point on the edge of the envelope counts as outside of it.    *)
EnvelopeMissesEdge(r, b) == \/ r.env.minX >= b.maxX
                            \/ r.env.maxX <= b.minX
                            \/ r.env.minY >= b.maxY
                            \/ r.env.maxY <= b.minY

(* searchStep()'s cheap test: the stored envelope and the bounds of the    *)
(* point are apart, so the polygon need not be read.                       *)
EnvelopeMisses(r, b) == \/ r.env.minX > b.maxX
                        \/ r.env.maxX < b.minX
                        \/ r.env.minY > b.maxY
                        \/ r.env.maxY < b.minY

(* SELECT ... FROM WBDHU(2k) WHERE huc(2k) LIKE '<prefix>%'.  There is no  *)
(* ORDER BY: the rows may come in any order.                               *)
Select(k, prefix) == {r \in Row : LevelOf(r) = k /\ IsPrefix(prefix, r.huc)}

(* Mutant: the LIKE pattern is left out of the query.                      *)
CandidatesAll(k, s) == Select(k, <<>>)

(* What search() at level k selects when the stack is s: the rows whose    *)
(* code starts with that of the watershed one level up.                    *)
Candidates(k, s) == Select(k, IF k = 1 THEN <<>> ELSE s[k - 1].huc)

(* A watershed lies within every watershed whose code its own starts with. *)
(* True of the published dataset; no code checks it.                       *)
Nested == \A q, r \in Row : IsPrefix(q.huc, r.huc) => r.cells \subseteq q.cells

(* Every watershed lies below one of the level above.  True of the         *)
(* published dataset as well.                                              *)
Parented ==
  \A r \in Row : LevelOf(r) > 1 =>
     \E q \in Row : LevelOf(q) = LevelOf(r) - 1 /\ IsPrefix(q.huc, r.huc)
=============================================================================
