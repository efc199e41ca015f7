-------------------------------- MODULE Grid --------------------------------
(***************************************************************************)
(* Small maps for model checking: watersheds and points are sets of cells  *)
(* of a grid, west of the meridian and (mostly) north of the equator like  *)
(* the dataset, so that longitudes are below FloatMin and latitudes above. *)
(***************************************************************************)
EXTENDS Integers, FiniteSetsExt

Greatest == 100   \* stands for FloatMax
Least == 0        \* stands for FloatMin

At(x, y) == [x |-> x, y |-> y]

Box(xs, ys) == {At(x, y) : x \in xs, y \in ys}

Extent(cells) ==
  LET xs == {c.x : c \in cells}
      ys == {c.y : c \in cells}
  IN  [minX |-> Min(xs), maxX |-> Max(xs), minY |-> Min(ys), maxY |-> Max(ys)]

(* An empty geometry has no extent; its envelope is never looked at.       *)
Shape(cells) ==
  [cells |-> cells, env |-> IF cells = {} THEN Extent({At(0, 0)}) ELSE Extent(cells)]

Unit(huc, cells) == [huc |-> huc, cells |-> cells, env |-> Extent(cells)]
=============================================================================
