--------------------------- MODULE WatershedStack ---------------------------
(***************************************************************************)
(* WatershedStack of src/watershed.zig: a stack of the eight watersheds    *)
(* that cover a point, kept from one point to the next as a cache.         *)
(*                                                                         *)
(* update() walks up from the deepest level it looks at (checkHUC..),      *)
(* dropping watersheds that do not cover the new point, until one does,    *)
(* and then down again (updateHUC..), searching the dataset one level at a *)
(* time below the watershed it found.                                      *)
(*                                                                         *)
(* A step is one checkHUC call, or one row of a search with the updateHUC  *)
(* call that follows it.                                                   *)
(***************************************************************************)
EXTENDS Dataset

CONSTANT RequestId   \* the request ids of points

VARIABLES
  skip,         \* skipHuc14and16, from the command line
  stack,        \* huc2 .. huc16: a row or NoRow per level
  point,        \* the point's geometry, or NoPoint
  pointBounds,  \* its bounding box
  requestId,    \* the id the point came with
  pc,           \* where the program is: see Phase
  level,        \* the level being checked or searched
  scan,         \* rows the running SELECT has yet to produce
  result,       \* how the last update() returned
  geoms,        \* live GEOS polygons, by row
  names,        \* live copies of a name, by row
  pointGeoms    \* live GEOS points

slots == <<stack, geoms, names>>
location == <<point, pointBounds, requestId, pointGeoms>>
control == <<pc, level, scan, result>>
vars == <<skip, slots, location, control>>

Phase == {"idle",    \* between two calls of update()
          "check",   \* entering checkHUC(level)
          "search",  \* in search() of updateHUC(level)
          "failed",  \* update() returned an error main does not survive
          "closed"}  \* after deinit()

Slots == [Level -> Row \cup {NoRow}]
Result == {"none", "ok", "pointNotInDataset", "noGeometry", "error", "OutOfMemory"}

EmptyStack == [k \in Level |-> NoRow]

(* The levels this run of the program looks at.                            *)
Searched == IF skip THEN 1..6 ELSE Level

Busy == pc \in {"check", "search"}

(* Allocation and release of one object per row.                           *)
Create(heap, r) == [heap EXCEPT ![r] = @ + 1]
Destroy(heap, r) == [heap EXCEPT ![r] = @ - 1]

-----------------------------------------------------------------------------
Init == /\ skip \in BOOLEAN
        /\ stack = EmptyStack
        /\ point = NoPoint
        /\ pointBounds = NoBounds
        /\ requestId = 0
        /\ pc = "idle"
        /\ level = 0
        /\ scan = {}
        /\ result = "none"
        /\ geoms = [r \in Row |-> 0]
        /\ names = [r \in Row |-> 0]
        /\ pointGeoms = 0

(* A call returns to main with outcome res, in phase p.                    *)
Leave(p, res) == /\ pc' = p
                 /\ level' = 0
                 /\ scan' = {}
                 /\ result' = res

(* The call updateHUC(k) with stack s: nothing left below level 8, levels  *)
(* 7 and 8 switched off, no parent to search below, or else a new SELECT.  *)
UpdateHUC(k, s) ==
  IF \/ k \notin Searched
     \/ k > 1 /\ s[k - 1] = NoRow
    THEN Leave("idle", "ok")
    ELSE /\ pc' = "search"
         /\ level' = k
         /\ scan' = Candidates(k, s)
         /\ UNCHANGED result

(* Live points after clearPoint().                                         *)
ClearPoint == IF point = NoPoint THEN pointGeoms ELSE pointGeoms - 1

(* Mutant: the deep levels are never re-checked.                           *)
FirstCheckHUC12 == 6

(* Mutant: one level too deep.                                             *)
FirstCheckTooDeep == IF skip THEN 6 ELSE 9

(* Which check updateStack() starts from.                                  *)
FirstCheck == IF skip THEN 6 ELSE 8

(* update() with a point that can be read, up to its first check.          *)
Update(id, g) ==
  /\ pc = "idle"
  /\ requestId' = id
  /\ point' = g
  /\ pointBounds' = BoundsOf(g)
  /\ pointGeoms' = ClearPoint + 1
  /\ pc' = "check"
  /\ level' = FirstCheck
  /\ scan' = {}
  /\ result' = "none"
  /\ UNCHANGED <<skip, slots>>

(* update() with a point that GEOS makes no geometry of, WKT that it       *)
(* cannot read for one: the old point is gone, the old stack stays.        *)
UpdateUnreadable(id) ==
  /\ pc = "idle"
  /\ requestId' = id
  /\ point' = NoPoint
  /\ pointBounds' = NoBounds
  /\ pointGeoms' = ClearPoint
  /\ Leave("failed", "noGeometry")
  /\ UNCHANGED <<skip, slots>>

(* Mutant: a cached watershed is trusted without looking at the point.     *)
HitUnchecked(k) == stack[k] # NoRow

(* The cached watershed of level k is there and covers the point.          *)
Hit(k) == stack[k] # NoRow /\ Covers(stack[k], point)

(* checkHUC: it does: go down from there.                                  *)
CheckHit ==
  /\ pc = "check"
  /\ Hit(level)
  /\ UpdateHUC(level + 1, stack)
  /\ UNCHANGED <<skip, slots, location>>

(* What checkHUC releases when it empties its slot.                        *)
Released(heap) == IF stack[level] = NoRow THEN heap ELSE Destroy(heap, stack[level])

(* checkHUC: it does not, or there is none: empty the slot and go up, or   *)
(* from HUC2 down.                                                         *)
CheckMiss ==
  /\ pc = "check"
  /\ ~Hit(level)
  /\ stack' = [stack EXCEPT ![level] = NoRow]
  /\ geoms' = Released(geoms)
  /\ names' = Released(names)
  /\ IF level = 1
       THEN UpdateHUC(1, stack')
       ELSE /\ level' = level - 1
            /\ UNCHANGED <<pc, scan, result>>
  /\ UNCHANGED <<skip, location>>

-----------------------------------------------------------------------------
(* Mutant: the envelope decides, the polygon is not compared.              *)
MatchesEnvelope(r) == ~EnvelopeMisses(r, pointBounds)

(* searchStep() accepts a row.                                             *)
Matches(r) == ~EnvelopeMisses(r, pointBounds) /\ Covers(r, point)

(* Mutant: the statement is not stepped after a rejected row.              *)
RestNotStepped(r) == scan

(* Mutant: the statement is stepped twice, and a row is missed.            *)
RestSteppedTwice(r) ==
  IF scan = {r} THEN {} ELSE scan \ {r, CHOOSE q \in scan : q # r}

(* Rows still to come once r is done with.                                 *)
Rest(r) == scan \ {r}

(* Mutant: a polygon that does not cover the point is not destroyed.       *)
RejectedKept(r) ==
  IF EnvelopeMisses(r, pointBounds) THEN geoms ELSE Create(geoms, r)

(* The polygon of a rejected row is destroyed, if it was read at all.      *)
Rejected(r) == IF EnvelopeMisses(r, pointBounds)
                 THEN geoms
                 ELSE Destroy(Create(geoms, r), r)

(* search(): a row that does not cover the point.                          *)
SearchReject(r) ==
  /\ pc = "search"
  /\ r \in scan
  /\ ~Matches(r)
  /\ scan' = Rest(r)
  /\ geoms' = Rejected(r)
  /\ UNCHANGED <<skip, stack, names, location, pc, level, result>>

(* search(): the first row that does fills the slot, and the next level    *)
(* down is updated.                                                        *)
SearchFound(r) ==
  /\ pc = "search"
  /\ r \in scan
  /\ Matches(r)
  /\ stack' = [stack EXCEPT ![level] = r]
  /\ geoms' = Create(geoms, r)
  /\ names' = Create(names, r)
  /\ UpdateHUC(level + 1, stack')
  /\ UNCHANGED <<skip, location>>

(* Mutant: a HUC14 without HUC16 is taken for the end of the stack too.    *)
ExhaustedDeep(k) == IF k \in {7, 8} THEN "ok" ELSE "pointNotInDataset"

(* search() ran out of rows.  updateHUC14 takes that as the end of the     *)
(* stack; every other level reports it.                                    *)
Exhausted(k) == IF k = 7 THEN "ok" ELSE "pointNotInDataset"

SearchExhausted ==
  /\ pc = "search"
  /\ scan = {}
  /\ Leave("idle", Exhausted(level))
  /\ UNCHANGED <<skip, slots, location>>

(* search() fails: SQLite returns an error, or there is no memory for the  *)
(* query or for the polygon's bytes.                                       *)
SearchFails ==
  /\ pc = "search"
  /\ Leave("failed", "error")
  /\ UNCHANGED <<skip, slots, location>>

(* search() has its row but no memory for the name.  Nothing releases the  *)
(* polygon it holds.                                                       *)
NameAllocFails(r) ==
  /\ pc = "search"
  /\ r \in scan
  /\ Matches(r)
  /\ geoms' = Create(geoms, r)
  /\ Leave("failed", "OutOfMemory")
  /\ UNCHANGED <<skip, stack, names, location>>

(* Mutant: deinit() forgets huc4.                                          *)
EmptiedButHUC4(heap) ==
  [r \in Row |-> heap[r] - (IF LevelOf(r) # 2 /\ stack[LevelOf(r)] = r THEN 1 ELSE 0)]

(* What deinit() leaves of a heap: one object less for each filled slot.   *)
Emptied(heap) ==
  [r \in Row |-> heap[r] - (IF stack[LevelOf(r)] = r THEN 1 ELSE 0)]

Deinit ==
  /\ pc \in {"idle", "failed"}
  /\ stack' = EmptyStack
  /\ geoms' = Emptied(geoms)
  /\ names' = Emptied(names)
  /\ point' = NoPoint
  /\ pointBounds' = NoBounds
  /\ pointGeoms' = ClearPoint
  /\ Leave("closed", result)
  /\ UNCHANGED <<skip, requestId>>

-----------------------------------------------------------------------------
(* The steps update() takes by itself, once called, when nothing fails.    *)
Proceed == \/ CheckHit
           \/ CheckMiss
           \/ \E r \in scan : SearchReject(r)
           \/ \E r \in scan : SearchFound(r)
           \/ SearchExhausted

Next == \/ \E id \in RequestId, g \in Geometry : Update(id, g)
        \/ \E id \in RequestId : UpdateUnreadable(id)
        \/ Proceed
        \/ SearchFails
        \/ \E r \in scan : NameAllocFails(r)
        \/ Deinit

Spec == Init /\ [][Next]_vars

(* update() runs on the program's only thread and waits for nobody.  Main  *)
(* need not call it again, and no step has to fail.                        *)
FairSpec == Spec /\ WF_vars(Proceed)

-----------------------------------------------------------------------------
TypeOK ==
  /\ skip \in BOOLEAN
  /\ stack \in Slots
  /\ point \in Geometry \cup {NoPoint}
  /\ pointBounds = IF point = NoPoint THEN NoBounds ELSE BoundsOf(point)
  /\ requestId \in RequestId \cup {0}
  /\ pc \in Phase
  /\ level \in IF Busy THEN Level ELSE {0}
  /\ scan \subseteq Row
  /\ result \in Result
  /\ geoms \in [Row -> Int]
  /\ names \in [Row -> Int]
  /\ pointGeoms \in Int

Filled(k) == stack[k] # NoRow

(* Whatever point came before, and in the middle of an update too, the     *)
(* filled slots are the top of the stack and each watershed's code starts  *)
(* with the codes of all those above it (the slices huc[0..2k] printed by  *)
(* printJSON, and the prefixes updateHUC searches with, are right).        *)
PrefixChain ==
  \A j, k \in Level : j < k /\ Filled(k) =>
     Filled(j) /\ IsPrefix(stack[j].huc, stack[k].huc)

(* update() stops no earlier than the dataset does: below the deepest      *)
(* watershed it returns with there is no row of the next level that covers *)
(* the point.  The envelope test, the LIKE filter and the slots kept from  *)
(* the previous point lose no watershed.                                   *)
MaximalDepth ==
  pc = "idle" /\ point # NoPoint =>
     \A k \in Searched : ~Filled(k) /\ (k = 1 \/ Filled(k - 1)) =>
        \A r \in Candidates(k, stack) : ~Covers(r, point)

(* In a nested dataset every watershed that is in the stack when update()  *)
(* returns covers the point, also those that were not checked again        *)
(* because a deeper one still covered it.                                  *)
CoversPoint ==
  pc = "idle" /\ point # NoPoint =>
     \A k \in Level : Filled(k) => Covers(stack[k], point)

(* What the stack holds of row r.                                          *)
Held(r) == IF stack[LevelOf(r)] = r THEN 1 ELSE 0

(* Manual memory management: the program owns exactly one polygon and one  *)
(* name for every filled slot and one GEOS point for the point it has, at  *)
(* every step and after deinit(), so that nothing leaks and nothing is     *)
(* destroyed twice.  The one exception is the polygon lost when there is   *)
(* no memory for a name.                                                   *)
HeapOwned ==
  /\ names = [r \in Row |-> Held(r)]
  /\ \/ geoms = [r \in Row |-> Held(r)]
     \/ /\ result = "OutOfMemory"
        /\ \E lost \in Row : geoms = Create([r \in Row |-> Held(r)], lost)
  /\ pointGeoms = IF point = NoPoint THEN 0 ELSE 1

(* update() succeeds exactly when the stack goes down to HUC12 and, if it  *)
(* goes on to HUC14, to HUC16 as well.                                     *)
ResultMatchesDepth ==
  pc = "idle" /\ point # NoPoint =>
     (result = "ok" <=> Filled(6) /\ (Filled(7) => Filled(8)))

(* With --skip, no slot of level 14 or 16 is ever filled.                  *)
SkipsDeepLevels == skip => ~Filled(7) /\ ~Filled(8)

(* Each slot holds a row of its own level.                                 *)
SlotLevels == \A k \in Level : Filled(k) => LevelOf(stack[k]) = k

(* What holds while update() runs.  On the way up everything below the     *)
(* slot being checked has been emptied; on the way down the slots from the *)
(* searched level on are empty, its parent is not, and the rows the SELECT *)
(* has produced so far did not cover the point.                            *)
ControlOK ==
  /\ pc = "idle" => result \in (IF point = NoPoint THEN {"none"}
                                ELSE {"ok", "pointNotInDataset"})
  /\ Busy => result = "none" /\ point # NoPoint
  /\ pc = "check" => /\ level \in 1..FirstCheck
                     /\ \A k \in Level : k > level => ~Filled(k)
  /\ pc = "search" => /\ level \in Searched
                      /\ level > 1 => Filled(level - 1)
                      /\ \A k \in Level : k >= level => ~Filled(k)
                      /\ scan \subseteq Candidates(level, stack)
                      /\ \A r \in Candidates(level, stack) \ scan :
                            ~Covers(r, point)

(* The inductive invariant.                                                *)
IInv == /\ TypeOK
        /\ SlotLevels
        /\ PrefixChain
        /\ SkipsDeepLevels
        /\ ControlOK
        /\ HeapOwned
        /\ MaximalDepth
        /\ ResultMatchesDepth

(* What makes CoversPoint inductive: the slots kept on the way down, or    *)
(* filled since, cover the point.                                          *)
CoveredSoFar ==
  /\ CoversPoint
  /\ pc = "search" => \A k \in Level : Filled(k) => Covers(stack[k], point)

(* Every call of update() returns.                                         *)
UpdateReturns == Busy ~> ~Busy

(* What the log line of updateStack() says, "Point given is outside the    *)
(* dataset": there is no watershed of any level at the point.              *)
OutsideMeansUncovered ==
  pc = "idle" /\ result = "pointNotInDataset" =>
     \A r \in Row : ~Covers(r, point)

-----------------------------------------------------------------------------
(* The abstract specification: lookups that remember nothing.  Until       *)
(* update() returns, and after a failure, the stack is nobody's answer.    *)
Answered == pc = "idle"

Lookups == INSTANCE Lookup WITH
  phase  <- IF Busy THEN "busy" ELSE IF Answered THEN "ready" ELSE "stopped",
  answer <- IF Answered THEN stack ELSE EmptyStack,
  outcome <- IF Answered THEN result ELSE "none"

LookupSpec == Lookups!Spec
=============================================================================
