------------------------------- MODULE Lookup -------------------------------
(***************************************************************************)
(* What a WatershedStack promises: each point is looked up as if it were   *)
(* the first one.  The answer depends on the dataset and on that point     *)
(* alone, not on the watersheds that were found for earlier points.        *)
(***************************************************************************)
EXTENDS Dataset

CONSTANT RequestId

VARIABLES skip,       \* do not look below HUC12
          phase,      \* "ready", "busy", or "stopped" for good
          point,      \* the point asked about
          requestId,  \* and its id
          answer,     \* the watersheds found for it, by level
          outcome     \* "ok", "pointNotInDataset", or "none"

vars == <<skip, phase, point, requestId, answer, outcome>>

Nothing == [k \in Level |-> NoRow]

Deepest == IF skip THEN 6 ELSE 8

(* a is a chain of watersheds that cover g, each below the one before it,  *)
(* and cannot be continued.                                                *)
IsAnswer(a, g) ==
  \A k \in Level :
    LET open == k <= Deepest /\ (k = 1 \/ a[k - 1] # NoRow)
    IN  \/ open /\ a[k] \in Candidates(k, a) /\ Covers(a[k], g)
        \/ a[k] = NoRow /\ (open => \A r \in Candidates(k, a) : ~Covers(r, g))

(* A lookup that ends above HUC12, or at HUC14, is reported as a failure.  *)
OutcomeOf(a) == IF a[6] # NoRow /\ (a[7] = NoRow \/ a[8] # NoRow)
                  THEN "ok"
                  ELSE "pointNotInDataset"

Init == /\ skip \in BOOLEAN
        /\ phase = "ready"
        /\ point = NoPoint
        /\ requestId = 0
        /\ answer = Nothing
        /\ outcome = "none"

Ask == /\ phase = "ready"
       /\ phase' = "busy"
       /\ point' \in Geometry
       /\ requestId' \in RequestId
       /\ answer' = Nothing
       /\ outcome' = "none"
       /\ UNCHANGED skip

Answer == /\ phase = "busy"
          /\ phase' = "ready"
          /\ answer' \in [Level -> Row \cup {NoRow}]
          /\ IsAnswer(answer', point)
          /\ outcome' = OutcomeOf(answer')
          /\ UNCHANGED <<skip, point, requestId>>

(* A point that cannot be read, an error of the database, or the end.      *)
Stop == /\ phase' = "stopped"
        /\ point' \in Geometry \cup {NoPoint}
        /\ requestId' \in RequestId \cup {0}
        /\ answer' = Nothing
        /\ outcome' = "none"
        /\ UNCHANGED skip

Next == Ask \/ Answer \/ Stop

Spec == Init /\ [][Next]_vars
=============================================================================
