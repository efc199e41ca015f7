------------------------ MODULE WatershedStackProofs ------------------------
(***************************************************************************)
(* Proofs about WatershedStack, for every dataset, every set of points and *)
(* every order in which SQLite may produce rows.                           *)
(***************************************************************************)
EXTENDS WatershedStack, TLAPS

(* Every row is of one of the eight levels.                                *)
LEMMA Levels == \A r \in Row : LevelOf(r) \in Level
  BY DatasetAssumption DEF LevelOf

(* IsPrefix is transitive on codes.                                        *)
LEMMA PrefixTransitive ==
  ASSUME NEW a \in Seq(Nat), NEW b \in Seq(Nat), NEW c \in Seq(Nat),
         IsPrefix(a, b), IsPrefix(b, c)
  PROVE  IsPrefix(a, c)
  BY DEF IsPrefix

(* The envelope test loses nothing: a row whose stored envelope misses the *)
(* bounds of the point does not cover it, the empty point included.        *)
THEOREM EnvelopeSound ==
  ASSUME NEW r \in Row, NEW g \in Geometry, EnvelopeMisses(r, BoundsOf(g))
  PROVE  ~Covers(r, g)
<1> SUFFICES ASSUME Covers(r, g) PROVE FALSE
  OBVIOUS
<1>1. PICK c \in g.cells : c \in r.cells
  BY DEF Covers
<1>2. BoundsOf(g) = g.env
  BY <1>1 DEF BoundsOf
<1>3. /\ r.env \in Bounds /\ g.env \in Bounds
      /\ c \in [x : Int, y : Int]
      /\ WithinBounds(c, r.env) /\ WithinBounds(c, g.env)
  BY <1>1, DatasetAssumption DEF Enveloped
<1> QED
  BY <1>2, <1>3 DEF EnvelopeMisses, WithinBounds, Bounds

-----------------------------------------------------------------------------
(* The stack is well typed when the program starts.                        *)
LEMMA TypeInit == Init => TypeOK
  BY DEF Init, TypeOK, Slots, EmptyStack, Phase, Result, Busy

(* Counting an object up or down leaves the counters integers.             *)
LEMMA HeapType ==
  ASSUME NEW heap \in [Row -> Int], NEW r
  PROVE  /\ Create(heap, r) \in [Row -> Int]
         /\ Destroy(heap, r) \in [Row -> Int]
<1>1. CASE r \in Row
  BY <1>1 DEF Create, Destroy
<1>2. CASE r \notin Row
  <2>1. Create(heap, r) = heap /\ Destroy(heap, r) = heap
    BY <1>2 DEF Create, Destroy
  <2> QED
    BY <2>1
<1> QED
  BY <1>1, <1>2

(* Filling or emptying a slot leaves slots.                                *)
LEMMA SlotsType ==
  ASSUME NEW s \in Slots, NEW k, NEW r \in Row \cup {NoRow}
  PROVE  [s EXCEPT ![k] = r] \in Slots
  BY DEF Slots

(* A call of updateHUC either returns to main or starts a search.          *)
LEMMA UpdateHUCType ==
  ASSUME TypeOK, NEW k \in 1..9, NEW s, UpdateHUC(k, s)
  PROVE  /\ pc' \in Phase
         /\ level' \in IF Busy' THEN Level ELSE {0}
         /\ scan' \subseteq Row
         /\ result' \in Result
<1>1. CASE k \notin Searched \/ (k > 1 /\ s[k - 1] = NoRow)
  BY <1>1 DEF UpdateHUC, Leave, Phase, Result, Busy
<1>2. CASE ~(k \notin Searched \/ (k > 1 /\ s[k - 1] = NoRow))
  BY <1>2 DEF UpdateHUC, Phase, TypeOK, Busy, Searched, Level, Candidates, Select
<1> QED
  BY <1>1, <1>2

(* Every step leaves the stack well typed.                                 *)
LEMMA TypeNext == TypeOK /\ [Next]_vars => TypeOK'
<1> SUFFICES ASSUME TypeOK, [Next]_vars PROVE TypeOK'
  OBVIOUS
<1> USE DEF TypeOK, Slots, Phase, Result, Leave, Busy, slots, location
<1>1. ASSUME NEW id \in RequestId, NEW g \in Geometry, Update(id, g)
      PROVE  TypeOK'
  <2>1. g # NoPoint
    BY DatasetAssumption
  <2>2. level' \in Level /\ pointGeoms' \in Int
    BY <1>1 DEF Update, ClearPoint, FirstCheck, Level
  <2> QED
    BY <1>1, <2>1, <2>2 DEF Update
<1>2. ASSUME NEW id \in RequestId, UpdateUnreadable(id)
      PROVE  TypeOK'
  BY <1>2 DEF UpdateUnreadable, ClearPoint
<1>3. CASE CheckHit
  <2>1. level + 1 \in 1..9
    BY <1>3 DEF CheckHit, Level
  <2> QED
    BY <1>3, <2>1, UpdateHUCType DEF CheckHit
<1>4. CASE CheckMiss
  <2>1. /\ pc' \in Phase
        /\ level' \in IF Busy' THEN Level ELSE {0}
        /\ scan' \subseteq Row
        /\ result' \in Result
    <3>1. CASE level = 1
      <4>1. UpdateHUC(1, stack')
        BY <1>4, <3>1 DEF CheckMiss
      <4> QED
        BY <4>1, UpdateHUCType DEF TypeOK
    <3>2. CASE level # 1
      BY <1>4, <3>2 DEF CheckMiss, Level
    <3> QED
      BY <3>1, <3>2
  <2>2. stack' \in Slots
    BY <1>4, SlotsType DEF CheckMiss
  <2>3. geoms' \in [Row -> Int] /\ names' \in [Row -> Int]
    BY <1>4, HeapType DEF CheckMiss, Released
  <2> QED
    BY <1>4, <2>1, <2>2, <2>3 DEF CheckMiss
<1>5. ASSUME NEW r \in scan, SearchReject(r)
      PROVE  TypeOK'
  BY <1>5 DEF SearchReject, Rest, Rejected, Create, Destroy
<1>6. ASSUME NEW r \in scan, SearchFound(r)
      PROVE  TypeOK'
  <2>1. UpdateHUC(level + 1, stack') /\ level + 1 \in 1..9
    BY <1>6 DEF SearchFound, Level
  <2>2. /\ pc' \in Phase
        /\ level' \in IF Busy' THEN Level ELSE {0}
        /\ scan' \subseteq Row
        /\ result' \in Result
    BY <2>1, UpdateHUCType DEF TypeOK
  <2>3. stack' \in Slots
    BY <1>6, SlotsType DEF SearchFound
  <2>4. geoms' \in [Row -> Int] /\ names' \in [Row -> Int]
    BY <1>6, HeapType DEF SearchFound
  <2> QED
    BY <1>6, <2>2, <2>3, <2>4 DEF SearchFound
<1>7. CASE SearchExhausted
  BY <1>7 DEF SearchExhausted, Exhausted
<1>8. CASE SearchFails
  BY <1>8 DEF SearchFails
<1>9. ASSUME NEW r \in scan, NameAllocFails(r)
      PROVE  TypeOK'
  BY <1>9 DEF NameAllocFails, Create
<1>10. CASE Deinit
  BY <1>10 DEF Deinit, EmptyStack, Emptied, ClearPoint
<1>11. CASE UNCHANGED vars
  BY <1>11 DEF vars, control
<1> QED
  BY <1>1, <1>2, <1>3, <1>4, <1>5, <1>6, <1>7, <1>8, <1>9, <1>10, <1>11 DEF Next, Proceed

(* Type correctness.                                                       *)
THEOREM TypeCorrect == Spec => []TypeOK
  BY TypeInit, TypeNext, PTL DEF Spec

-----------------------------------------------------------------------------
(* The inductive invariant.                                                *)

(* The inductive invariant holds when the program starts.                  *)
LEMMA IInvInit == Init => IInv
<1> SUFFICES ASSUME Init PROVE IInv
  OBVIOUS
<1>1. \A k \in Level : ~Filled(k)
  BY DEF Init, EmptyStack, Filled
<1>2. SlotLevels /\ PrefixChain /\ SkipsDeepLevels
  BY <1>1 DEF SlotLevels, PrefixChain, SkipsDeepLevels, Level
<1>3. ControlOK
  BY DEF Init, ControlOK, Busy
<1>4. HeapOwned
  <2>1. \A r \in Row : Held(r) = 0
    BY Levels, DatasetAssumption DEF Init, EmptyStack, Held
  <2> QED
    BY <2>1 DEF Init, HeapOwned
<1>5. MaximalDepth /\ ResultMatchesDepth
  BY DEF Init, MaximalDepth, ResultMatchesDepth
<1> QED
  BY <1>2, <1>3, <1>4, <1>5, TypeInit DEF IInv

(* What a step can do to the slots.                                        *)
LEMMA StackNext ==
  ASSUME IInv, [Next]_vars
  PROVE  \/ stack' = stack
         \/ pc = "check" /\ stack' = [stack EXCEPT ![level] = NoRow]
         \/ /\ pc = "search"
            /\ \E r \in scan : stack' = [stack EXCEPT ![level] = r]
         \/ stack' = EmptyStack
  BY DEF Next, Proceed, vars, slots, Update, UpdateUnreadable, CheckHit, CheckMiss,
         SearchReject, SearchFound, SearchExhausted, SearchFails, NameAllocFails, Deinit

(* The rows of a search are of its level and below the parent's code.      *)
LEMMA ScanRows ==
  ASSUME IInv, pc = "search", NEW r \in scan
  PROVE  /\ r \in Row /\ r # NoRow
         /\ level \in Level
         /\ LevelOf(r) = level
         /\ level > 1 => IsPrefix(stack[level - 1].huc, r.huc)
  BY DatasetAssumption DEF IInv, TypeOK, ControlOK, Busy, Candidates, Select

(* A search of level k fills slot k with a row of table k.                 *)
LEMMA SlotLevelsNext == IInv /\ [Next]_vars => SlotLevels'
<1> SUFFICES ASSUME IInv, [Next]_vars PROVE SlotLevels'
  OBVIOUS
<1> USE DEF SlotLevels, Filled
<1>1. CASE stack' = stack
  BY <1>1 DEF IInv
<1>2. CASE pc = "check" /\ stack' = [stack EXCEPT ![level] = NoRow]
  BY <1>2 DEF IInv, TypeOK, Slots
<1>3. ASSUME pc = "search", NEW r \in scan, stack' = [stack EXCEPT ![level] = r]
      PROVE  SlotLevels'
  BY <1>3, ScanRows DEF IInv, TypeOK, Slots
<1>4. CASE stack' = EmptyStack
  BY <1>4 DEF EmptyStack
<1> QED
  BY <1>1, <1>2, <1>3, <1>4, StackNext

(* Slots are emptied from below and filled below their parent.             *)
LEMMA PrefixChainNext == IInv /\ [Next]_vars => PrefixChain'
<1> SUFFICES ASSUME IInv, [Next]_vars,
                    NEW j \in Level, NEW k \in Level, j < k, Filled(k)'
             PROVE  Filled(j)' /\ IsPrefix(stack[j].huc, stack[k].huc)'
  BY DEF PrefixChain
<1> USE DEF Filled
<1>t. stack \in [Level -> Row \cup {NoRow}] /\ PrefixChain
  BY DEF IInv, TypeOK, Slots
<1>1. CASE stack' = stack
  BY <1>1, <1>t DEF PrefixChain
<1>2. CASE pc = "check" /\ stack' = [stack EXCEPT ![level] = NoRow]
  <2>1. k < level
    BY <1>2, <1>t DEF IInv, ControlOK, TypeOK, Busy, Level
  <2> QED
    BY <1>2, <2>1, <1>t DEF PrefixChain, IInv, TypeOK, Busy, Level
<1>3. ASSUME pc = "search", NEW r \in scan, stack' = [stack EXCEPT ![level] = r]
      PROVE  Filled(j)' /\ IsPrefix(stack[j].huc, stack[k].huc)'
  <2>1. k <= level /\ level \in Level
    BY <1>3, <1>t, ScanRows DEF IInv, ControlOK, Level
  <2>2. CASE k < level
    BY <1>3, <2>1, <2>2, <1>t DEF PrefixChain, Level
  <2>3. CASE k = level
    <3>1. stack'[j] = stack[j] /\ stack'[k] = r
      BY <1>3, <2>1, <2>3, <1>t DEF Level
    <3>2. level - 1 \in Level /\ Filled(level - 1)
      BY <1>3, <2>1, <2>3 DEF IInv, ControlOK, Level
    <3>3. Filled(j) /\ (j = level - 1 \/ IsPrefix(stack[j].huc, stack[level - 1].huc))
      BY <2>1, <2>3, <3>2, <1>t DEF PrefixChain, Level
    <3>4. IsPrefix(stack[level - 1].huc, r.huc)
      BY <1>3, <3>2, ScanRows DEF Level
    <3>5. /\ stack[j].huc \in Seq(Nat)
          /\ stack[level - 1].huc \in Seq(Nat)
          /\ r.huc \in Seq(Nat)
      BY <1>3, <1>t, <3>2, <3>3, ScanRows, DatasetAssumption
    <3> QED
      BY <3>1, <3>3, <3>4, <3>5, PrefixTransitive
  <2> QED
    BY <2>1, <2>2, <2>3 DEF Level
<1>4. CASE stack' = EmptyStack
  BY <1>4 DEF EmptyStack
<1> QED
  BY <1>1, <1>2, <1>3, <1>4, StackNext

(* The command line is read once.                                          *)
LEMMA SkipFixed == [Next]_vars => skip' = skip
  BY DEF Next, Proceed, vars, Update, UpdateUnreadable, CheckHit, CheckMiss,
         SearchReject, SearchFound, SearchExhausted, SearchFails, NameAllocFails, Deinit

(* With --skip neither checks nor updates reach level 14.                  *)
LEMMA SkipNext == IInv /\ [Next]_vars => SkipsDeepLevels'
<1> SUFFICES ASSUME IInv, [Next]_vars, skip' PROVE ~Filled(7)' /\ ~Filled(8)'
  BY DEF SkipsDeepLevels
<1> USE DEF Filled
<1>0. /\ skip = TRUE
      /\ ~Filled(7) /\ ~Filled(8)
      /\ 7 \in Level /\ 8 \in Level
  <2>1. skip = TRUE
    BY SkipFixed DEF IInv, TypeOK
  <2> QED
    BY <2>1 DEF IInv, SkipsDeepLevels, Level
<1>1. CASE stack' = stack
  BY <1>0, <1>1
<1>2. CASE pc = "check" /\ stack' = [stack EXCEPT ![level] = NoRow]
  BY <1>0, <1>2 DEF IInv, TypeOK, Slots
<1>3. ASSUME pc = "search", NEW r \in scan, stack' = [stack EXCEPT ![level] = r]
      PROVE  ~Filled(7)' /\ ~Filled(8)'
  <2>1. level \in 1..6
    BY <1>0, <1>3 DEF IInv, ControlOK, Searched
  <2> QED
    BY <1>0, <1>3, <2>1 DEF IInv, TypeOK, Slots
<1>4. CASE stack' = EmptyStack
  BY <1>0, <1>4 DEF EmptyStack
<1> QED
  BY <1>1, <1>2, <1>3, <1>4, StackNext
-----------------------------------------------------------------------------
(* With a parent to search below, updateHUC(k) returns only because there  *)
(* is no level k to look at.                                               *)
LEMMA Descend ==
  ASSUME NEW k, NEW s, UpdateHUC(k, s), k > 1 => s[k - 1] # NoRow
  PROVE  \/ k \notin Searched /\ pc' = "idle" /\ result' = "ok"
         \/ /\ k \in Searched
            /\ pc' = "search" /\ level' = k
            /\ scan' = Candidates(k, s) /\ result' = result
  BY DEF UpdateHUC, Leave

(* The three steps that call updateHUC, and what the call finds: every     *)
(* slot above level k is filled, every slot from k on is empty.            *)
CallsUpdate(k) ==
  /\ k \in 1..9
  /\ UpdateHUC(k, stack')
  /\ \A j \in Level : j < k => Filled(j)'
  /\ \A j \in Level : j >= k => ~Filled(j)'
  /\ point' = point /\ skip' = skip

(* A check that succeeds calls updateHUC of the next level.                *)
LEMMA CheckHitCalls == IInv /\ CheckHit => CallsUpdate(level + 1)
<1> SUFFICES ASSUME IInv, CheckHit PROVE CallsUpdate(level + 1)
  OBVIOUS
<1>1. level \in Level /\ pc = "check" /\ Filled(level) /\ PrefixChain
  BY DEF CheckHit, Hit, IInv, TypeOK, Busy, Filled
<1>2. stack' = stack /\ point' = point /\ skip' = skip /\ UpdateHUC(level + 1, stack')
  BY DEF CheckHit, slots, location
<1>3. \A j \in Level : (j < level + 1 => Filled(j)) /\ (j >= level + 1 => ~Filled(j))
  BY <1>1 DEF PrefixChain, IInv, ControlOK, Level
<1> QED
  BY <1>1, <1>2, <1>3 DEF CallsUpdate, Filled, Level

(* A check of HUC2 that fails calls updateHUC2.                            *)
LEMMA CheckMissCalls == IInv /\ CheckMiss /\ level = 1 => CallsUpdate(1)
<1> SUFFICES ASSUME IInv, CheckMiss, level = 1 PROVE CallsUpdate(1)
  OBVIOUS
<1>1. /\ stack \in [Level -> Row \cup {NoRow}]
      /\ \A j \in Level : j > 1 => ~Filled(j)
  BY DEF CheckMiss, IInv, TypeOK, Slots, ControlOK
<1>2. /\ stack' = [stack EXCEPT ![1] = NoRow]
      /\ point' = point /\ skip' = skip /\ UpdateHUC(1, stack')
  BY DEF CheckMiss, location
<1> QED
  BY <1>1, <1>2 DEF CallsUpdate, Filled, Level

(* A search that succeeds calls updateHUC of the next level.               *)
LEMMA SearchFoundCalls ==
  ASSUME IInv, NEW r \in scan, SearchFound(r)
  PROVE  CallsUpdate(level + 1)
<1>1. /\ pc = "search" /\ level \in Level /\ r # NoRow
      /\ stack \in [Level -> Row \cup {NoRow}] /\ PrefixChain
  BY ScanRows DEF SearchFound, IInv, TypeOK, Slots
<1>2. /\ stack' = [stack EXCEPT ![level] = r]
      /\ point' = point /\ skip' = skip /\ UpdateHUC(level + 1, stack')
  BY DEF SearchFound, location
<1>3. \A j \in Level : (j < level => Filled(j)) /\ (j >= level => ~Filled(j))
  BY <1>1 DEF PrefixChain, IInv, ControlOK, Level
<1> QED
  BY <1>1, <1>2, <1>3 DEF CallsUpdate, Filled, Level

(* After such a call the invariants on control and on depth hold.          *)
LEMMA CallsUpdateOK ==
  ASSUME IInv, Busy, NEW k, CallsUpdate(k), SkipsDeepLevels'
  PROVE  ControlOK' /\ MaximalDepth' /\ ResultMatchesDepth'
<1>1. k \in 1..9 /\ result = "none" /\ point # NoPoint
  BY DEF CallsUpdate, IInv, ControlOK
<1>2. k > 1 => stack'[k - 1] # NoRow
  BY <1>1 DEF CallsUpdate, Filled, Level
<1>3. UpdateHUC(k, stack') /\ point' = point /\ Searched' = Searched
  BY DEF CallsUpdate, Searched
<1>4. CASE k \notin Searched /\ pc' = "idle" /\ result' = "ok"
  <2>1. ControlOK'
    BY <1>1, <1>3, <1>4 DEF ControlOK, Busy
  <2>2. \A j \in Searched : j < k
    BY <1>1, <1>4 DEF Searched, Level
  <2>3. MaximalDepth'
    BY <1>3, <2>2 DEF MaximalDepth, CallsUpdate, Searched, Level
  <2>4. 6 < k /\ (k = 7 \/ 8 < k)
    <3>1. CASE skip
      <4>1. stack'[7] = NoRow /\ stack'[8] = NoRow
        BY <3>1 DEF SkipsDeepLevels, CallsUpdate, Filled
      <4>2. k - 1 # 7 /\ k - 1 # 8
        BY <1>1, <1>2, <4>1
      <4>3. k \notin 1..6
        BY <1>4, <3>1 DEF Searched
      <4> QED
        BY <1>1, <4>2, <4>3
    <3>2. CASE ~skip
      BY <1>1, <1>4, <3>2 DEF Searched, Level
    <3> QED
      BY <3>1, <3>2
  <2>5. ResultMatchesDepth'
    BY <1>1, <1>4, <2>4 DEF ResultMatchesDepth, CallsUpdate, Level
  <2> QED
    BY <2>1, <2>3, <2>5
<1>5. CASE /\ k \in Searched
           /\ pc' = "search" /\ level' = k
           /\ scan' = Candidates(k, stack') /\ result' = result
  <2>1. ControlOK'
    <3>1. k > 1 => Filled(k - 1)'
      BY <1>2 DEF Filled
    <3> QED
      BY <1>1, <1>3, <1>5, <3>1 DEF ControlOK, Busy, CallsUpdate
  <2> QED
    BY <1>5, <2>1 DEF MaximalDepth, ResultMatchesDepth
<1> QED
  BY <1>2, <1>3, <1>4, <1>5, Descend

(* Every return of update() is from the deepest level that has a row.      *)
LEMMA DepthNext == IInv /\ [Next]_vars => ControlOK' /\ MaximalDepth' /\ ResultMatchesDepth'
<1> DEFINE Goal == ControlOK' /\ MaximalDepth' /\ ResultMatchesDepth'
<1> SUFFICES ASSUME IInv, [Next]_vars PROVE Goal
  OBVIOUS
<1>s. SkipsDeepLevels'
  BY SkipNext
<1>1. ASSUME NEW id \in RequestId, NEW g \in Geometry, Update(id, g)
      PROVE  Goal
  <2>1. g # NoPoint
    BY DatasetAssumption
  <2>2. FirstCheck' = FirstCheck /\ FirstCheck \in 1..8
    BY <1>1 DEF Update, FirstCheck
  <2>3. \A k \in Level : k > FirstCheck => ~Filled(k)'
    BY <1>1 DEF Update, slots, FirstCheck, IInv, SkipsDeepLevels, Filled, Level
  <2> QED
    BY <1>1, <2>1, <2>2, <2>3 DEF Update, ControlOK, MaximalDepth, ResultMatchesDepth, Busy
<1>2. ASSUME NEW id \in RequestId, UpdateUnreadable(id)
      PROVE  Goal
  BY <1>2 DEF UpdateUnreadable, Leave, ControlOK, MaximalDepth, ResultMatchesDepth, Busy
<1>3. CASE CheckHit
  BY <1>3, <1>s, CheckHitCalls, CallsUpdateOK DEF CheckHit, Busy
<1>4. CASE CheckMiss
  <2>1. CASE level = 1
    BY <1>4, <1>s, <2>1, CheckMissCalls, CallsUpdateOK DEF CheckMiss, Busy
  <2>2. CASE level # 1
    <3>1. /\ level \in Level /\ pc = "check" /\ level \in 1..FirstCheck
          /\ stack \in [Level -> Row \cup {NoRow}]
          /\ \A k \in Level : k > level => ~Filled(k)
          /\ result = "none" /\ point # NoPoint
      BY <1>4 DEF CheckMiss, IInv, TypeOK, Slots, Busy, ControlOK
    <3>2. /\ level' = level - 1 /\ pc' = "check" /\ result' = result
          /\ FirstCheck' = FirstCheck /\ point' = point
          /\ stack' = [stack EXCEPT ![level] = NoRow]
      BY <1>4, <2>2 DEF CheckMiss, location, FirstCheck
    <3>3. \A k \in Level : k > level' => ~Filled(k)'
      BY <3>1, <3>2 DEF Filled, Level
    <3>4. level' \in 1..FirstCheck'
      BY <2>2, <3>1, <3>2 DEF FirstCheck, Level
    <3> QED
      BY <3>1, <3>2, <3>3, <3>4 DEF ControlOK, MaximalDepth, ResultMatchesDepth, Busy
  <2> QED
    BY <2>1, <2>2
<1>5. ASSUME NEW r \in scan, SearchReject(r)
      PROVE  Goal
  <2>1. /\ pc = "search" /\ pc' = pc /\ level' = level /\ result' = result
        /\ stack' = stack /\ point' = point /\ skip' = skip
        /\ scan' = scan \ {r}
    BY <1>5 DEF SearchReject, Rest, location
  <2>2. ~Covers(r, point)
    <3>1. r \in Row /\ point \in Geometry /\ pointBounds = BoundsOf(point)
      BY <2>1 DEF IInv, TypeOK, ControlOK, Busy
    <3> QED
      BY <1>5, <3>1, EnvelopeSound DEF SearchReject, Matches
  <2>3. Candidates(level, stack)' = Candidates(level, stack)
    BY <2>1 DEF Candidates
  <2>4. ControlOK
    BY DEF IInv
  <2>5. ControlOK'
    BY <2>1, <2>2, <2>3, <2>4 DEF ControlOK, Busy, Searched, Filled
  <2> QED
    BY <2>1, <2>5 DEF MaximalDepth, ResultMatchesDepth
<1>6. ASSUME NEW r \in scan, SearchFound(r)
      PROVE  Goal
  <2>1. CallsUpdate(level + 1) /\ Busy
    BY <1>6, SearchFoundCalls DEF SearchFound, Busy
  <2> QED
    BY <2>1, <1>s, CallsUpdateOK
<1>7. CASE SearchExhausted
  <2>1. /\ pc = "search" /\ scan = {} /\ pc' = "idle" /\ result' = Exhausted(level)
        /\ stack' = stack /\ point' = point /\ skip' = skip
    BY <1>7 DEF SearchExhausted, Leave, slots, location
  <2>2. /\ level \in Level /\ PrefixChain
        /\ level > 1 => Filled(level - 1)
        /\ \A k \in Level : k >= level => ~Filled(k)
        /\ \A r \in Candidates(level, stack) : ~Covers(r, point)
    BY <2>1 DEF IInv, TypeOK, Busy, ControlOK
  <2>3. \A k \in Level : k < level => Filled(k)
    BY <2>2 DEF PrefixChain, Level
  <2>4. ControlOK'
    <3>1. point' # NoPoint
      BY <2>1 DEF IInv, ControlOK, Busy
    <3> QED
      BY <2>1, <3>1 DEF ControlOK, Busy, Exhausted
  <2>5. MaximalDepth'
    <3> SUFFICES ASSUME NEW k \in Searched', ~Filled(k)', k = 1 \/ Filled(k - 1)',
                        NEW r \in Candidates(k, stack)'
                 PROVE  ~Covers(r, point)'
      BY DEF MaximalDepth
    <3>1. k = level
      BY <2>1, <2>2, <2>3 DEF Searched, Level, Filled
    <3> QED
      BY <2>1, <2>2, <3>1 DEF Candidates
  <2>6. ResultMatchesDepth'
    BY <2>1, <2>2, <2>3 DEF ResultMatchesDepth, Exhausted, Filled, Level
  <2> QED
    BY <2>4, <2>5, <2>6
<1>8. CASE SearchFails
  BY <1>8 DEF SearchFails, Leave, ControlOK, MaximalDepth, ResultMatchesDepth, Busy
<1>9. ASSUME NEW r \in scan, NameAllocFails(r)
      PROVE  Goal
  BY <1>9 DEF NameAllocFails, Leave, ControlOK, MaximalDepth, ResultMatchesDepth, Busy
<1>10. CASE Deinit
  BY <1>10 DEF Deinit, Leave, ControlOK, MaximalDepth, ResultMatchesDepth, Busy
<1>11. CASE UNCHANGED vars
  <2>1. /\ ControlOK /\ MaximalDepth /\ ResultMatchesDepth
    BY DEF IInv
  <2> QED
    BY <1>11, <2>1 DEF vars, slots, location, control, ControlOK, MaximalDepth,
         ResultMatchesDepth, Busy, Searched, FirstCheck, Filled, Candidates
<1> QED
  BY <1>1, <1>2, <1>3, <1>4, <1>5, <1>6, <1>7, <1>8, <1>9, <1>10, <1>11 DEF Next, Proceed
-----------------------------------------------------------------------------
(* The heaps.                                                              *)

(* A row is only ever held at its own level.                               *)
LEMMA HeldAtLevel ==
  ASSUME IInv, NEW k \in Level, Filled(k)
  PROVE  stack[k] \in Row /\ LevelOf(stack[k]) = k
  BY DEF IInv, TypeOK, Slots, SlotLevels, Filled

(* Filling an empty slot, and emptying it again, changes what is held by   *)
(* that one row.                                                           *)
LEMMA HeldAfterFill ==
  ASSUME IInv, NEW r \in Row, NEW k \in Level, LevelOf(r) = k, ~Filled(k),
         stack' = [stack EXCEPT ![k] = r]
  PROVE  /\ [q \in Row |-> Held(q)'] = Create([q \in Row |-> Held(q)], r)
<1>1. stack \in [Level -> Row \cup {NoRow}] /\ r # NoRow
  BY DatasetAssumption DEF IInv, TypeOK, Slots
<1>2. \A q \in Row : Held(q)' = IF q = r THEN Held(q) + 1 ELSE Held(q)
  <2> TAKE q \in Row
  <2>1. LevelOf(q) \in Level /\ q # NoRow
    BY Levels, DatasetAssumption
  <2>2. CASE q = r
    BY <1>1, <2>1, <2>2 DEF Held, Filled
  <2>3. CASE q # r /\ LevelOf(q) = k
    BY <1>1, <2>1, <2>3 DEF Held, Filled
  <2>4. CASE q # r /\ LevelOf(q) # k
    BY <1>1, <2>1, <2>4 DEF Held
  <2> QED
    BY <2>2, <2>3, <2>4
<1> QED
  BY <1>2 DEF Create

(* Emptying a filled slot releases exactly what it held.                   *)
LEMMA HeldAfterEmpty ==
  ASSUME IInv, NEW k \in Level, Filled(k), stack' = [stack EXCEPT ![k] = NoRow]
  PROVE  [q \in Row |-> Held(q)'] = Destroy([q \in Row |-> Held(q)], stack[k])
<1>1. stack \in [Level -> Row \cup {NoRow}]
  BY DEF IInv, TypeOK, Slots
<1>2. \A q \in Row : Held(q)' = IF q = stack[k] THEN Held(q) - 1 ELSE Held(q)
  <2> TAKE q \in Row
  <2>1. LevelOf(q) \in Level /\ q # NoRow /\ LevelOf(stack[k]) = k
    BY Levels, DatasetAssumption, HeldAtLevel
  <2>2. CASE LevelOf(q) = k
    BY <1>1, <2>1, <2>2 DEF Held
  <2>3. CASE LevelOf(q) # k
    BY <1>1, <2>1, <2>3 DEF Held
  <2> QED
    BY <2>2, <2>3
<1> QED
  BY <1>2 DEF Destroy

(* While update() runs or may be called, the heaps are exact.              *)
LEMMA HeapExact ==
  ASSUME IInv, pc \in {"idle", "check", "search"}
  PROVE  /\ names = [r \in Row |-> Held(r)]
         /\ geoms = [r \in Row |-> Held(r)]
         /\ pointGeoms = IF point = NoPoint THEN 0 ELSE 1
<1>1. result # "OutOfMemory"
  BY DEF IInv, ControlOK, Busy
<1> QED
  BY <1>1 DEF IInv, HeapOwned

(* Every step creates what it stores and destroys what it drops.           *)
LEMMA HeapNext == IInv /\ [Next]_vars => HeapOwned'
<1> SUFFICES ASSUME IInv, [Next]_vars PROVE HeapOwned'
  OBVIOUS
<1>h. HeapOwned
  BY DEF IInv
<1>p. point \in Geometry \cup {NoPoint}
  BY DEF IInv, TypeOK
<1>1. ASSUME NEW id \in RequestId, NEW g \in Geometry, Update(id, g)
      PROVE  HeapOwned'
  <2>1. g # NoPoint
    BY DatasetAssumption
  <2>2. pointGeoms' = 1
    BY <1>1, HeapExact DEF Update, ClearPoint
  <2> QED
    BY <1>1, <2>1, <2>2, HeapExact DEF Update, HeapOwned, slots, Held
<1>2. ASSUME NEW id \in RequestId, UpdateUnreadable(id)
      PROVE  HeapOwned'
  <2>1. pointGeoms' = 0
    BY <1>2, HeapExact DEF UpdateUnreadable, ClearPoint
  <2> QED
    BY <1>2, <2>1, HeapExact DEF UpdateUnreadable, HeapOwned, slots, Held
<1>3. CASE CheckHit
  BY <1>3, HeapExact DEF CheckHit, HeapOwned, slots, location, Held
<1>4. CASE CheckMiss
  <2>1. /\ pc = "check" /\ level \in Level
        /\ stack \in [Level -> Row \cup {NoRow}]
        /\ stack' = [stack EXCEPT ![level] = NoRow]
        /\ geoms' = Released(geoms) /\ names' = Released(names)
        /\ pointGeoms' = pointGeoms /\ point' = point
    BY <1>4 DEF CheckMiss, IInv, TypeOK, Slots, Busy, location
  <2>2. CASE Filled(level)
    <3>1. [q \in Row |-> Held(q)'] = Destroy([q \in Row |-> Held(q)], stack[level])
      BY <2>1, <2>2, HeldAfterEmpty
    <3>2. Released(geoms) = Destroy(geoms, stack[level]) /\ Released(names) = Destroy(names, stack[level])
      BY <2>2 DEF Released, Filled
    <3> QED
      BY <2>1, <3>1, <3>2, HeapExact DEF HeapOwned
  <2>3. CASE ~Filled(level)
    <3>1. stack' = stack /\ geoms' = geoms /\ names' = names
      BY <2>1, <2>3 DEF Released, Filled
    <3> QED
      BY <2>1, <3>1, HeapExact DEF HeapOwned, Held
  <2> QED
    BY <2>2, <2>3
<1>5. ASSUME NEW r \in scan, SearchReject(r)
      PROVE  HeapOwned'
  <2>0. geoms \in [Row -> Int] /\ r \in Row
    BY DEF IInv, TypeOK
  <2>1. Destroy(Create(geoms, r), r) = geoms
    <3>1. Create(geoms, r) = [q \in Row |-> IF q = r THEN geoms[q] + 1 ELSE geoms[q]]
      BY <2>0 DEF Create
    <3> QED
      BY <2>0, <3>1 DEF Destroy
  <2>2. geoms' = geoms
    BY <1>5, <2>1 DEF SearchReject, Rejected
  <2> QED
    BY <1>5, <2>2, HeapExact DEF SearchReject, HeapOwned, location, Held
<1>6. ASSUME NEW r \in scan, SearchFound(r)
      PROVE  HeapOwned'
  <2>1. pc = "search" /\ ~Filled(level)
    BY <1>6 DEF SearchFound, IInv, ControlOK, TypeOK, Busy, Level
  <2>2. [q \in Row |-> Held(q)'] = Create([q \in Row |-> Held(q)], r)
    BY <1>6, <2>1, ScanRows, HeldAfterFill DEF SearchFound
  <2> QED
    BY <1>6, <2>1, <2>2, HeapExact DEF SearchFound, HeapOwned, location
<1>7. CASE SearchExhausted
  BY <1>7, HeapExact DEF SearchExhausted, HeapOwned, slots, location, Held
<1>8. CASE SearchFails
  BY <1>8, HeapExact DEF SearchFails, HeapOwned, slots, location, Held
<1>9. ASSUME NEW r \in scan, NameAllocFails(r)
      PROVE  HeapOwned'
  <2>1. pc = "search" /\ r \in Row
    BY <1>9, ScanRows DEF NameAllocFails
  <2> QED
    BY <1>9, <2>1, HeapExact DEF NameAllocFails, Leave, HeapOwned, location, Held
<1>10. CASE Deinit
  <2>1. \A r \in Row : Held(r)' = 0
    BY <1>10, Levels, DatasetAssumption DEF Deinit, EmptyStack, Held
  <2>2. /\ names' = Emptied(names) /\ geoms' = Emptied(geoms)
        /\ point' = NoPoint /\ pointGeoms' = ClearPoint /\ result' = result
    BY <1>10 DEF Deinit, Leave
  <2>3. names' = [r \in Row |-> Held(r)']
    BY <1>h, <2>1, <2>2 DEF HeapOwned, Emptied, Held
  <2>4. pointGeoms' = 0
    BY <1>h, <2>2 DEF HeapOwned, ClearPoint
  <2>5. CASE geoms = [r \in Row |-> Held(r)]
    <3>1. geoms' = [r \in Row |-> Held(r)']
      BY <2>1, <2>2, <2>5 DEF Emptied, Held
    <3> QED
      BY <2>2, <2>3, <2>4, <3>1 DEF HeapOwned
  <2>6. ASSUME result = "OutOfMemory",
               NEW lost \in Row, geoms = Create([r \in Row |-> Held(r)], lost)
        PROVE  HeapOwned'
    <3>0. \A r \in Row : geoms[r] = IF r = lost THEN Held(r) + 1 ELSE Held(r)
      BY <2>6 DEF Create
    <3>1. geoms' = [r \in Row |-> IF r = lost THEN 1 ELSE 0]
      BY <2>2, <3>0 DEF Emptied, Held
    <3>2. Create([r \in Row |-> Held(r)'], lost) = [r \in Row |-> IF r = lost THEN 1 ELSE 0]
      <4>1. [r \in Row |-> Held(r)'] = [r \in Row |-> 0]
        BY <2>1
      <4>2. Create([r \in Row |-> 0], lost) = [r \in Row |-> IF r = lost THEN 1 ELSE 0]
        BY DEF Create
      <4> QED
        BY <4>1, <4>2
    <3> QED
      BY <2>2, <2>3, <2>4, <2>6, <3>1, <3>2 DEF HeapOwned
  <2> QED
    BY <1>h, <2>5, <2>6 DEF HeapOwned
<1>11. CASE UNCHANGED vars
  BY <1>11, <1>h DEF vars, slots, location, control, HeapOwned, Held
<1> QED
  BY <1>1, <1>2, <1>3, <1>4, <1>5, <1>6, <1>7, <1>8, <1>9, <1>10, <1>11 DEF Next, Proceed

-----------------------------------------------------------------------------
(* The inductive invariant is preserved by every step.                     *)
LEMMA IInvNext == IInv /\ [Next]_vars => IInv'
<1> SUFFICES ASSUME IInv, [Next]_vars PROVE IInv'
  OBVIOUS
<1>1. TypeOK'
  BY TypeNext DEF IInv
<1> QED
  BY <1>1, SlotLevelsNext, PrefixChainNext, SkipNext, DepthNext, HeapNext DEF IInv

(* The inductive invariant holds for every dataset and every sequence of   *)
(* calls of update(), failures included.                                   *)
THEOREM Invariance == Spec => []IInv
  BY IInvInit, IInvNext, PTL DEF Spec

(* The stack is at all times a chain of codes that extend one another.     *)
THEOREM Chains == Spec => []PrefixChain
<1>1. IInv => PrefixChain
  BY DEF IInv
<1> QED
  BY Invariance, <1>1, PTL

(* update() never stops above a watershed that covers the point.           *)
THEOREM Maximal == Spec => []MaximalDepth
<1>1. IInv => MaximalDepth
  BY DEF IInv
<1> QED
  BY Invariance, <1>1, PTL

(* Nothing leaks and nothing is freed twice, but for the polygon that is   *)
(* lost when there is no memory for a name.                                *)
THEOREM Owned == Spec => []HeapOwned
<1>1. IInv => HeapOwned
  BY DEF IInv
<1> QED
  BY Invariance, <1>1, PTL

(* What update() returns tells how deep the stack is.                      *)
THEOREM Reported == Spec => []ResultMatchesDepth
<1>1. IInv => ResultMatchesDepth
  BY DEF IInv
<1> QED
  BY Invariance, <1>1, PTL
-----------------------------------------------------------------------------
(* Where update() gets to in a step: back to main, up a level, from the    *)
(* checks to the searches, down a level, or on by a row of the same        *)
(* SELECT.  With finitely many rows it cannot do so forever.               *)
Nearer ==
  \/ ~Busy'
  \/ /\ pc = "check" /\ pc' = "check"
     /\ level' \in Level /\ level' < level
     /\ scan' = scan
  \/ pc = "check" /\ pc' = "search"
  \/ /\ pc = "search" /\ pc' = "search"
     /\ \/ level' \in Level /\ level' > level
        \/ level' = level /\ scan' \subseteq scan /\ scan' # scan

(* updateHUC goes down to the level it is called for, or returns.          *)
LEMMA Downwards ==
  ASSUME NEW k \in Int, NEW s, UpdateHUC(k, s)
  PROVE  \/ pc' = "idle"
         \/ pc' = "search" /\ level' = k /\ k \in Level
  BY DEF UpdateHUC, Leave, Searched, Level

(* update() never takes a step in vain: checkHUC only goes up, updateHUC   *)
(* only goes down, no level is searched twice, no check follows a search,  *)
(* and sqlite3_step() never produces a row again.                          *)
THEOREM UpdateAdvances == Spec => [][Busy => Nearer]_vars
<1>1. TypeOK /\ [Next]_vars => [Busy => Nearer]_vars
  <2> SUFFICES ASSUME TypeOK, Next, Busy PROVE Nearer
    OBVIOUS
  <2>0. level \in Level
    BY DEF TypeOK
  <2>1. CASE CheckHit
    <3>1. level + 1 \in Int
      BY <2>0 DEF Level
    <3> QED
      BY <2>1, <3>1, Downwards DEF CheckHit, Nearer, Busy
  <2>2. CASE CheckMiss
    <3>1. CASE level = 1
      <4>1. UpdateHUC(1, stack') /\ pc = "check"
        BY <2>2, <3>1 DEF CheckMiss
      <4> QED
        BY <4>1, Downwards DEF Nearer, Busy
    <3>2. CASE level # 1
      BY <2>0, <2>2, <3>2 DEF CheckMiss, Nearer, Level
    <3> QED
      BY <3>1, <3>2
  <2>3. ASSUME NEW r \in scan, SearchReject(r) PROVE Nearer
    BY <2>3 DEF SearchReject, Rest, Nearer
  <2>4. ASSUME NEW r \in scan, SearchFound(r) PROVE Nearer
    <3>1. /\ pc = "search" /\ UpdateHUC(level + 1, stack')
          /\ level + 1 \in Int /\ level + 1 > level
      BY <2>0, <2>4 DEF SearchFound, Level
    <3> QED
      BY <3>1, Downwards DEF Nearer, Busy
  <2>5. CASE ~Busy'
    BY <2>5 DEF Nearer
  <2>6. \/ CheckHit \/ CheckMiss
        \/ \E r \in scan : SearchReject(r) \/ SearchFound(r)
        \/ ~Busy'
    BY DEF Next, Proceed, Update, UpdateUnreadable, SearchExhausted, SearchFails,
           NameAllocFails, Deinit, Leave, Busy
  <2> QED
    BY <2>1, <2>2, <2>3, <2>4, <2>5, <2>6
<1> QED
  BY <1>1, TypeCorrect, PTL DEF Spec

-----------------------------------------------------------------------------
(* What the cache rests on: in a nested dataset, a watershed that covers   *)
(* the point vouches for every one above it.                               *)
LEMMA HitVouches ==
  ASSUME Nested, IInv, NEW k \in Level, Filled(k), Covers(stack[k], point)
  PROVE  \A j \in Level : j <= k => Covers(stack[j], point)
<1> SUFFICES ASSUME NEW j \in Level, j < k PROVE Covers(stack[j], point)
  BY DEF Level
<1>1. Filled(j) /\ IsPrefix(stack[j].huc, stack[k].huc)
  BY DEF IInv, PrefixChain
<1>2. stack[j] \in Row /\ stack[k] \in Row
  BY <1>1, HeldAtLevel
<1>3. stack[k].cells \subseteq stack[j].cells
  BY <1>1, <1>2 DEF Nested
<1> QED
  BY <1>3 DEF Covers

(* A cached slot above one that covers the point covers it too, in a       *)
(* nested dataset.                                                         *)
LEMMA CoveredNext ==
  ASSUME Nested, IInv, CoveredSoFar, [Next]_vars
  PROVE  CoveredSoFar'
<1> DEFINE AllCover == \A k \in Level : Filled(k) => Covers(stack[k], point)
<1>1. CASE pc' \notin {"idle", "search"}
  BY <1>1 DEF CoveredSoFar, CoversPoint
<1>2. CASE CheckHit
  <2>1. /\ pc = "check" /\ level \in Level /\ Filled(level)
        /\ Covers(stack[level], point)
        /\ \A k \in Level : k > level => ~Filled(k)
    BY <1>2 DEF CheckHit, Hit, Filled, IInv, TypeOK, ControlOK, Busy
  <2>2. AllCover
    BY <2>1, HitVouches DEF Level
  <2>3. stack' = stack /\ point' = point
    BY <1>2 DEF CheckHit, slots, location
  <2> QED
    BY <2>2, <2>3 DEF CoveredSoFar, CoversPoint, Filled
<1>3. CASE CheckMiss
  <2>1. CASE level = 1
    <3>1. \A k \in Level : ~Filled(k)'
      BY <1>3, <2>1, CheckMissCalls DEF CallsUpdate, Level
    <3> QED
      BY <3>1 DEF CoveredSoFar, CoversPoint
  <2>2. CASE level # 1
    BY <1>3, <2>2 DEF CheckMiss, CoveredSoFar, CoversPoint
  <2> QED
    BY <2>1, <2>2
<1>4. ASSUME NEW r \in scan, SearchFound(r)
      PROVE  CoveredSoFar'
  <2>1. /\ pc = "search" /\ Covers(r, point) /\ point' = point
        /\ stack' = [stack EXCEPT ![level] = r]
        /\ stack \in [Level -> Row \cup {NoRow}]
    BY <1>4 DEF SearchFound, Matches, location, IInv, TypeOK, Slots
  <2>2. \A k \in Level : Filled(k)' => Covers(stack[k], point)'
    BY <2>1 DEF CoveredSoFar, Filled
  <2> QED
    BY <2>2 DEF CoveredSoFar, CoversPoint
<1>5. ASSUME NEW r \in scan, SearchReject(r)
      PROVE  CoveredSoFar'
  BY <1>5 DEF SearchReject, location, CoveredSoFar, CoversPoint, Filled
<1>6. CASE SearchExhausted
  BY <1>6 DEF SearchExhausted, slots, location, CoveredSoFar, CoversPoint, Filled
<1>7. CASE UNCHANGED vars
  BY <1>7 DEF vars, slots, location, control, CoveredSoFar, CoversPoint, Filled
<1>8. \/ pc' \notin {"idle", "search"}
      \/ Proceed
      \/ UNCHANGED vars
  BY DEF Next, Update, UpdateUnreadable, SearchFails, NameAllocFails, Deinit, Leave
<1> QED
  BY <1>1, <1>2, <1>3, <1>4, <1>5, <1>6, <1>7, <1>8 DEF Proceed

(* Hence the strengthened CoversPoint is an invariant.                     *)
LEMMA Covered == ASSUME Nested PROVE Spec => []CoveredSoFar
<1>1. Init => CoveredSoFar
  BY DEF Init, CoveredSoFar, CoversPoint
<1>2. IInv /\ CoveredSoFar /\ [Next]_vars => CoveredSoFar'
  BY CoveredNext
<1> QED
  BY <1>1, <1>2, Invariance, PTL DEF Spec

(* In a nested dataset, re-checking only the deepest watersheds is enough: *)
(* every watershed of the answer covers the point.                         *)
THEOREM Covering == ASSUME Nested PROVE Spec => []CoversPoint
<1>1. CoveredSoFar => CoversPoint
  BY DEF CoveredSoFar
<1> QED
  BY <1>1, Covered, PTL

-----------------------------------------------------------------------------
(* Refinement: the stack answers every point as a lookup without a memory  *)
(* would.                                                                  *)

Stable == Nested /\ IInv /\ CoveredSoFar

(* The abstract specification reads the same dataset.                      *)
LEMMA LookupsSame ==
  /\ Lookups!Level = Level
  /\ \A r, g : Lookups!Covers(r, g) = Covers(r, g)
  /\ \A k, s : Lookups!Candidates(k, s) = Candidates(k, s)
<1>1. \A r : Lookups!LevelOf(r) = LevelOf(r)
  BY DEF Lookups!LevelOf, LevelOf
<1>2. ASSUME NEW k, NEW p PROVE Lookups!Select(k, p) = Select(k, p)
  <2>1. \A r : r \in Lookups!Select(k, p) <=> r \in Select(k, p)
    BY <1>1 DEF Lookups!Select, Select, Lookups!IsPrefix, IsPrefix
  <2> QED
    BY <2>1
<1>3. \A k, s : Lookups!Candidates(k, s) = Candidates(k, s)
  BY <1>2 DEF Lookups!Candidates, Candidates
<1>4. \A r, g : Lookups!Covers(r, g) = Covers(r, g)
  BY DEF Lookups!Covers, Covers
<1> QED
  BY <1>3, <1>4 DEF Lookups!Level, Level

(* When update() has returned, the stack is an answer of Lookup for the    *)
(* point.                                                                  *)
IsAnswered == pc = "idle" /\ point # NoPoint =>
                 /\ Lookups!IsAnswer(stack, point)
                 /\ result = Lookups!OutcomeOf(stack)

(* A stack that covers the point and cannot be continued is an answer of   *)
(* Lookup.                                                                 *)
LEMMA StackIsAnswer == Stable => IsAnswered
<1> SUFFICES ASSUME Stable, pc = "idle", point # NoPoint
             PROVE  /\ Lookups!IsAnswer(stack, point)
                    /\ result = Lookups!OutcomeOf(stack)
  BY DEF IsAnswered
<1>1. /\ PrefixChain /\ MaximalDepth /\ ResultMatchesDepth /\ SkipsDeepLevels
      /\ result \in {"ok", "pointNotInDataset"}
      /\ \A k \in Level : Filled(k) => Covers(stack[k], point)
  BY DEF Stable, IInv, ControlOK, CoveredSoFar, CoversPoint
<1>2. Lookups!IsAnswer(stack, point)
  <2> SUFFICES ASSUME NEW k \in Level
               PROVE  LET open == k <= Lookups!Deepest /\ (k = 1 \/ stack[k - 1] # NoRow)
                      IN  \/ /\ open
                             /\ stack[k] \in Candidates(k, stack)
                             /\ Covers(stack[k], point)
                          \/ /\ stack[k] = NoRow
                             /\ open => \A r \in Candidates(k, stack) : ~Covers(r, point)
    BY LookupsSame DEF Lookups!IsAnswer
  <2>1. k \in Searched <=> k <= Lookups!Deepest
    BY DEF Searched, Lookups!Deepest, Level
  <2>2. CASE Filled(k)
    <3>1. k <= Lookups!Deepest
      BY <1>1, <2>2 DEF SkipsDeepLevels, Lookups!Deepest, Level
    <3>2. k = 1 \/ (Filled(k - 1) /\ IsPrefix(stack[k - 1].huc, stack[k].huc))
      BY <1>1, <2>2 DEF PrefixChain, Level
    <3>3. stack[k] \in Row /\ LevelOf(stack[k]) = k /\ stack[k].huc \in Seq(Nat)
      BY <2>2, HeldAtLevel, DatasetAssumption DEF Stable
    <3>4. stack[k] \in Candidates(k, stack)
      <4>1. CASE k = 1
        BY <3>3, <4>1 DEF Candidates, Select, IsPrefix
      <4>2. CASE k # 1
        BY <3>2, <3>3, <4>2 DEF Candidates, Select
      <4> QED
        BY <4>1, <4>2
    <3> QED
      BY <1>1, <2>2, <3>1, <3>2, <3>4 DEF Filled
  <2>3. CASE ~Filled(k)
    BY <1>1, <2>1, <2>3 DEF MaximalDepth, Filled
  <2> QED
    BY <2>2, <2>3
<1> QED
  BY <1>1, <1>2 DEF ResultMatchesDepth, Lookups!OutcomeOf, Filled

(* Initial states map to initial states of Lookup.                         *)
LEMMA RefineInit == Init => Lookups!Init
  BY DEF Init, Lookups!Init, Busy, Answered, EmptyStack, Lookups!Nothing,
         Level, Lookups!Level

(* A step that leaves update() with an answer.                             *)
LEMMA RefineAnswer ==
  ASSUME Stable, Stable', Busy, pc' = "idle", point' = point,
         requestId' = requestId, skip' = skip
  PROVE  Lookups!Answer
<1>1. point # NoPoint /\ stack' \in [Level -> Row \cup {NoRow}]
  BY DEF Stable, IInv, ControlOK, TypeOK, Slots
<1>2. IsAnswered'
  <2>1. (Stable => IsAnswered)'
    BY StackIsAnswer, PTL
  <2> QED
    BY <2>1
<1>3. (Lookups!IsAnswer(stack, point) /\ result = Lookups!OutcomeOf(stack))'
  BY <1>1, <1>2 DEF IsAnswered
<1>4. Lookups!IsAnswer(stack', point)
  BY <1>3 DEF Lookups!IsAnswer, Lookups!Deepest
<1>5. result' = Lookups!OutcomeOf(stack')
  BY <1>3 DEF Lookups!OutcomeOf
<1>6. (IF Answered THEN stack ELSE EmptyStack)' = stack'
  BY DEF Answered
<1>7. (IF Answered THEN result ELSE "none")' = result'
  BY DEF Answered
<1>8. /\ (IF Busy THEN "busy" ELSE IF Answered THEN "ready" ELSE "stopped") = "busy"
      /\ (IF Busy THEN "busy" ELSE IF Answered THEN "ready" ELSE "stopped")' = "ready"
  BY DEF Busy, Answered
<1> QED
  BY <1>1, <1>4, <1>5, <1>6, <1>7, <1>8 DEF Lookups!Answer, Lookups!Level, Level
(* A step inside update(), or in a program that has failed, is invisible.  *)
LEMMA RefineStutter ==
  ASSUME skip' = skip, point' = point, requestId' = requestId,
         Busy' <=> Busy, ~Answered, ~Answered'
  PROVE  UNCHANGED Lookups!vars
  BY DEF Lookups!vars, EmptyStack

(* Failures and deinit() map to Stop.                                      *)
LEMMA RefineStop ==
  ASSUME IInv', skip' = skip, ~Busy', ~Answered'
  PROVE  Lookups!Stop
<1>1. point' \in Geometry \cup {NoPoint} /\ requestId' \in RequestId \cup {0}
  BY DEF IInv, TypeOK
<1> QED
  BY <1>1 DEF Lookups!Stop, Lookups!Nothing, EmptyStack, Level, Lookups!Level

(* Every step of update() maps to a step of Lookup or to a stutter.        *)
LEMMA RefineNext ==
  ASSUME Stable, Stable', [Next]_vars
  PROVE  [Lookups!Next]_(Lookups!vars)
<1>s. skip' = skip
  BY SkipFixed
<1>1. ASSUME NEW id \in RequestId, NEW g \in Geometry, Update(id, g)
      PROVE  Lookups!Ask
  <2>1. /\ (IF Busy THEN "busy" ELSE IF Answered THEN "ready" ELSE "stopped") = "ready"
        /\ (IF Busy THEN "busy" ELSE IF Answered THEN "ready" ELSE "stopped")' = "busy"
        /\ (IF Answered THEN stack ELSE EmptyStack)' = EmptyStack
        /\ (IF Answered THEN result ELSE "none")' = "none"
    BY <1>1 DEF Update, Busy, Answered, EmptyStack
  <2>2. point' \in Geometry /\ requestId' \in RequestId
    BY <1>1 DEF Update
  <2> QED
    BY <2>1, <2>2, <1>s DEF Lookups!Ask, Lookups!Nothing, EmptyStack, Lookups!Level, Level
<1>2. CASE Proceed
  <2>1. Busy /\ pc' \in {"idle", "check", "search"} /\ point' = point /\ requestId' = requestId
    BY <1>2 DEF Proceed, CheckHit, CheckMiss, SearchReject, SearchFound, SearchExhausted,
         UpdateHUC, Leave, Busy, location
  <2>2. CASE pc' = "idle"
    BY <1>s, <2>1, <2>2, RefineAnswer DEF Lookups!Next
  <2>3. CASE pc' # "idle"
    BY <1>s, <2>1, <2>3, RefineStutter DEF Busy, Answered
  <2> QED
    BY <2>2, <2>3
<1>3. CASE pc' \in {"failed", "closed"}
  BY <1>s, <1>3, RefineStop DEF Stable, Busy, Answered, Lookups!Next
<1>4. CASE UNCHANGED vars
  BY <1>4 DEF vars, slots, location, control, Lookups!vars, Busy, Answered, EmptyStack
<1>5. \/ \E id \in RequestId, g \in Geometry : Update(id, g)
      \/ Proceed
      \/ pc' \in {"failed", "closed"}
      \/ UNCHANGED vars
  BY DEF Next, UpdateUnreadable, SearchFails, NameAllocFails, Deinit, Leave
<1> QED
  BY <1>1, <1>2, <1>3, <1>4, <1>5 DEF Lookups!Next

(* In a nested dataset the cache is invisible: WatershedStack implements   *)
(* Lookup, in which no answer depends on an earlier point.                 *)
THEOREM Refinement == ASSUME Nested PROVE Spec => LookupSpec
<1>1. Init => Lookups!Init
  BY RefineInit
<1>2. IInv /\ CoveredSoFar /\ IInv' /\ CoveredSoFar' /\ [Next]_vars
        => [Lookups!Next]_(Lookups!vars)
  BY RefineNext DEF Stable
<1> QED
  BY <1>1, <1>2, Covered, Invariance, PTL DEF Spec, LookupSpec, Lookups!Spec

-----------------------------------------------------------------------------
(* No two watersheds of one level cover g: it lies on no border.           *)
Clear(g) ==
  \A q, r \in Row : LevelOf(q) = LevelOf(r) /\ Covers(q, g) /\ Covers(r, g) => q = r

(* Two answers that agree on the level above agree on level k.             *)
LEMMA SameWatershed ==
  ASSUME NEW g, Clear(g), NEW a, NEW b,
         Lookups!IsAnswer(a, g), Lookups!IsAnswer(b, g),
         NEW k \in Level, k = 1 \/ a[k - 1] = b[k - 1]
  PROVE  a[k] = b[k]
<1> DEFINE Open(s) == k <= Lookups!Deepest /\ (k = 1 \/ s[k - 1] # NoRow)
<1>1. ASSUME NEW s, Lookups!IsAnswer(s, g)
      PROVE  \/ Open(s) /\ s[k] \in Candidates(k, s) /\ Covers(s[k], g)
             \/ s[k] = NoRow /\ (Open(s) => \A r \in Candidates(k, s) : ~Covers(r, g))
  BY <1>1, LookupsSame DEF Lookups!IsAnswer
<1>2. Candidates(k, a) = Candidates(k, b) /\ (Open(a) <=> Open(b))
  BY DEF Candidates
<1>3. \A r \in Candidates(k, a) : r \in Row /\ LevelOf(r) = k
  BY DEF Candidates, Select
<1> HIDE DEF Open
<1>4. CASE a[k] \in Candidates(k, a) /\ Covers(a[k], g) /\ Open(a)
  <2>1. b[k] \in Candidates(k, a) /\ Covers(b[k], g)
    BY <1>1, <1>2, <1>4
  <2> QED
    BY <1>3, <1>4, <2>1 DEF Clear
<1>5. CASE /\ a[k] = NoRow
           /\ Open(a) => \A r \in Candidates(k, a) : ~Covers(r, g)
  BY <1>1, <1>2, <1>5
<1> QED
  BY <1>1, <1>4, <1>5

(* Where no two watersheds of a level meet there is only one answer: the   *)
(* order of the rows and the points before make no difference.             *)
THEOREM OneAnswer ==
  ASSUME NEW g, Clear(g), NEW a \in Slots, NEW b \in Slots,
         Lookups!IsAnswer(a, g), Lookups!IsAnswer(b, g)
  PROVE  a = b
<1>1. ASSUME NEW k \in Level, k = 1 \/ a[k - 1] = b[k - 1] PROVE a[k] = b[k]
  BY <1>1, SameWatershed
<1>2. a[1] = b[1]
  BY <1>1 DEF Level
<1>3. a[2] = b[2]
  BY <1>1, <1>2 DEF Level
<1>4. a[3] = b[3]
  BY <1>1, <1>3 DEF Level
<1>5. a[4] = b[4]
  BY <1>1, <1>4 DEF Level
<1>6. a[5] = b[5]
  BY <1>1, <1>5 DEF Level
<1>7. a[6] = b[6]
  BY <1>1, <1>6 DEF Level
<1>8. a[7] = b[7]
  BY <1>1, <1>7 DEF Level
<1>9. a[8] = b[8]
  BY <1>1, <1>8 DEF Level
<1> QED
  <2>1. \A k \in Level : a[k] = b[k]
    BY <1>2, <1>3, <1>4, <1>5, <1>6, <1>7, <1>8, <1>9 DEF Level
  <2> QED
    BY <2>1 DEF Slots
-----------------------------------------------------------------------------
(* What a stack s shows, and what the dataset has to show of g.            *)
Shown(s) == {s[k] : k \in {j \in Level : s[j] # NoRow}}
Wanted(g) == {r \in Row : LevelOf(r) \in Searched /\ Covers(r, g)}

(* A watershed that is shown covers g, and is of the level of its slot.    *)
LEMMA AnswerCovers ==
  ASSUME NEW g, NEW s, Lookups!IsAnswer(s, g), NEW k \in Level, s[k] # NoRow
  PROVE  /\ s[k] \in Row /\ LevelOf(s[k]) = k /\ Covers(s[k], g)
         /\ k \in Searched
<1>1. k <= Lookups!Deepest /\ s[k] \in Candidates(k, s) /\ Covers(s[k], g)
  BY LookupsSame DEF Lookups!IsAnswer
<1> QED
  BY <1>1 DEF Candidates, Select, Lookups!Deepest, Searched, Level

(* One level of the induction: a watershed of level k that covers g is the *)
(* one in the slot, if those of level k - 1 are.                           *)
LEMMA AnswerFinds ==
  ASSUME Nested, Parented, NEW g, Clear(g), NEW s, Lookups!IsAnswer(s, g),
         NEW k \in Level,
         \A q \in Wanted(g) : LevelOf(q) = k - 1 => s[k - 1] = q,
         NEW r \in Wanted(g), LevelOf(r) = k
  PROVE  s[k] = r
<1>1. r \in Row /\ k \in Searched /\ Covers(r, g)
  BY DEF Wanted
<1>2. r \in Candidates(k, s) /\ (k = 1 \/ s[k - 1] # NoRow)
  <2>1. CASE k = 1
    <3>1. IsPrefix(<<>>, r.huc)
      BY <1>1, DatasetAssumption DEF IsPrefix
    <3> QED
      BY <1>1, <2>1, <3>1 DEF Candidates, Select
  <2>2. CASE k # 1
    <3>1. PICK q \in Row : LevelOf(q) = k - 1 /\ IsPrefix(q.huc, r.huc)
      BY <1>1, <2>2 DEF Parented, Level
    <3>2. r.cells \subseteq q.cells
      BY <1>1, <3>1 DEF Nested
    <3>3. Covers(q, g)
      BY <1>1, <3>2 DEF Covers
    <3>4. k - 1 \in Searched
      BY <1>1, <2>2 DEF Searched, Level
    <3>5. s[k - 1] = q
      BY <3>1, <3>3, <3>4 DEF Wanted
    <3> QED
      BY <1>1, <2>2, <3>1, <3>5, DatasetAssumption DEF Candidates, Select
  <2> QED
    BY <2>1, <2>2
<1>3. k <= Lookups!Deepest
  BY <1>1 DEF Searched, Lookups!Deepest, Level
<1>4. s[k] # NoRow
  <2>1. \/ s[k] \in Candidates(k, s)
        \/ \A q \in Candidates(k, s) : ~Covers(q, g)
    BY <1>2, <1>3, LookupsSame DEF Lookups!IsAnswer
  <2>2. s[k] \in Row
    BY <1>1, <1>2, <2>1 DEF Candidates, Select
  <2> QED
    BY <2>2, DatasetAssumption
<1>5. s[k] \in Row /\ LevelOf(s[k]) = k /\ Covers(s[k], g)
  BY <1>4, AnswerCovers
<1> QED
  BY <1>1, <1>5 DEF Clear

(* In a nested dataset without gaps, and away from borders, an answer      *)
(* shows all the watersheds that cover the point at the levels looked at,  *)
(* and no others.                                                          *)
THEOREM AnswerComplete ==
  ASSUME Nested, Parented, NEW g, Clear(g), NEW s, Lookups!IsAnswer(s, g)
  PROVE  Shown(s) = Wanted(g)
<1> DEFINE Found(k) == \A q \in Wanted(g) : LevelOf(q) = k => s[k] = q
<1>1. ASSUME NEW k \in Level, Found(k - 1) PROVE Found(k)
  BY <1>1, AnswerFinds
<1>2. Found(0)
  BY Levels DEF Wanted, Level
<1> HIDE DEF Found
<1>3. Found(1)
  BY <1>1, <1>2 DEF Level
<1>4. Found(2)
  BY <1>1, <1>3 DEF Level
<1>5. Found(3)
  BY <1>1, <1>4 DEF Level
<1>6. Found(4)
  BY <1>1, <1>5 DEF Level
<1>7. Found(5)
  BY <1>1, <1>6 DEF Level
<1>8. Found(6)
  BY <1>1, <1>7 DEF Level
<1>9. Found(7)
  BY <1>1, <1>8 DEF Level
<1>10. Found(8)
  BY <1>1, <1>9 DEF Level
<1>11. ASSUME NEW r \in Wanted(g) PROVE r \in Shown(s)
  <2>1. r \in Row /\ r # NoRow /\ LevelOf(r) \in Level
    BY Levels, DatasetAssumption DEF Wanted
  <2>2. \A k \in Level : Found(k)
    BY <1>3, <1>4, <1>5, <1>6, <1>7, <1>8, <1>9, <1>10 DEF Level
  <2>3. s[LevelOf(r)] = r
    BY <2>1, <2>2 DEF Found
  <2> QED
    BY <2>1, <2>3 DEF Shown
<1>12. ASSUME NEW k \in Level, s[k] # NoRow PROVE s[k] \in Wanted(g)
  BY <1>12, AnswerCovers DEF Wanted
<1> QED
  BY <1>11, <1>12 DEF Shown

(* In such a dataset update() returns with all the watersheds that cover   *)
(* the point, however the cache stood before.                              *)
THEOREM AllFound ==
  ASSUME Nested, Parented
  PROVE  Spec => [](pc = "idle" /\ point # NoPoint /\ Clear(point) =>
                       Shown(stack) = Wanted(point))
<1>1. IInv /\ CoveredSoFar =>
        (pc = "idle" /\ point # NoPoint /\ Clear(point) => Shown(stack) = Wanted(point))
  BY StackIsAnswer, AnswerComplete DEF Stable, IsAnswered
<1> QED
  BY <1>1, Covered, Invariance, PTL

(* In such a dataset the log line of updateStack(), "Point given is        *)
(* outside the dataset", is true whenever the stack is empty, on borders   *)
(* too.  It is also written when the stack only ends early.                *)
THEOREM EmptyMeansOutside ==
  ASSUME Nested, Parented
  PROVE  Spec => [](pc = "idle" /\ point # NoPoint /\ ~Filled(1) =>
                       \A r \in Row : ~Covers(r, point))
<1>1. IInv => (pc = "idle" /\ point # NoPoint /\ ~Filled(1) =>
                 \A r \in Row : ~Covers(r, point))
  <2> SUFFICES ASSUME IInv, pc = "idle", point # NoPoint, ~Filled(1)
               PROVE  \A r \in Row : ~Covers(r, point)
    OBVIOUS
  <2> DEFINE NoneAt(k) == \A r \in Row : LevelOf(r) = k => ~Covers(r, point)
  <2>1. NoneAt(1)
    <3> SUFFICES ASSUME NEW r \in Row, LevelOf(r) = 1 PROVE ~Covers(r, point)
      OBVIOUS
    <3>1. IsPrefix(<<>>, r.huc)
      BY DatasetAssumption DEF IsPrefix
    <3>2. r \in Candidates(1, stack)
      BY <3>1 DEF Candidates, Select
    <3> QED
      BY <3>2 DEF IInv, MaximalDepth, Searched, Level
  <2>2. ASSUME NEW k \in Level, k > 1, NoneAt(k - 1) PROVE NoneAt(k)
    <3> SUFFICES ASSUME NEW r \in Row, LevelOf(r) = k, Covers(r, point) PROVE FALSE
      OBVIOUS
    <3>1. PICK q \in Row : LevelOf(q) = k - 1 /\ IsPrefix(q.huc, r.huc)
      BY <2>2 DEF Parented
    <3> QED
      BY <2>2, <3>1 DEF Nested, Covers
  <2> HIDE DEF NoneAt
  <2>3. NoneAt(2)
    BY <2>1, <2>2 DEF Level
  <2>4. NoneAt(3)
    BY <2>2, <2>3 DEF Level
  <2>5. NoneAt(4)
    BY <2>2, <2>4 DEF Level
  <2>6. NoneAt(5)
    BY <2>2, <2>5 DEF Level
  <2>7. NoneAt(6)
    BY <2>2, <2>6 DEF Level
  <2>8. NoneAt(7)
    BY <2>2, <2>7 DEF Level
  <2>9. NoneAt(8)
    BY <2>2, <2>8 DEF Level
  <2>10. \A k \in Level : NoneAt(k)
    BY <2>1, <2>3, <2>4, <2>5, <2>6, <2>7, <2>8, <2>9 DEF Level
  <2> QED
    BY <2>10, Levels DEF NoneAt
<1> QED
  BY <1>1, Invariance, PTL
=============================================================================
