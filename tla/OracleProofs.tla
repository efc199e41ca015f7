---------------------------- MODULE OracleProofs ----------------------------
(***************************************************************************)
(* Proofs about the watershedOracle program, for input of any length and   *)
(* every dataset.                                                          *)
(***************************************************************************)
EXTENDS Oracle, WatershedStackProofs

InputOK == /\ unread \in Seq(Line)
           /\ source \in DOMAIN Kinds
           /\ json \in BOOLEAN

(* Nothing has been written at first.                                      *)
LEMMA InputInit == MainInit => InputOK
  BY DEF MainInit, InputOK, Kinds

(* The pipe holds lines that a source may be sent, and no others.          *)
LEMMA InputNext == InputOK /\ [MainNext]_allVars => InputOK'
<1> SUFFICES ASSUME InputOK, [MainNext]_allVars PROVE InputOK'
  OBVIOUS
<1>1. source' = source /\ json' = json
  BY DEF MainNext, allVars, Write, CloseInput, NextPoint, RandomPoint, SourceFails,
         NoMorePoints, UpdateStep, UpdateFailed, Report, ReportFails, Draw, DrawFails, Unwind
<1>2. \/ unread' = unread
      \/ \E l \in Line : unread' = Append(unread, l)
      \/ unread # <<>> /\ unread' = Tail(unread)
  BY DEF MainNext, allVars, pipe, Write, CloseInput, NextPoint, RandomPoint, SourceFails,
         NoMorePoints, UpdateStep, UpdateFailed, Report, ReportFails, Draw, DrawFails, Unwind
<1>3. unread' \in Seq(Line)
  BY <1>2 DEF InputOK
<1> QED
  BY <1>1, <1>3 DEF InputOK

(* A line that nextPoint() takes for a point asks for a point.             *)
LEMMA TakenLine ==
  ASSUME NEW l \in Line, l.kind = "point"
  PROVE  l.where \in Geometry /\ IdOf(l) \in RequestId
  BY OracleAssumption DEF IdOf

(* The two ways to a point: a line that was read, and a drawn one.         *)
LEMMA TakePointNext ==
  ASSUME InputOK, NextPoint \/ \E l \in Line : RandomPoint(l)
  PROVE  \/ \E l \in Line : TakePoint(l)
         \/ NextPoint /\ \/ TakeUnreadable(Head(unread))
                         \/ RefuseLine(Head(unread))
                         \/ ShowSatellites(Head(unread))
                         \/ SkipSentence(Head(unread))
<1>1. CASE NextPoint
  <2>1. Head(unread) \in Line
    BY <1>1 DEF InputOK, NextPoint
  <2> QED
    BY <1>1, <2>1 DEF NextPoint
<1>2. CASE \E l \in Line : RandomPoint(l)
  BY <1>2 DEF RandomPoint
<1> QED
  BY <1>1, <1>2

(* Every step of the program is a step of its WatershedStack, or leaves it *)
(* alone.                                                                  *)
LEMMA MainStep == InputOK /\ [MainNext]_allVars => [Next]_vars
<1> SUFFICES ASSUME InputOK, [MainNext]_allVars PROVE [Next]_vars
  OBVIOUS
<1>1. CASE NextPoint \/ \E l \in Line : RandomPoint(l)
  <2>1. ASSUME NEW l \in Line, TakePoint(l) PROVE [Next]_vars
    <3>1. l.where \in Geometry /\ IdOf(l) \in RequestId
      BY <2>1, TakenLine DEF TakePoint
    <3>2. Update(IdOf(l), l.where) \/ UpdateUnreadable(IdOf(l))
      BY <2>1 DEF TakePoint
    <3> QED
      BY <3>1, <3>2 DEF Next
  <2>2. ASSUME TakeUnreadable(Head(unread)) PROVE [Next]_vars
    BY <2>2, OracleAssumption DEF TakeUnreadable, Next
  <2>3. CASE RefuseLine(Head(unread)) \/ ShowSatellites(Head(unread)) \/ SkipSentence(Head(unread))
    BY <2>3 DEF RefuseLine, ShowSatellites, SkipSentence
  <2> QED
    BY <1>1, <2>1, <2>2, <2>3, TakePointNext
<1>2. CASE UpdateStep
  BY <1>2 DEF UpdateStep, Next
<1>3. CASE Unwind
  BY <1>3 DEF Unwind, Next
<1>4. CASE UNCHANGED vars
  BY <1>4
<1>5. \/ NextPoint \/ \E l \in Line : RandomPoint(l)
      \/ UpdateStep \/ Unwind \/ UNCHANGED vars
  BY DEF MainNext, allVars, Write, CloseInput, SourceFails, NoMorePoints, UpdateFailed,
         Report, ReportFails, Draw, DrawFails
<1> QED
  BY <1>1, <1>2, <1>3, <1>4, <1>5

(* The program uses its stack as WatershedStack specifies: update() and    *)
(* deinit() are called only when no other call is running, and nothing     *)
(* else touches the stack.  What is proved of Spec holds in the program.   *)
THEOREM OracleUsesStack == MainSpec => Spec
<1>1. MainInit => Init
  BY DEF MainInit
<1> QED
  BY <1>1, InputInit, InputNext, MainStep, PTL DEF MainSpec, Spec

-----------------------------------------------------------------------------
(* What makes AnswersInOrder inductive: while update() runs, and when it   *)
(* has returned without failing, the stack's point and request id are      *)
(* those of the last line taken.                                           *)
Results == [requestId : RequestId \cup {0},
            point : Geometry \cup {NoPoint},
            stack : Slots]

InHand == IF source = "stdin" THEN taken[Len(taken)].id ELSE 0

OrderInv ==
  /\ printed \in Seq(Results)
  /\ taken \in Seq(Line)
  /\ main \in MainPhase
  /\ json /\ main = "update" => /\ taken # <<>>
                               /\ (pc # "failed" => point = taken[Len(taken)].where)
                               /\ requestId = InHand
  /\ AnswersInOrder

(* No point has come and nothing is printed.                               *)
LEMMA OrderInit == MainInit => OrderInv
  BY DEF MainInit, OrderInv, MainPhase, AnswersInOrder, Unanswered

(* Each step keeps the results in the order of the points.                 *)
LEMMA OrderNext ==
  ASSUME InputOK, TypeOK, OrderInv, [MainNext]_allVars
  PROVE  OrderInv'
<1> USE DEF MainPhase
<1>0. /\ printed \in Seq(Results) /\ taken \in Seq(Line) /\ main \in MainPhase
      /\ source' = source /\ json' = json
  BY DEF OrderInv, MainNext, allVars, Write, CloseInput, NextPoint, RandomPoint, SourceFails,
         NoMorePoints, UpdateStep, UpdateFailed, Report, ReportFails, Draw, DrawFails, Unwind
<1>1. CASE /\ UNCHANGED <<printed, taken, main>> /\ UNCHANGED <<point, requestId>>
           /\ (main = "update" /\ pc = "failed" => pc' = "failed")
  BY <1>0, <1>1 DEF OrderInv, AnswersInOrder, Answers, Unanswered, InHand
<1>2. CASE /\ UNCHANGED <<printed, taken>>
           /\ \/ main' \in {"unwind", "exit"}
              \/ main = "draw" /\ main' = "next"
              \/ ~json /\ main' = "update"
  <2>1. json => Unanswered \subseteq Unanswered'
    BY <1>0, <1>2 DEF Unanswered
  <2> QED
    BY <1>0, <1>2, <2>1 DEF OrderInv, AnswersInOrder, Answers
<1>3. ASSUME NEW l \in Line, TakePoint(l), main = "next"
      PROVE  OrderInv'
  <2>1. /\ taken' = Append(taken, l) /\ printed' = printed /\ main' = "update"
        /\ (pc' # "failed" => point' = l.where)
        /\ requestId' = IdOf(l)
    BY <1>3 DEF TakePoint, Update, UpdateUnreadable, Leave
  <2>2. /\ taken' \in Seq(Line) /\ taken' # <<>>
        /\ Len(taken') = Len(taken) + 1 /\ taken'[Len(taken')] = l
        /\ \A i \in 1..Len(taken) : taken'[i] = taken[i]
    BY <1>0, <2>1
  <2>3. json => requestId' = InHand'
    BY <1>0, <2>1, <2>2 DEF IdOf, InHand
  <2>4. json => /\ Len(printed) = Len(taken)
                /\ \A i \in 1..Len(printed) : Answers(i)
    BY <1>0, <1>3 DEF OrderInv, AnswersInOrder, Unanswered
  <2>5. AnswersInOrder'
    BY <1>0, <2>1, <2>2, <2>4 DEF AnswersInOrder, Answers, Unanswered
  <2> QED
    BY <1>0, <2>1, <2>2, <2>3, <2>5 DEF OrderInv
<1>4. CASE Report
  <2>1. /\ main = "update" /\ taken' = taken /\ main' = "draw"
        /\ printed' = IF Printing THEN Append(printed, Output) ELSE printed
    BY <1>4 DEF Report
  <2>2. Output \in Results
    BY DEF Output, Results, TypeOK
  <2>3. printed' \in Seq(Results)
    BY <1>0, <2>1, <2>2
  <2>4. CASE ~json
    BY <1>0, <2>1, <2>3, <2>4 DEF OrderInv, AnswersInOrder
  <2>5. CASE json
    <3>1. /\ Len(taken) = Len(printed) + 1
          /\ \A i \in 1..Len(printed) : Answers(i)
          /\ point = taken[Len(taken)].where /\ requestId = InHand
      BY <1>0, <1>4, <2>1, <2>5 DEF Report, OrderInv, AnswersInOrder, Unanswered
    <3>2. /\ Len(printed') = Len(printed) + 1
          /\ printed'[Len(printed')] = Output
          /\ \A i \in 1..Len(printed) : printed'[i] = printed[i]
      BY <1>0, <2>1, <2>2, <2>5 DEF Printing
    <3>3. \A i \in 1..Len(printed') : Answers(i)'
      <4> SUFFICES ASSUME NEW i \in 1..Len(printed') PROVE Answers(i)'
        OBVIOUS
      <4>1. CASE i \in 1..Len(printed)
        BY <1>0, <2>1, <3>1, <3>2, <4>1 DEF Answers
      <4>2. CASE i = Len(taken)
        BY <1>0, <2>1, <3>1, <3>2, <4>2 DEF Answers, Output, InHand
      <4> QED
        BY <1>0, <3>1, <3>2, <4>1, <4>2
    <3> QED
      BY <1>0, <2>1, <2>3, <3>1, <3>2, <3>3 DEF OrderInv, AnswersInOrder, Unanswered
  <2> QED
    BY <2>4, <2>5
<1>5. CASE NextPoint \/ \E l \in Line : RandomPoint(l)
  <2>1. main = "next"
    BY <1>5 DEF NextPoint, RandomPoint
  <2>2. ASSUME NEW l \in Line, TakePoint(l) PROVE OrderInv'
    BY <1>3, <2>1, <2>2
  <2>3. CASE TakeUnreadable(Head(unread))
    BY <1>2, <2>3 DEF TakeUnreadable, ParsedByUpdate
  <2>4. CASE RefuseLine(Head(unread))
    BY <1>2, <2>4 DEF RefuseLine
  <2>5. CASE ShowSatellites(Head(unread)) \/ SkipSentence(Head(unread))
    BY <1>1, <2>5 DEF ShowSatellites, SkipSentence, vars, location, control, program
  <2> QED
    BY <1>5, <2>2, <2>3, <2>4, <2>5, TakePointNext
<1>6. CASE UpdateStep
  <2>1. UNCHANGED location /\ UNCHANGED program /\ pc # "failed"
    BY <1>6 DEF UpdateStep, Proceed, CheckHit, CheckMiss, SearchReject, SearchFound,
         SearchExhausted, SearchFails, NameAllocFails
  <2> QED
    BY <1>1, <2>1 DEF location, program
<1>7. CASE \/ SourceFails \/ NoMorePoints \/ UpdateFailed \/ ReportFails
           \/ Draw \/ DrawFails \/ Unwind
  BY <1>2, <1>7 DEF SourceFails, NoMorePoints, UpdateFailed, ReportFails, Draw, DrawFails,
       Unwind
<1>8. CASE (\E l \in Line : Write(l)) \/ CloseInput \/ UNCHANGED allVars
  BY <1>1, <1>8 DEF Write, CloseInput, allVars, vars, location, control, program
<1> QED
  BY <1>4, <1>5, <1>6, <1>7, <1>8 DEF MainNext

(* With --json, results come one per point, in order, under the right id.  *)
THEOREM InOrder == MainSpec => []AnswersInOrder
<1>1. OrderInv => AnswersInOrder
  BY DEF OrderInv
<1> QED
  BY <1>1, OrderInit, OrderNext, InputInit, InputNext, OracleUsesStack, TypeCorrect, PTL DEF MainSpec

-----------------------------------------------------------------------------
(* After the last step the stack has been closed.                          *)
Exited == main = "exit" => pc = "closed" /\ point = NoPoint /\ stack = EmptyStack

(* However the program ends, it has released what it allocated, but for    *)
(* the polygon lost when there is no memory for a name.                    *)
THEOREM ExitsClean == MainSpec => []CleanExit
<1>1. MainInit => Exited
  BY DEF MainInit, Exited
<1>2. Exited /\ [MainNext]_allVars => Exited'
  <2> SUFFICES ASSUME Exited, [MainNext]_allVars, main' = "exit"
               PROVE  pc' = "closed" /\ point' = NoPoint /\ stack' = EmptyStack
    BY DEF Exited
  <2>1. Unwind \/ (main = "exit" /\ UNCHANGED vars)
    BY DEF MainNext, allVars, Write, CloseInput, NextPoint, RandomPoint, TakePoint,
           TakeUnreadable, RefuseLine, ShowSatellites, SkipSentence, program, SourceFails,
           NoMorePoints, UpdateStep, UpdateFailed, Report, ReportFails, Draw, DrawFails
  <2> QED
    BY <2>1 DEF Unwind, Deinit, Leave, Exited, vars, slots, location, control
<1>3. Exited /\ HeapOwned => CleanExit
  <2> SUFFICES ASSUME Exited, HeapOwned, main = "exit", NEW r \in Row
               PROVE  /\ pc = "closed" /\ pointGeoms = 0 /\ names[r] = 0
                      /\ result # "OutOfMemory" => geoms[r] = 0
    BY DEF CleanExit, Exited, HeapOwned
  <2>1. Held(r) = 0
    BY Levels, DatasetAssumption DEF Exited, Held, EmptyStack
  <2> QED
    BY <2>1 DEF Exited, HeapOwned
<1> QED
  BY <1>1, <1>2, <1>3, OracleUsesStack, Owned, PTL DEF MainSpec
-----------------------------------------------------------------------------
(* While update() has not failed, main has a point.                        *)
PointInHand == main = "update" /\ pc # "failed" => point # NoPoint

(* While main() is about to print, update() has been given a point.        *)
LEMMA PointInHandNext ==
  ASSUME InputOK, PointInHand, [MainNext]_allVars
  PROVE  PointInHand'
<1>1. CASE NextPoint \/ \E l \in Line : RandomPoint(l)
  <2>1. ASSUME NEW l \in Line, TakePoint(l) PROVE PointInHand'
    <3>1. (point' = l.where /\ l.where \in Geometry) \/ pc' = "failed"
      BY <2>1, TakenLine DEF TakePoint, Update, UpdateUnreadable, Leave
    <3> QED
      BY <3>1, DatasetAssumption DEF PointInHand
  <2>2. ASSUME TakeUnreadable(Head(unread)) PROVE PointInHand'
    BY <2>2 DEF TakeUnreadable, UpdateUnreadable, Leave, PointInHand
  <2>3. CASE /\ NextPoint
             /\ \/ RefuseLine(Head(unread))
                \/ ShowSatellites(Head(unread))
                \/ SkipSentence(Head(unread))
    BY <2>3 DEF RefuseLine, ShowSatellites, SkipSentence, program, NextPoint, PointInHand
  <2> QED
    BY <1>1, <2>1, <2>2, <2>3, TakePointNext
<1>2. CASE UpdateStep
  BY <1>2 DEF UpdateStep, Proceed, CheckHit, CheckMiss, SearchReject, SearchFound,
       SearchExhausted, SearchFails, NameAllocFails, UpdateHUC, Leave, location, program,
       PointInHand
<1>3. CASE main' \in {"draw", "next", "unwind", "exit"}
  BY <1>3 DEF PointInHand
<1>4. CASE UNCHANGED vars /\ UNCHANGED main
  BY <1>4 DEF vars, location, control, PointInHand
<1>5. \/ NextPoint \/ \E l \in Line : RandomPoint(l)
      \/ UpdateStep \/ main' \in {"draw", "next", "unwind", "exit"}
      \/ UNCHANGED vars /\ UNCHANGED main
  BY DEF MainNext, allVars, Write, CloseInput, SourceFails, NoMorePoints, UpdateFailed,
         Report, ReportFails, Draw, DrawFails, Unwind, program
<1> QED
  BY <1>1, <1>2, <1>3, <1>4, <1>5

LookupInv == printed \in Seq(Results) /\ AnswersAreLookups

(* A result that is printed is a stack that update() returned with.        *)
LEMMA LookupNext ==
  ASSUME InputOK, TypeOK, Stable, PointInHand, LookupInv, [MainNext]_allVars
  PROVE  LookupInv'
<1>1. skip' = skip
  BY MainStep, SkipFixed
<1>2. ASSUME NEW a, NEW g, Lookups!IsAnswer(a, g)
      PROVE  Lookups!IsAnswer(a, g)'
  BY <1>1, <1>2 DEF Lookups!IsAnswer, Lookups!Deepest
<1>3. CASE printed' = printed
  BY <1>2, <1>3 DEF LookupInv, AnswersAreLookups
<1>4. CASE Report /\ printed' = Append(printed, Output)
  <2>1. Output \in Results
    BY DEF Output, Results, TypeOK
  <2>2. /\ printed' \in Seq(Results)
        /\ Len(printed') = Len(printed) + 1
        /\ printed'[Len(printed')] = Output
        /\ \A i \in 1..Len(printed) : printed'[i] = printed[i]
    BY <1>4, <2>1 DEF LookupInv
  <2>3. Lookups!IsAnswer(stack, point)
    BY <1>4, StackIsAnswer DEF Report, PointInHand, IsAnswered
  <2>4. \A i \in 1..Len(printed') : Lookups!IsAnswer(printed'[i].stack, printed'[i].point)
    BY <2>2, <2>3 DEF LookupInv, AnswersAreLookups, Output
  <2> QED
    BY <1>2, <2>2, <2>4 DEF LookupInv, AnswersAreLookups
<1>5. printed' = printed \/ (Report /\ printed' = Append(printed, Output))
  BY DEF MainNext, allVars, program, Write, CloseInput, NextPoint, RandomPoint, TakePoint,
         TakeUnreadable, RefuseLine, ShowSatellites, SkipSentence, SourceFails, NoMorePoints,
         UpdateStep, UpdateFailed, Report, ReportFails, Draw, DrawFails, Unwind
<1> QED
  BY <1>3, <1>4, <1>5

(* Everything printed is an answer, in a nested dataset.                   *)
LEMMA OnlyAnswers == ASSUME Nested PROVE MainSpec => []LookupInv
<1>1. MainInit => PointInHand /\ LookupInv
  BY DEF MainInit, PointInHand, LookupInv, AnswersAreLookups
<1>2. InputOK /\ PointInHand /\ [MainNext]_allVars => PointInHand'
  BY PointInHandNext
<1>3. InputOK /\ TypeOK /\ IInv /\ CoveredSoFar /\ PointInHand /\ LookupInv
        /\ [MainNext]_allVars => LookupInv'
  BY LookupNext DEF Stable
<1> QED
  BY <1>1, <1>2, <1>3, InputInit, InputNext, OracleUsesStack, TypeCorrect,
     Invariance, Covered, PTL DEF MainSpec

(* In a nested dataset, every result that is printed is what a lookup of   *)
(* its point by itself would give.                                         *)
THEOREM OutputIsLookup == ASSUME Nested PROVE MainSpec => []AnswersAreLookups
<1>1. LookupInv => AnswersAreLookups
  BY DEF LookupInv
<1> QED
  BY <1>1, OnlyAnswers, PTL

(* The program answers the same question in the same way each time, unless *)
(* it is about a place on a border between watersheds.                     *)
SameAnswers ==
  \A i, j \in 1..Len(printed) :
     printed[i].point = printed[j].point /\ Clear(printed[i].point) =>
        printed[i].stack = printed[j].stack

(* In a nested dataset no earlier point, no order of rows and no time at   *)
(* which it is asked changes the watersheds printed for a point.           *)
THEOREM Repeatable == ASSUME Nested PROVE MainSpec => []SameAnswers
<1>1. LookupInv => SameAnswers
  <2> SUFFICES ASSUME LookupInv,
                      NEW i \in 1..Len(printed), NEW j \in 1..Len(printed),
                      printed[i].point = printed[j].point, Clear(printed[i].point)
               PROVE  printed[i].stack = printed[j].stack
    BY DEF SameAnswers
  <2>1. printed[i] \in Results /\ printed[j] \in Results
    BY DEF LookupInv
  <2>2. printed[i].stack \in Slots /\ printed[j].stack \in Slots
    BY <2>1 DEF Results
  <2>3. /\ Lookups!IsAnswer(printed[i].stack, printed[i].point)
        /\ Lookups!IsAnswer(printed[j].stack, printed[i].point)
    BY DEF LookupInv, AnswersAreLookups
  <2> QED
    BY <2>2, <2>3, OneAnswer
<1> QED
  BY <1>1, OnlyAnswers, PTL

(* In a nested dataset without gaps, each result for a point away from the *)
(* borders lists all the watersheds that cover it at the levels looked at, *)
(* and no others.                                                          *)
THEOREM ResultsComplete ==
  ASSUME Nested, Parented
  PROVE  MainSpec => [](\A i \in 1..Len(printed) :
                          Clear(printed[i].point) =>
                             Shown(printed[i].stack) = Wanted(printed[i].point))
<1>1. LookupInv => \A i \in 1..Len(printed) :
                     Clear(printed[i].point) =>
                        Shown(printed[i].stack) = Wanted(printed[i].point)
  BY AnswerComplete DEF LookupInv, AnswersAreLookups
<1> QED
  BY <1>1, OnlyAnswers, PTL
=============================================================================
