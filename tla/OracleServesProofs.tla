------------------------- MODULE OracleServesProofs -------------------------
(***************************************************************************)
(* The watershedOracle program implements Service, for input of any length *)
(* and every dataset: proofs of its safety part, of CompleteAtEnd and of   *)
(* the type invariant and the screen of Oracle.                            *)
(***************************************************************************)
EXTENDS OracleProofs, SequenceTheorems

(* A sequence of lines with one in front or one more behind.               *)
LEMMA InFront ==
  ASSUME NEW s \in Seq(Line), NEW l \in Line
  PROVE  /\ <<l>> \o s \in Seq(Line)
         /\ <<l>> \o s # <<>>
         /\ Head(<<l>> \o s) = l
         /\ Tail(<<l>> \o s) = s
<1>1. <<l>> \in Seq(Line)
  OBVIOUS
<1>2. /\ <<l>> \o s \in Seq(Line) /\ Len(<<l>> \o s) = 1 + Len(s)
      /\ \A i \in 1..1 + Len(s) : (<<l>> \o s)[i] = IF i <= 1 THEN <<l>>[i] ELSE s[i - 1]
  <2>1. Len(<<l>>) = 1
    OBVIOUS
  <2> QED
    BY <1>1, <2>1, ConcatProperties
<1>3. Len(s) \in Nat
  OBVIOUS
<1>4. <<l>> \o s # <<>>
  BY <1>2, <1>3
<1>5. Head(<<l>> \o s) = l
  BY <1>2, <1>3
<1>6. Tail(<<l>> \o s) = s
  <2> DEFINE t == Tail(<<l>> \o s)
  <2>1. /\ t \in Seq(Line) /\ Len(t) = Len(s)
        /\ \A i \in 1..Len(t) : t[i] = (<<l>> \o s)[i + 1]
    BY <1>2, <1>3, <1>4, HeadTailProperties
  <2>2. \A i \in 1..Len(s) : t[i] = s[i]
    BY <1>2, <1>3, <2>1
  <2> HIDE DEF t
  <2>3. t = s
    BY <2>1, <2>2, SeqEqual
  <2> QED
    BY <2>3 DEF t
<1> QED
  BY <1>2, <1>4, <1>5, <1>6

LEMMA HeadInFront ==
  ASSUME NEW s \in Seq(Line), s # <<>>
  PROVE  <<Head(s)>> \o Tail(s) = s
<1>1. /\ Head(s) \in Line /\ Tail(s) \in Seq(Line) /\ Len(Tail(s)) = Len(s) - 1
      /\ \A i \in 1..Len(Tail(s)) : Tail(s)[i] = s[i + 1]
  BY HeadTailProperties
<1>2. Len(s) \in Nat /\ Head(s) = s[1]
  OBVIOUS
<1> DEFINE t == <<Head(s)>> \o Tail(s)
<1>3. /\ t \in Seq(Line) /\ Len(t) = Len(s)
      /\ \A i \in 1..Len(s) : t[i] = IF i <= 1 THEN <<Head(s)>>[i] ELSE Tail(s)[i - 1]
  <2>1. <<Head(s)>> \in Seq(Line) /\ Len(<<Head(s)>>) = 1
    BY <1>1
  <2> QED
    BY <1>1, <1>2, <2>1, ConcatProperties
<1>4. \A i \in 1..Len(s) : t[i] = s[i]
  BY <1>1, <1>2, <1>3
<1> HIDE DEF t
<1>5. t = s
  BY <1>3, <1>4, SeqEqual
<1> QED
  BY <1>5 DEF t

LEMMA AppendBehind ==
  ASSUME NEW s \in Seq(Line), NEW t \in Seq(Line), NEW l \in Line
  PROVE  s \o Append(t, l) = Append(s \o t, l)
<1>1. s \o t \in Seq(Line) /\ <<l>> \in Seq(Line)
  BY ConcatProperties
<1>2. Append(t, l) = t \o <<l>> /\ Append(s \o t, l) = (s \o t) \o <<l>>
  BY <1>1, AppendIsConcat
<1> QED
  BY <1>1, <1>2, ConcatAssociative

-----------------------------------------------------------------------------
(* The pipe holds lines of the source's kinds, and only points are taken.  *)
KindsInv == /\ \A i \in 1..Len(unread) : unread[i].kind \in Kinds[source]
            /\ \A i \in 1..Len(taken) : taken[i].kind = "point"

(* Nothing else ever gets in.                                              *)
LEMMA KindsNext ==
  ASSUME InputOK, OrderInv, KindsInv, [MainNext]_allVars
  PROVE  KindsInv'
<1>0. /\ unread \in Seq(Line) /\ taken \in Seq(Line) /\ source' = source
  BY DEF InputOK, OrderInv, MainNext, allVars, Write, CloseInput, NextPoint, RandomPoint,
         SourceFails, NoMorePoints, UpdateStep, UpdateFailed, Report, ReportFails, Draw,
         DrawFails, Unwind
<1>1. \/ unread' = unread
      \/ \E l \in Line : unread' = Append(unread, l) /\ l.kind \in Kinds[source]
      \/ unread # <<>> /\ unread' = Tail(unread)
  BY DEF MainNext, allVars, pipe, Write, CloseInput, NextPoint, RandomPoint, SourceFails,
         NoMorePoints, UpdateStep, UpdateFailed, Report, ReportFails, Draw, DrawFails, Unwind
<1>2. \/ taken' = taken
      \/ \E l \in Line : taken' = Append(taken, l) /\ l.kind = "point"
  <2>1. CASE NextPoint \/ \E l \in Line : RandomPoint(l)
    BY <2>1, TakePointNext DEF TakePoint, TakeUnreadable, RefuseLine, ShowSatellites,
       SkipSentence, program
  <2>2. CASE ~(NextPoint \/ \E l \in Line : RandomPoint(l))
    BY <2>2 DEF MainNext, allVars, program, Write, CloseInput, SourceFails, NoMorePoints,
       UpdateStep, UpdateFailed, Report, ReportFails, Draw, DrawFails, Unwind
  <2> QED
    BY <2>1, <2>2
<1>3. \A i \in 1..Len(unread') : unread'[i].kind \in Kinds[source]
  <2>1. CASE unread' = unread
    BY <2>1 DEF KindsInv
  <2>2. ASSUME NEW l \in Line, unread' = Append(unread, l), l.kind \in Kinds[source]
        PROVE  \A i \in 1..Len(unread') : unread'[i].kind \in Kinds[source]
    BY <1>0, <2>2, AppendProperties DEF KindsInv
  <2>3. CASE unread # <<>> /\ unread' = Tail(unread)
    <3>1. /\ Len(unread') = Len(unread) - 1 /\ Len(unread) \in Nat
          /\ \A i \in 1..Len(unread') : unread'[i] = unread[i + 1]
      BY <1>0, <2>3, HeadTailProperties
    <3> QED
      BY <3>1 DEF KindsInv
  <2> QED
    BY <1>1, <2>1, <2>2, <2>3
<1>4. \A i \in 1..Len(taken') : taken'[i].kind = "point"
  <2>1. CASE taken' = taken
    BY <2>1 DEF KindsInv
  <2>2. ASSUME NEW l \in Line, taken' = Append(taken, l), l.kind = "point"
        PROVE  \A i \in 1..Len(taken') : taken'[i].kind = "point"
    BY <1>0, <2>2, AppendProperties DEF KindsInv
  <2> QED
    BY <1>2, <2>1, <2>2
<1> QED
  BY <1>0, <1>3, <1>4 DEF KindsInv

-----------------------------------------------------------------------------
(* Nothing is asked and nothing is answered at first.                      *)
LEMMA ContractInit == MainInit => Contract!Init
<1> SUFFICES ASSUME MainInit PROVE Contract!Init
  OBVIOUS
<1>1. main = "next" /\ unread = <<>> /\ printed = <<>>
  BY DEF MainInit
<1>2. <<>> \in Seq(Line)
  OBVIOUS
<1>3. Pending = <<>>
  BY <1>1, <1>2, ConcatEmptySeq DEF Pending
<1>4. Replies = <<>>
  BY <1>1 DEF Replies
<1> QED
  BY <1>1, <1>3, <1>4 DEF Contract!Init, InService

(* While it serves, a step of the program is one of the service or leaves  *)
(* its requests and replies alone.                                         *)
LEMMA ContractNext ==
  ASSUME InputOK, TypeOK, OrderInv, KindsInv, [MainNext]_allVars
  PROVE  [Contract!Next]_(Contract!vars)
<1>0. /\ unread \in Seq(Line) /\ taken \in Seq(Line) /\ printed \in Seq(Results)
      /\ source' = source /\ json' = json
  BY DEF InputOK, OrderInv, MainNext, allVars, Write, CloseInput, NextPoint, RandomPoint,
         SourceFails, NoMorePoints, UpdateStep, UpdateFailed, Report, ReportFails, Draw,
         DrawFails, Unwind
<1> DEFINE Same == UNCHANGED <<Pending, Replies, InService>>
<1>1. Same => [Contract!Next]_(Contract!vars)
  BY DEF Contract!vars
<1>2. CASE ~Serving
  BY <1>0, <1>1, <1>2 DEF Serving, Pending, Replies, InService
<1>3. CASE Serving /\ UNCHANGED <<printed, taken, unread>>
                  /\ (main' = main \/ (main = "draw" /\ main' = "next")
                        \/ (main = "unwind" /\ main' = "exit"))
  BY <1>0, <1>1, <1>3 DEF Serving, Pending, Replies, InService
<1>4. CASE /\ Serving
           /\ printed' = printed
           /\ main \in {"next", "update", "draw"} /\ main' = "unwind"
  <2>1. InService /\ InService' = FALSE
    BY <1>0, <1>4 DEF InService, Serving
  <2>2. Pending' = <<>> /\ Replies' = Replies
    BY <1>0, <1>4 DEF Pending, Replies, Serving
  <2> QED
    BY <2>1, <2>2 DEF Contract!Next, Contract!Stop
<1>5. ASSUME Serving, NEW l \in Line, unread' = Append(unread, l),
             UNCHANGED <<printed, taken, main>>
      PROVE  [Contract!Next]_(Contract!vars)
  <2>1. UNCHANGED <<Replies, InService>>
    BY <1>0, <1>5 DEF Replies, InService, Serving
  <2>2. CASE main \in {"unwind", "exit"}
    BY <1>0, <1>1, <1>5, <2>1, <2>2 DEF Pending, Serving
  <2>3. CASE main \notin {"unwind", "exit"}
    <3> DEFINE h == IF main = "update" THEN <<taken[Len(taken)]>> ELSE <<>>
    <3>1. h \in Seq(Line)
      <4>1. main = "update" => taken[Len(taken)] \in Line
        BY <1>0, <1>5 DEF OrderInv, Serving
      <4> QED
        BY <4>1
    <3>2. Pending = h \o unread /\ Pending' = h \o unread'
      BY <1>0, <1>5, <2>3 DEF Pending, Serving
    <3>3. Pending' = Append(Pending, l)
      BY <1>0, <1>5, <3>1, <3>2, AppendBehind
    <3>4. InService
      BY <2>3 DEF InService
    <3> QED
      BY <2>1, <3>3, <3>4 DEF Contract!Next, Contract!Submit
  <2> QED
    BY <2>2, <2>3
<1>6. CASE Serving /\ NextPoint
  <2>1. /\ unread # <<>> /\ unread' = Tail(unread) /\ main = "next"
        /\ Head(unread) \in Line /\ Head(unread).kind \in {"point", "garbage"}
    <3>1. unread # <<>> /\ unread' = Tail(unread) /\ main = "next"
      BY <1>6 DEF NextPoint
    <3>2. Len(unread) \in Nat /\ Len(unread) >= 1 /\ Head(unread) = unread[1]
      BY <1>0, <3>1
    <3>3. unread[1].kind \in Kinds["stdin"]
      BY <1>6, <3>2 DEF KindsInv, Serving
    <3> QED
      BY <1>0, <3>1, <3>2, <3>3 DEF Kinds
  <2>2. CASE TakePoint(Head(unread))
    <3>1. /\ taken' = Append(taken, Head(unread)) /\ main' = "update" /\ printed' = printed
      BY <2>2 DEF TakePoint
    <3>2. taken'[Len(taken')] = Head(unread)
      BY <1>0, <2>1, <3>1, AppendProperties
    <3>3. Pending' = <<Head(unread)>> \o Tail(unread)
      BY <1>0, <1>6, <2>1, <3>1, <3>2 DEF Pending, Serving
    <3>4. Pending = unread
      BY <1>0, <1>6, <2>1, ConcatEmptySeq DEF Pending, Serving
    <3>5. Pending' = Pending
      BY <1>0, <2>1, <3>3, <3>4, HeadInFront
    <3> QED
      BY <1>0, <1>1, <1>6, <2>1, <3>1, <3>5 DEF Serving, Replies, InService
  <2>3. CASE RefuseLine(Head(unread))
    BY <1>4, <1>6, <2>1, <2>3 DEF RefuseLine
  <2>4. ~TakeUnreadable(Head(unread))
    BY <1>6 DEF TakeUnreadable, ParsedByUpdate, Serving
  <2>5. ~ShowSatellites(Head(unread)) /\ ~SkipSentence(Head(unread))
    BY <2>1 DEF ShowSatellites, SkipSentence
  <2> QED
    BY <1>6, <2>2, <2>3, <2>4, <2>5 DEF NextPoint
<1>7. CASE Serving /\ Report
  <2>1. /\ main = "update" /\ main' = "draw" /\ UNCHANGED <<unread, taken>>
        /\ printed' = Append(printed, Output)
    BY <1>7 DEF Report, Printing, Serving, pipe
  <2>2. Output \in Results
    BY DEF Output, Results, TypeOK
  <2> DEFINE l == taken[Len(taken)]
  <2>3. /\ taken # <<>> /\ l \in Line /\ l.kind = "point"
        /\ point = l.where /\ requestId = l.id
    <3>1. taken # <<>> /\ point = l.where /\ requestId = l.id
      BY <1>7, <2>1 DEF OrderInv, InHand, Serving, Report
    <3>2. Len(taken) \in 1..Len(taken) /\ l \in Line
      BY <1>0, <3>1
    <3> QED
      BY <3>1, <3>2 DEF KindsInv
  <2>4. RequestOf(Output) = l
    BY <2>3, OracleAssumption DEF RequestOf, Output
  <2>5. Pending = <<l>> \o unread /\ Pending' = unread
    BY <1>0, <1>7, <2>1, ConcatEmptySeq DEF Pending, Serving
  <2>6. Pending # <<>> /\ Head(Pending) = l /\ Pending' = Tail(Pending)
    BY <1>0, <2>3, <2>5, InFront
  <2>7. Replies' = Append(Replies, l)
    <3>1. /\ printed' \in Seq(Results) /\ Len(printed') = Len(printed) + 1
          /\ \A i \in 1..Len(printed) : printed'[i] = printed[i]
          /\ printed'[Len(printed) + 1] = Output
          /\ Len(printed) \in Nat
      BY <1>0, <2>1, <2>2, AppendProperties
    <3>2. Replies = [i \in 1..Len(printed) |-> RequestOf(printed[i])]
      BY <1>0, <1>7 DEF Replies
    <3>3. Replies' = [i \in 1..Len(printed) + 1 |-> RequestOf(printed'[i])]
      BY <1>0, <1>7, <3>1 DEF Replies, Serving, RequestOf
    <3>4. Len(Replies) = Len(printed)
      BY <3>1, <3>2
    <3>5. Append(Replies, l) =
            [i \in 1..Len(printed) + 1 |-> IF i = Len(printed) + 1 THEN l ELSE Replies[i]]
      BY <3>1, <3>2, <3>4
    <3> HIDE DEF l
    <3> QED
      BY <2>4, <3>1, <3>2, <3>3, <3>5 DEF RequestOf
  <2>8. InService /\ InService' = InService
    BY <1>0, <2>1 DEF InService, Serving
  <2> QED
    BY <2>6, <2>7, <2>8 DEF Contract!Next, Contract!Answer
<1>8. CASE Serving /\ \/ SourceFails \/ NoMorePoints \/ UpdateFailed
                      \/ ReportFails \/ DrawFails
  BY <1>4, <1>8 DEF SourceFails, NoMorePoints, UpdateFailed, ReportFails, DrawFails
<1>9. CASE Serving /\ (CloseInput \/ UpdateStep \/ Draw \/ Unwind \/ UNCHANGED allVars)
  BY <1>3, <1>9 DEF CloseInput, UpdateStep, Draw, Unwind, allVars, pipe, program
<1>10. ASSUME Serving, NEW l \in Line, Write(l) PROVE [Contract!Next]_(Contract!vars)
  BY <1>5, <1>10 DEF Write, program
<1>11. Serving => ~\E l \in Line : RandomPoint(l)
  BY DEF RandomPoint, Serving
<1> QED
  BY <1>2, <1>6, <1>7, <1>8, <1>9, <1>10, <1>11 DEF MainNext

(* With --json on standard input the program is the service its client     *)
(* relies on: the safety part of Serves.  That no request waits for ever   *)
(* is left to TLC.                                                         *)
THEOREM ServesSafely == MainSpec => Contract!Spec
<1>1. MainInit => KindsInv
  BY DEF MainInit, KindsInv
<1>2. InputOK /\ OrderInv /\ KindsInv /\ [MainNext]_allVars => KindsInv'
  BY KindsNext
<1>3. InputOK /\ TypeOK /\ OrderInv /\ KindsInv /\ [MainNext]_allVars
        => [Contract!Next]_(Contract!vars)
  BY ContractNext
<1>4. InputOK /\ TypeOK /\ OrderInv /\ [MainNext]_allVars => OrderInv'
  BY OrderNext
<1> QED
  BY <1>1, <1>2, <1>3, <1>4, ContractInit, InputInit, InputNext, OrderInit, OracleUsesStack,
     TypeCorrect, PTL DEF MainSpec, Contract!Spec

-----------------------------------------------------------------------------
(* What makes CompleteAtEnd inductive: until an error ends the program,    *)
(* each line is in the pipe or was taken.                                  *)
CompleteInv ==
  /\ written \in Nat
  /\ status # "running" => main \in {"unwind", "exit"}
  /\ status = "ok" => closed /\ unread = <<>> /\ (json => Len(taken) = Len(printed))
  /\ Serving /\ status # "error" => Len(taken) + Len(unread) = written

(* Each step keeps count of the lines.                                     *)
LEMMA CompleteNext ==
  ASSUME InputOK, OrderInv, KindsInv, CompleteInv, [MainNext]_allVars
  PROVE  CompleteInv'
<1>0. /\ unread \in Seq(Line) /\ taken \in Seq(Line) /\ printed \in Seq(Results)
      /\ source' = source /\ json' = json /\ written \in Nat
  BY DEF CompleteInv, InputOK, OrderInv, MainNext, allVars, Write, CloseInput, NextPoint,
         RandomPoint, SourceFails, NoMorePoints, UpdateStep, UpdateFailed, Report, ReportFails,
         Draw, DrawFails, Unwind
<1>a. /\ Len(unread) \in Nat /\ Len(taken) \in Nat
      /\ \A l \in Line : Len(Append(unread, l)) = Len(unread) + 1
      /\ \A l \in Line : Len(Append(taken, l)) = Len(taken) + 1
      /\ unread # <<>> => Len(Tail(unread)) = Len(unread) - 1
  BY <1>0, AppendProperties, HeadTailProperties
<1>1. ASSUME NEW l \in Line, Write(l) PROVE CompleteInv'
  <2>1. /\ ~closed /\ written' = written + 1 /\ unread' = Append(unread, l)
        /\ UNCHANGED <<status, main, taken>>
    BY <1>1 DEF Write, program
  <2>2. Len(unread') = Len(unread) + 1
    BY <1>a, <2>1
  <2>3. status # "ok"
    BY <2>1 DEF CompleteInv
  <2>4. Serving' /\ status' # "error" => Len(taken') + Len(unread') = written'
    <3>1. Serving /\ status # "error" => Len(taken) + Len(unread) = written
      BY DEF CompleteInv
    <3> QED
      BY <1>0, <1>a, <2>1, <2>2, <3>1 DEF Serving
  <2> QED
    BY <1>0, <2>1, <2>3, <2>4 DEF CompleteInv
<1>2. CASE main' = "unwind" /\ status' = "error" /\ written' = written
  BY <1>0, <1>2 DEF CompleteInv
<1>3. CASE NextPoint
  <2>1. /\ unread # <<>> /\ unread' = Tail(unread) /\ main = "next"
        /\ Head(unread) \in Line /\ written' = written
    BY <1>0, <1>3, HeadTailProperties DEF NextPoint
  <2>2. status = "running"
    BY <2>1 DEF CompleteInv
  <2>3. CASE TakePoint(Head(unread))
    <3>1. taken' = Append(taken, Head(unread)) /\ status' = status
      BY <2>3 DEF TakePoint
    <3>2. Len(taken') = Len(taken) + 1 /\ Len(unread') = Len(unread) - 1
      BY <1>a, <2>1, <3>1
    <3>3. Serving' => Len(taken') + Len(unread') = written'
      <4> SUFFICES ASSUME Serving'
                   PROVE  Len(taken') + Len(unread') = written'
        OBVIOUS
      <4>1. Len(taken) + Len(unread) = written
        BY <1>0, <2>2 DEF CompleteInv, Serving
      <4>2. Len(unread) \in Nat /\ Len(taken) \in Nat /\ written' = written
        BY <1>a, <2>1
      <4> QED
        BY <3>2, <4>1, <4>2
    <3> QED
      BY <1>0, <2>1, <2>2, <3>1, <3>3 DEF CompleteInv
  <2>4. CASE RefuseLine(Head(unread))
    BY <1>2, <2>1, <2>4 DEF RefuseLine
  <2>5. CASE /\ ~Serving
             /\ \/ TakeUnreadable(Head(unread))
                \/ ShowSatellites(Head(unread))
                \/ SkipSentence(Head(unread))
    <3>1. status' = status
      BY <2>5 DEF TakeUnreadable, ShowSatellites, SkipSentence, program
    <3> QED
      BY <1>0, <2>1, <2>2, <2>5, <3>1 DEF CompleteInv, Serving
  <2>6. Serving => /\ ~TakeUnreadable(Head(unread)) /\ ~ShowSatellites(Head(unread))
                   /\ ~SkipSentence(Head(unread))
    <3>1. Len(unread) >= 1 /\ Head(unread) = unread[1]
      BY <1>0, <2>1
    <3>2. Serving => unread[1].kind \in Kinds["stdin"]
      BY <1>a, <3>1 DEF KindsInv, Serving
    <3> QED
      BY <3>1, <3>2 DEF Kinds, TakeUnreadable, ParsedByUpdate, ShowSatellites, SkipSentence,
           Serving
  <2> QED
    BY <1>3, <2>3, <2>4, <2>5, <2>6 DEF NextPoint
<1>4. CASE \E l \in Line : RandomPoint(l)
  <2>1. /\ main = "next" /\ source = "random" /\ written' = written + 1
        /\ UNCHANGED <<status, unread, closed>>
    BY <1>4 DEF RandomPoint, TakePoint
  <2> QED
    BY <1>0, <2>1 DEF CompleteInv, Serving
<1>5. CASE NoMorePoints
  <2>1. /\ main = "next" /\ unread = <<>> /\ closed
        /\ main' = "unwind" /\ status' = "ok" /\ UNCHANGED <<pipe, printed, taken>>
    BY <1>5 DEF NoMorePoints
  <2>2. json => Len(taken) = Len(printed)
    <3>1. Len(printed) \in Nat
      BY <1>0
    <3> QED
      BY <1>a, <2>1, <3>1 DEF OrderInv, AnswersInOrder, Unanswered
  <2>3. status = "running"
    BY <2>1 DEF CompleteInv
  <2> QED
    BY <1>0, <2>1, <2>2, <2>3 DEF CompleteInv, pipe, Serving
<1>6. CASE SourceFails \/ UpdateFailed \/ ReportFails \/ DrawFails
  BY <1>2, <1>6 DEF SourceFails, UpdateFailed, ReportFails, DrawFails, pipe
<1>7. CASE Report
  <2>1. main = "update" /\ UNCHANGED <<pipe, status, taken>>
    BY <1>7 DEF Report
  <2> QED
    BY <1>0, <2>1 DEF CompleteInv, Serving, pipe
<1>8. CASE UpdateStep \/ Draw \/ Unwind \/ UNCHANGED allVars
  <2>1. /\ UNCHANGED <<pipe, status, taken, printed>>
        /\ main' = main \/ main = "draw" \/ main' = "exit"
    BY <1>8 DEF UpdateStep, Draw, Unwind, allVars, program
  <2> QED
    BY <1>0, <2>1 DEF CompleteInv, Serving, pipe
<1>9. CASE CloseInput
  BY <1>0, <1>9 DEF CloseInput, CompleteInv, Serving, program
<1> QED
  BY <1>1, <1>3, <1>4, <1>5, <1>6, <1>7, <1>8, <1>9 DEF MainNext

(* If the program ends without an error, every line that was completed has *)
(* its result.                                                             *)
THEOREM Complete == MainSpec => []CompleteAtEnd
<1>1. MainInit => KindsInv /\ CompleteInv
  BY DEF MainInit, KindsInv, CompleteInv
<1>2. InputOK /\ OrderInv /\ KindsInv /\ [MainNext]_allVars => KindsInv'
  BY KindsNext
<1>3. InputOK /\ OrderInv /\ KindsInv /\ CompleteInv /\ [MainNext]_allVars => CompleteInv'
  BY CompleteNext
<1>4. InputOK /\ TypeOK /\ OrderInv /\ [MainNext]_allVars => OrderInv'
  BY OrderNext
<1>5. InputOK /\ OrderInv /\ CompleteInv => CompleteAtEnd
  <2> SUFFICES ASSUME CompleteInv, OrderInv, status = "ok", Serving
               PROVE  Len(printed) = written
    BY DEF CompleteAtEnd, Serving
  <2>1. Len(taken) + Len(<<>>) = written /\ Len(taken) = Len(printed)
    BY DEF CompleteInv, Serving
  <2>2. Len(taken) \in Nat
    BY DEF OrderInv
  <2> QED
    BY <2>1, <2>2
<1> QED
  BY <1>1, <1>2, <1>3, <1>4, <1>5, InputInit, InputNext, OrderInit, OracleUsesStack,
     TypeCorrect, PTL DEF MainSpec

-----------------------------------------------------------------------------
(* What MainTypeOK says beyond InputOK, OrderInv and WatershedStack.       *)
ProgramOK == /\ written \in 0..MaxLines
             /\ tail \in BOOLEAN /\ closed \in BOOLEAN
             /\ status \in {"running", "ok", "error"}
             /\ screen \in [state : {"splash", "watersheds"}, shown : Slots]
             /\ printed \in Seq(Outputs)

(* At first there is nothing but a splash screen.                          *)
LEMMA ProgramInit == MainInit => ProgramOK
<1>1. EmptyStack \in Slots
  BY DEF EmptyStack, Slots
<1>2. 0 \in 0..MaxLines
  BY OracleAssumption
<1>3. [state |-> "splash", shown |-> EmptyStack]
        \in [state : {"splash", "watersheds"}, shown : Slots]
  BY <1>1
<1>4. <<>> \in Seq(Outputs)
  OBVIOUS
<1>5. MainInit => /\ screen = [state |-> "splash", shown |-> EmptyStack]
                  /\ written = 0 /\ tail = FALSE /\ closed = FALSE
                  /\ status = "running" /\ printed = <<>>
  BY DEF MainInit
<1> QED
  BY <1>2, <1>3, <1>4, <1>5 DEF ProgramOK

(* The variables of main() keep their types.                               *)
LEMMA ProgramNext ==
  ASSUME InputOK, TypeOK, PointInHand, ProgramOK, [MainNext]_allVars
  PROVE  ProgramOK'
<1>1. written' \in 0..MaxLines /\ tail' \in BOOLEAN /\ closed' \in BOOLEAN
  <2>1. /\ written' = written \/ (written < MaxLines /\ written' = written + 1)
        /\ UNCHANGED <<tail, closed>> \/ (tail' \in BOOLEAN /\ closed' = TRUE)
    BY DEF MainNext, allVars, pipe, Write, CloseInput, NextPoint, RandomPoint, SourceFails,
       NoMorePoints, UpdateStep, UpdateFailed, Report, ReportFails, Draw, DrawFails, Unwind
  <2>2. written' \in 0..MaxLines
    BY <2>1, OracleAssumption DEF ProgramOK
  <2> QED
    BY <2>1, <2>2 DEF ProgramOK
<1>2. status' \in {"running", "ok", "error"}
  BY DEF ProgramOK, MainNext, allVars, program, Write, CloseInput, NextPoint, RandomPoint,
     TakePoint, TakeUnreadable, RefuseLine, ShowSatellites, SkipSentence, SourceFails,
     NoMorePoints, UpdateStep, UpdateFailed, Report, ReportFails, Draw, DrawFails, Unwind
<1>3. screen' \in [state : {"splash", "watersheds"}, shown : Slots]
  <2>1. Drawn \in Slots /\ EmptyStack \in Slots
    BY DEF TypeOK, Slots, Drawn, EmptyStack
  <2>2. \A state \in {"splash", "watersheds"} :
          Redrawn(state) \in [state : {"splash", "watersheds"}, shown : Slots]
    BY <2>1 DEF Redrawn
  <2>3. screen.state \in {"splash", "watersheds"}
    BY DEF ProgramOK
  <2>4. [screen EXCEPT !.state = "watersheds"]
          \in [state : {"splash", "watersheds"}, shown : Slots]
    BY DEF ProgramOK
  <2>5. \/ screen' = screen
        \/ \E state \in {"splash", "watersheds"} : screen' = Redrawn(state)
        \/ screen' = [screen EXCEPT !.state = "watersheds"]
    <3>1. CASE NextPoint
      BY <3>1, <2>3 DEF NextPoint, TakePoint, TakeUnreadable, RefuseLine, ShowSatellites,
         SkipSentence, program
    <3>2. CASE Draw \/ DrawFails
      BY <3>2 DEF Draw, DrawFails
    <3>3. CASE ~(NextPoint \/ Draw \/ DrawFails)
      BY <3>3 DEF MainNext, allVars, program, Write, CloseInput, RandomPoint, TakePoint,
         SourceFails, NoMorePoints, UpdateStep, UpdateFailed, Report, ReportFails, Unwind
    <3> QED
      BY <3>1, <3>2, <3>3
  <2> QED
    BY <2>2, <2>4, <2>5 DEF ProgramOK
<1>4. printed' \in Seq(Outputs)
  <2>1. CASE printed' = printed
    BY <2>1 DEF ProgramOK
  <2>2. CASE Report /\ printed' = Append(printed, Output)
    <3>1. point \in Geometry
      BY <2>2 DEF Report, PointInHand, TypeOK
    <3>2. requestId \in RequestId /\ stack \in Slots
      BY OracleAssumption DEF TypeOK
    <3>3. Output \in Outputs
      BY <3>1, <3>2 DEF Output, Outputs
    <3> QED
      BY <2>2, <3>3 DEF ProgramOK
  <2>3. printed' = printed \/ (Report /\ printed' = Append(printed, Output))
    BY DEF MainNext, allVars, program, Write, CloseInput, NextPoint, RandomPoint, TakePoint,
       TakeUnreadable, RefuseLine, ShowSatellites, SkipSentence, SourceFails, NoMorePoints,
       UpdateStep, UpdateFailed, Report, ReportFails, Draw, DrawFails, Unwind
  <2> QED
    BY <2>1, <2>2, <2>3
<1> QED
  BY <1>1, <1>2, <1>3, <1>4 DEF ProgramOK

(* Every variable keeps its type: a result is always about a point.        *)
THEOREM MainTypeCorrect == MainSpec => []MainTypeOK
<1>1. InputOK /\ TypeOK /\ OrderInv /\ ProgramOK => MainTypeOK
  BY DEF InputOK, OrderInv, ProgramOK, MainTypeOK
<1>2. InputOK /\ TypeOK /\ OrderInv /\ [MainNext]_allVars => OrderInv'
  BY OrderNext
<1>3. InputOK /\ TypeOK /\ PointInHand /\ ProgramOK /\ [MainNext]_allVars => ProgramOK'
  BY ProgramNext
<1>4. MainInit => PointInHand
  BY DEF MainInit, PointInHand
<1>5. InputOK /\ PointInHand /\ [MainNext]_allVars => PointInHand'
  BY PointInHandNext
<1> QED
  BY <1>1, <1>2, <1>3, <1>4, <1>5, ProgramInit, OrderInit, InputInit, InputNext,
     OracleUsesStack, TypeCorrect, PTL DEF MainSpec

-----------------------------------------------------------------------------
(* Result i has what the screen shows.                                     *)
ShownBy(i) ==
  /\ i \in 1..Len(printed)
  /\ \A k \in 1..6 : screen.shown[k] = printed[i].stack[k]

(* Result i is the last one that had watersheds.                           *)
LastWithAny(i) == \A j \in (i + 1)..Len(printed) : printed[j].stack = EmptyStack

(* What is printed has been drawn, or it was not to be.                    *)
Settled == main \in {"next", "update"} \/ (main = "draw" /\ stack = EmptyStack)

(* What makes ScreenShowsAnAnswer inductive: whenever the screen may be    *)
(* drawn, what would be drawn is the result that was printed last.         *)
ScreenInv ==
  /\ screen.shown # EmptyStack => \E i \in 1..Len(printed) :
                                    ShownBy(i) /\ (Settled => LastWithAny(i))
  /\ main \in {"next", "draw"} /\ stack # EmptyStack =>
       printed # <<>> /\ printed[Len(printed)].stack = stack

(* A step draws what was printed last, or nothing.                         *)
LEMMA ScreenNext ==
  ASSUME InputOK, TypeOK, OrderInv, ProgramOK, ScreenInv, [MainNext]_allVars
  PROVE  ScreenInv'
<1>0. printed \in Seq(Results) /\ Len(printed) \in Nat
  BY DEF OrderInv
<1>1. CASE UNCHANGED <<printed, stack, screen, main>>
  BY <1>1 DEF ScreenInv, ShownBy, LastWithAny, Settled
<1>2. CASE /\ UNCHANGED <<printed, screen>>
           /\ main' \in {"unwind", "exit"} \/ (main \in {"next", "update"} /\ main' = "update")
  BY <1>2 DEF ScreenInv, ShownBy, LastWithAny, Settled
<1>3. CASE /\ UNCHANGED <<printed, stack>>
           /\ main = "next" \/ (main = "draw" /\ stack # EmptyStack)
           /\ screen'.shown \in {EmptyStack, Drawn}
           /\ main' = "next"
  <2>1. ASSUME screen'.shown # EmptyStack
        PROVE  /\ Len(printed) \in 1..Len(printed)
               /\ ShownBy(Len(printed))' /\ LastWithAny(Len(printed))'
    <3>1. stack # EmptyStack /\ screen'.shown = Drawn
      BY <1>3, <2>1 DEF Drawn, EmptyStack
    <3>2. printed # <<>> /\ printed[Len(printed)].stack = stack
      BY <1>3, <3>1 DEF ScreenInv
    <3>3. Len(printed) \in 1..Len(printed)
      BY <1>0, <3>2
    <3>4. \A k \in 1..6 : screen'.shown[k] = stack[k]
      BY <3>1 DEF Drawn, Level
    <3> QED
      BY <1>0, <1>3, <3>2, <3>3, <3>4 DEF ShownBy, LastWithAny
  <2> QED
    BY <1>3, <2>1 DEF ScreenInv
<1>4. CASE UNCHANGED <<printed, stack, screen>> /\ main' = "next"
           /\ main = "draw" /\ stack = EmptyStack
  BY <1>4 DEF ScreenInv, ShownBy, LastWithAny, Settled
<1>5. CASE Report
  <2>1. /\ stack' = stack /\ screen' = screen /\ main = "update" /\ main' = "draw"
        /\ printed' = IF Printing THEN Append(printed, Output) ELSE printed
    BY <1>5 DEF Report, vars, slots
  <2>2. Settled
    BY <2>1 DEF Settled
  <2>3. CASE ~Printing
    <3>1. \A k \in Level : stack[k] = NoRow
      BY <2>3 DEF Printing, Valid, Filled
    <3>2. stack = EmptyStack
      BY <3>1 DEF TypeOK, Slots, EmptyStack
    <3> QED
      BY <2>1, <2>2, <2>3, <3>2 DEF ScreenInv, ShownBy, LastWithAny
  <2>4. CASE Printing
    <3>1. Output \in Results
      BY DEF Output, Results, TypeOK
    <3>2. /\ Len(printed') = Len(printed) + 1
          /\ printed'[Len(printed) + 1] = Output
          /\ \A i \in 1..Len(printed) : printed'[i] = printed[i]
      BY <1>0, <2>1, <2>4, <3>1
    <3>3. printed' # <<>> /\ printed'[Len(printed')].stack = stack
      BY <1>0, <2>1, <2>4, <3>1, <3>2 DEF Output
    <3>4. ASSUME screen.shown # EmptyStack
          PROVE  \E i \in 1..Len(printed') : ShownBy(i)' /\ (Settled' => LastWithAny(i)')
      <4>1. PICK i \in 1..Len(printed) : ShownBy(i) /\ LastWithAny(i)
        BY <2>2, <3>4 DEF ScreenInv
      <4>2. i \in 1..Len(printed') /\ ShownBy(i)'
        BY <1>0, <2>1, <3>2, <4>1 DEF ShownBy
      <4>3. Settled' => LastWithAny(i)'
        <5> SUFFICES ASSUME Settled', NEW j \in (i + 1)..Len(printed')
                     PROVE  printed'[j].stack = EmptyStack
          BY DEF LastWithAny, EmptyStack
        <5>1. stack = EmptyStack
          BY <2>1 DEF Settled, EmptyStack
        <5>2. CASE j \in (i + 1)..Len(printed)
          <6>1. j \in 1..Len(printed)
            BY <1>0, <4>1, <5>2
          <6> QED
            BY <3>2, <4>1, <5>2, <6>1 DEF LastWithAny
        <5>3. CASE j = Len(printed) + 1
          BY <3>2, <5>1, <5>3 DEF Output
        <5> QED
          BY <1>0, <3>2, <4>1, <5>2, <5>3
      <4> QED
        BY <4>2, <4>3
    <3> QED
      BY <2>1, <3>3, <3>4 DEF ScreenInv, EmptyStack
  <2> QED
    BY <2>3, <2>4
<1>6. CASE NextPoint \/ \E l \in Line : RandomPoint(l)
  <2>1. main = "next"
    BY <1>6 DEF NextPoint, RandomPoint
  <2>2. CASE \/ \E l \in Line : TakePoint(l)
             \/ TakeUnreadable(Head(unread))
             \/ RefuseLine(Head(unread))
    BY <1>2, <2>1, <2>2 DEF TakePoint, TakeUnreadable, RefuseLine
  <2>3. CASE ShowSatellites(Head(unread))
    <3>1. /\ UNCHANGED <<printed, stack, main>>
          /\ screen'.shown \in {EmptyStack, Drawn}
      BY <2>3 DEF ShowSatellites, Redrawn, vars, slots
    <3> QED
      BY <1>3, <2>1, <3>1
  <2>4. CASE SkipSentence(Head(unread))
    BY <1>1, <2>4 DEF SkipSentence, program, vars, slots
  <2>5. \/ \E l \in Line : TakePoint(l)
        \/ TakeUnreadable(Head(unread)) \/ RefuseLine(Head(unread))
        \/ ShowSatellites(Head(unread)) \/ SkipSentence(Head(unread))
    BY <1>6, TakePointNext
  <2> QED
    BY <2>2, <2>3, <2>4, <2>5
<1>7. CASE Draw
  <2>1. UNCHANGED <<printed, stack>> /\ main = "draw" /\ main' = "next"
    BY <1>7 DEF Draw, vars, slots
  <2>2. CASE Valid
    <3>1. stack # EmptyStack
      BY <2>2 DEF Valid, Filled, EmptyStack
    <3>2. screen'.shown = Drawn
      BY <1>7, <2>2 DEF Draw, Redrawn
    <3> QED
      BY <1>3, <2>1, <3>1, <3>2
  <2>3. CASE ~Valid
    <3>1. stack = EmptyStack
      BY <2>3 DEF Valid, Filled, TypeOK, Slots, EmptyStack
    <3>2. screen' = screen
      BY <1>7, <2>3 DEF Draw
    <3> QED
      BY <1>4, <2>1, <3>1, <3>2
  <2> QED
    BY <2>2, <2>3
<1>8. CASE DrawFails
  <2>1. screen'.shown = screen.shown /\ printed' = printed /\ main' = "unwind"
    BY <1>8 DEF DrawFails, ProgramOK
  <2> QED
    BY <2>1 DEF ScreenInv, ShownBy, Settled
<1>9. CASE UpdateStep \/ UpdateFailed \/ ReportFails \/ Unwind \/ SourceFails \/ NoMorePoints
  BY <1>2, <1>9 DEF UpdateStep, UpdateFailed, ReportFails, Unwind, SourceFails, NoMorePoints,
     program
<1>10. CASE (\E l \in Line : Write(l)) \/ CloseInput \/ UNCHANGED allVars
  BY <1>1, <1>10 DEF Write, CloseInput, allVars, program, vars, slots
<1> QED
  BY <1>5, <1>6, <1>7, <1>8, <1>9, <1>10 DEF MainNext

(* Watersheds on the screen are those of one printed result: the last that *)
(* had any, once it is drawn.                                              *)
THEOREM ScreenCorrect == MainSpec => []ScreenShowsAnAnswer
<1>1. MainInit => ScreenInv /\ PointInHand
  <2>1. MainInit => stack = EmptyStack
    BY DEF MainInit, Init
  <2> QED
    BY <2>1 DEF MainInit, ScreenInv, PointInHand
<1>2. ScreenInv => ScreenShowsAnAnswer
  BY DEF ScreenInv, ShownBy, LastWithAny, Settled, ScreenShowsAnAnswer
<1>3. InputOK /\ TypeOK /\ OrderInv /\ [MainNext]_allVars => OrderInv'
  BY OrderNext
<1>4. InputOK /\ TypeOK /\ PointInHand /\ ProgramOK /\ [MainNext]_allVars => ProgramOK'
  BY ProgramNext
<1>5. InputOK /\ PointInHand /\ [MainNext]_allVars => PointInHand'
  BY PointInHandNext
<1>6. InputOK /\ TypeOK /\ OrderInv /\ ProgramOK /\ ScreenInv /\ [MainNext]_allVars
        => ScreenInv'
  BY ScreenNext
<1> QED
  BY <1>1, <1>2, <1>3, <1>4, <1>5, <1>6, ProgramInit, OrderInit, InputInit, InputNext,
     OracleUsesStack, TypeCorrect, PTL DEF MainSpec
=============================================================================
