--------------------------- MODULE PathUtilProofs ---------------------------
(***************************************************************************)
(* Proofs about pathUtil, for any number of points and buffer of any size. *)
(***************************************************************************)
EXTENDS PathUtil, SequenceTheorems, TLAPS

(* What has not been written yet is in the buffer and in the print() at    *)
(* hand, in this order.                                                    *)
Complete == text = (stdout \o buffer) \o pending

(* The loop's counter follows the points.                                  *)
Counted == taken = IF pc = "print" THEN n + 1 ELSE n

(* The inductive invariant.                                                *)
IInv ==
  /\ TypeOK
  /\ pc # "done" => status = "running" /\ Counted /\ n <= numPoints + 1 /\ Complete
  /\ pc = "print" => n <= numPoints
  /\ pc \in {"next", "flush"} => pending = <<>>
  /\ pc = "flush" /\ source \notin {"stdin", "gpsMock"} => n = numPoints + 1
  /\ status = "sourceFailed" => Complete /\ pending = <<>>
  /\ OutputIsPrefix
  /\ AllWritten

LEMMA InitIInv == Init => IInv
BY PathAssumption DEF Init, IInv, TypeOK, Phase, Complete, Counted, OutputIsPrefix, AllWritten

(* The pieces of a point.                                                  *)
LEMMA PiecesType ==
  ASSUME NEW i \in 1..MaxPoints
  PROVE  Pieces(i) \in Seq(Piece)
<1>1. NumPieces \in 1..5
  BY DEF NumPieces
<1>2. \A k \in 1..NumPieces : <<i, k>> \in Piece
  BY <1>1 DEF Piece
<1>3. Pieces(i) \in [1..NumPieces -> Piece]
  BY <1>2 DEF Pieces
<1> QED
  BY <1>1, <1>3

(* What a flush writes of its buffer continues the text.                   *)
LEMMA FlushPrefix ==
  ASSUME TypeOK, Complete, NEW k \in 0..Len(buffer)
  PROVE  LET out == stdout \o SubSeq(buffer, 1, k)
         IN  /\ out \in Seq(Piece)
             /\ Len(out) <= Len(text)
             /\ \A i \in 1..Len(out) : out[i] = text[i]
<1> DEFINE out == stdout \o SubSeq(buffer, 1, k)
<1>0. stdout \in Seq(Piece) /\ buffer \in Seq(Piece) /\ pending \in Seq(Piece)
  BY DEF TypeOK
<1>1. /\ SubSeq(buffer, 1, k) \in Seq(Piece)
      /\ Len(SubSeq(buffer, 1, k)) = k
      /\ \A i \in 1..k : SubSeq(buffer, 1, k)[i] = buffer[i]
  BY <1>0
<1>2. /\ out \in Seq(Piece)
      /\ Len(out) = Len(stdout) + k
      /\ \A i \in 1..Len(out) : out[i] = IF i <= Len(stdout) THEN stdout[i]
                                                             ELSE buffer[i - Len(stdout)]
  BY <1>0, <1>1
<1>3. /\ Len(text) = Len(stdout) + Len(buffer) + Len(pending)
      /\ \A i \in 1..(Len(stdout) + Len(buffer)) :
           text[i] = IF i <= Len(stdout) THEN stdout[i] ELSE buffer[i - Len(stdout)]
  BY <1>0 DEF Complete
<1>4. Len(stdout) \in Nat /\ Len(buffer) \in Nat /\ Len(pending) \in Nat
  BY <1>0
<1> HIDE DEF out
<1>5. Len(out) <= Len(text)
  BY <1>2, <1>3, <1>4
<1>6. \A i \in 1..Len(out) : out[i] = text[i]
  BY <1>2, <1>3, <1>4
<1> QED
  BY <1>2, <1>5, <1>6 DEF out

LEMMA WholeFlush ==
  ASSUME TypeOK, Complete, Flushed
  PROVE  /\ stdout' \in Seq(Piece)
         /\ Len(stdout') <= Len(text)
         /\ \A i \in 1..Len(stdout') : stdout'[i] = text[i]
<1>1. SubSeq(buffer, 1, Len(buffer)) = buffer /\ Len(buffer) \in 0..Len(buffer)
  BY DEF TypeOK
<1> QED
  BY <1>1, FlushPrefix DEF Flushed

LEMMA NextPointIInv == ASSUME IInv, NextPoint PROVE IInv'
<1>0. /\ pc = "next" /\ pc' = "print"
      /\ n <= numPoints /\ taken + 1 \in 1..MaxPoints
      /\ pending = <<>>
      /\ taken' = taken + 1 /\ text' = text \o Pieces(taken + 1) /\ pending' = Pieces(taken + 1)
      /\ UNCHANGED <<source, numPoints, n, status, buffer, stdout>>
  BY PathAssumption DEF NextPoint, Within, IInv, TypeOK
<1>1. Pieces(taken + 1) \in Seq(Piece)
  BY <1>0, PiecesType
<1>2. text' \in Seq(Piece) /\ pending' \in Seq(Piece) /\ Len(text) <= Len(text')
  BY <1>0, <1>1 DEF IInv, TypeOK
<1>3. TypeOK'
  BY <1>0, <1>2 DEF IInv, TypeOK, Phase
<1>4. text = stdout \o buffer
  BY <1>0 DEF IInv, Complete, TypeOK
<1>5. Complete'
  BY <1>0, <1>4 DEF Complete
<1>6. OutputIsPrefix'
  <2>1. \A i \in 1..Len(text) : text'[i] = text[i]
    BY <1>0, <1>1 DEF IInv, TypeOK
  <2> QED BY <1>0, <1>2, <2>1 DEF IInv, OutputIsPrefix, TypeOK
<1> QED
  BY <1>0, <1>3, <1>5, <1>6 DEF IInv, Counted, AllWritten, TypeOK

LEMMA LoopIInv ==
  ASSUME IInv, NoMorePoints \/ Leave \/ SourceFails \/ Printed
  PROVE  IInv'
<1>1. TypeOK'
  BY DEF IInv, TypeOK, Phase, NoMorePoints, Leave, SourceFails, Printed
<1>2. Complete /\ Complete'
  BY DEF IInv, Complete, NoMorePoints, Leave, SourceFails, Printed
<1>3. OutputIsPrefix'
  BY DEF IInv, OutputIsPrefix, NoMorePoints, Leave, SourceFails, Printed
<1>4. /\ pending = <<>> /\ status = "running"
      /\ n \in Nat /\ numPoints \in Nat /\ Counted /\ n <= numPoints + 1
      /\ pc = "print" => n <= numPoints
  BY DEF IInv, TypeOK, NoMorePoints, Leave, SourceFails, Printed
<1>5. CASE NoMorePoints \/ SourceFails
  BY <1>1, <1>2, <1>3, <1>4, <1>5 DEF IInv, Counted, AllWritten, NoMorePoints, SourceFails
<1>6. CASE Leave
  <2>1. n = numPoints + 1
    BY <1>4, <1>6 DEF Leave, Within
  <2> QED BY <1>1, <1>2, <1>3, <1>4, <1>6, <2>1 DEF IInv, Counted, AllWritten, Leave
<1>7. CASE Printed
  BY <1>1, <1>2, <1>3, <1>4, <1>7 DEF IInv, Counted, AllWritten, Printed
<1> QED
  BY <1>5, <1>6, <1>7

(* It does not matter where a sequence of pieces is divided.               *)
LEMMA PiecesAssociative ==
  ASSUME NEW s \in Seq(Piece), NEW t \in Seq(Piece), NEW u \in Seq(Piece)
  PROVE  (s \o t) \o u = s \o (t \o u)
BY ConcatAssociative, SMT

LEMMA WriteIInv == ASSUME IInv, Write PROVE IInv'
<1>0. /\ Complete
      /\ pc = "print" /\ status = "running" /\ pending # <<>>
      /\ stdout \in Seq(Piece) /\ buffer \in Seq(Piece) /\ pending \in Seq(Piece)
      /\ BufferSize \in Nat \ {0} /\ Len(buffer) <= BufferSize
  BY PathAssumption DEF IInv, Write, TypeOK
<1>1. /\ Head(pending) \in Piece /\ pending' = Tail(pending) /\ Tail(pending) \in Seq(Piece)
      /\ pending = <<Head(pending)>> \o Tail(pending)
  BY <1>0 DEF Write
<1>2. /\ <<Head(pending)>> \in Seq(Piece) /\ stdout \o buffer \in Seq(Piece)
      /\ text = ((stdout \o buffer) \o <<Head(pending)>>) \o Tail(pending)
  <2> DEFINE h == <<Head(pending)>>
             t == Tail(pending)
             written == stdout \o buffer
  <2>1. h \in Seq(Piece) /\ t \in Seq(Piece)
    BY <1>1
  <2>2. written \in Seq(Piece)
    BY <1>0, ConcatProperties, Zenon
  <2>3. text = written \o pending /\ pending = h \o t
    BY <1>0, <1>1 DEF Complete
  <2> HIDE DEF h, t, written
  <2>4. text = (written \o h) \o t
    <3>1. (written \o h) \o t = written \o (h \o t)
      BY <2>1, <2>2, PiecesAssociative
    <3> QED BY <2>3, <3>1
  <2> QED BY <2>1, <2>2, <2>4 DEF h, t, written
<1>3. CASE TooLong(Head(pending))
  <2>1. stdout' = (stdout \o buffer) \o <<Head(pending)>> /\ buffer' = <<>>
    BY <1>3 DEF Write
  <2>2. text = stdout' \o Tail(pending) /\ stdout' \in Seq(Piece)
    BY <1>2, <2>1, ConcatProperties
  <2>3. Complete'
    BY <1>1, <2>1, <2>2 DEF Complete, Write
  <2>4. TypeOK'
    BY <1>0, <1>1, <2>1, <2>2 DEF IInv, TypeOK, Write
  <2>5. OutputIsPrefix'
    <3>1. Tail(pending) \in Seq(Piece) /\ text' = text
      BY <1>1 DEF Write
    <3>2. /\ Len(text) = Len(stdout') + Len(Tail(pending))
          /\ \A x \in 1..Len(stdout') : text[x] = stdout'[x]
          /\ Len(stdout') \in Nat /\ Len(Tail(pending)) \in Nat
      BY <2>2, <3>1
    <3> QED BY <3>1, <3>2 DEF OutputIsPrefix
  <2> QED BY <1>0, <2>3, <2>4, <2>5 DEF IInv, Counted, AllWritten, Write
<1>4. CASE Full /\ ~TooLong(Head(pending))
  <2>1. stdout' = stdout \o buffer /\ buffer' = <<Head(pending)>> /\ text' = text
    BY <1>4 DEF Write, Flushed
  <2>2. Complete'
    BY <1>1, <1>2, <2>1 DEF Complete, Write
  <2>3. TypeOK'
    BY <1>0, <1>1, <2>1, WholeFlush DEF Flushed, IInv, TypeOK, Write
  <2>4. OutputIsPrefix'
    BY <1>0, <2>1, WholeFlush DEF Flushed, IInv, OutputIsPrefix, Write
  <2> QED BY <1>0, <2>2, <2>3, <2>4 DEF IInv, Counted, AllWritten, Write
<1>5. CASE ~Full /\ ~TooLong(Head(pending))
  <2>1. UNCHANGED stdout /\ buffer' = Append(buffer, Head(pending))
    BY <1>5 DEF Write
  <2>2. /\ buffer' = buffer \o <<Head(pending)>>
        /\ buffer' \in Seq(Piece)
        /\ Len(buffer') <= BufferSize
    BY <1>0, <1>1, <1>5, <2>1 DEF Full
  <2>3. Complete'
    <3> DEFINE h == <<Head(pending)>>
    <3>1. h \in Seq(Piece) /\ buffer' = buffer \o h
      BY <1>2, <2>2
    <3> HIDE DEF h
    <3>2. (stdout \o buffer) \o h = stdout \o (buffer \o h)
      BY <1>0, <3>1, PiecesAssociative
    <3>3. (stdout \o buffer) \o <<Head(pending)>> = stdout \o buffer'
      BY <3>1, <3>2 DEF h
    <3> QED BY <1>1, <1>2, <2>1, <3>3 DEF Complete, Write
  <2>4. TypeOK'
    BY <1>0, <1>1, <2>1, <2>2 DEF IInv, TypeOK, Write
  <2>5. OutputIsPrefix'
    BY <2>1 DEF IInv, OutputIsPrefix, Write
  <2> QED BY <1>0, <2>3, <2>4, <2>5 DEF IInv, Counted, AllWritten, Write
<1> QED
  BY <1>3, <1>4, <1>5

LEMMA FlushIInv == ASSUME IInv, Flush PROVE IInv'
<1>1. /\ Complete /\ Flushed /\ pending = <<>>
      /\ pc = "flush" /\ pc' = "done" /\ status' = "ok" /\ buffer' = <<>>
      /\ UNCHANGED <<source, numPoints, n, pending, taken, text>>
  BY DEF IInv, Flush
<1>2. TypeOK'
  BY <1>1, WholeFlush, PathAssumption DEF IInv, TypeOK, Phase
<1>3. OutputIsPrefix'
  BY <1>1, WholeFlush DEF IInv, OutputIsPrefix
<1>4. stdout' = text
  BY <1>1 DEF IInv, Complete, Flushed, TypeOK
<1>5. AllWritten'
  BY <1>1, <1>4 DEF IInv, AllWritten, Counted, TypeOK
<1> QED
  BY <1>1, <1>2, <1>3, <1>5 DEF IInv

LEMMA FlushFailsIInv == ASSUME IInv, FlushFails PROVE IInv'
<1>1. PICK k \in 0..Len(buffer) : stdout' = stdout \o SubSeq(buffer, 1, k)
  BY DEF FlushFails
<1>2. /\ Complete /\ pc' = "done" /\ status' = "outputFailed"
      /\ UNCHANGED <<source, numPoints, n, pending, buffer, taken, text>>
  BY DEF IInv, FlushFails
<1>3. TypeOK' /\ OutputIsPrefix'
  BY <1>1, <1>2, FlushPrefix DEF IInv, TypeOK, Phase, OutputIsPrefix
<1> QED
  BY <1>2, <1>3 DEF IInv, AllWritten

LEMMA NextIInv == IInv /\ [Next]_vars => IInv'
<1> SUFFICES ASSUME IInv, [Next]_vars PROVE IInv'
  OBVIOUS
<1>1. CASE UNCHANGED vars
  BY <1>1 DEF vars, IInv, TypeOK, Complete, Counted, OutputIsPrefix, AllWritten
<1>2. CASE Next
  BY <1>2, NextPointIInv, LoopIInv, WriteIInv, FlushIInv, FlushFailsIInv DEF Next
<1> QED
  BY <1>1, <1>2

(* Standard output, the buffer and the print() at hand always make up the  *)
(* text of the points that were taken.                                     *)
THEOREM Invariance == Spec => []IInv
BY InitIInv, NextIInv, PTL DEF Spec

(* The types of the state are kept.                                        *)
THEOREM TypeCorrect == Spec => []TypeOK
<1>1. IInv => TypeOK
  BY DEF IInv
<1> QED BY <1>1, Invariance, PTL

(* Standard output is the start of what the points print, whenever one     *)
(* looks and whatever has failed.                                          *)
THEOREM Prefix == Spec => []OutputIsPrefix
<1>1. IInv => OutputIsPrefix
  BY DEF IInv
<1> QED BY <1>1, Invariance, PTL

(* Without an error nothing is lost, and one point more than asked for is  *)
(* the most that is taken.                                                 *)
THEOREM EverythingWritten == Spec => []AllWritten
<1>1. IInv => AllWritten
  BY DEF IInv
<1> QED BY <1>1, Invariance, PTL

(* A source that fails costs at most a buffer of output.                   *)
THEOREM LossIsBounded == Spec => []LossBounded
<1>1. ASSUME IInv, status = "sourceFailed" PROVE Len(text) - Len(stdout) <= BufferSize
  <2>1. /\ stdout \in Seq(Piece) /\ buffer \in Seq(Piece)
        /\ Len(buffer) <= BufferSize /\ pending = <<>> /\ Complete
    BY <1>1 DEF IInv, TypeOK
  <2>2. Len(text) = Len(stdout) + Len(buffer)
    BY <2>1 DEF Complete
  <2> QED BY <2>1, <2>2, PathAssumption
<1>2. IInv => LossBounded
  BY <1>1 DEF LossBounded
<1> QED BY <1>2, Invariance, PTL
=============================================================================
