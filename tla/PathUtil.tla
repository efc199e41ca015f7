------------------------------ MODULE PathUtil ------------------------------
(***************************************************************************)
(* The pathUtil program: main() of pathUtil.zig copies the points of a     *)
(* source to standard output, through std.io.bufferedWriter.               *)
(*                                                                         *)
(* The output is a sequence of pieces, the writes that print() makes of    *)
(* its format: piece <<i, k>> is the k-th of point i.  They count as       *)
(* equally long, and the buffer holds BufferSize of them; but the WKT of a *)
(* line on standard input may be longer than the whole buffer.             *)
(***************************************************************************)
EXTENDS Naturals, Sequences

CONSTANTS BufferSize,
          MaxPoints,   \* bound on the points that a source has
          Long         \* the lines of standard input that exceed the buffer

ASSUME PathAssumption == /\ BufferSize \in Nat \ {0}
                         /\ MaxPoints \in Nat
                         /\ Long \subseteq 1..MaxPoints

VARIABLES
  source,      \* -s, -g (on a desktop, gpsMock.zig), -f or -c
  numPoints,   \* -n
  n,           \* of the loop
  pc,          \* see Phase
  status,      \* how main() returns
  pending,     \* pieces of this print() not yet written
  buffer,      \* of bw
  stdout,      \* pieces that have left the program
  taken,       \* history: how many points nextPoint() returned
  text         \* history: their pieces

vars == <<source, numPoints, n, pc, status, pending, buffer, stdout, taken, text>>

Phase == {"next",    \* at the head of the loop
          "print",
          "flush",   \* after the loop
          "done"}

(* "{s}\n" is two pieces, and "POINT ({d} {d})\n" is five.                 *)
NumPieces == IF source = "stdin" THEN 2 ELSE 5

Pieces(i) == [k \in 1..NumPieces |-> <<i, k>>]

Source == {"stdin", "gps", "gpsMock", "fuzzer", "scatter"}

-----------------------------------------------------------------------------
Init == /\ source \in Source
        /\ numPoints \in 0..MaxPoints
        /\ n = 0
        /\ pc = "next"
        /\ status = "running"
        /\ pending = <<>>
        /\ buffer = <<>>
        /\ stdout = <<>>
        /\ taken = 0
        /\ text = <<>>

Within == n <= numPoints

NextPoint == /\ pc = "next"
             /\ Within
             /\ taken < MaxPoints
             /\ taken' = taken + 1
             /\ text' = text \o Pieces(taken')
             /\ pending' = Pieces(taken')
             /\ pc' = "print"
             /\ UNCHANGED <<source, numPoints, n, status, buffer, stdout>>

(* stdin.zig and gpsMock.zig: standard input comes to an end.              *)
NoMorePoints == /\ pc = "next"
                /\ Within
                /\ source \in {"stdin", "gpsMock"}
                /\ pc' = "flush"
                /\ UNCHANGED <<source, numPoints, n, status, pending, buffer, stdout, taken, text>>

Leave == /\ pc = "next"
         /\ ~Within
         /\ pc' = "flush"
         /\ UNCHANGED <<source, numPoints, n, status, pending, buffer, stdout, taken, text>>

(* An error of nextPoint() returns from main() at once.  Points drawn at   *)
(* random have none.                                                       *)
SourceFails == /\ pc = "next"
               /\ Within
               /\ source \notin {"fuzzer", "scatter"}
               /\ pc' = "done"
               /\ status' = "sourceFailed"
               /\ UNCHANGED <<source, numPoints, n, pending, buffer, stdout, taken, text>>

-----------------------------------------------------------------------------
(* writeAll() of what the buffer holds.                                    *)
Flushed == stdout' = stdout \o buffer

(* Mutant: the buffer is full one piece late.                              *)
FullLate == Len(buffer) > BufferSize

Full == Len(buffer) = BufferSize

TooLong(piece) == source = "stdin" /\ piece[1] \in Long /\ piece[2] = 1

(* Mutant: a piece too long for the buffer overtakes what is in it.        *)
WriteOvertaking ==
  /\ pc = "print"
  /\ pending # <<>>
  /\ CASE TooLong(Head(pending)) -> stdout' = Append(stdout, Head(pending)) /\ UNCHANGED buffer
       [] Full /\ ~TooLong(Head(pending)) -> Flushed /\ buffer' = <<Head(pending)>>
       [] OTHER -> UNCHANGED stdout /\ buffer' = Append(buffer, Head(pending))
  /\ pending' = Tail(pending)
  /\ UNCHANGED <<source, numPoints, n, pc, status, taken, text>>

(* write(): a piece that does not fit in flushes the buffer first, and one *)
(* that never will is not buffered at all.                                 *)
Write == /\ pc = "print"
         /\ pending # <<>>
         /\ \/ /\ TooLong(Head(pending))
               /\ stdout' = (stdout \o buffer) \o <<Head(pending)>>
               /\ buffer' = <<>>
            \/ /\ ~TooLong(Head(pending)) /\ Full
               /\ Flushed
               /\ buffer' = <<Head(pending)>>
            \/ /\ ~TooLong(Head(pending)) /\ ~Full
               /\ buffer' = Append(buffer, Head(pending))
               /\ UNCHANGED stdout
         /\ pending' = Tail(pending)
         /\ UNCHANGED <<source, numPoints, n, pc, status, taken, text>>

Printed == /\ pc = "print"
           /\ pending = <<>>
           /\ n' = n + 1
           /\ pc' = "next"
           /\ UNCHANGED <<source, numPoints, status, pending, buffer, stdout, taken, text>>

(* Mutant: main() returns without bw.flush().                              *)
ReturnUnflushed == /\ pc = "flush"
                   /\ pc' = "done"
                   /\ status' = "ok"
                   /\ UNCHANGED <<source, numPoints, n, pending, buffer, stdout, taken, text>>

Flush == /\ pc = "flush"
         /\ Flushed
         /\ buffer' = <<>>
         /\ pc' = "done"
         /\ status' = "ok"
         /\ UNCHANGED <<source, numPoints, n, pending, taken, text>>

(* Standard output fails after the first k pieces of a flush, or with the  *)
(* long piece that comes after it.                                         *)
FlushFails == /\ \/ pc = "flush"
                 \/ pc = "print" /\ pending # <<>> /\ (Full \/ TooLong(Head(pending)))
              /\ \E k \in 0..Len(buffer) : stdout' = stdout \o SubSeq(buffer, 1, k)
              /\ pc' = "done"
              /\ status' = "outputFailed"
              /\ UNCHANGED <<source, numPoints, n, pending, buffer, taken, text>>

Next == \/ NextPoint
        \/ NoMorePoints
        \/ Leave
        \/ SourceFails
        \/ Write
        \/ Printed
        \/ Flush
        \/ FlushFails

Spec == Init /\ [][Next]_vars

-----------------------------------------------------------------------------
Piece == (1..MaxPoints) \X (1..5)

(* Type invariant of the program; the buffer never grows over its size.    *)
TypeOK ==
  /\ source \in Source
  /\ numPoints \in 0..MaxPoints
  /\ n \in Nat
  /\ pc \in Phase
  /\ status \in {"running", "ok", "sourceFailed", "outputFailed"}
  /\ pending \in Seq(Piece)
  /\ buffer \in Seq(Piece) /\ Len(buffer) <= BufferSize
  /\ stdout \in Seq(Piece)
  /\ taken \in 0..MaxPoints
  /\ text \in Seq(Piece)

(* Whatever has left the program, at any moment and after any failure, is  *)
(* the start of what the points taken so far print: bufferedWriter neither *)
(* reorders nor repeats nor skips.                                         *)
OutputIsPrefix ==
  /\ Len(stdout) <= Len(text)
  /\ \A i \in 1..Len(stdout) : stdout[i] = text[i]

(* When main() returns without an error, every point that it took is on    *)
(* standard output, to the last piece; and it took numPoints + 1 of them,  *)
(* unless standard input ended before.                                     *)
AllWritten ==
  status = "ok" => /\ stdout = text
                   /\ taken <= numPoints + 1
                   /\ source \notin {"stdin", "gpsMock"} => taken = numPoints + 1

(* `else => return e` skips bw.flush(): of points read long before, up to  *)
(* a buffer is lost, and never more than that.                             *)
LossBounded ==
  status = "sourceFailed" => Len(text) - Len(stdout) <= BufferSize

(* --help says "Collect only numPoints points.".                           *)
OnlyNumPoints == taken <= numPoints
=============================================================================
