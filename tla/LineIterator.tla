---------------------------- MODULE LineIterator ----------------------------
(***************************************************************************)
(* makeLineIterator of telegramBot/lineIterator.js: the text that a reader *)
(* delivers in chunks, yielded again in lines.  The bot reads the oracle's *)
(* standard output with it, and a chunk is whatever was in the pipe.       *)
(*                                                                         *)
(* A step is one turn of the loop: a line end is found, or the next chunk  *)
(* is awaited, or the reader is done.  Positions count from 0, as in the   *)
(* code.                                                                   *)
(***************************************************************************)
EXTENDS Integers, FiniteSets, SequencesExt

CONSTANTS CR, LF, Plain,    \* '\r', '\n' and the set of other characters
          MaxLength,        \* bound on the length of the text
          lineGroupSize     \* 1 in main.js

ASSUME LineAssumption == /\ CR # LF /\ CR \notin Plain /\ LF \notin Plain
                         /\ MaxLength \in Nat
                         /\ lineGroupSize \in Nat \ {0}

VARIABLES
  text,        \* all that the reader will deliver
  delivered,   \* how much of it the reader has delivered
  cuts,        \* history: where the chunks ended, the current one excepted
  chunk,
  readerDone,
  startIndex,
  lastIndex,   \* re.lastIndex
  linesRead,
  yielded,     \* what the consumer was given
  finished

vars == <<text, delivered, cuts, chunk, readerDone, startIndex, lastIndex, linesRead,
          yielded, finished>>

Char == Plain \cup {CR, LF}

Text == UNION {[1..n -> Char] : n \in 0..MaxLength}

(* chunk.substring(from, to)                                               *)
Substring(s, from, to) == SubSeq(s, from + 1, to)

-----------------------------------------------------------------------------
(* re.exec: where the next line end from lastIndex on starts, and where it *)
(* stops: CR LF is one, and so is either alone.                            *)
LineEnds == {i \in lastIndex..(Len(chunk) - 1) : chunk[i + 1] \in {CR, LF}}

Index == CHOOSE i \in LineEnds : \A j \in LineEnds : i <= j

(* Mutant: CR LF counts as two line ends.                                  *)
StopSingle(i) == i + 1

Stop(i) == IF /\ chunk[i + 1] = CR
              /\ i + 1 < Len(chunk)
              /\ chunk[i + 2] = LF
             THEN i + 2
             ELSE i + 1

(* The first read delivers some of the text, or is done if there is none.  *)
Init ==
  /\ text \in Text
  /\ delivered \in 0..Len(text)
  /\ cuts = {}
  /\ chunk = Substring(text, 0, delivered)
  /\ readerDone \in {FALSE, text = <<>>}
  /\ startIndex = 0
  /\ lastIndex = 0
  /\ linesRead = 0
  /\ yielded = <<>>
  /\ finished = FALSE

(* Mutant: the group is yielded one line late.                             *)
GroupCompleteLate == linesRead + 1 > lineGroupSize

GroupComplete == linesRead + 1 >= lineGroupSize

LineEnd ==
  /\ ~finished
  /\ LineEnds # {}
  /\ lastIndex' = Stop(Index)
  /\ IF GroupComplete
       THEN /\ yielded' = Append(yielded, Substring(chunk, startIndex, Index))
            /\ startIndex' = lastIndex'
            /\ linesRead' = 0
       ELSE /\ linesRead' = linesRead + 1
            /\ UNCHANGED <<yielded, startIndex>>
  /\ UNCHANGED <<text, delivered, cuts, chunk, readerDone, finished>>

(* Mutant: the start of a line is lost with its chunk.                     *)
NothingKept == <<>>

(* What was not yielded is put before the next chunk.                      *)
Remainder == Substring(chunk, startIndex, Len(chunk))

(* Mutant: the second read declares a readerDone of its own.               *)
DoneShadowed == readerDone

(* The reader says that it is done in a read of its own, without a value.  *)
Done == delivered = Len(text)

(* A read delivers any part of what is left: nothing, when the bytes of it *)
(* make no character yet.                                                  *)
NextChunk ==
  /\ ~finished
  /\ LineEnds = {}
  /\ ~readerDone
  /\ \E to \in delivered..Len(text) :
       /\ chunk' = Remainder \o Substring(text, delivered, to)
       /\ delivered' = to
  /\ cuts' = cuts \cup {delivered}
  /\ readerDone' \in {FALSE, Done}
  /\ startIndex' = 0
  /\ lastIndex' = 0
  /\ UNCHANGED <<text, linesRead, yielded, finished>>

(* The last line may lack its end.                                         *)
Finish ==
  /\ ~finished
  /\ LineEnds = {}
  /\ readerDone
  /\ yielded' = IF startIndex < Len(chunk) THEN Append(yielded, Remainder) ELSE yielded
  /\ finished' = TRUE
  /\ UNCHANGED <<text, delivered, cuts, chunk, readerDone, startIndex, lastIndex, linesRead>>

Next == LineEnd \/ NextChunk \/ Finish

Spec == Init /\ [][Next]_vars

(* The consumer asks for the next line again and again, and the reader     *)
(* delivers or ends.                                                       *)
FairSpec == Spec /\ WF_vars(Next)

-----------------------------------------------------------------------------
Received == SubSeq(text, 1, delivered)

TypeOK ==
  /\ text \in Text
  /\ delivered \in 0..Len(text)
  /\ cuts \in SUBSET (0..delivered)
  /\ chunk \in Text
  /\ readerDone \in BOOLEAN /\ finished \in BOOLEAN
  /\ startIndex \in 0..Len(chunk)
  /\ lastIndex \in startIndex..Len(chunk)
  /\ linesRead \in 0..(lineGroupSize - 1)
  /\ yielded \in Seq(Text)

(* The reference.  A line of t ends with a LF, and with a CR unless a LF   *)
(* follows it in the same chunk: cut holds the ends of chunks that count.  *)
EndsAt(t, cut) ==
  {i \in 1..Len(t) :
     \/ t[i] = LF
     \/ t[i] = CR /\ (i = Len(t) \/ t[i + 1] # LF \/ i \in cut)}

(* How many lines have ended at e, and where the last of them did before e.*)
Number(ends, e) == Cardinality({i \in ends : i <= e})

Before(ends, e) ==
  CHOOSE i \in ends \cup {0} : i < e /\ \A j \in ends : j < e => j <= i

(* How much of the text the line end at e takes: CR LF is one.             *)
Width(t, ends, e) ==
  IF t[e] = LF /\ e > 1 /\ e - 1 \notin ends /\ t[e - 1] = CR THEN 2 ELSE 1

LineTo(t, ends, e) == Substring(t, Before(ends, e), e - Width(t, ends, e))

LinesEnding(t, ends) ==
  [k \in 1..Cardinality(ends) |->
     LineTo(t, ends, CHOOSE e \in ends : Number(ends, e) = k)]

LinesOf(t, cut) == LinesEnding(t, EndsAt(t, cut))

(* What follows the last line end, a line of its own if there is any.      *)
Unterminated(t, cut) == Substring(t, Before(EndsAt(t, cut), Len(t) + 1), Len(t))

AllLines(t, cut) ==
  IF Unterminated(t, cut) = <<>>
    THEN LinesOf(t, cut)
    ELSE Append(LinesOf(t, cut), Unterminated(t, cut))

(* A chunk ended in the middle of a CR LF, which is then read as two line  *)
(* ends.  The oracle writes LF alone.                                      *)
PairCut ==
  \E i \in cuts : 0 < i /\ i < delivered /\ text[i] = CR /\ text[i + 1] = LF

WithoutLastLine(lines) == SubSeq(lines, 1, Len(lines) - 1)

(* Where the chunks are cut makes no difference: what was yielded are the  *)
(* lines of the text received, in order, none twice and none left out; and *)
(* it is all of them whenever the iterator waits for the next chunk, so    *)
(* that no result waits for the one after it.                              *)
LinesYielded ==
  lineGroupSize = 1 /\ ~PairCut =>
    /\ IsPrefix(WithoutLastLine(yielded), LinesOf(Received, {}))
    /\ ~finished => IsPrefix(yielded, LinesOf(Received, {}))
    /\ ~finished /\ LineEnds = {} => yielded = LinesOf(Received, {})

(* In the end, all of the text was read and yielded, what follows its last *)
(* line end as well.                                                       *)
AllYielded ==
  lineGroupSize = 1 /\ ~PairCut /\ finished => yielded = AllLines(text, {})

(* How much of the text was yielded; the rest of the chunk is kept.        *)
Consumed == delivered - (Len(chunk) - startIndex)

(* For groups of one line nothing is lost, doubled or moved when pairs are *)
(* cut either: what was yielded are the lines, as they were cut, of just   *)
(* the text that the iterator has not kept.                                *)
NothingLost ==
  lineGroupSize = 1 =>
    yielded = IF finished
                THEN AllLines(text, cuts)
                ELSE LinesOf(SubSeq(text, 1, Consumed), cuts)

(* The iterator ends when its reader does.                                 *)
Ends == <>finished
=============================================================================
