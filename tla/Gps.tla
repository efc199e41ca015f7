--------------------------------- MODULE Gps ---------------------------------
(***************************************************************************)
(* The GPS of the Raspberry Pi: nextPoint() of gps.zig between update()    *)
(* and the pigpiod daemon, which buffers what the receiver sends.          *)
(*                                                                         *)
(* The receiver sends without a pause whether anybody reads or not.  The   *)
(* stream is numbered: sentence a consists of the tokens 4a to 4a + 3,     *)
(* which are '$' and the message, '*' and the first digit of the checksum, *)
(* its second digit, and the end of the line.                              *)
(***************************************************************************)
EXTENDS Nmea

CONSTANTS Sentence,   \* what the receiver says
          Damaged,    \* what a damaged line may be taken for
          RingSize,   \* tokens that pigpiod buffers
          MaxTokens   \* bound on the tokens sent

ASSUME GpsAssumption == /\ RingSize \in Nat \ {0}
                        /\ MaxTokens \in Nat
                        /\ \A m \in Sentence \cup Damaged :
                             m.formatter \in Formatter /\ m.fields \in Seq(FieldClass)

VARIABLES
  start,    \* the token in which bb_serial_read_open() finds the receiver
  next,     \* the token that comes next
  ring,     \* pigpiod's buffer
  line,     \* self.buffer
  main,     \* where main() is: see Phase
  status,   \* what has ended it
  parsed,   \* history: the lines that were accepted
  lost,     \* history: pigpiod's buffer was full when a token came
  fooled    \* history: a damaged line had the right checksum

vars == <<start, next, ring, line, main, status, parsed, lost, fooled>>

Phase == {"read",     \* in streamUntilDelimiter()
          "parse",    \* a line is complete
          "update",   \* nextPoint() has returned
          "exit"}

Part(t) == t % 4

-----------------------------------------------------------------------------
Init == /\ start \in 0..3
        /\ next = start
        /\ ring = <<>>
        /\ line = <<>>
        /\ main = "read"
        /\ status = "running"
        /\ parsed = <<>>
        /\ lost = FALSE
        /\ fooled = FALSE

(* pigpiod stores what comes, as long as it has room.                      *)
Receive == /\ next < MaxTokens
           /\ next' = next + 1
           /\ IF Len(ring) < RingSize
                THEN ring' = Append(ring, next) /\ UNCHANGED lost
                ELSE lost' = TRUE /\ UNCHANGED ring
           /\ UNCHANGED <<start, line, main, status, parsed, fooled>>

(* Mutant: the delimiter goes into the buffer as well.                     *)
ReadDelimiter == /\ main = "read"
                 /\ ring # <<>>
                 /\ ring' = Tail(ring)
                 /\ line' = Append(line, Head(ring))
                 /\ main' = IF Part(Head(ring)) = 3 THEN "parse" ELSE "read"
                 /\ UNCHANGED <<start, next, status, parsed, lost, fooled>>

(* serialRead() waits until there is something.                            *)
ReadByte == /\ main = "read"
            /\ ring # <<>>
            /\ ring' = Tail(ring)
            /\ IF Part(Head(ring)) = 3
                 THEN main' = "parse" /\ UNCHANGED line
                 ELSE line' = Append(line, Head(ring)) /\ UNCHANGED main
            /\ UNCHANGED <<start, next, status, parsed, lost, fooled>>

End(s) == /\ main' = "exit"
          /\ status' = s
          /\ UNCHANGED <<start, next, ring, lost>>

PigpiodFails == /\ main = "read"
                /\ End("pigpiod")
                /\ UNCHANGED <<line, parsed, fooled>>

-----------------------------------------------------------------------------
Whole(l) == /\ Len(l) = 3
            /\ Part(l[1]) = 0
            /\ l[2] = l[1] + 1
            /\ l[3] = l[1] + 2

(* validateChecksum() wants a '$' at the beginning, a '*' and digits.  The *)
(* bits of a damaged line match its checksum by chance only.               *)
MayPass(l) == /\ l # <<>>
              /\ Part(l[1]) = 0
              /\ \E i \in DOMAIN l : Part(l[i]) = 1

(* Mutant: the buffer is not cleared for the next line.                    *)
Kept == UNCHANGED line

(* The loop of nextPoint() begins with clearRetainingCapacity(), in this   *)
(* call or in the next one.                                                *)
Cleared == line' = <<>>

(* The line passes for a sentence of this verdict.                         *)
TakeFor(verdict) ==
  IF verdict \in {"point", "none"}
    THEN /\ parsed' = Append(parsed, line)
         /\ main' = IF verdict = "point" THEN "update" ELSE "read"
         /\ Cleared
         /\ UNCHANGED <<start, next, ring, status, lost>>
    ELSE End(verdict) /\ UNCHANGED <<line, parsed>>

WholeVerdicts == {Verdict(m, 2) : m \in Sentence}

DamagedVerdicts == {Verdict(m, digits) : m \in Damaged, digits \in 1..2}

ParseWhole == /\ main = "parse"
              /\ Whole(line)
              /\ \E v \in WholeVerdicts : TakeFor(v)
              /\ UNCHANGED fooled

(* Mutant: a damaged line is skipped.                                      *)
SkipDamaged == /\ main = "parse"
               /\ ~Whole(line)
               /\ main' = "read"
               /\ Cleared
               /\ UNCHANGED <<start, next, ring, status, parsed, lost, fooled>>

RefuseDamaged == /\ main = "parse"
                 /\ ~Whole(line)
                 /\ End("error")
                 /\ UNCHANGED <<line, parsed, fooled>>

ParseDamaged == /\ main = "parse"
                /\ ~Whole(line)
                /\ MayPass(line)
                /\ fooled' = TRUE
                /\ \E v \in DamagedVerdicts : TakeFor(v)

(* What parse() may take the line for.                                     *)
Readings == IF Whole(line) THEN Sentence
            ELSE IF MayPass(line) THEN Damaged ELSE {}

(* The screen shows the satellites of a GSV sentence, if there is memory   *)
(* for the text.                                                           *)
DrawFails == /\ main = "parse"
             /\ \E m \in Readings : m.formatter = "GSV" /\ Verdict(m, 2) = "none"
             /\ End("display")
             /\ fooled' = (fooled \/ ~Whole(line))
             /\ UNCHANGED <<line, parsed>>

(* However long it takes.                                                  *)
UpdateReturns == /\ main = "update"
                 /\ main' = "read"
                 /\ UNCHANGED <<start, next, ring, line, status, parsed, lost, fooled>>

-----------------------------------------------------------------------------
Proceed == ReadByte \/ ParseWhole \/ RefuseDamaged \/ ParseDamaged \/ UpdateReturns

Next == Receive \/ Proceed \/ PigpiodFails \/ DrawFails

Spec == Init /\ [][Next]_vars

(* main() runs on whenever it can.  The receiver may fall silent.          *)
FairSpec == Spec /\ WF_vars(Proceed)

-----------------------------------------------------------------------------
LineToken == {t \in Nat : Part(t) # 3}

(* Type invariant of the source, pigpiod's buffer and the receiver.        *)
TypeOK ==
  /\ start \in 0..3
  /\ next \in Nat
  /\ ring \in Seq(Nat) /\ Len(ring) <= RingSize
  /\ line \in Seq(LineToken)
  /\ main \in Phase
  /\ status \in {"running", "pigpiod", "display", "error", "panic"}
  /\ parsed \in Seq(Seq(LineToken))
  /\ lost \in BOOLEAN
  /\ fooled \in BOOLEAN

(* Whatever pigpiod had no room for while update() ran, and wherever in a  *)
(* sentence it was opened: parse() is given no part of a line twice, and   *)
(* accepts the lines in the order in which they were sent.                 *)
LinesInOrder ==
  \A i, j \in DOMAIN parsed :
    i < j => \A x \in DOMAIN parsed[i], y \in DOMAIN parsed[j] : parsed[i][x] < parsed[j][y]

(* Without a position the receiver leaves fields empty, and the parser     *)
(* must cope: the program is ended by a sentence only if some of it was    *)
(* lost on the way, or sent before the line was opened; and no field of it *)
(* makes the parser panic, unless by chance the checksum hid the damage.   *)
OnlyDamageStops ==
  /\ status = "error" => start # 0 \/ lost
  /\ status = "panic" => fooled

(* A program that opens the line within a sentence does not get past it:   *)
(* what is left of the sentence has no '$'.                                *)
MidSentenceStops == start # 0 /\ next > 3 ~> main = "exit"
=============================================================================
