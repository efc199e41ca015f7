------------------------------- MODULE Oracle -------------------------------
(***************************************************************************)
(* The watershedOracle program: the loop of main.zig around a              *)
(* WatershedStack, its point sources, the results printed, and the screen  *)
(* of DisplayRaylib.zig.                                                   *)
(*                                                                         *)
(* Standard input (stdin.zig, and gpsMock.zig with the NMEA sentences of a *)
(* GPS) is written by another process, which closes it when it likes.  A   *)
(* GPS (gps.zig, see Gps for the bytes) never ends, and neither do the     *)
(* points that fuzzer.zig and scatter.zig draw.                            *)
(* While update() runs, the steps are those of WatershedStack.             *)
(***************************************************************************)
EXTENDS WatershedStack

CONSTANTS Line,      \* what may come: [kind, id, where] records
          MaxLines   \* bound on the number of lines written or points drawn

ASSUME OracleAssumption ==
  /\ \A l \in Line :
       /\ l = [kind |-> l.kind, id |-> l.id, where |-> l.where]
       /\ l.kind = "point" => l.id \in RequestId /\ l.where \in Geometry
  /\ 0 \in RequestId
  /\ MaxLines \in Nat

VARIABLES
  source,    \* the PointSrc the program was built with
  json,      \* --json
  unread,    \* complete lines in the pipe, or in the buffer of the GPS
  tail,      \* after them, the start of a line without its '\n'
  closed,    \* the writer has closed the pipe
  written,   \* how many lines or random points there were, at most MaxLines
  main,      \* where main() is: see MainPhase
  status,    \* how main() returns
  printed,   \* the results written to standard output
  screen,    \* what DisplayRaylib last drew
  taken      \* history: the points that nextPoint() returned

pipe == <<unread, tail, closed, written>>
program == <<main, status, printed, screen, taken>>
allVars == <<vars, source, json, pipe, program>>

MainPhase == {"next",     \* in nextPoint()
              "update",   \* in update()
              "draw",     \* the result is printed
              "unwind",   \* leaving the loop
              "exit"}

(* The lines of each source.  Garbage is anything its parser refuses.      *)
Kinds == LET Sentences == {"point", "satellites", "other", "garbage"}
         IN  [stdin   |-> {"point", "garbage"},
              gpsMock |-> Sentences,
              gps     |-> Sentences,
              random  |-> {}]

-----------------------------------------------------------------------------
MainInit == /\ Init
            /\ source \in DOMAIN Kinds
            /\ json \in BOOLEAN
            /\ unread = <<>>
            /\ tail = FALSE
            /\ closed = FALSE
            /\ written = 0
            /\ main = "next"
            /\ status = "running"
            /\ printed = <<>>
            /\ screen = [state |-> "splash", shown |-> EmptyStack]
            /\ taken = <<>>

(* Only stdin.zig has a request id, and only in JSON; Point.requestId is 0 *)
(* by default.                                                             *)
IdOf(l) == IF source = "stdin" /\ json THEN l.id ELSE 0

(* The other end of the pipe, or the satellite receiver.                   *)
Write(l) ==
  /\ ~closed
  /\ written < MaxLines
  /\ written' = written + 1
  /\ l.kind \in Kinds[source]
  /\ l.id = IdOf(l)
  /\ unread' = Append(unread, l)
  /\ UNCHANGED <<vars, source, json, tail, closed, program>>

CloseInput ==
  /\ source \in {"stdin", "gpsMock"}
  /\ ~closed
  /\ closed' = TRUE
  /\ tail' \in BOOLEAN
  /\ UNCHANGED <<vars, source, json, unread, written, program>>

-----------------------------------------------------------------------------
Valid == \E k \in Level : Filled(k)

(* drawWatersheds() draws HUC2 to HUC12.                                   *)
Drawn == [k \in Level |-> IF k <= 6 THEN stack[k] ELSE NoRow]

(* draw(): the splash screen stays until drawWatershedStack() is called.   *)
Redrawn(state) ==
  [state |-> state, shown |-> IF state = "splash" THEN EmptyStack ELSE Drawn]

(* WKT is not parsed before update() reads it.                             *)
ParsedByUpdate == source = "stdin" /\ ~json

(* nextPoint() returns a point, and main passes it to update(), which      *)
(* fails if GEOS does not make a geometry of it.                           *)
TakePoint(l) ==
  /\ l.kind = "point"
  /\ Update(IdOf(l), l.where) \/ UpdateUnreadable(IdOf(l))
  /\ taken' = Append(taken, l)
  /\ main' = "update"
  /\ UNCHANGED <<status, printed, screen>>

TakeUnreadable(l) ==
  /\ l.kind = "garbage"
  /\ ParsedByUpdate
  /\ UpdateUnreadable(0)
  /\ main' = "update"
  /\ UNCHANGED <<status, printed, screen, taken>>

(* A line that does not parse ends the program.                            *)
RefuseLine(l) ==
  /\ l.kind = "garbage"
  /\ ~ParsedByUpdate
  /\ main' = "unwind"
  /\ status' = "error"
  /\ UNCHANGED <<vars, printed, screen, taken>>

(* GSV: nextPoint() redraws the screen itself and reads on.                *)
ShowSatellites(l) ==
  /\ l.kind = "satellites"
  /\ screen' = Redrawn(screen.state)
  /\ UNCHANGED <<vars, main, status, printed, taken>>

SkipSentence(l) ==
  /\ l.kind = "other"
  /\ UNCHANGED <<vars, program>>

NextPoint ==
  /\ main = "next"
  /\ unread # <<>>
  /\ unread' = Tail(unread)
  /\ LET l == Head(unread)
     IN  \/ TakePoint(l)
         \/ TakeUnreadable(l)
         \/ RefuseLine(l)
         \/ ShowSatellites(l)
         \/ SkipSentence(l)
  /\ UNCHANGED <<source, json, tail, closed, written>>

(* fuzzer.zig and scatter.zig: there is always a next point.               *)
RandomPoint(l) ==
  /\ main = "next"
  /\ source = "random"
  /\ written < MaxLines
  /\ written' = written + 1
  /\ l.id = IdOf(l)
  /\ TakePoint(l)
  /\ UNCHANGED <<source, json, unread, tail, closed>>

(* Reading fails, pigpiod does, or there is no memory for the line or for  *)
(* what it says.                                                           *)
SourceFails ==
  /\ main = "next"
  /\ source # "random"
  /\ main' = "unwind"
  /\ status' = "error"
  /\ UNCHANGED <<vars, source, json, pipe, printed, screen, taken>>

(* Mutant: the last line is given up with the pipe.                        *)
NoMorePointsEarly ==
  /\ main = "next"
  /\ Len(unread) <= 1
  /\ closed
  /\ main' = "unwind"
  /\ status' = "ok"
  /\ UNCHANGED <<vars, source, json, pipe, printed, screen, taken>>

(* Mutant: an unterminated last line is waited for.                        *)
NoMorePointsWaiting ==
  /\ main = "next"
  /\ unread = <<>>
  /\ closed /\ ~tail
  /\ main' = "unwind"
  /\ status' = "ok"
  /\ UNCHANGED <<vars, source, json, pipe, printed, screen, taken>>

(* streamUntilDelimiter() reports EndOfStream if the pipe ends before the  *)
(* next '\n': what has come of a last line is given up.                    *)
NoMorePoints ==
  /\ main = "next"
  /\ unread = <<>>
  /\ closed
  /\ main' = "unwind"
  /\ status' = "ok"
  /\ UNCHANGED <<vars, source, json, pipe, printed, screen, taken>>

-----------------------------------------------------------------------------
(* The steps of update().                                                  *)
UpdateStep ==
  /\ main = "update"
  /\ \/ Proceed
     \/ SearchFails
     \/ \E r \in scan : NameAllocFails(r)
  /\ UNCHANGED <<source, json, pipe, program>>

(* Mutant: any error of update() is logged, and the loop goes on.          *)
UpdateFailedSurvived ==
  /\ main = "update"
  /\ pc = "failed"
  /\ pc' = "idle"
  /\ main' = "next"
  /\ UNCHANGED <<skip, slots, location, level, scan, result>>
  /\ UNCHANGED <<source, json, pipe, status, printed, screen, taken>>

(* pointNotInDataset is logged; any other error ends the program.          *)
UpdateFailed ==
  /\ main = "update"
  /\ pc = "failed"
  /\ main' = "unwind"
  /\ status' = "error"
  /\ UNCHANGED <<vars, source, json, pipe, printed, screen, taken>>

(* Mutant: the request id is not handed on.                                *)
OutputWithoutId == [requestId |-> 0, point |-> point, stack |-> stack]

(* printJSON(), or printPoint() and printStack().                          *)
Output == [requestId |-> requestId, point |-> point, stack |-> stack]

(* Mutant: nothing is printed for a point outside of the dataset.          *)
PrintingValid == Valid

(* JSON is printed for every point, text only for points with watersheds.  *)
Printing == json \/ Valid

Report ==
  /\ main = "update"
  /\ pc = "idle"
  /\ printed' = IF Printing THEN Append(printed, Output) ELSE printed
  /\ main' = "draw"
  /\ UNCHANGED <<vars, source, json, pipe, status, screen, taken>>

(* Standard output is gone.                                                *)
ReportFails ==
  /\ main = "update"
  /\ pc = "idle"
  /\ Printing
  /\ main' = "unwind"
  /\ status' = "error"
  /\ UNCHANGED <<vars, source, json, pipe, printed, screen, taken>>

Draw ==
  /\ main = "draw"
  /\ screen' = IF Valid THEN Redrawn("watersheds") ELSE screen
  /\ main' = "next"
  /\ UNCHANGED <<vars, source, json, pipe, status, printed, taken>>

(* There is no memory for the text: the state is set, the screen is not.   *)
DrawFails ==
  /\ main = "draw"
  /\ Valid
  /\ screen' = [screen EXCEPT !.state = "watersheds"]
  /\ main' = "unwind"
  /\ status' = "error"
  /\ UNCHANGED <<vars, source, json, pipe, printed, taken>>

(* The deferred deinit() calls.                                            *)
Unwind ==
  /\ main = "unwind"
  /\ Deinit
  /\ main' = "exit"
  /\ UNCHANGED <<source, json, pipe, status, printed, screen, taken>>

-----------------------------------------------------------------------------
(* What main() does when no call fails.                                    *)
MainProceed == \/ NextPoint
               \/ \E l \in Line : RandomPoint(l)
               \/ NoMorePoints
               \/ main = "update" /\ Proceed /\ UNCHANGED <<source, json, pipe, program>>
               \/ UpdateFailed
               \/ Report
               \/ Draw
               \/ Unwind

MainNext == \/ \E l \in Line : Write(l)
            \/ CloseInput
            \/ NextPoint
            \/ \E l \in Line : RandomPoint(l)
            \/ SourceFails
            \/ NoMorePoints
            \/ UpdateStep
            \/ UpdateFailed
            \/ Report
            \/ ReportFails
            \/ Draw
            \/ DrawFails
            \/ Unwind

MainSpec == MainInit /\ [][MainNext]_allVars

(* main() keeps running.  Nobody has to write or to close the pipe.        *)
FairMainSpec == MainSpec /\ WF_allVars(MainProceed)

-----------------------------------------------------------------------------
Outputs == [requestId : RequestId, point : Geometry, stack : Slots]

MainTypeOK ==
  /\ TypeOK
  /\ source \in DOMAIN Kinds
  /\ json \in BOOLEAN
  /\ unread \in Seq(Line) /\ written \in 0..MaxLines
  /\ tail \in BOOLEAN
  /\ closed \in BOOLEAN
  /\ main \in MainPhase
  /\ status \in {"running", "ok", "error"}
  /\ screen.state \in {"splash", "watersheds"} /\ screen.shown \in Slots
  /\ printed \in Seq(Outputs)
  /\ taken \in Seq(Line)

(* The points that may still be without a result: the one in hand, which   *)
(* never gets one if the program ends.                                     *)
Unanswered == IF main \in {"next", "draw"} THEN {0}
              ELSE IF main = "update" THEN {1} ELSE {0, 1}

(* Result i is about the point that came i-th.                             *)
Answers(i) == /\ printed[i].point = taken[i].where
              /\ printed[i].requestId = IF source = "stdin" THEN taken[i].id ELSE 0

(* With --json every point gets exactly one result, in the order in which  *)
(* the points came and with the request id and the location it came with:  *)
(* the reader of the output may match results to requests either way.      *)
AnswersInOrder ==
  json => /\ Len(taken) - Len(printed) \in Unanswered
          /\ \A i \in 1..Len(printed) : Answers(i)

(* A result is never half an update or left over from an earlier point: in *)
(* a nested dataset it is what a fresh lookup of that very point gives.    *)
AnswersAreLookups ==
  \A i \in 1..Len(printed) : Lookups!IsAnswer(printed[i].stack, printed[i].point)

(* The screen may be redrawn by nextPoint() for a GSV sentence, from the   *)
(* stack that update() works on.  Watersheds on it are always those of one *)
(* result that was printed, never a stack that an update left half-way;    *)
(* and but for the moment between printing and drawing, it is the last     *)
(* result that had any.                                                    *)
ScreenShowsAnAnswer ==
  screen.shown # EmptyStack =>
    \E i \in 1..Len(printed) :
      /\ \A k \in 1..6 : screen.shown[k] = printed[i].stack[k]
      /\ main \in {"next", "update"} =>
           \A j \in (i + 1)..Len(printed) : printed[j].stack = EmptyStack

(* However main() leaves its loop, nothing that it allocated is left, but  *)
(* for the polygon lost when there is no memory for a name.                *)
CleanExit ==
  main = "exit" =>
    /\ pc = "closed" /\ pointGeoms = 0
    /\ \A r \in Row : names[r] = 0 /\ (result # "OutOfMemory" => geoms[r] = 0)

(* When the input has ended, so does the program, whatever is still in the *)
(* pipe and whatever fails on the way.                                     *)
EndsWithInput == closed ~> main = "exit"

(* A client that counts: if the program ends without an error, every line  *)
(* that was completed has its result, however late the pipe was closed.    *)
(* (What comes after the last '\n' is given up, see NoMorePoints.)         *)
CompleteAtEnd ==
  main = "exit" /\ status = "ok" /\ json /\ source = "stdin" => Len(printed) = written

(* The screen says "Your watershed stack:": between two points it shows    *)
(* the stack of the last one.                                              *)
ScreenIsCurrent ==
  main = "next" /\ screen.state = "watersheds" => screen.shown = Drawn

-----------------------------------------------------------------------------
(* main.js runs the program with its lines on standard input and --json.   *)
Serving == source = "stdin" /\ json

(* The line update() is working on, and those that wait.                   *)
Pending ==
  IF ~Serving \/ main \in {"unwind", "exit"} THEN <<>>
  ELSE (IF main = "update" THEN <<taken[Len(taken)]>> ELSE <<>>) \o unread

(* The line that a result answers.                                         *)
RequestOf(o) == [kind |-> "point", id |-> o.requestId, where |-> o.point]

(* The lines answered.                                                     *)
Replies ==
  IF Serving THEN [i \in DOMAIN printed |-> RequestOf(printed[i])] ELSE <<>>

InService == ~Serving \/ main \notin {"unwind", "exit"}

Contract == INSTANCE Service WITH
  Request <- Line, pending <- Pending, results <- Replies, up <- InService

(* With --json on standard input the program is the service that its       *)
(* client relies on: no request is skipped, answered twice or overtaken,   *)
(* and none waits for ever.                                                *)
Serves == Contract!FairSpec
=============================================================================
