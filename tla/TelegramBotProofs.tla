-------------------------- MODULE TelegramBotProofs --------------------------
(***************************************************************************)
(* Proofs about the Telegram bot, for any number of chats, locations and   *)
(* restarts.                                                               *)
(***************************************************************************)
EXTENDS TelegramBot, TLAPS

(* The acknowledgement, sent by this bot, of the location a line is about. *)
AckOf(line) ==
  [kind |-> "ack", about |-> line.about, chat |-> line.requestId, life |-> life]

(* A line that may be in a pipe: it names the chat that asked, which has   *)
(* seen this bot's acknowledgement.                                        *)
LineOK(line) == /\ line.about \in 1..Len(asked)
                /\ asked[line.about] = line.requestId
                /\ AckOf(line) \in arrived

PipesOK == /\ \A k \in 1..Len(stdin) : LineOK(stdin[k])
           /\ \A k \in 1..Len(stdout) : LineOK(stdout[k])

MessagesOK ==
  \A m \in outgoing \cup arrived :
    /\ m.about \in 1..Len(asked)
    /\ asked[m.about] = m.chat
    /\ m.kind = "result" => [m EXCEPT !.kind = "ack"] \in arrived

(* A bot that is gone leaves nothing behind that its successor, in another *)
(* life, could take for its own; and there is a life left for that one.    *)
GoneOK == /\ bot = "exited" =>
               /\ stdin = <<>> /\ stdout = <<>> /\ awaiting = {}
               /\ proc = "exited" /\ notice = "none"
          /\ bot = "exited" \/ notice # "none" => life < MaxLives

BotInv == TypeOK /\ PipesOK /\ MessagesOK /\ GoneOK

-----------------------------------------------------------------------------
(* Nothing has been sent at first.                                         *)
LEMMA BotInit == Init => BotInv
  BY TelegramAssumption
  DEF Init, BotInv, TypeOK, PipesOK, MessagesOK, GoneOK

(* What one line more does to a pipe.                                      *)
LEMMA Appended ==
  ASSUME NEW pipe \in Seq(Lines), NEW line \in Lines
  PROVE  /\ Append(pipe, line) \in Seq(Lines)
         /\ \A k \in 1..Len(Append(pipe, line)) :
              \/ k \in 1..Len(pipe) /\ Append(pipe, line)[k] = pipe[k]
              \/ Append(pipe, line)[k] = line
  OBVIOUS

(* What one line less does to it.                                          *)
LEMMA Taken ==
  ASSUME NEW pipe \in Seq(Lines), pipe # <<>>
  PROVE  /\ Head(pipe) \in Lines /\ Head(pipe) = pipe[1] /\ 1 \in 1..Len(pipe)
         /\ Tail(pipe) \in Seq(Lines)
         /\ \A k \in 1..Len(Tail(pipe)) :
              k + 1 \in 1..Len(pipe) /\ Tail(pipe)[k] = pipe[k + 1]
  OBVIOUS

(* The locations lost with a pipe are locations.                           *)
LEMMA HeldRequests ==
  ASSUME NEW pipe \in Seq(Lines)
  PROVE  Held(pipe) \subseteq Request
<1> SUFFICES ASSUME NEW k \in DOMAIN pipe PROVE pipe[k].about \in Request
  BY DEF Held
<1>1. pipe[k] \in Lines
  OBVIOUS
<1> QED
  BY <1>1 DEF Lines

(* Every step of users, Telegram, the bot and the oracle keeps the types.  *)
LEMMA TypeNext == BotInv /\ [Next]_vars => TypeOK'
<1> SUFFICES ASSUME BotInv, [Next]_vars PROVE TypeOK'
  OBVIOUS
<1> USE TelegramAssumption DEF BotInv, Request, Messages, telegram, local, child
<1>1. ASSUME NEW c \in Chat, SendLocation(c) PROVE TypeOK'
  <2>1. asked' \in Seq(Chat) /\ Len(asked') = Len(asked) + 1
    BY <1>1 DEF SendLocation, TypeOK
  <2> QED
    BY <1>1, <2>1 DEF SendLocation, TypeOK
<1>2. CASE OnLocation
  <2> DEFINE ack == Message("ack", polled', asked[polled'])
  <2>1. polled' \in 1..Len(asked) /\ asked[polled'] \in Chat
    BY <1>2 DEF OnLocation, TypeOK
  <2>2. ack \in Messages /\ ack.kind = "ack" /\ ack.life = life
    BY <2>1 DEF Message, TypeOK
  <2>3. outgoing' = outgoing \cup {ack} /\ awaiting' = awaiting \cup {ack}
    BY <1>2 DEF OnLocation
  <2>4. confirmed' \in 0..polled' /\ polled' \in 0..Len(asked)
    BY <1>2 DEF OnLocation, TypeOK
  <2> HIDE DEF ack, Messages
  <2> QED
    BY <1>2, <2>2, <2>3, <2>4 DEF OnLocation, WrittenOnLocation, TypeOK
<1>3. CASE PollNothing
  BY <1>3 DEF PollNothing, TypeOK
<1>4. ASSUME NEW m \in outgoing, Arrive(m) PROVE TypeOK'
  BY <1>4 DEF Arrive, TypeOK
<1>5. ASSUME NEW m \in outgoing, Fail(m) PROVE TypeOK'
  BY <1>5 DEF Fail, TypeOK
<1>6. ASSUME NEW m \in awaiting, Acknowledged(m) PROVE TypeOK'
  <2>1. m \in Messages
    BY DEF TypeOK
  <2> DEFINE line == [requestId |-> m.chat, about |-> m.about]
  <2>3. line \in Lines
    BY <2>1 DEF Lines
  <2>4. stdin' \in {stdin, Append(stdin, line)}
    BY <1>6 DEF Acknowledged, Written
  <2> HIDE DEF line
  <2>2. stdin' \in Seq(Lines)
    BY <2>3, <2>4, Appended DEF TypeOK
  <2> QED
    BY <1>6, <2>1, <2>2 DEF Acknowledged, TypeOK
<1>7. ASSUME NEW m \in awaiting, ConfirmationLost(m) PROVE TypeOK'
  BY <1>7 DEF ConfirmationLost, TypeOK
<1>8. CASE OracleAnswers
  <2>1. stdin' \in Seq(Lines) /\ stdout' \in Seq(Lines)
    BY <1>8, Taken, Appended DEF OracleAnswers, TypeOK
  <2> QED
    BY <1>8, <2>1 DEF OracleAnswers, TypeOK
<1>9. CASE OnLine
  <2>1. stdout' \in Seq(Lines) /\ Head(stdout) \in Lines
    BY <1>9, Taken DEF OnLine, LineReady, TypeOK
  <2>2. Reply(Head(stdout)) \in Messages
    BY <2>1 DEF Reply, Message, Lines, TypeOK
  <2> QED
    BY <1>9, <2>1, <2>2 DEF OnLine, TypeOK
<1>10. CASE OracleExits
  <2>1. Held(stdin) \subseteq Request
    BY HeldRequests DEF TypeOK
  <2>2. /\ stdin' = <<>> /\ stdout' = stdout /\ lost' = lost \cup Held(stdin)
        /\ UNCHANGED <<asked, confirmed, polled, awaiting, outgoing, arrived, bot, life>>
        /\ proc' = "exited" /\ notice' = "due"
    BY <1>10 DEF OracleExits
  <2>3. <<>> \in Seq(Lines)
    OBVIOUS
  <2> QED
    BY <2>1, <2>2, <2>3 DEF TypeOK
<1>11. CASE OnExit
  BY <1>11 DEF OnExit, TypeOK
<1>12. CASE NoticeArrives \/ BotDies
  <2>1. Held(stdin) \subseteq Request /\ Held(stdout) \subseteq Request
    BY HeldRequests DEF TypeOK
  <2>2. {m.about : m \in awaiting} \subseteq Request
    BY DEF TypeOK
  <2>3. /\ stdin' = <<>> /\ stdout' = <<>> /\ awaiting' = {}
        /\ lost' = lost \cup Held(stdin) \cup Held(stdout) \cup {m.about : m \in awaiting}
        /\ UNCHANGED <<asked, confirmed, polled, outgoing, arrived, life>>
        /\ proc' = "exited" /\ bot' = "exited" /\ notice' = "none"
    BY <1>12 DEF NoticeArrives, BotDies, BotGone, Surviving
  <2>4. <<>> \in Seq(Lines)
    OBVIOUS
  <2> QED
    BY <2>1, <2>2, <2>3, <2>4 DEF TypeOK
<1>13. CASE NoticeFails
  BY <1>13 DEF NoticeFails, TypeOK
<1>14. CASE Restart
  BY <1>14 DEF Restart, TypeOK, GoneOK
<1>15. CASE UNCHANGED vars
  BY <1>15 DEF vars, TypeOK
<1> QED
  BY <1>1, <1>2, <1>3, <1>4, <1>5, <1>6, <1>7, <1>8, <1>9, <1>10, <1>11, <1>12,
     <1>13, <1>14, <1>15 DEF Next

-----------------------------------------------------------------------------
(* As long as a life lasts, a line remains valid: nothing that was asked   *)
(* or that has arrived is ever taken back.                                 *)
LEMMA LineStays ==
  ASSUME TypeOK, NEW line, LineOK(line), life' = life, arrived \subseteq arrived',
         asked' = asked \/ \E c \in Chat : asked' = Append(asked, c)
  PROVE  LineOK(line)'
  BY DEF LineOK, AckOf, TypeOK

(* The same for a message, which does not even depend on the life.         *)
LEMMA MessageStays ==
  ASSUME TypeOK, MessagesOK, NEW m \in outgoing \cup arrived, arrived \subseteq arrived',
         asked' = asked \/ \E c \in Chat : asked' = Append(asked, c)
  PROVE  /\ m.about \in 1..Len(asked')
         /\ asked'[m.about] = m.chat
         /\ m.kind = "result" => [m EXCEPT !.kind = "ack"] \in arrived'
  BY DEF MessagesOK, TypeOK

(* No step takes anything back, and only a restart begins another life.    *)
LEMMA Grows ==
  ASSUME [Next]_vars
  PROVE  /\ arrived \subseteq arrived'
         /\ asked' = asked \/ \E c \in Chat : asked' = Append(asked, c)
         /\ life' = life \/ Restart
  BY DEF Next, vars, telegram, local, child, SendLocation, OnLocation, PollNothing,
         Arrive, Fail, Acknowledged, ConfirmationLost, OracleAnswers, OnLine,
         OracleExits, OnExit, NoticeArrives, NoticeFails, BotDies, BotGone, Restart

(* Lines are written once their acknowledgement has arrived, and pass from *)
(* one pipe to the other as they are.                                      *)
LEMMA PipesNext == BotInv /\ [Next]_vars => PipesOK'
<1> SUFFICES ASSUME BotInv, [Next]_vars PROVE PipesOK'
  OBVIOUS
<1>a. TypeOK /\ stdin \in Seq(Lines) /\ stdout \in Seq(Lines)
  BY DEF BotInv, TypeOK
<1>b. /\ \A k \in 1..Len(stdin) : LineOK(stdin[k])
      /\ \A k \in 1..Len(stdout) : LineOK(stdout[k])
  BY DEF BotInv, PipesOK
<1>c. \A line : LineOK(line) /\ life' = life => LineOK(line)'
  BY <1>a, Grows, LineStays
<1>1. CASE Restart
  BY <1>1 DEF Restart, BotInv, GoneOK, PipesOK
<1>2. CASE OracleAnswers
  <2>1. life' = life /\ stdin # <<>>
    BY <1>2 DEF OracleAnswers
  <2>2. LineOK(Head(stdin)) /\ Head(stdin) \in Lines
    BY <1>a, <1>b, <2>1, Taken
  <2>3. \A k \in 1..Len(Tail(stdin)) : LineOK(Tail(stdin)[k])
    BY <1>a, <1>b, <2>1, Taken
  <2>4. \A k \in 1..Len(Append(stdout, Head(stdin))) :
          LineOK(Append(stdout, Head(stdin))[k])
    BY <1>a, <1>b, <2>2, Appended
  <2>5. stdin' = Tail(stdin) /\ stdout' = Append(stdout, Head(stdin))
    BY <1>2 DEF OracleAnswers
  <2> QED
    BY <1>c, <2>1, <2>3, <2>4, <2>5 DEF PipesOK
<1>3. CASE OnLine
  <2>1. life' = life /\ stdin' = stdin /\ stdout' = Tail(stdout) /\ stdout # <<>>
    BY <1>3 DEF OnLine, LineReady, child
  <2>2. \A k \in 1..Len(Tail(stdout)) : LineOK(Tail(stdout)[k])
    BY <1>a, <1>b, <2>1, Taken
  <2> QED
    BY <1>b, <1>c, <2>1, <2>2 DEF PipesOK
<1>4. ASSUME NEW m \in awaiting, Acknowledged(m) PROVE PipesOK'
  <2> DEFINE line == [requestId |-> m.chat, about |-> m.about]
  <2>1. m \in Messages /\ m.kind = "ack" /\ m.life = life /\ m \in arrived
    BY <1>a, <1>4 DEF TypeOK, Acknowledged
  <2>2. m = AckOf(line) /\ line \in Lines
    BY <2>1 DEF AckOf, Messages, Lines
  <2>3. LineOK(line)
    BY <2>1, <2>2 DEF LineOK, BotInv, MessagesOK
  <2>4. life' = life /\ stdout' = stdout /\ stdin' \in {stdin, Append(stdin, line)}
    BY <1>4 DEF Acknowledged, Written
  <2> HIDE DEF line
  <2>5. \A k \in 1..Len(Append(stdin, line)) : LineOK(Append(stdin, line)[k])
    BY <1>a, <1>b, <2>2, <2>3, Appended
  <2> QED
    BY <1>b, <1>c, <2>4, <2>5 DEF PipesOK
<1>5. CASE OracleExits \/ NoticeArrives \/ BotDies
  <2>1. life' = life /\ stdin' = <<>> /\ stdout' \in {<<>>, stdout}
    BY <1>5 DEF OracleExits, NoticeArrives, BotDies, BotGone
  <2> QED
    BY <1>b, <1>c, <2>1 DEF PipesOK
<1>6. CASE stdin' = stdin /\ stdout' = stdout /\ life' = life
  BY <1>b, <1>c, <1>6 DEF PipesOK
<1> QED
  BY <1>1, <1>2, <1>3, <1>4, <1>5, <1>6
  DEF Next, vars, telegram, local, child, SendLocation, OnLocation, WrittenOnLocation,
      PollNothing, Arrive, Fail, ConfirmationLost, OnExit, NoticeFails

(* Messages are sent to who asked, results only from lines in the pipe.    *)
LEMMA MessagesNext == BotInv /\ [Next]_vars => MessagesOK'
<1> SUFFICES ASSUME BotInv, [Next]_vars PROVE MessagesOK'
  OBVIOUS
<1>a. TypeOK /\ MessagesOK
  BY DEF BotInv
<1>b. \A m \in outgoing \cup arrived :
        /\ m.about \in 1..Len(asked')
        /\ asked'[m.about] = m.chat
        /\ m.kind = "result" => [m EXCEPT !.kind = "ack"] \in arrived'
  BY <1>a, Grows, MessageStays
<1>1. CASE OnLocation
  <2> DEFINE ack == Message("ack", polled', asked[polled'])
  <2>1. polled' \in 1..Len(asked)
    BY <1>1, <1>a DEF OnLocation, TypeOK
  <2>2. ack.about = polled' /\ ack.chat = asked[polled'] /\ ack.kind # "result"
    BY DEF Message
  <2>3. /\ asked' = asked /\ arrived' = arrived
        /\ outgoing' = outgoing \cup {ack}
    BY <1>1 DEF OnLocation
  <2> HIDE DEF ack
  <2> QED
    BY <1>b, <2>1, <2>2, <2>3 DEF MessagesOK
<1>2. CASE OnLine
  <2> DEFINE line == Head(stdout)
             reply == Reply(line)
  <2>1. LineOK(line)
    BY <1>2, <1>a, Taken DEF OnLine, LineReady, BotInv, TypeOK, PipesOK
  <2>2. /\ reply.about = line.about /\ reply.chat = line.requestId
        /\ [reply EXCEPT !.kind = "ack"] = AckOf(line)
    BY DEF Reply, Message, AckOf
  <2>3. /\ asked' = asked /\ arrived' = arrived
        /\ outgoing' = outgoing \cup {reply}
    BY <1>2 DEF OnLine, telegram
  <2> HIDE DEF reply, line
  <2> QED
    BY <1>b, <2>1, <2>2, <2>3 DEF MessagesOK, LineOK
<1>3. CASE outgoing' \cup arrived' \subseteq outgoing \cup arrived
  BY <1>b, <1>3 DEF MessagesOK
<1> QED
  BY <1>1, <1>2, <1>3
  DEF Next, vars, SendLocation, PollNothing, Arrive, Fail, Acknowledged,
      ConfirmationLost, OracleAnswers, OracleExits, OnExit, NoticeArrives,
      NoticeFails, BotDies, Restart

(* Pipes and promises go with their bot.                                   *)
LEMMA GoneNext == BotInv /\ [Next]_vars => GoneOK'
<1> SUFFICES ASSUME BotInv, [Next]_vars PROVE GoneOK'
  OBVIOUS
<1> USE DEF GoneOK, telegram, local, child
<1>a. GoneOK /\ life \in Nat /\ MaxLives \in Nat
  BY TelegramAssumption DEF BotInv, TypeOK
<1>1. CASE \/ \E c \in Chat : SendLocation(c)
           \/ PollNothing
           \/ \E m \in outgoing : Arrive(m) \/ Fail(m)
           \/ UNCHANGED vars
  BY <1>1, <1>a DEF SendLocation, PollNothing, Arrive, Fail, vars
<1>2. CASE OnLocation \/ OnLine \/ OnExit \/ NoticeFails
  BY <1>2, <1>a DEF OnLocation, OnLine, OnExit, NoticeFails, Running
<1>3. CASE \E m \in awaiting : Acknowledged(m) \/ ConfirmationLost(m)
  BY <1>3, <1>a DEF Acknowledged, ConfirmationLost
<1>4. CASE OracleAnswers \/ OracleExits
  BY <1>4, <1>a DEF OracleAnswers, OracleExits
<1>5. CASE NoticeArrives \/ BotDies
  BY <1>5, <1>a DEF NoticeArrives, BotDies, BotGone, Surviving
<1>6. CASE Restart
  BY <1>6, <1>a DEF Restart
<1> QED
  BY <1>1, <1>2, <1>3, <1>4, <1>5, <1>6 DEF Next

-----------------------------------------------------------------------------
(* The four parts together are an invariant.                               *)
LEMMA BotNext == BotInv /\ [Next]_vars => BotInv'
  BY TypeNext, PipesNext, MessagesNext, GoneNext DEF BotInv

(* The bot's variables keep their types, and the promises that are pending *)
(* are always this very bot's.                                             *)
THEOREM BotTypeCorrect == Spec => []TypeOK
<1>1. BotInv => TypeOK
  BY DEF BotInv
<1> QED
  BY <1>1, BotInit, BotNext, PTL DEF Spec

(* Nothing ever arrives in a chat but about a location sent from there.    *)
THEOREM OwnChats == Spec => []OwnChat
<1>1. BotInv => OwnChat
  BY DEF BotInv, MessagesOK, OwnChat
<1> QED
  BY <1>1, BotInit, BotNext, PTL DEF Spec

(* No result ever arrives before its acknowledgement has, whatever is      *)
(* overtaken, lost or restarted.                                           *)
THEOREM AcksFirst == Spec => []AckFirst
<1>1. BotInv => AckFirst
  BY DEF BotInv, MessagesOK, AckFirst
<1> QED
  BY <1>1, BotInit, BotNext, PTL DEF Spec

-----------------------------------------------------------------------------
(* A step of the bot is a step of a client of Service, or does not touch   *)
(* the oracle.                                                             *)
LEMMA ServedNext == BotInv /\ [Next]_vars => [Contract!Next]_(Contract!vars)
<1> SUFFICES ASSUME BotInv, [Next]_vars PROVE [Contract!Next]_(Contract!vars)
  OBVIOUS
<1> USE DEF Contract!vars, Contract!Next, telegram, local, child
<1>1. CASE UNCHANGED child
  BY <1>1
<1>2. CASE \E m \in awaiting : Acknowledged(m)
  <2>1. PICK m \in awaiting : Acknowledged(m)
    BY <1>2
  <2> DEFINE line == [requestId |-> m.chat, about |-> m.about]
  <2>2. m \in Messages
    BY <2>1 DEF BotInv, TypeOK, Acknowledged
  <2>3. line \in Lines
    BY <2>2 DEF Messages, Lines
  <2>4. /\ UNCHANGED <<stdout, proc>>
        /\ stdin' = IF proc = "running" THEN Append(stdin, line) ELSE stdin
    BY <2>1 DEF Acknowledged, Written
  <2> HIDE DEF line
  <2> QED
    BY <2>3, <2>4 DEF Contract!Submit
<1>3. CASE OracleAnswers
  BY <1>3 DEF OracleAnswers, Contract!Answer
<1>4. CASE OnLine
  BY <1>4 DEF OnLine, LineReady, Contract!Read
<1>5. CASE OracleExits
  BY <1>5 DEF OracleExits, Contract!Stop
<1>6. CASE NoticeArrives \/ BotDies
  BY <1>6 DEF NoticeArrives, BotDies, BotGone, Contract!Abandon
<1>7. CASE Restart
  <2>1. proc = "exited"
    BY <1>7 DEF Restart, BotInv, GoneOK
  <2> QED
    BY <1>7, <2>1 DEF Restart, Contract!Start
<1> QED
  BY <1>1, <1>2, <1>3, <1>4, <1>5, <1>6, <1>7
  DEF Next, vars, SendLocation, OnLocation, WrittenOnLocation, PollNothing, Arrive, Fail,
      ConfirmationLost, OnExit, NoticeFails

(* The bot is a client of the very service that Oracle is proved to be     *)
(* (ServesSafely): the safety part of ServedByOracle.                      *)
THEOREM ServedSafely == Spec => Contract!Spec
<1>1. Init => Contract!Init
  BY DEF Init, Contract!Init
<1> QED
  BY <1>1, BotInit, BotNext, ServedNext, PTL DEF Spec, Contract!Spec
-----------------------------------------------------------------------------
(* Where a location can be: its acknowledgement is under way, it is in one *)
(* of the oracle's pipes, or its result has been sent.                     *)
Pending == {m.about : m \in awaiting}

Sent(ms) == {m.about : m \in {n \in ms : n.kind = "result"}}

(* Those that this bot has sent.                                           *)
SentNow == Sent({m \in outgoing \cup arrived : m.life = life})

(* No location is ever forgotten: it is with Telegram, which will tell of  *)
(* it, or on its way, or answered, or a message about this very location   *)
(* or a process that held it was lost.  What EveryRequestAnswered rests on.*)
NoneForgotten ==
  \A i \in 1..Len(asked) :
    \/ i > polled
    \/ i \in lost
    \/ i \in Pending \cup Held(stdin) \cup Held(stdout) \cup Sent(outgoing \cup arrived)

NoTwice(pipe) == \A j, k \in DOMAIN pipe : pipe[j].about = pipe[k].about => j = k

(* As long as a bot lives no location is in two places: it is asked for    *)
(* once, printed once, and answered once.                                  *)
OncePerLife ==
  /\ NoTwice(stdin) /\ NoTwice(stdout)
  /\ Pending \cap Held(stdin) = {}
  /\ Pending \cap Held(stdout) = {}
  /\ Pending \cap SentNow = {}
  /\ Held(stdin) \cap Held(stdout) = {}
  /\ Held(stdin) \cap SentNow = {}
  /\ Held(stdout) \cap SentNow = {}

(* And all of it was handled by this bot, or by one before it.             *)
HandledNow ==
  /\ Pending \cup Held(stdin) \cup Held(stdout) \cup SentNow \subseteq 1..polled
  /\ \A m \in outgoing \cup arrived : m.life <= life
Places == NoneForgotten /\ OncePerLife /\ HandledNow

(* A line that is written, and one that is read.                           *)
LEMMA HeldAppend ==
  ASSUME NEW pipe \in Seq(Lines), NEW line \in Lines
  PROVE  /\ Held(Append(pipe, line)) = Held(pipe) \cup {line.about}
         /\ NoTwice(pipe) /\ line.about \notin Held(pipe) => NoTwice(Append(pipe, line))
<1> DEFINE more == Append(pipe, line)
<1>1. /\ DOMAIN more = 1..(Len(pipe) + 1) /\ DOMAIN pipe = 1..Len(pipe)
      /\ more[Len(pipe) + 1] = line
      /\ \A k \in 1..Len(pipe) : more[k] = pipe[k]
      /\ Len(pipe) \in Nat
  OBVIOUS
<1>2. \A k \in 1..(Len(pipe) + 1) : k \in 1..Len(pipe) \/ k = Len(pipe) + 1
  BY <1>1
<1>3. Len(pipe) + 1 \in 1..(Len(pipe) + 1) /\ 1..Len(pipe) \subseteq 1..(Len(pipe) + 1)
  BY <1>1
<1> HIDE DEF more
<1>4. Held(more) = Held(pipe) \cup {line.about}
  BY <1>1, <1>2, <1>3 DEF Held
<1>5. ASSUME NoTwice(pipe), line.about \notin Held(pipe) PROVE NoTwice(more)
  BY <1>1, <1>2, <1>5 DEF Held, NoTwice
<1> QED
  BY <1>4, <1>5 DEF more

LEMMA HeldTail ==
  ASSUME NEW pipe \in Seq(Lines), pipe # <<>>, NoTwice(pipe)
  PROVE  /\ Held(pipe) = Held(Tail(pipe)) \cup {Head(pipe).about}
         /\ Head(pipe).about \notin Held(Tail(pipe))
         /\ NoTwice(Tail(pipe))
<1> DEFINE rest == Tail(pipe)
<1>1. /\ DOMAIN rest = 1..(Len(pipe) - 1) /\ DOMAIN pipe = 1..Len(pipe)
      /\ Head(pipe) = pipe[1]
      /\ \A k \in 1..(Len(pipe) - 1) : rest[k] = pipe[k + 1]
      /\ Len(pipe) \in Nat /\ Len(pipe) >= 1
  OBVIOUS
<1>2. /\ \A k \in 1..Len(pipe) : k = 1 \/ (k - 1 \in 1..(Len(pipe) - 1) /\ (k - 1) + 1 = k)
      /\ \A k \in 1..(Len(pipe) - 1) : k + 1 \in 1..Len(pipe) /\ k + 1 # 1
      /\ 1 \in 1..Len(pipe)
  BY <1>1
<1> HIDE DEF rest
<1>3. ASSUME NEW k \in 1..Len(pipe) PROVE pipe[k].about \in Held(rest) \cup {Head(pipe).about}
  <2>1. CASE k = 1
    BY <1>1, <2>1
  <2>2. CASE k # 1
    <3>1. k - 1 \in DOMAIN rest /\ rest[k - 1] = pipe[k]
      BY <1>1, <1>2, <2>2
    <3>2. rest[k - 1].about \in Held(rest)
      BY <3>1 DEF Held
    <3> QED
      BY <3>1, <3>2
  <2> QED
    BY <2>1, <2>2
<1>4. ASSUME NEW k \in 1..(Len(pipe) - 1)
      PROVE  rest[k].about \in Held(pipe) /\ rest[k].about # Head(pipe).about
  BY <1>1, <1>2 DEF Held, NoTwice
<1>5. NoTwice(rest)
  <2> SUFFICES ASSUME NEW j \in 1..(Len(pipe) - 1), NEW k \in 1..(Len(pipe) - 1),
                      rest[j].about = rest[k].about
               PROVE  j = k
    BY <1>1 DEF NoTwice
  <2>1. j + 1 = k + 1
    BY <1>1, <1>2 DEF NoTwice
  <2> QED
    BY <2>1
<1>6. Head(pipe).about \in Held(pipe)
  BY <1>1, <1>2 DEF Held
<1>7. Held(pipe) \subseteq Held(rest) \cup {Head(pipe).about}
  BY <1>1, <1>3 DEF Held
<1>8. Held(rest) \subseteq Held(pipe) \ {Head(pipe).about}
  BY <1>1, <1>4 DEF Held
<1>9. /\ Held(pipe) = Held(rest) \cup {Head(pipe).about}
      /\ Head(pipe).about \notin Held(rest)
  BY <1>6, <1>7, <1>8
<1> QED
  BY <1>5, <1>9 DEF rest

(* A location has one acknowledgement in a life of the bot.                *)
LEMMA OneAck ==
  ASSUME BotInv, NEW m \in awaiting, NEW n \in awaiting, m.about = n.about
  PROVE  m = n
<1>1. /\ m \in Messages /\ m.kind = "ack" /\ m.life = life
      /\ n \in Messages /\ n.kind = "ack" /\ n.life = life
  BY DEF BotInv, TypeOK
<1>2. m.chat = n.chat
  BY DEF BotInv, TypeOK, MessagesOK
<1> QED
  BY <1>1, <1>2 DEF Messages

LEMMA PlacesInit == Init => Places
  BY DEF Init, Places, NoneForgotten, OncePerLife, HandledNow, NoTwice, Pending, Held,
         Sent, SentNow

(* Every step moves a location from one place to the next, or loses it.    *)
LEMMA PlacesNext == BotInv /\ Places /\ [Next]_vars => Places'
<1> SUFFICES ASSUME BotInv, Places, [Next]_vars PROVE Places'
  OBVIOUS
<1> USE DEF telegram, local, child
<1>t. /\ stdin \in Seq(Lines) /\ stdout \in Seq(Lines)
      /\ polled \in 0..Len(asked) /\ Len(asked) \in Nat /\ life \in Nat
      /\ NoTwice(stdin) /\ NoTwice(stdout)
  BY DEF BotInv, TypeOK, Places, OncePerLife
<1>1. CASE /\ UNCHANGED <<polled, awaiting, stdin, stdout, lost, life>>
           /\ outgoing' \cup arrived' = outgoing \cup arrived
           /\ asked' = asked \/ \E c \in Chat : asked' = Append(asked, c)
  <2>1. UNCHANGED <<Pending, Held(stdin), Held(stdout), Sent(outgoing \cup arrived), SentNow>>
    BY <1>1 DEF Pending, Held, Sent, SentNow
  <2>2. \A i \in 1..Len(asked') : i \in 1..Len(asked) \/ i > polled
    BY <1>1, <1>t DEF BotInv, TypeOK
  <2>3. NoTwice(stdin)' /\ NoTwice(stdout)'
    BY <1>1, <1>t DEF NoTwice
  <2> QED
    BY <1>1, <2>1, <2>2, <2>3 DEF Places, NoneForgotten, OncePerLife, HandledNow
<1>2. CASE OnLocation
  <2> DEFINE ack == Message("ack", polled', asked[polled'])
  <2>1. /\ polled' = polled + 1 /\ awaiting' = awaiting \cup {ack}
        /\ outgoing' = outgoing \cup {ack}
        /\ UNCHANGED <<asked, arrived, stdin, stdout, lost, life>>
    BY <1>2 DEF OnLocation, WrittenOnLocation
  <2>2. ack.about = polled + 1 /\ ack.kind = "ack" /\ ack.life = life
    BY <2>1 DEF Message
  <2> HIDE DEF ack
  <2>3. Pending' = Pending \cup {polled + 1}
    BY <2>1, <2>2 DEF Pending
  <2>4. /\ UNCHANGED <<Held(stdin), Held(stdout)>>
        /\ Sent(outgoing \cup arrived)' = Sent(outgoing \cup arrived)
        /\ SentNow' = SentNow
    BY <2>1, <2>2 DEF Held, Sent, SentNow
  <2>5. NoTwice(stdin)' /\ NoTwice(stdout)'
    BY <2>1, <1>t DEF NoTwice
  <2>6. polled + 1 \notin Held(stdin) \cup Held(stdout) \cup SentNow
    BY <1>t DEF Places, HandledNow
  <2>7. /\ 1..polled' = 1..polled \cup {polled + 1}
        /\ \A i \in 1..Len(asked) : i > polled => i = polled + 1 \/ i > polled'
    BY <1>t, <2>1
  <2>8. \A m \in outgoing' \cup arrived' : m.life <= life
    BY <1>t, <2>1, <2>2 DEF Places, HandledNow
  <2> QED
    BY <2>1, <2>3, <2>4, <2>5, <2>6, <2>7, <2>8 DEF Places, NoneForgotten, OncePerLife, HandledNow
<1>3. ASSUME NEW m \in outgoing, Fail(m) PROVE Places'
  <2>1. /\ outgoing' = outgoing \ {m} /\ awaiting' = awaiting \ {m}
        /\ lost' = lost \cup {m.about}
        /\ UNCHANGED <<asked, polled, arrived, stdin, stdout, life>>
    BY <1>3 DEF Fail
  <2>2. Pending' \subseteq Pending /\ Pending \subseteq Pending' \cup {m.about}
    BY <2>1 DEF Pending
  <2>3. /\ SentNow' \subseteq SentNow
        /\ Sent(outgoing \cup arrived) \subseteq Sent(outgoing \cup arrived)' \cup {m.about}
    BY <2>1 DEF Sent, SentNow
  <2>4. UNCHANGED <<Held(stdin), Held(stdout)>> /\ NoTwice(stdin)' /\ NoTwice(stdout)'
    BY <2>1, <1>t DEF Held, NoTwice
  <2> QED
    BY <2>1, <2>2, <2>3, <2>4 DEF Places, NoneForgotten, OncePerLife, HandledNow
<1>4. ASSUME NEW m \in awaiting, Acknowledged(m) \/ ConfirmationLost(m) PROVE Places'
  <2> DEFINE line == [requestId |-> m.chat, about |-> m.about]
  <2>1. /\ awaiting' = awaiting \ {m}
        /\ UNCHANGED <<asked, polled, outgoing, arrived, stdout, life>>
        /\ \/ stdin' = Append(stdin, line) /\ lost' = lost
           \/ stdin' = stdin /\ lost' = lost \cup {m.about}
    BY <1>4 DEF Acknowledged, Written, ConfirmationLost
  <2>2. line \in Lines /\ line.about = m.about
    <3>1. m \in Messages
      BY DEF BotInv, TypeOK
    <3> QED
      BY <3>1 DEF Messages, Lines
  <2> HIDE DEF line
  <2>3. m.about \in Pending /\ Pending' = Pending \ {m.about}
    BY <2>1, OneAck DEF Pending
  <2>4. /\ UNCHANGED <<Held(stdout), Sent(outgoing \cup arrived), SentNow>>
        /\ NoTwice(stdout)'
    BY <2>1, <1>t DEF Held, NoTwice, Sent, SentNow
  <2>5. CASE stdin' = Append(stdin, line) /\ lost' = lost
    <3>1. m.about \notin Held(stdin)
      BY <2>3 DEF Places, OncePerLife
    <3>2. Held(stdin') = Held(stdin) \cup {m.about} /\ NoTwice(stdin')
      BY <1>t, <2>2, <2>5, <3>1, HeldAppend
    <3>3. Held(stdin)' = Held(stdin') /\ NoTwice(stdin)'
      BY <3>2 DEF Held, NoTwice
    <3> QED
      BY <2>1, <2>3, <2>4, <2>5, <3>1, <3>2, <3>3
      DEF Places, NoneForgotten, OncePerLife, HandledNow
  <2>6. CASE stdin' = stdin /\ lost' = lost \cup {m.about}
    <3>1. Held(stdin)' = Held(stdin) /\ NoTwice(stdin)'
      BY <1>t, <2>6 DEF Held, NoTwice
    <3> QED
      BY <2>1, <2>3, <2>4, <2>6, <3>1 DEF Places, NoneForgotten, OncePerLife, HandledNow
  <2> QED
    BY <2>1, <2>5, <2>6
<1>5. CASE OracleAnswers
  <2> DEFINE line == Head(stdin)
  <2>1. /\ stdin # <<>> /\ stdin' = Tail(stdin) /\ stdout' = Append(stdout, line)
        /\ UNCHANGED <<asked, polled, awaiting, outgoing, arrived, lost, life>>
    BY <1>5 DEF OracleAnswers
  <2>2. line \in Lines
    BY <1>t, <2>1, Taken
  <2>3. /\ Held(stdin) = Held(stdin') \cup {line.about} /\ line.about \notin Held(stdin')
        /\ NoTwice(stdin')
    BY <1>t, <2>1, HeldTail
  <2>4. line.about \notin Held(stdout)
    BY <2>3 DEF Places, OncePerLife
  <2> HIDE DEF line
  <2>5. Held(stdout') = Held(stdout) \cup {line.about} /\ NoTwice(stdout')
    BY <1>t, <2>1, <2>2, <2>4, HeldAppend
  <2>6. /\ Held(stdin)' = Held(stdin') /\ Held(stdout)' = Held(stdout')
        /\ NoTwice(stdin)' /\ NoTwice(stdout)'
    BY <2>3, <2>5 DEF Held, NoTwice
  <2>7. UNCHANGED <<Pending, Sent(outgoing \cup arrived), SentNow>>
    BY <2>1 DEF Pending, Sent, SentNow
  <2> QED
    BY <2>1, <2>3, <2>4, <2>5, <2>6, <2>7 DEF Places, NoneForgotten, OncePerLife, HandledNow
<1>6. CASE OnLine
  <2> DEFINE line == Head(stdout)
             reply == Reply(line)
  <2>1. /\ stdout # <<>> /\ stdout' = Tail(stdout) /\ outgoing' = outgoing \cup {reply}
        /\ UNCHANGED <<asked, polled, awaiting, arrived, stdin, lost, life>>
    BY <1>6 DEF OnLine, LineReady
  <2>2. /\ Held(stdout) = Held(stdout') \cup {line.about} /\ line.about \notin Held(stdout')
        /\ NoTwice(stdout')
    BY <1>t, <2>1, HeldTail
  <2>3. reply.kind = "result" /\ reply.about = line.about /\ reply.life = life
    BY DEF Reply, Message
  <2> HIDE DEF line, reply
  <2>4. /\ Sent(outgoing \cup arrived)' = Sent(outgoing \cup arrived) \cup {line.about}
        /\ SentNow' = SentNow \cup {line.about}
    BY <2>1, <2>3 DEF Sent, SentNow
  <2>5. /\ Held(stdin)' = Held(stdin) /\ Held(stdout)' = Held(stdout')
        /\ NoTwice(stdin)' /\ NoTwice(stdout)'
    BY <1>t, <2>1, <2>2 DEF Held, NoTwice
  <2>6. UNCHANGED Pending
    BY <2>1 DEF Pending
  <2>7. \A m \in outgoing' \cup arrived' : m.life <= life
    BY <1>t, <2>1, <2>3 DEF Places, HandledNow
  <2> QED
    BY <2>1, <2>2, <2>4, <2>5, <2>6, <2>7 DEF Places, NoneForgotten, OncePerLife, HandledNow
<1>7. CASE OracleExits
  <2>1. /\ stdin' = <<>> /\ lost' = lost \cup Held(stdin)
        /\ UNCHANGED <<asked, polled, awaiting, outgoing, arrived, stdout, life>>
    BY <1>7 DEF OracleExits
  <2>2. /\ Held(stdin)' = {} /\ NoTwice(stdin)'
        /\ UNCHANGED <<Pending, Held(stdout), Sent(outgoing \cup arrived), SentNow>>
        /\ NoTwice(stdout)'
    BY <1>t, <2>1 DEF Held, NoTwice, Pending, Sent, SentNow
  <2> QED
    BY <2>1, <2>2 DEF Places, NoneForgotten, OncePerLife, HandledNow
<1>8. CASE NoticeArrives \/ BotDies
  <2>1. /\ stdin' = <<>> /\ stdout' = <<>> /\ awaiting' = {}
        /\ lost' = lost \cup Held(stdin) \cup Held(stdout) \cup Pending
        /\ UNCHANGED <<asked, polled, outgoing, arrived, life>>
    BY <1>8 DEF NoticeArrives, BotDies, BotGone, Surviving, Pending
  <2>2. /\ Held(stdin)' = {} /\ NoTwice(stdin)' /\ Held(stdout)' = {} /\ NoTwice(stdout)'
        /\ Pending' = {}
        /\ UNCHANGED <<Sent(outgoing \cup arrived), SentNow>>
    BY <2>1 DEF Held, NoTwice, Pending, Sent, SentNow
  <2> QED
    BY <2>1, <2>2 DEF Places, NoneForgotten, OncePerLife, HandledNow
<1>9. CASE Restart
  <2>1. /\ polled' = confirmed /\ life' = life + 1
        /\ stdin = <<>> /\ stdout = <<>> /\ awaiting = {}
        /\ UNCHANGED <<asked, awaiting, stdin, stdout, outgoing, arrived, lost>>
    BY <1>9 DEF Restart, BotInv, GoneOK
  <2>2. /\ Held(stdin)' = {} /\ NoTwice(stdin)' /\ Held(stdout)' = {} /\ NoTwice(stdout)'
        /\ Held(stdin) = {} /\ Held(stdout) = {} /\ Pending = {} /\ Pending' = {}
        /\ UNCHANGED Sent(outgoing \cup arrived)
    BY <2>1 DEF Held, NoTwice, Pending, Sent
  <2>3. SentNow' = {}
    <3>1. \A m \in outgoing \cup arrived : m.life <= life /\ m.life \in Int
      BY DEF BotInv, TypeOK, Messages, Places, HandledNow
    <3>2. \A m \in outgoing' \cup arrived' : m.life # life'
      BY <2>1, <3>1 DEF BotInv, TypeOK
    <3> QED
      BY <3>2 DEF Sent, SentNow
  <2>4. \A i \in 1..Len(asked) : i > polled => i > polled'
    BY <1>t, <2>1 DEF BotInv, TypeOK
  <2>5. \A m \in outgoing' \cup arrived' : m.life <= life'
    <3>1. \A m \in outgoing \cup arrived : m.life <= life /\ m.life \in Int
      BY DEF BotInv, TypeOK, Messages, Places, HandledNow
    <3> QED
      BY <2>1, <3>1 DEF BotInv, TypeOK
  <2>6. NoneForgotten'
    BY <2>1, <2>2, <2>4 DEF Places, NoneForgotten
  <2>7. OncePerLife'
    BY <2>2, <2>3 DEF OncePerLife
  <2>8. HandledNow'
    BY <2>2, <2>3, <2>5 DEF HandledNow
  <2> QED
    BY <2>6, <2>7, <2>8 DEF Places
<1> QED
  BY <1>1, <1>2, <1>3, <1>4, <1>5, <1>6, <1>7, <1>8, <1>9
  DEF Next, vars, SendLocation, PollNothing, Arrive, OnExit, NoticeFails

(* All the places are accounted for at all times.                          *)
LEMMA PlacesAlways == Spec => []Places
  BY BotInit, BotNext, PlacesInit, PlacesNext, PTL DEF Spec

(* Whatever is overtaken, lost or restarted, no location is forgotten.     *)
THEOREM NothingForgotten == Spec => []NoneForgotten
<1>1. Places => NoneForgotten
  BY DEF Places
<1> QED
  BY <1>1, PlacesAlways, PTL

(* A bot puts no location to the oracle twice, and sends no result twice.  *)
THEOREM NoDoubles == Spec => []OncePerLife
<1>1. Places => OncePerLife
  BY DEF Places
<1> QED
  BY <1>1, PlacesAlways, PTL
=============================================================================
