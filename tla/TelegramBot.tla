---------------------------- MODULE TelegramBot ----------------------------
(***************************************************************************)
(* The Telegram bot of telegramBot/main.js and the watershedOracle that it *)
(* runs as a child process.                                                *)
(*                                                                         *)
(* A user sends a location.  The bot acknowledges it and, once Telegram    *)
(* confirms that the acknowledgement was delivered, writes the request to  *)
(* the oracle.  Each line that the oracle prints is sent to the chat whose *)
(* id it carries as requestId.  When the oracle exits, the bot tells a     *)
(* debug chat and, once that was delivered, exits; systemd restarts it.    *)
(*                                                                         *)
(* Messages take their time, overtake one another and get lost; so do the  *)
(* confirmations that the promises of sendMessage() wait for.              *)
(***************************************************************************)
EXTENDS Integers, Sequences

CONSTANTS Chat,
          DebugChat,     \* is DEBUG_CHAT_ID defined?
          MaxRequests,   \* bound on the locations sent
          MaxLives       \* bound on how often the bot is started

ASSUME TelegramAssumption == /\ DebugChat \in BOOLEAN
                             /\ MaxRequests \in Nat
                             /\ MaxLives \in Nat \ {0}

VARIABLES
  asked,      \* asked[i]: the chat that sent location i
  confirmed,  \* updates that Telegram need not send again
  polled,     \* updates that this bot has handled
  outgoing,   \* messages on their way
  arrived,    \* messages that are in their chat
  awaiting,   \* acknowledgements whose promise is pending in this bot
  stdin,      \* requests written to the oracle
  stdout,     \* results printed by it
  proc,       \* the oracle
  notice,     \* the message to the debug chat: "watershedOracle .. exited"
  bot,        \* the bot's own process
  life,       \* how often it was started
  lost        \* history: locations that a message or a process was lost with

telegram == <<asked, confirmed>>
local == <<polled, awaiting>>
child == <<stdin, stdout, proc>>
vars == <<telegram, local, child, outgoing, arrived, notice, bot, life, lost>>

Request == 1..MaxRequests

Message(kind, i, chat) == [kind |-> kind, about |-> i, chat |-> chat, life |-> life]

Messages ==
  [kind : {"ack", "result"}, about : Request, chat : Chat, life : 1..MaxLives]

Running == bot = "running"

(* The locations that lines in a pipe are about.                           *)
Held(lines) == {lines[k].about : k \in DOMAIN lines}

-----------------------------------------------------------------------------
Init == /\ asked = <<>>
        /\ confirmed = 0
        /\ polled = 0
        /\ outgoing = {}
        /\ arrived = {}
        /\ awaiting = {}
        /\ stdin = <<>>
        /\ stdout = <<>>
        /\ proc = "running"
        /\ notice = "none"
        /\ bot = "running"
        /\ life = 1
        /\ lost = {}

(* A user shares a location.                                               *)
SendLocation(c) ==
  /\ Len(asked) < MaxRequests
  /\ asked' = Append(asked, c)
  /\ UNCHANGED <<confirmed, local, child, outgoing, arrived, notice, bot, life, lost>>

(* Mutant: the request is written without waiting for the acknowledgement. *)
WrittenAtOnce(i) == Append(stdin, [requestId |-> asked[i], about |-> i])

(* What is in the pipe once the location is handled: nothing new.          *)
WrittenOnLocation(i) == stdin

(* The next update is handled.  It came with the last one, or with another *)
(* poll, which confirms those before it.                                   *)
OnLocation ==
  /\ Running
  /\ polled < Len(asked)
  /\ confirmed' \in {confirmed, polled}
  /\ polled' = polled + 1
  /\ LET ack == Message("ack", polled', asked[polled'])
     IN  /\ outgoing' = outgoing \cup {ack}
         /\ awaiting' = awaiting \cup {ack}
  /\ stdin' = WrittenOnLocation(polled')
  /\ UNCHANGED <<asked, stdout, proc, arrived, notice, bot, life, lost>>

(* A poll that brings nothing.                                             *)
PollNothing ==
  /\ Running
  /\ polled = Len(asked)
  /\ confirmed # polled
  /\ confirmed' = polled
  /\ UNCHANGED <<asked, local, child, outgoing, arrived, notice, bot, life, lost>>

-----------------------------------------------------------------------------
(* Telegram shows a message in its chat.                                   *)
Arrive(m) ==
  /\ outgoing' = outgoing \ {m}
  /\ arrived' = arrived \cup {m}
  /\ UNCHANGED <<telegram, local, child, notice, bot, life, lost>>

(* A message is refused or lost.  Nothing handles the rejected promise.    *)
Fail(m) ==
  /\ outgoing' = outgoing \ {m}
  /\ awaiting' = awaiting \ {m}
  /\ lost' = lost \cup {m.about}
  /\ UNCHANGED <<telegram, polled, child, arrived, notice, bot, life>>

(* The line written for a request, if there is still a reader.             *)
Written(m) == IF proc = "running"
                THEN Append(stdin, [requestId |-> m.chat, about |-> m.about])
                ELSE stdin

(* The promise of an acknowledgement resolves, and its callback writes.    *)
Acknowledged(m) ==
  /\ m \in arrived
  /\ awaiting' = awaiting \ {m}
  /\ stdin' = Written(m)
  /\ lost' = IF proc = "running" THEN lost ELSE lost \cup {m.about}
  /\ UNCHANGED <<telegram, polled, stdout, proc, outgoing, arrived, notice, bot, life>>

(* The acknowledgement has arrived, its confirmation does not.             *)
ConfirmationLost(m) ==
  /\ m \in arrived
  /\ awaiting' = awaiting \ {m}
  /\ lost' = lost \cup {m.about}
  /\ UNCHANGED <<telegram, polled, child, outgoing, arrived, notice, bot, life>>

-----------------------------------------------------------------------------
(* The oracle reads a line and prints its result: one for each, in order   *)
(* and with the request's id (Serves of Oracle).                           *)
OracleAnswers ==
  /\ proc = "running"
  /\ stdin # <<>>
  /\ stdin' = Tail(stdin)
  /\ stdout' = Append(stdout, Head(stdin))
  /\ UNCHANGED <<telegram, local, proc, outgoing, arrived, notice, bot, life, lost>>

(* Mutant: replies go to the chat of the latest request.                   *)
ReplyToLatest(line) == Message("result", line.about, asked[polled])

Reply(line) == Message("result", line.about, line.requestId)

(* Mutant: lines come in groups of two, and the rest is kept back.         *)
LineReadyInPairs == Len(stdout) > 1

(* The line iterator has a line.                                           *)
LineReady == stdout # <<>>

(* The loop over the lines of standard output.                             *)
OnLine ==
  /\ Running
  /\ LineReady
  /\ stdout' = Tail(stdout)
  /\ outgoing' = outgoing \cup {Reply(Head(stdout))}
  /\ UNCHANGED <<telegram, local, stdin, proc, arrived, notice, bot, life, lost>>

(* It may fail on any line, see Oracle.  What it has not read is gone.     *)
OracleExits ==
  /\ proc = "running"
  /\ life < MaxLives
  /\ proc' = "exited"
  /\ stdin' = <<>>
  /\ notice' = "due"
  /\ lost' = lost \cup Held(stdin)
  /\ UNCHANGED <<telegram, local, stdout, outgoing, arrived, bot, life>>

OnExit ==
  /\ Running
  /\ notice = "due"
  /\ notice' = "sent"
  /\ UNCHANGED <<telegram, local, child, outgoing, arrived, bot, life, lost>>

-----------------------------------------------------------------------------
(* Mutant: pending acknowledgements are written down and resumed.          *)
SurvivingPromises == awaiting

(* What the promises of a bot that is gone wait for.                       *)
Surviving == {}

(* The bot's process ends, and its pipes and its child with it.            *)
BotGone ==
  /\ bot' = "exited"
  /\ awaiting' = Surviving
  /\ stdin' = <<>>
  /\ stdout' = <<>>
  /\ proc' = "exited"
  /\ notice' = "none"
  /\ lost' = lost \cup Held(stdin) \cup Held(stdout) \cup {m.about : m \in awaiting}

(* Mutant: nothing follows the notice.                                     *)
NoticeArrivesOnly ==
  /\ notice = "sent"
  /\ DebugChat
  /\ notice' = "none"
  /\ UNCHANGED <<telegram, local, child, outgoing, arrived, bot, life, lost>>

(* The notice is delivered: process.exit(1).                               *)
NoticeArrives ==
  /\ notice = "sent"
  /\ DebugChat
  /\ BotGone
  /\ UNCHANGED <<telegram, polled, outgoing, arrived, life>>

(* It is not, and must not be expected without a chat to send it to.  The  *)
(* promise is rejected, and nothing follows.                               *)
NoticeFails ==
  /\ notice = "sent"
  /\ notice' = "failed"
  /\ UNCHANGED <<telegram, local, child, outgoing, arrived, bot, life, lost>>

(* The bot ends for a reason of its own: it is stopped, or the runtime     *)
(* does not put up with an unhandled rejection.                            *)
BotDies ==
  /\ Running
  /\ life < MaxLives
  /\ BotGone
  /\ UNCHANGED <<telegram, polled, outgoing, arrived, life>>

(* systemd: Restart=always.  Updates not confirmed are sent again.         *)
Restart ==
  /\ bot = "exited"
  /\ bot' = "running"
  /\ proc' = "running"
  /\ life' = life + 1
  /\ polled' = confirmed
  /\ UNCHANGED <<telegram, awaiting, stdin, stdout, outgoing, arrived, notice, lost>>

-----------------------------------------------------------------------------
Deliver == \E m \in outgoing : Arrive(m) \/ Fail(m)

Confirm == \E m \in awaiting : Acknowledged(m) \/ ConfirmationLost(m)

Notice == NoticeArrives \/ NoticeFails

Next == \/ \E c \in Chat : SendLocation(c)
        \/ OnLocation
        \/ PollNothing
        \/ \E m \in outgoing : Arrive(m) \/ Fail(m)
        \/ \E m \in awaiting : Acknowledged(m) \/ ConfirmationLost(m)
        \/ OracleAnswers
        \/ OnLine
        \/ OracleExits
        \/ OnExit
        \/ NoticeArrives
        \/ NoticeFails
        \/ BotDies
        \/ Restart

Spec == Init /\ [][Next]_vars

(* The bot's event loop and the oracle keep running, a message arrives or  *)
(* fails in the end and so does its promise, and systemd does its work.    *)
(* Nobody has to send a location, and nothing has to go well.              *)
FairSpec == /\ Spec
            /\ WF_vars(OnLocation)
            /\ WF_vars(OnLine)
            /\ WF_vars(OnExit)
            /\ WF_vars(OracleAnswers)
            /\ WF_vars(Deliver)
            /\ WF_vars(Confirm)
            /\ WF_vars(Notice)
            /\ WF_vars(Restart)

-----------------------------------------------------------------------------
Lines == [requestId : Chat, about : Request]

(* The promises pending in the bot are about acknowledgements that this    *)
(* very process has sent; those of a process that is gone never resolve.   *)
TypeOK ==
  /\ asked \in Seq(Chat) /\ Len(asked) <= MaxRequests
  /\ confirmed \in 0..polled /\ polled \in 0..Len(asked)
  /\ outgoing \subseteq Messages
  /\ arrived \subseteq Messages
  /\ awaiting \subseteq {m \in outgoing \cup arrived : m.kind = "ack" /\ m.life = life}
  /\ stdin \in Seq(Lines) /\ stdout \in Seq(Lines)
  /\ proc \in {"running", "exited"} /\ bot \in {"running", "exited"}
  /\ notice \in {"none", "due", "sent", "failed"}
  /\ life \in 1..MaxLives
  /\ lost \subseteq Request

(* Whatever arrives in a chat is about a location sent from that chat.     *)
(* The way there and back leads through one pipe, a program that knows no  *)
(* chats, and one loop for all of them.                                    *)
OwnChat == \A m \in outgoing \cup arrived : asked[m.about] = m.chat

(* main.js: "ensures that the acknowledgement message is delivered to the  *)
(* user first".  Every result that arrives follows an acknowledgement, of  *)
(* its own, across restarts too.                                           *)
AckFirst ==
  \A m \in arrived : m.kind = "result" => [m EXCEPT !.kind = "ack"] \in arrived

Replied(i) == \E m \in arrived : m.kind = "result" /\ m.about = i

(* Every location is answered, unless a message about that very location   *)
(* or a process that held it is lost.  The failures of other requests and  *)
(* of earlier lives of the bot do not matter: no request waits for another *)
(* one, and a location that no bot has handled yet is handled by the next. *)
EveryRequestAnswered ==
  \A i \in Request : i <= Len(asked) ~> (Replied(i) \/ i \in lost)

(* An oracle that is gone is replaced: the bot notices, exits and is       *)
(* restarted, unless the notice to the debug chat cannot be delivered.     *)
OracleReplaced == proc = "exited" ~> (proc = "running" \/ notice = "failed")

(* main.js says that DEBUG_CHAT_ID is "(optional)": without it, too, the   *)
(* bot does not stay without an oracle.                                    *)
DebugChatOptional == proc = "exited" ~> proc = "running"

-----------------------------------------------------------------------------
Contract == INSTANCE Service WITH
  Request <- Lines,
  pending <- stdin,
  results <- stdout,
  up <- proc = "running"

(* The bot asks no more of its child, and does no more to it, than Service *)
(* has: this is the contract that Oracle implements, see Oracle!Serves.    *)
(* Nothing is asked of a process that is gone, and what was asked of one   *)
(* is never taken over by the next.                                        *)
ServedByOracle == Contract!FairSpec
=============================================================================
