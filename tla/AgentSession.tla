---------------------------- MODULE AgentSession ----------------------------
(***************************************************************************)
(* An agent's whole session: the MCP server process of DaemonClient and    *)
(* the daemon of ConferDaemon at the two ends of one socket, and the user. *)
(*                                                                         *)
(* Each module describes its own end and assumes something of the other.   *)
(* Here the two real ends meet: each step is a step of one of them and     *)
(* what it does to the socket, and the assumptions become properties.      *)
(* Left out, for they write to neither end: reminders of an ask, and        *)
(* answers from the laptop, which differ from the user's by one more DM.   *)
(***************************************************************************)
EXTENDS DaemonClient

CONSTANTS Conn, NoConn, Label, NoLabel, Tags, NoTag,
          UserMessages, QueueLimit, NotifyLimit

\* MaxInbox of the daemon is a number: an agent makes finitely many calls.
ASSUME CallsAreFinite == IsFiniteSet(Calls)

VARIABLES
  greeting,    \* the protocol version the agent speaks: which Hello it sends
  alive,       \* the MCP server process was not killed
  held,        \* the handler has the first of requests in its hands
  drained,     \* history: checks whose answer carries messages
  clients, label, pc, work, peer, status, tag, timer, reping, threads, queues,
  cancelled, told, closings        \* of ConferDaemon

clientVars  == <<phase, callVars, tableVars, reader>>
socketVars  == <<socket, requests, held, answers>>
processVars == <<greeting, alive>>
serverVars  == <<clients, label, pc, work, peer, status, tag, timer, reping,
                 threads, queues, cancelled, told, closings>>
sessionVars == <<clientVars, socketVars, open, processVars, drained, serverVars>>

\* A line of a client of this protocol version, as the daemon's decoder reads it.
LineOf(version, request) ==
  CASE request.type = "AskCancel" -> [type |-> "AskCancel", ask |-> request.call]
    [] request.type = "Bye"       -> [type |-> "Bye"]
    [] request.type = "Begin"     ->
         (CASE request.call = Hello       -> [type |-> version]
            [] request.call \in Asks     -> [type |-> "AskBegin", ask |-> request.call]
            [] request.call \in Notifies -> [type |-> "Notify"]
            [] request.call \in Checks   -> [type |-> "CheckMessages"])

Unread == SubSeq(requests, held + 1, Len(requests))
Lines  == [i \in DOMAIN Unread |-> LineOf(greeting, Unread[i])]

Server == INSTANCE ConferDaemon WITH
  Conns <- {Conn}, Labels <- {Label},
  Owner <- [a \in Asks |-> Conn],
  Preferred <- [c \in {Conn} |-> Label], Candidates <- [c \in {Conn} |-> {}],
  AgentLines <- {"Notify", "CheckMessages"}, MaxInbox <- 2 * Cardinality(Calls),
  inbox <- [c \in {Conn} |-> Lines]

\* What ConferDaemon assumes of its constants.
ASSUME DaemonConstants ==
  /\ Conn # NoConn /\ Label # NoLabel /\ NoTag \notin Tags
  /\ UserMessages \subseteq Server!Message
  /\ QueueLimit \in Nat \ {0} /\ NotifyLimit \in Nat \ {0}

SessionInit ==
  /\ Init
  /\ greeting \in {"Hello", "OldHello"}
  /\ alive = TRUE /\ held = 0 /\ drained = {}
  /\ clients = [l \in {Label} |-> NoConn]
  /\ label = [c \in {Conn} |-> NoLabel]
  /\ pc = [c \in {Conn} |-> "absent"]
  /\ work = [c \in {Conn} |-> {}]
  /\ peer = [c \in {Conn} |-> "open"]
  /\ status = [a \in Asks |-> "unasked"]
  /\ tag = [a \in Asks |-> NoTag]
  /\ timer = [a \in Asks |-> "none"] /\ reping = [a \in Asks |-> "none"]
  /\ threads = [l \in {Label} |-> <<>>] /\ queues = [l \in {Label} |-> <<>>]
  /\ cancelled = {}
  /\ told = [a \in Asks |-> 0] /\ closings = [a \in Asks |-> {}]

-----------------------------------------------------------------------------
(* The client's end.  What its lines ask for is not done yet: of the daemon's *)
(* variables only those that say what the agent sent change.                 *)

Handshake ==
  /\ alive
  /\ Call(Hello)
  /\ pc' = [pc EXCEPT ![Conn] = "greeting"]
  /\ UNCHANGED <<held, processVars, drained, clients, label, work, peer, status, tag,
                 timer, reping, threads, queues, cancelled, told, closings>>

AskCalled(a) ==
  /\ alive
  /\ Call(a)
  /\ status' = IF socket = "up" THEN [status EXCEPT ![a] = "sent"] ELSE status
  /\ UNCHANGED <<held, processVars, drained, clients, label, pc, work, peer, tag,
                 timer, reping, threads, queues, cancelled, told, closings>>

OtherCalled(k) ==
  /\ alive
  /\ Call(k)
  /\ UNCHANGED <<held, processVars, drained, serverVars>>

CallCancelled(k) ==
  /\ alive
  /\ Cancel(k)
  /\ cancelled' = cancelled \cup (IF socket = "up" THEN {k} \cap Asks ELSE {})
  /\ UNCHANGED <<held, processVars, drained, clients, label, pc, work, peer, status,
                 tag, timer, reping, threads, queues, told, closings>>

SessionCloses ==
  /\ alive
  /\ Close
  /\ IF socket = "up"
       THEN /\ cancelled' = cancelled \cup asking
            /\ peer' = [peer EXCEPT ![Conn] = "closed"]
       ELSE UNCHANGED <<cancelled, peer>>
  /\ UNCHANGED <<held, processVars, drained, clients, label, pc, work, status, tag,
                 timer, reping, threads, queues, told, closings>>

CallReturns(k) ==
  /\ alive
  /\ Return(k)
  /\ UNCHANGED <<held, processVars, drained, serverVars>>

ClientReads ==
  /\ alive
  /\ ReadLoop
  /\ UNCHANGED <<held, processVars, drained, serverVars>>

\* The process is killed, or ends because its handshake was refused.
Killed ==
  /\ alive
  /\ peer[Conn] = "open" /\ pc[Conn] \notin {"absent", "closed"}
  /\ alive' = FALSE
  /\ peer' = [peer EXCEPT ![Conn] = "closed"]
  /\ UNCHANGED <<clientVars, socketVars, open, greeting, drained, clients, label, pc,
                 work, status, tag, timer, reping, threads, queues, cancelled, told,
                 closings>>

-----------------------------------------------------------------------------
(* The daemon's end: the handler of the connection. *)

\* It is done with the next line.
TakeLine == /\ requests # <<>> /\ held = 0
            /\ requests' = Tail(requests)
            /\ UNCHANGED held

\* It has yet to answer the next line, or will not any more.
HoldLine == /\ requests # <<>> /\ held = 0
            /\ held' = 1
            /\ UNCHANGED requests

\* Its socket closes when it ends: lines nobody took turn that into a reset.
HangUp ==
  \/ /\ pc'[Conn] = "closed"
     /\ \/ socket' = "ended"
        \/ Unread' # <<>> /\ socket' = "reset"
     /\ open' = {}
  \/ /\ pc'[Conn] # "closed"
     /\ UNCHANGED <<socket, open>>

Silent == UNCHANGED <<clientVars, answers, processVars, drained>>
Quiet  == Silent /\ UNCHANGED <<requests, held>>

GreetingRead ==
  /\ TakeLine
  /\ peer[Conn] = "open"
  /\ \/ /\ Server!HandleHello(Conn)
        /\ answers' = Answers("Answer", Hello)
     \/ /\ Server!HandleOldHello(Conn)
        /\ answers' = Answers("HelloErr", Hello)
  /\ UNCHANGED <<clientVars, socket, open, processVars, drained>>

GreetingInVain ==
  /\ HoldLine
  /\ peer[Conn] # "open"
  /\ Server!HandleHello(Conn) \/ Server!HandleOldHello(Conn)
  /\ HangUp
  /\ Silent

NotifyRead ==
  /\ HoldLine
  /\ Server!HandleNotify(Conn)
  /\ Silent /\ UNCHANGED <<socket, open>>

NotifyAnswered ==
  /\ held = 1 /\ held' = 0
  /\ requests' = Tail(requests)
  /\ Server!NotifyDone(Conn)
  /\ answers' = Answers("Answer", Head(requests).call)
  /\ UNCHANGED <<clientVars, socket, open, processVars, drained>>

NotifyFails ==
  /\ Quiet
  /\ Server!NotifyRaises(Conn)
  /\ HangUp

AskRead ==
  /\ TakeLine
  /\ Server!HandleAskBegin(Conn)
  /\ open' = open \cup {Head(requests).call}
  /\ Silent /\ UNCHANGED socket

DmSent ==
  /\ Quiet
  /\ Server!QuestionSent(Conn) \/ Server!WithdrawalSent(Conn)
  /\ UNCHANGED <<socket, open>>

CancelRead ==
  /\ TakeLine
  /\ Server!HandleAskCancel(Conn)
  /\ open' = open \ {Head(requests).call}
  /\ Silent /\ UNCHANGED socket

\* A summary may be longer than a line may be.
CheckRead ==
  /\ TakeLine
  /\ peer[Conn] = "open"
  /\ Server!HandleCheckMessages(Conn)
  /\ LET k == Head(requests).call
     IN \/ /\ queues[Label] = <<>>
           /\ answers' = Answers("Answer", k)
           /\ UNCHANGED drained
        \/ /\ queues[Label] # <<>>
           /\ \E type \in {"Answer", "TooLong"} : answers' = Answers(type, k)
           /\ drained' = drained \cup {k}
  /\ UNCHANGED <<clientVars, socket, open, processVars>>

CheckInVain ==
  /\ HoldLine
  /\ peer[Conn] # "open"
  /\ Server!HandleCheckMessages(Conn)
  /\ HangUp
  /\ Silent

ByeRead ==
  /\ TakeLine
  /\ Server!HandleBye(Conn)
  /\ HangUp
  /\ Silent

\* The client's end closed or died with answers it had not read: a reset for the
\* daemon, which then never sees the lines still on their way.
LinesAreLost == peer[Conn] = "closed" /\ answers # <<>>

HandlerEnds ==
  /\ Quiet
  /\ \/ Server!HandleEof(Conn) /\ (Server!AgentGone(Conn) \/ LinesAreLost)
     \/ Server!HandleEofBeforeHello(Conn)
     \/ Server!LostContactSent(Conn)
  /\ HangUp

-----------------------------------------------------------------------------
(* The daemon's end: the tasks of the asks and the user's messages. *)

AnswerWritten(a) ==
  /\ answers' = Answers("Answer", a)
  /\ open' = open \ {a}

Deadline(a) ==
  /\ UNCHANGED <<requests, held>>
  /\ Server!TimeoutFires(a)
  /\ \/ /\ timer'[a] = "closing"
        /\ AnswerWritten(a)
     \/ /\ timer'[a] # "closing"
        /\ UNCHANGED <<answers, open>>
  /\ UNCHANGED <<clientVars, socket, processVars, drained>>

UserReplies ==
  /\ UNCHANGED <<requests, held>>
  /\ \E m \in UserMessages, source \in {"discord"} : Server!UserAnswers(source, m)
  /\ \E a \in Asks : status'[a] # status[a] /\ AnswerWritten(a)
  /\ UNCHANGED <<clientVars, socket, processVars, drained>>

Elsewhere ==
  /\ Quiet
  /\ \/ \E a \in Asks : Server!TimeoutDmSent(a)
     \/ \E m \in UserMessages : Server!UserRepliesToNotify(m) \/ Server!UserBroadcasts(m)
  /\ UNCHANGED <<socket, open>>

-----------------------------------------------------------------------------
ClientEnd ==
  \/ Handshake
  \/ \E a \in Asks : AskCalled(a)
  \/ \E k \in Notifies \cup Checks : OtherCalled(k)
  \/ \E k \in Calls : CallCancelled(k) \/ CallReturns(k)
  \/ SessionCloses \/ ClientReads \/ Killed

HandlerEnd ==
  \/ GreetingRead \/ GreetingInVain \/ NotifyRead \/ NotifyAnswered \/ NotifyFails
  \/ AskRead \/ DmSent \/ CancelRead \/ CheckRead \/ CheckInVain \/ ByeRead
  \/ HandlerEnds

SessionNext ==
  \/ ClientEnd
  \/ HandlerEnd
  \/ (\E a \in Asks : Deadline(a)) \/ UserReplies \/ Elsewhere

SessionFairness ==
  /\ WF_sessionVars(ClientReads)
  /\ \A k \in Calls : WF_sessionVars(CallReturns(k))
  /\ WF_sessionVars(HandlerEnd)
  /\ \A a \in Asks : WF_sessionVars(Deadline(a))

SessionSpec == SessionInit /\ [][SessionNext]_sessionVars /\ SessionFairness

-----------------------------------------------------------------------------
(* What the two ends promise each other, and the agent and the user. *)

\* The client sends what the daemon's handlers expect of an agent: a Hello first,
\* each ask once, a withdrawal after its ask, Bye when every ask is withdrawn.
\* The proofs about ConferDaemon rest on it.
ImplementsDaemon == Server!Spec

\* The daemon treats its client as DaemonClient assumes: it answers in order
\* and once, and, while the process lives, reads every line and settles
\* every ask it holds.
ImplementsClient == Spec /\ ([]alive => Fairness)

\* What the agent and the user hear of an ask agrees: an answer is a reply or a
\* timeout, a withdrawal was the agent's wish or its session's end, whoever is told
\* that the daemon is gone was not answered unless its session ended, and contact
\* is lost only with a process that died or lines that did not come through.
BothEndsAgree ==
  \A a \in Asks :
    /\ outcome[a] = "answer" => status[a] \in {"replied", "timed_out"}
    /\ status[a] = "withdrawn" => outcome[a] = "cancelled" \/ phase = "closed"
    /\ outcome[a] = "directive" => status[a] \in {"sent", "lost"} \/ phase = "closed"
    /\ status[a] = "lost" =>
         ~alive \/ peer[Conn] = "reset" \/ held = 1 \/ LinesAreLost

\* What the daemon hands over arrives: the reply to an ask and the messages a
\* check_messages took out of the queue are returned to the agent, unless it
\* gave the call up, its process ended, or its read loop died.
Excused == phase = "closed" \/ ~alive \/ reader = "died"
HandedOver == {a \in Asks : told[a] = 1} \cup drained
Underway == {k \in HandedOver : outcome[k] \notin {"answer", "cancelled"}}
WhatIsSentArrives == Underway # {} ~> Underway = {} \/ Excused

\* The daemon forgets an agent that is gone however its handler ends: with its
\* socket, with Bye, or with a notify whose Discord call raises.
DepartedAgentIsForgotten == Server!DepartedAgentIsForgotten
=============================================================================
