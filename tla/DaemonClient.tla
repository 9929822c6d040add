---------------------------- MODULE DaemonClient ----------------------------
(***************************************************************************)
(* One MCP server process: the tool calls of its agent (server.py), the    *)
(* DaemonClient they share (client.py) and the read loop that hands the    *)
(* daemon's answers to them.  The handshake is a call like the others.     *)
(*                                                                         *)
(* The process is one asyncio thread, so an action is the code between two *)
(* awaits; writes never wait, for the lines are short.  The daemon is the  *)
(* other end of the socket: it reads the requests in order, answers all    *)
(* but the asks at once, and may disconnect or die at any moment.          *)
(***************************************************************************)
EXTENDS Naturals, Sequences, FiniteSets

CONSTANTS Asks, Notifies, Checks,   \* the agent's tool calls, by tool
          Hello                     \* the call of connect()

Tools == Asks \cup Notifies \cup Checks
Calls == Tools \cup {Hello}

ASSUME CallsAreDistinct ==
  /\ Hello \notin Tools
  /\ IsFiniteSet(Asks)
  /\ Asks \cap Notifies = {} /\ Asks \cap Checks = {} /\ Notifies \cap Checks = {}

VARIABLES
  phase,      \* of the lifespan: its connect(), its yield, after its close()
  task,       \* of each call
  future,     \* what its request's future holds
  outcome,    \* what it returned
  pending,    \* _pending: the requests whose future the read loop may resolve
  asking,     \* _pending_ask_request_ids
  reader,     \* _reader_task
  socket,     \* the daemon's end is up, ended or reset; or ours is broken
  requests,   \* lines written and not read by the daemon
  answers,    \* lines the daemon wrote and the read loop has not read
  open        \* the asks the daemon holds

callVars   == <<task, future, outcome>>
tableVars  == <<pending, asking>>
daemonVars == <<requests, answers, open>>
vars == <<phase, callVars, tableVars, reader, socket, daemonVars>>

Request == [type : {"Begin", "AskCancel"}, call : Calls] \cup [type : {"Bye"}]
Answer  == [type : {"Answer", "TooLong", "HelloErr"}, call : Calls]

TypeOK ==
  /\ phase \in {"connecting", "serving", "failed", "closed"}
  /\ task \in [Calls -> {"idle", "waiting", "done"}]
  /\ future \in [Calls -> {"none", "unresolved", "result", "refusal", "error", "cancelled"}]
  /\ outcome \in [Calls -> {"none", "answer", "directive", "raised", "cancelled"}]
  /\ pending \subseteq Calls
  /\ asking \subseteq Asks
  /\ reader \in {"reading", "ended", "died"}
  /\ socket \in {"up", "ended", "reset", "broken"}
  /\ requests \in Seq(Request)
  /\ answers \in Seq(Answer)
  /\ open \subseteq Asks

Init ==
  /\ phase = "connecting"
  /\ task = [k \in Calls |-> "idle"]
  /\ future = [k \in Calls |-> "none"]
  /\ outcome = [k \in Calls |-> "none"]
  /\ pending = {} /\ asking = {}
  /\ reader = "reading"
  /\ socket = "up"
  /\ requests = <<>> /\ answers = <<>>
  /\ open = {}

-----------------------------------------------------------------------------
(* The tool calls. *)

Begin(k)     == [type |-> "Begin", call |-> k]
AskCancel(a) == [type |-> "AskCancel", call |-> a]
Bye          == [type |-> "Bye"]

\* A write to a socket whose other end is gone breaks the transport: the
\* stream raises to the writer and to the read loop, if that still reads.
BreakSocket ==
  /\ socket' = "broken"
  /\ reader' = IF reader = "reading" THEN "died" ELSE reader

\* Mutant: the end of an ask empties the whole table.
ForgetEveryone(k) ==
  /\ asking' = asking \ {k}
  /\ pending' = IF k \in Asks THEN {} ELSE pending

\* ask forgets its request when it ends; the other calls leave that to the
\* read loop.
Forget(k) ==
  /\ asking' = asking \ {k}
  /\ pending' = IF k \in Asks THEN pending \ {k} ELSE pending

\* Mutant: every call is remembered as an ask.
RememberedAny(k) == {k}

\* What a call adds to the requests that close() withdraws.
Remembered(k) == {k} \cap Asks

\* The request is registered, then written.  The write raises what no call
\* catches (it is no RuntimeError) when the daemon is gone.
Call(k) ==
  /\ task[k] = "idle"
  /\ phase = IF k = Hello THEN "connecting" ELSE "serving"
  /\ future' = [future EXCEPT ![k] = "unresolved"]
  /\ \/ /\ socket = "up"
        /\ requests' = Append(requests, Begin(k))
        /\ task' = [task EXCEPT ![k] = "waiting"]
        /\ pending' = pending \cup {k}
        /\ asking' = asking \cup Remembered(k)
        /\ UNCHANGED <<phase, outcome, reader, socket>>
     \/ /\ socket # "up"
        /\ BreakSocket
        /\ task' = [task EXCEPT ![k] = "done"]
        /\ outcome' = [outcome EXCEPT ![k] = "raised"]
        /\ pending' = pending \cup ({k} \ Asks)
        /\ phase' = IF k = Hello THEN "failed" ELSE phase
        /\ UNCHANGED <<requests, asking>>
  /\ UNCHANGED <<answers, open>>

\* What a call makes of its resolved future: ask and check_messages turn the
\* RuntimeError of a lost connection into a directive, notify and connect do
\* not.
OutcomeOf(k) ==
  CASE future[k] = "result"                    -> "answer"
    [] future[k] = "error" /\ k \in Asks \cup Checks -> "directive"
    [] OTHER                                   -> "raised"

Return(k) ==
  /\ task[k] = "waiting"
  /\ future[k] \in {"result", "refusal", "error"}
  /\ task' = [task EXCEPT ![k] = "done"]
  /\ outcome' = [outcome EXCEPT ![k] = OutcomeOf(k)]
  /\ Forget(k)
  /\ phase' = IF k # Hello THEN phase
              ELSE IF future[k] = "result" THEN "serving" ELSE "failed"
  /\ UNCHANGED <<future, reader, socket, daemonVars>>

\* Mutant: a cancelled ask leaves the daemon to its timeout.
CancelSilently(k) ==
  /\ k \in Tools /\ phase = "serving"
  /\ task[k] = "waiting"
  /\ task' = [task EXCEPT ![k] = "done"]
  /\ outcome' = [outcome EXCEPT ![k] = "cancelled"]
  /\ future' = [future EXCEPT ![k] = IF @ = "unresolved" THEN "cancelled" ELSE @]
  /\ Forget(k)
  /\ UNCHANGED <<phase, reader, socket, daemonVars>>

\* The agent gives a call up (ESC).  A result that came in the meantime is
\* lost.  An ask tells the daemon, if that is still there.
Cancel(k) ==
  /\ k \in Tools /\ phase = "serving"
  /\ task[k] = "waiting"
  /\ task' = [task EXCEPT ![k] = "done"]
  /\ outcome' = [outcome EXCEPT ![k] = "cancelled"]
  /\ future' = [future EXCEPT ![k] = IF @ = "unresolved" THEN "cancelled" ELSE @]
  /\ Forget(k)
  /\ \/ /\ k \in Asks /\ socket = "up"
        /\ requests' = Append(requests, AskCancel(k))
        /\ UNCHANGED <<reader, socket>>
     \/ /\ k \in Asks /\ socket # "up"
        /\ BreakSocket
        /\ UNCHANGED requests
     \/ /\ k \notin Asks
        /\ UNCHANGED <<reader, socket, requests>>
  /\ UNCHANGED <<phase, answers, open>>

\* The orders in which close() may iterate the set of asks in flight.
WithdrawalOrders ==
  {f \in [1..Cardinality(asking) -> asking] : {f[i] : i \in DOMAIN f} = asking}

\* What a closed connection does to the requests in the table: their futures
\* fail with a RuntimeError.
FailPending ==
  /\ future' = [k \in Calls |-> IF k \in pending /\ future[k] = "unresolved"
                                  THEN "error" ELSE future[k]]
  /\ pending' = {}

\* Closing the transport feeds the read loop end of file before wait_closed()
\* returns, so the loop that still reads fails the calls in flight; its task is
\* cancelled only then.  Lines that are not in its buffer are never read.
CloseTransport ==
  \/ /\ reader = "reading"
     /\ FailPending
     /\ reader' = "ended"
  \/ /\ reader # "reading"
     /\ UNCHANGED <<future, pending, reader>>

\* Mutant: only Bye is written.
CloseWithoutCancels ==
  /\ phase = "serving"
  /\ phase' = "closed"
  /\ \/ /\ socket = "up"
        /\ requests' = Append(requests, Bye)
        /\ CloseTransport
        /\ UNCHANGED socket
     \/ /\ socket # "up"
        /\ BreakSocket
        /\ UNCHANGED <<future, pending, requests>>
  /\ UNCHANGED <<task, outcome, asking, answers, open>>

\* The lifespan ends: the asks in flight are withdrawn, Bye is written and the
\* socket closes.  Writes that fail are ignored; they break the transport.
Close ==
  /\ phase = "serving"
  /\ phase' = "closed"
  /\ \/ /\ socket = "up"
        /\ \E order \in WithdrawalOrders :
             requests' = requests \o [i \in DOMAIN order |-> AskCancel(order[i])]
                                  \o <<Bye>>
        /\ CloseTransport
        /\ UNCHANGED socket
     \/ /\ socket # "up"
        /\ BreakSocket
        /\ UNCHANGED <<future, pending, requests>>
  /\ UNCHANGED <<task, outcome, asking, answers, open>>

-----------------------------------------------------------------------------
(* The read loop. *)

Resolve(k, result) ==
  future' = [future EXCEPT ![k] = IF @ = "unresolved" THEN result ELSE @]

\* An answer resolves the future of its request_id, if that still waits.
ReadAnswer ==
  /\ reader = "reading" /\ answers # <<>>
  /\ LET line == Head(answers)
     IN /\ line.type \in {"Answer", "HelloErr"}
        /\ IF line.call \in pending
             THEN Resolve(line.call, IF line.type = "Answer" THEN "result" ELSE "refusal")
             ELSE UNCHANGED future
        /\ pending' = pending \ {line.call}
  /\ answers' = Tail(answers)
  /\ UNCHANGED <<phase, task, outcome, asking, reader, socket, requests, open>>

\* Mutant: a read that finds nothing counts as end of file.
ReadNothing ==
  /\ reader = "reading" /\ answers = <<>>
  /\ FailPending
  /\ reader' = "ended"
  /\ UNCHANGED <<phase, task, outcome, asking, socket, daemonVars>>

\* Mutant: the futures of a closed connection are not failed.
ReadEofOnly ==
  /\ reader = "reading" /\ answers = <<>> /\ socket = "ended"
  /\ reader' = "ended"
  /\ UNCHANGED <<phase, callVars, tableVars, socket, daemonVars>>

\* End of file.
ReadEof ==
  /\ reader = "reading" /\ answers = <<>> /\ socket = "ended"
  /\ FailPending
  /\ reader' = "ended"
  /\ UNCHANGED <<phase, task, outcome, asking, socket, daemonVars>>

\* readline() raises: a line past the 64 KiB limit of the stream, or a
\* connection reset, which discards what was not read.  Nothing in the loop
\* catches it: the task ends and the futures stay as they are.
ReadRaises ==
  /\ reader = "reading"
  /\ \/ socket = "reset"
     \/ answers # <<>> /\ Head(answers).type = "TooLong"
  /\ reader' = "died"
  /\ UNCHANGED <<phase, callVars, tableVars, socket, daemonVars>>

-----------------------------------------------------------------------------
(* The daemon at the other end. *)

Answers(type, k) == Append(answers, [type |-> type, call |-> k])

\* It reads a line: an ask is held, a withdrawal ends it, everything else is
\* answered; a summary of the messages may be longer than a line may be.
DaemonReads ==
  /\ socket = "up" /\ requests # <<>>
  /\ requests' = Tail(requests)
  /\ LET line == Head(requests)
     IN \/ /\ line.type = "Begin" /\ line.call \in Asks
           /\ open' = open \cup {line.call}
           /\ UNCHANGED <<answers, socket>>
        \/ /\ line.type = "Begin" /\ line.call \notin Asks
           /\ \E type \in {"Answer"} \cup (IF line.call \in Checks THEN {"TooLong"} ELSE {})
                         \cup (IF line.call = Hello THEN {"HelloErr"} ELSE {}) :
                answers' = Answers(type, line.call)
           /\ UNCHANGED <<open, socket>>
        \/ /\ line.type = "AskCancel"
           /\ open' = open \ {line.call}
           /\ UNCHANGED <<answers, socket>>
        \/ /\ line.type = "Bye"
           /\ socket' = "ended"
           /\ open' = {}
           /\ UNCHANGED answers
  /\ UNCHANGED <<phase, callVars, tableVars, reader>>

\* A reply or the timeout of an ask.
AskSettled(a) ==
  /\ socket = "up" /\ a \in open
  /\ open' = open \ {a}
  /\ answers' = Answers("Answer", a)
  /\ UNCHANGED <<phase, callVars, tableVars, reader, socket, requests>>

\* The handler ends or the daemon dies.  Lines it had not taken from the
\* socket turn the end of file into a reset.
DaemonDisconnects ==
  /\ socket = "up"
  /\ \/ socket' = "ended"
     \/ requests # <<>> /\ socket' = "reset"
  /\ open' = {}
  /\ UNCHANGED <<phase, callVars, tableVars, reader, requests, answers>>

-----------------------------------------------------------------------------
ReadLoop == ReadAnswer \/ ReadEof \/ ReadRaises
Daemon == DaemonReads \/ DaemonDisconnects \/ \E a \in Asks : AskSettled(a)
Next ==
  \/ \E k \in Calls : Call(k) \/ Return(k) \/ Cancel(k)
  \/ Close
  \/ ReadLoop
  \/ Daemon

Spec == Init /\ [][Next]_vars

\* The event loop runs what can run.  The daemon reads its lines and settles
\* its asks (EveryAskReturns of ConferDaemon) as long as it is there.
Fairness ==
  /\ WF_vars(ReadLoop)
  /\ \A k \in Calls : WF_vars(Return(k))
  /\ WF_vars(DaemonReads)
  /\ \A a \in Asks : WF_vars(AskSettled(a))

FairSpec == Spec /\ Fairness

-----------------------------------------------------------------------------
(* What makes the client correct. *)

InFlight(line) == \E i \in DOMAIN requests : requests[i] = line

\* The daemon never holds an ask nobody waits for: its caller waits, or the
\* withdrawal is on its way (ASK_CANCEL Protocol).  The asks and cancels of
\* ConferDaemon's agents rest on it.
HasCaller(a) == \/ task[a] = "waiting" /\ phase = "serving"
                \/ InFlight(AskCancel(a))
OpenAskHasCaller == \A a \in open : HasCaller(a)

\* A graceful shutdown withdraws every ask before Bye, so the user never reads
\* "lost contact" because an MCP client was closed.
ByeLeavesNoAsk ==
  requests # <<>> /\ Head(requests) = Bye => open = {}

\* Whoever waits can still be answered: while the read loop reads, the future
\* of a waiting call is in the table it looks in, although cancelled calls,
\* late answers and failed writes edit that table too.
WaitingCallIsInTable ==
  \A k \in Calls : task[k] = "waiting" /\ future[k] = "unresolved" /\ reader = "reading"
                     => k \in pending

\* The ids close() withdraws are those of the asks in flight.
AskingAreWaiting == asking = {a \in Asks : task[a] = "waiting"}

\* An ask is on its way to the daemon, held there, or settled: never two of
\* them.  What was not called yet left no trace.
Answered(a) == \E i \in DOMAIN answers : answers[i].call = a
Undecided(a) ==
  /\ ~Answered(a)
  /\ \/ future[a] \in {"unresolved", "cancelled"}
     \/ future[a] = "error" /\ phase = "closed"
AskIsInOnePlace ==
  /\ \A a \in open : socket = "up" /\ Undecided(a)
  /\ socket = "up" => \A a \in Asks : InFlight(Begin(a)) =>
                        a \notin open /\ Undecided(a) /\ HasCaller(a)
  /\ \A a \in Asks : task[a] = "idle" =>
       a \notin open /\ ~Answered(a) /\ ~InFlight(Begin(a)) /\ ~InFlight(AskCancel(a))

\* A withdrawal follows its ask, which is sent once; Bye is the last line.
LinesAreInOrder ==
  \A i, j \in DOMAIN requests :
    /\ \A a \in Asks : requests[i] = Begin(a) =>
         /\ requests[j] = AskCancel(a) => i < j
         /\ requests[j] = Begin(a) => i = j
    /\ requests[i] = Bye => j <= i /\ phase = "closed"

\* Nothing but the handshake happens before it is over.
HandshakeComesFirst == task[Hello] = "waiting" => phase = "connecting"

\* Only the handshake is refused; the future of a tool call fails only when
\* the daemon is gone or the client closed.
RefusalsAreOfHello ==
  \A i \in DOMAIN answers : answers[i].type = "HelloErr" => answers[i].call = Hello
FailedByLoss ==
  \A k \in Tools : future[k] \in {"refusal", "error"}
                     => socket # "up" \/ phase = "closed"

\* The invariant that one step carries to the next.
ClientInvariant ==
  /\ HandshakeComesFirst
  /\ AskingAreWaiting
  /\ AskIsInOnePlace
  /\ LinesAreInOrder
  /\ OpenAskHasCaller

\* Every call ends while the read loop is sound: with the daemon's answer, or
\* with what a closed connection means to it; close() strands nobody.
EveryCallEnds ==
  \A k \in Calls : task[k] = "waiting" ~> task[k] = "done" \/ reader = "died"

\* "A disconnect directive if the daemon goes away": no call is left waiting
\* with nobody to resolve its future.
NoCallIsStranded ==
  \A k \in Calls : task[k] = "waiting" /\ future[k] = "unresolved"
                     => reader = "reading"

\* While its session lasts, no tool call is told that the daemon is gone, by a
\* directive or by an exception, unless it is: the agent would turn to the
\* terminal instead.  The calls a graceful close ends are told so too.
DisconnectIsReal ==
  \A k \in Tools : outcome[k] \in {"directive", "raised"}
                     => socket # "up" \/ phase = "closed"
=============================================================================
