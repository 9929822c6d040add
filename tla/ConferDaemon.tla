---------------------------- MODULE ConferDaemon ----------------------------
(***************************************************************************)
(* The daemon of daemon/core.py while it serves: its registry of agents,   *)
(* its pending asks with their timeout and re-ping tasks, its replyable    *)
(* notify-threads, its per-label message queues.                           *)
(*                                                                         *)
(* The daemon is one asyncio thread, so an action is the code between two  *)
(* awaits that wait for something outside the daemon: a line from a socket,*)
(* a sleep, the Discord call that sends a DM.  The handler of a connection *)
(* is sequential; the task of an ask, the Discord callback and the handler *)
(* of a laptop command interleave with it at those awaits.                 *)
(***************************************************************************)
EXTENDS Naturals, Sequences, FiniteSets, ReplyRouting

CONSTANTS
  Conns,          \* connections of MCP servers, in the daemon's lifetime
  Asks,           \* ask requests (their request_id)
  NoConn,
  Owner,          \* the connection that makes each ask
  Preferred,      \* the label each connection asks for: repo/branch
  Candidates,     \* the labels "preferred#xxxx" it may get instead
  UserMessages,   \* the messages the user may send
  QueueLimit,     \* _QUEUE_PER_LABEL_LIMIT
  NotifyLimit,    \* _NOTIFY_TAGS_PER_LABEL
  AgentLines,     \* bound: what agents send besides asks
  MaxInbox        \* bound: lines an agent has in flight

ASSUME NoConnIsNone == NoConn \notin Conns

ASSUME ConstantTypes ==
  /\ IsFiniteSet(Asks)
  /\ Owner \in [Asks -> Conns]
  /\ Preferred \in [Conns -> Labels]
  /\ Candidates \in [Conns -> SUBSET Labels]
  /\ UserMessages \subseteq Message
  /\ AgentLines \subseteq {"Notify", "CheckMessages"}
  /\ QueueLimit \in Nat \ {0} /\ NotifyLimit \in Nat \ {0} /\ MaxInbox \in Nat

VARIABLES
  clients,     \* _clients: the connection registered under each label
  label,       \* client_label in the handler of each connection
  pc,          \* where the handler of each connection is
  work,        \* the asks its handler still has to touch: the one it begins,
               \* or what is left of the orphans it drops
  inbox,       \* lines the agent wrote and the handler has not read
  peer,        \* the agent's end of the socket
  status,      \* of each ask; "open" is membership in _pending_asks
  tag,         \* its thread tag
  timer,       \* its timeout task
  reping,      \* its re-ping task
  threads,     \* _notify_threads of each label, oldest first
  queues,      \* _queues: messages waiting for check_messages
  cancelled,   \* asks whose agent sent AskCancel
  told,        \* history: AskReply and AskTimeout lines the agent received
  closings     \* history: closing DMs sent about each ask

connVars   == <<clients, label, pc, work>>
askVars    == <<status, tag, timer, reping>>
inboxVars  == <<threads, queues>>
agentVars  == <<inbox, peer, cancelled>>
history    == <<told, closings>>
vars == <<connVars, askVars, inboxVars, agentVars, history>>

-----------------------------------------------------------------------------
PlainLine == [type : {"Hello", "OldHello", "Notify", "CheckMessages", "Bye"}]
AskLine == [type : {"AskBegin", "AskCancel"}, ask : Asks]
Line == PlainLine \cup AskLine

\* "by" and "to" are ghosts: the agent the thread, or the message, is for.
Notification == [tag : Tags, by : Conns]
QueuedMessage == [to : Conns]

Serving == {"reading", "notifying", "asking", "withdrawing"}
Settled == {"replied", "timed_out", "withdrawn", "lost"}
Closing == {"timed_out", "withdrawn", "lost_contact", "cli_answered"}
HandlerState == Serving \cup {"absent", "greeting", "dropping", "closed"}
AskStatus    == {"unasked", "sent", "open"} \cup Settled
TimerState   == {"none", "sleeping", "closing", "done"}
RePingState  == {"none", "sleeping", "sending", "done"}

TypeOK ==
  /\ clients \in [Labels -> Conns \cup {NoConn}]
  /\ label \in [Conns -> Labels \cup {NoLabel}]
  /\ pc \in [Conns -> HandlerState]
  /\ work \in [Conns -> SUBSET Asks]
  /\ inbox \in [Conns -> Seq(Line)]
  /\ peer \in [Conns -> {"open", "closed", "reset"}]
  /\ status \in [Asks -> AskStatus]
  /\ tag \in [Asks -> Tags \cup {NoTag}]
  /\ timer \in [Asks -> TimerState]
  /\ reping \in [Asks -> RePingState]
  /\ threads \in [Labels -> Seq(Notification)]
  /\ queues \in [Labels -> Seq(QueuedMessage)]
  /\ cancelled \subseteq Asks
  /\ told \in [Asks -> Nat]
  /\ closings \in [Asks -> SUBSET Closing]

Init ==
  /\ clients = [l \in Labels |-> NoConn]
  /\ label = [c \in Conns |-> NoLabel]
  /\ pc = [c \in Conns |-> "absent"]
  /\ work = [c \in Conns |-> {}]
  /\ inbox = [c \in Conns |-> <<>>]
  /\ peer = [c \in Conns |-> "open"]
  /\ status = [a \in Asks |-> "unasked"]
  /\ tag = [a \in Asks |-> NoTag]
  /\ timer = [a \in Asks |-> "none"]
  /\ reping = [a \in Asks |-> "none"]
  /\ threads = [l \in Labels |-> <<>>]
  /\ queues = [l \in Labels |-> <<>>]
  /\ cancelled = {}
  /\ told = [a \in Asks |-> 0]
  /\ closings = [a \in Asks |-> {}]

-----------------------------------------------------------------------------
(* The registry and the pending table. *)

Pending == {a \in Asks : status[a] = "open"}
Registered == {l \in Labels : clients[l] # NoConn}

NotifyTags(l) == {threads[l][i].tag : i \in DOMAIN threads[l]}

\* Mutant: the tags of notify-threads are forgotten.
AskTagsOnly == {tag[a] : a \in Pending}

ActiveTags == {tag[a] : a \in Pending} \cup UNION {NotifyTags(l) : l \in Labels}

\* Mutant: a tag that gives up and stays empty.
FreeOrEmptyTags == (Tags \cup {NoTag}) \ ActiveTags

FreeTags == Tags \ ActiveTags

\* Mutant: two agents of one checkout share its label.
AlwaysPreferred(c) == {Preferred[c]}

\* The preferred label if it is free, else a disambiguated one that is.
AssignableLabels(c) ==
  IF Preferred[c] \notin Registered THEN {Preferred[c]}
                                    ELSE Candidates[c] \ Registered

\* A line written to a connection whose agent is gone breaks the socket: the
\* handler's next read then raises, whatever it had buffered.
AfterWriteTo(c) ==
  [peer EXCEPT ![c] = IF @ = "closed" THEN "reset" ELSE @]
Received(c) == IF peer[c] = "open" THEN 1 ELSE 0

\* Both tasks are cancelled before either runs again; a task that does not
\* exist yet is not there to cancel.
Cancelled(task) == IF task = "none" THEN "none" ELSE "done"
CancelAskTasks(a) ==
  /\ timer' = [timer EXCEPT ![a] = Cancelled(@)]
  /\ reping' = [reping EXCEPT ![a] = Cancelled(@)]

Settle(a, how) == status' = [status EXCEPT ![a] = how]
ClosingDm(a, reason) == closings' = [closings EXCEPT ![a] = @ \cup {reason}]

RememberThread(l, entry) ==
  [threads EXCEPT ![l] =
     Append(IF Len(@) >= NotifyLimit THEN Tail(@) ELSE @, entry)]

Enqueued(queue, entry) ==
  Append(IF Len(queue) = QueueLimit THEN Tail(queue) ELSE queue, entry)

-----------------------------------------------------------------------------
(* The handler of a connection: accept, read a line, dispatch it. *)

\* The handler takes its next line.  Lines buffered behind a broken socket
\* are never seen.
Receive(c, type) ==
  /\ peer[c] # "reset"
  /\ inbox[c] # <<>>
  /\ Head(inbox[c]).type = type
  /\ inbox' = [inbox EXCEPT ![c] = Tail(@)]

\* Mutant: the snapshot is dropped without its tail, and the threads stay.
DropNothing(c, orphans) ==
  /\ pc' = [pc EXCEPT ![c] = "closed"]
  /\ work' = [work EXCEPT ![c] = {}]
  /\ UNCHANGED <<threads, status, timer, reping, closings>>

\* The finally block of a registered connection, up to its next await: the
\* next orphan of the snapshot is popped (if it is still there) and the user
\* told; after the last, the label's notify-threads go and the socket closes.
DropNext(c, orphans) ==
  \/ /\ orphans = {}
     /\ threads' = [threads EXCEPT ![label[c]] = <<>>]
     /\ pc' = [pc EXCEPT ![c] = "closed"]
     /\ work' = [work EXCEPT ![c] = {}]
     /\ UNCHANGED <<status, timer, reping, closings>>
  \/ \E a \in orphans :
     /\ IF status[a] = "open" THEN Settle(a, "lost") ELSE UNCHANGED status
     /\ CancelAskTasks(a)
     /\ ClosingDm(a, "lost_contact")
     /\ work' = [work EXCEPT ![c] = orphans \ {a}]
     /\ pc' = [pc EXCEPT ![c] = "dropping"]
     /\ UNCHANGED threads

\* Mutant: the label stays registered.
TeardownKeepsLabel(c) ==
  /\ UNCHANGED clients
  /\ DropNext(c, {a \in Pending : Owner[a] = c})

Teardown(c) ==
  /\ clients' = [clients EXCEPT ![label[c]] = NoConn]
  /\ DropNext(c, {a \in Pending : Owner[a] = c})

\* HELLO registers the label before HELLO_OK is written; the handler learns
\* the label only after, so a write that fails leaves the entry behind.
HandleHello(c) ==
  /\ pc[c] = "greeting"
  /\ Receive(c, "Hello")
  /\ \E l \in AssignableLabels(c) :
     /\ clients' = [clients EXCEPT ![l] = c]
     /\ IF peer[c] = "open"
          THEN /\ label' = [label EXCEPT ![c] = l]
               /\ pc' = [pc EXCEPT ![c] = "reading"]
          ELSE /\ pc' = [pc EXCEPT ![c] = "closed"]
               /\ UNCHANGED label
  /\ UNCHANGED <<work, askVars, inboxVars, peer, cancelled, history>>

\* A HELLO of another protocol version is answered with HELLO_ERR.
HandleOldHello(c) ==
  /\ pc[c] = "greeting"
  /\ Receive(c, "OldHello")
  /\ pc' = [pc EXCEPT ![c] = IF peer[c] = "open" THEN @ ELSE "closed"]
  /\ UNCHANGED <<clients, label, work, askVars, inboxVars, peer, cancelled, history>>

\* A notify takes a tag, opens a thread, then waits for Discord.
HandleNotify(c) ==
  /\ pc[c] = "reading"
  /\ Receive(c, "Notify")
  /\ \E t \in FreeTags : threads' = RememberThread(label[c], [tag |-> t, by |-> c])
  /\ pc' = [pc EXCEPT ![c] = "notifying"]
  /\ UNCHANGED <<clients, label, work, askVars, queues, peer, cancelled, history>>

\* Discord took the DM, or reported an HTTP error: the status is sent back.
NotifyDone(c) ==
  /\ pc[c] = "notifying"
  /\ peer[c] = "open"
  /\ pc' = [pc EXCEPT ![c] = "reading"]
  /\ UNCHANGED <<clients, label, work, askVars, inboxVars, agentVars, history>>

\* Mutant: an exception passes the cleanup by, as if it were in no finally block.
NotifyRaisesThrough(c) ==
  /\ pc[c] = "notifying"
  /\ pc' = [pc EXCEPT ![c] = "closed"]
  /\ UNCHANGED <<clients, label, work, askVars, inboxVars, agentVars, history>>

\* The agent is gone and the write of the status fails, or the Discord call
\* raises what transport.notify does not catch: the handler ends.
NotifyRaises(c) ==
  /\ pc[c] = "notifying"
  /\ Teardown(c)
  /\ UNCHANGED <<label, tag, queues, agentVars, told>>

\* An ask is registered under a fresh tag, then its question is sent.
HandleAskBegin(c) ==
  /\ pc[c] = "reading"
  /\ Receive(c, "AskBegin")
  /\ LET a == Head(inbox[c]).ask
     IN /\ Settle(a, "open")
        /\ \E t \in FreeTags : tag' = [tag EXCEPT ![a] = t]
        /\ work' = [work EXCEPT ![c] = {a}]
  /\ pc' = [pc EXCEPT ![c] = "asking"]
  /\ UNCHANGED <<clients, label, timer, reping, inboxVars, peer, cancelled, history>>

\* Mutant: a question whose DM failed gets no tasks.
QuestionLost(c) ==
  /\ pc[c] = "asking"
  /\ \E task \in {"none", "sleeping"} :
     /\ timer' = [a \in Asks |-> IF a \in work[c] THEN task ELSE timer[a]]
     /\ reping' = [a \in Asks |-> IF a \in work[c] THEN task ELSE reping[a]]
  /\ work' = [work EXCEPT ![c] = {}]
  /\ pc' = [pc EXCEPT ![c] = "reading"]
  /\ UNCHANGED <<clients, label, status, tag, inboxVars, agentVars, history>>

\* The question is out, or its DM failed: the tasks start, whatever became of
\* the ask meanwhile.
QuestionSent(c) ==
  /\ pc[c] = "asking"
  /\ timer' = [a \in Asks |-> IF a \in work[c] THEN "sleeping" ELSE timer[a]]
  /\ reping' = [a \in Asks |-> IF a \in work[c] THEN "sleeping" ELSE reping[a]]
  /\ work' = [work EXCEPT ![c] = {}]
  /\ pc' = [pc EXCEPT ![c] = "reading"]
  /\ UNCHANGED <<clients, label, status, tag, inboxVars, agentVars, history>>

Withdraw(a) ==
  /\ Settle(a, "withdrawn")
  /\ CancelAskTasks(a)
  /\ ClosingDm(a, "withdrawn")

\* Mutant: a cancel that does not look whether the ask still pends.
HandleAnyAskCancel(c) ==
  /\ pc[c] = "reading"
  /\ Receive(c, "AskCancel")
  /\ Withdraw(Head(inbox[c]).ask)
  /\ pc' = [pc EXCEPT ![c] = "withdrawing"]
  /\ UNCHANGED <<clients, label, work, tag, inboxVars, peer, cancelled, told>>

\* ASK_CANCEL of an ask that is settled already is ignored.
HandleAskCancel(c) ==
  /\ pc[c] = "reading"
  /\ Receive(c, "AskCancel")
  /\ LET a == Head(inbox[c]).ask
     IN \/ /\ a \in Pending
           /\ Withdraw(a)
           /\ pc' = [pc EXCEPT ![c] = "withdrawing"]
        \/ /\ a \notin Pending
           /\ UNCHANGED <<pc, status, timer, reping, closings>>
  /\ UNCHANGED <<clients, label, work, tag, inboxVars, peer, cancelled, told>>

WithdrawalSent(c) ==
  /\ pc[c] = "withdrawing"
  /\ pc' = [pc EXCEPT ![c] = "reading"]
  /\ UNCHANGED <<clients, label, work, askVars, inboxVars, agentVars, history>>

\* check_messages empties the label's queue, then writes what was in it.
HandleCheckMessages(c) ==
  /\ pc[c] = "reading"
  /\ Receive(c, "CheckMessages")
  /\ queues' = [queues EXCEPT ![label[c]] = <<>>]
  /\ IF peer[c] = "open"
       THEN UNCHANGED <<clients, pc, work, threads, status, timer, reping, closings>>
       ELSE Teardown(c)
  /\ UNCHANGED <<label, tag, peer, cancelled, told>>

HandleBye(c) ==
  /\ pc[c] = "reading"
  /\ Receive(c, "Bye")
  /\ Teardown(c)
  /\ UNCHANGED <<label, tag, queues, peer, cancelled, told>>

\* End of file after the buffered lines, or a broken socket before them.
AgentGone(c) ==
  \/ peer[c] = "reset"
  \/ peer[c] = "closed" /\ inbox[c] = <<>>

\* An agent's end that closed, or died, with answers unread resets the handler's
\* end: the lines still in its buffer are never seen.
HandleEof(c) ==
  /\ pc[c] = "reading"
  /\ peer[c] # "open"
  /\ Teardown(c)
  /\ UNCHANGED <<label, tag, queues, agentVars, told>>

\* A connection that never registered has nothing to clean up, and no answers.
HandleEofBeforeHello(c) ==
  /\ pc[c] = "greeting"
  /\ AgentGone(c)
  /\ pc' = [pc EXCEPT ![c] = "closed"]
  /\ UNCHANGED <<clients, label, work, askVars, inboxVars, agentVars, history>>

\* A lost-contact DM is out: the finally block goes on with its snapshot.
LostContactSent(c) ==
  /\ pc[c] = "dropping"
  /\ DropNext(c, work[c])
  /\ UNCHANGED <<clients, label, tag, queues, agentVars, told>>

-----------------------------------------------------------------------------
(* The tasks of an ask. *)

Expire(a) ==
  /\ Settle(a, "timed_out")
  /\ timer' = [timer EXCEPT ![a] = "closing"]
  /\ reping' = [reping EXCEPT ![a] = Cancelled(@)]
  /\ told' = [told EXCEPT ![a] = @ + Received(Owner[a])]
  /\ peer' = AfterWriteTo(Owner[a])
  /\ ClosingDm(a, "timed_out")

\* Mutant: the timeout task does not look whether the ask still pends.
UncheckedTimeout(a) ==
  /\ timer[a] = "sleeping"
  /\ Expire(a)
  /\ UNCHANGED <<connVars, tag, inboxVars, inbox, cancelled>>

\* Mutant: the timeout task spares an agent whose socket is closed.
SparingTimeout(a) ==
  /\ timer[a] = "sleeping"
  /\ IF a \in Pending /\ peer[Owner[a]] = "open"
       THEN Expire(a)
       ELSE /\ timer' = [timer EXCEPT ![a] = "done"]
            /\ UNCHANGED <<status, reping, told, peer, closings>>
  /\ UNCHANGED <<connVars, tag, inboxVars, inbox, cancelled>>

\* give_up_after_seconds are over.  An ask settled meanwhile is left alone,
\* and so is its re-ping task.
TimeoutFires(a) ==
  /\ timer[a] = "sleeping"
  /\ \/ /\ a \in Pending
        /\ Expire(a)
     \/ /\ a \notin Pending
        /\ timer' = [timer EXCEPT ![a] = "done"]
        /\ UNCHANGED <<status, reping, told, peer, closings>>
  /\ UNCHANGED <<connVars, tag, inboxVars, inbox, cancelled>>

TimeoutDmSent(a) ==
  /\ timer[a] = "closing"
  /\ timer' = [timer EXCEPT ![a] = "done"]
  /\ UNCHANGED <<connVars, status, tag, reping, inboxVars, agentVars, history>>

\* The re-ping interval is over: remind the user, unless the deadline is near
\* or past.  The deadline, counted from before the question was sent, is past
\* when the timeout task has woken.
RePing(a) ==
  /\ reping[a] = "sleeping"
  /\ timer[a] = "sleeping"
  /\ reping' = [reping EXCEPT ![a] = "sending"]
  /\ UNCHANGED <<connVars, status, tag, timer, inboxVars, agentVars, history>>

SkipRePing(a) ==
  /\ reping[a] = "sleeping"
  /\ reping' = [reping EXCEPT ![a] = "done"]
  /\ UNCHANGED <<connVars, status, tag, timer, inboxVars, agentVars, history>>

RePingSent(a) ==
  /\ reping[a] = "sending"
  /\ reping' = [reping EXCEPT ![a] = "sleeping"]
  /\ UNCHANGED <<connVars, status, tag, timer, inboxVars, agentVars, history>>

-----------------------------------------------------------------------------
(* A message of the user, from Discord or from the laptop's confer answer. *)

AskThreads    == {AskThread(tag[a], label[Owner[a]]) : a \in Pending}
NotifyThreads ==
  UNION {{NotifyThread(t, l) : t \in NotifyTags(l)} : l \in Labels}
Route(m) == RouteUserMessage(m, AskThreads, NotifyThreads, Registered)

\* The message answers the ask of a tag: the ask leaves the table, its tasks
\* are cancelled, the reply is written; an answer from the laptop is
\* announced on Discord.
DeliverReply(a, source) ==
  /\ Settle(a, "replied")
  /\ CancelAskTasks(a)
  /\ told' = [told EXCEPT ![a] = @ + Received(Owner[a])]
  /\ peer' = AfterWriteTo(Owner[a])
  /\ IF source = "cli" THEN ClosingDm(a, "cli_answered") ELSE UNCHANGED closings

\* The agent a notify-thread belongs to.
ThreadOwner(t, l) == (CHOOSE e \in {threads[l][i] : i \in DOMAIN threads[l]} :
                        e.tag = t).by

UserAnswers(source, m) ==
  /\ Route(m).kind = "deliver"
  /\ \E a \in Pending : tag[a] = Route(m).tag /\ DeliverReply(a, source)
  /\ UNCHANGED <<connVars, tag, inboxVars, inbox, cancelled>>

\* Mutant: the reply is queued under the label its agent asked for.
QueuedUnderPreferred(m) ==
  /\ Route(m).kind = "enqueue"
  /\ LET entry == [to |-> ThreadOwner(Route(m).tag, Route(m).label)]
     IN queues' = [queues EXCEPT ![Preferred[entry.to]] = Enqueued(@, entry)]
  /\ UNCHANGED <<connVars, askVars, threads, agentVars, history>>

UserRepliesToNotify(m) ==
  /\ Route(m).kind = "enqueue"
  /\ LET l == Route(m).label
         entry == [to |-> ThreadOwner(Route(m).tag, l)]
     IN queues' = [queues EXCEPT ![l] = Enqueued(@, entry)]
  /\ UNCHANGED <<connVars, askVars, threads, agentVars, history>>

UserBroadcasts(m) ==
  /\ Route(m).kind = "broadcast"
  /\ queues' = [l \in Labels |->
       IF l \in Registered
         THEN Enqueued(queues[l], [to |-> clients[l]])
         ELSE queues[l]]
  /\ UNCHANGED <<connVars, askVars, threads, agentVars, history>>

-----------------------------------------------------------------------------
(* The agent's side of a connection: its MCP server, modelled by what it    *)
(* may write and when its end may close.                                   *)

Write(c, line) ==
  /\ Len(inbox[c]) < MaxInbox
  /\ inbox' = [inbox EXCEPT ![c] = Append(@, line)]

\* connect() waits for HELLO_OK before anything else is written.  A handler
\* that cleans up after an exception of its own still has the socket open.
Connected(c) == pc[c] \in Serving \cup {"dropping"} /\ peer[c] = "open"

Connect(c) ==
  /\ pc[c] = "absent"
  /\ pc' = [pc EXCEPT ![c] = "greeting"]
  /\ \E type \in {"Hello", "OldHello"} : Write(c, [type |-> type])
  /\ UNCHANGED <<clients, label, work, askVars, inboxVars, peer, cancelled, history>>

SendLine(c) ==
  /\ Connected(c)
  /\ \E type \in AgentLines : Write(c, [type |-> type])
  /\ UNCHANGED <<connVars, askVars, inboxVars, peer, cancelled, history>>

SendAsk(a) ==
  /\ Connected(Owner[a])
  /\ status[a] = "unasked"
  /\ Write(Owner[a], [type |-> "AskBegin", ask |-> a])
  /\ status' = [status EXCEPT ![a] = "sent"]
  /\ UNCHANGED <<connVars, tag, timer, reping, inboxVars, peer, cancelled, history>>

\* The agent gives the ask up, or its reply is still on its way to it.
SendCancel(a) ==
  /\ Connected(Owner[a])
  /\ status[a] # "unasked"
  /\ a \notin cancelled
  /\ Write(Owner[a], [type |-> "AskCancel", ask |-> a])
  /\ cancelled' = cancelled \cup {a}
  /\ UNCHANGED <<connVars, askVars, inboxVars, peer, history>>

\* The asks the agent began and did not withdraw; it may not know yet that
\* some are settled.
Begun(c) == {a \in Asks : Owner[a] = c /\ status[a] # "unasked"} \ cancelled
InFlight(c) == {a \in Begun(c) : status[a] \in {"sent", "open"}}
Orders(asks) ==
  {f \in [1..Cardinality(asks) -> asks] : {f[i] : i \in DOMAIN f} = asks}
Farewell(order) ==
  Append([i \in DOMAIN order |-> [type |-> "AskCancel", ask |-> order[i]]],
         [type |-> "Bye"])

\* close(): every ask in flight is withdrawn, then Bye, and the socket closes.
Close(c) ==
  /\ Connected(c)
  /\ Len(inbox[c]) < MaxInbox
  /\ \E asks \in SUBSET Begun(c) :
     /\ InFlight(c) \subseteq asks
     /\ cancelled' = cancelled \cup asks
     /\ \E order \in Orders(asks) :
          inbox' = [inbox EXCEPT ![c] = @ \o Farewell(order)]
  /\ peer' = [peer EXCEPT ![c] = "closed"]
  /\ UNCHANGED <<connVars, askVars, inboxVars, history>>

\* The MCP server is killed, before or after the handshake.
Crash(c) ==
  /\ pc[c] \in Serving \cup {"greeting", "dropping"}
  /\ peer[c] = "open"
  /\ peer' = [peer EXCEPT ![c] = "closed"]
  /\ UNCHANGED <<connVars, askVars, inboxVars, inbox, cancelled, history>>

-----------------------------------------------------------------------------
Handler(c) ==
  \/ HandleHello(c) \/ HandleOldHello(c) \/ HandleNotify(c) \/ HandleAskBegin(c)
  \/ HandleAskCancel(c) \/ HandleCheckMessages(c) \/ HandleBye(c)
  \/ HandleEof(c) \/ HandleEofBeforeHello(c)
  \/ NotifyDone(c) \/ NotifyRaises(c) \/ QuestionSent(c) \/ WithdrawalSent(c)
  \/ LostContactSent(c)

AskTask(a) ==
  \/ TimeoutFires(a) \/ TimeoutDmSent(a)
  \/ RePing(a) \/ SkipRePing(a) \/ RePingSent(a)

User ==
  \E m \in UserMessages :
    \/ \E source \in {"discord", "cli"} : UserAnswers(source, m)
    \/ UserRepliesToNotify(m)
    \/ UserBroadcasts(m)

Agent ==
  \/ \E c \in Conns : Connect(c) \/ SendLine(c) \/ Close(c) \/ Crash(c)
  \/ \E a \in Asks : SendAsk(a) \/ SendCancel(a)

Next ==
  \/ \E c \in Conns : Handler(c)
  \/ \E a \in Asks : AskTask(a)
  \/ User
  \/ Agent

Spec == Init /\ [][Next]_vars

\* The event loop runs every task that can run, every sleep ends, and every
\* Discord call returns or raises.  Users and agents promise nothing.
Fairness ==
  /\ \A c \in Conns : WF_vars(Handler(c))
  /\ \A a \in Asks : WF_vars(TimeoutFires(a)) /\ WF_vars(TimeoutDmSent(a))

FairSpec == Spec /\ Fairness

-----------------------------------------------------------------------------
(* What makes the daemon correct. *)

\* An agent's ask call gets at most one line of answer, AskReply or AskTimeout,
\* and only from the event that settled the ask: the reply, the timeout and the
\* disconnect race for one pop of _pending_asks.
AnsweredAtMostOnce ==
  \A a \in Asks : /\ told[a] <= 1
                  /\ told[a] = 1 => status[a] \in {"replied", "timed_out"}

\* An ask in _pending_asks can always still time out: its timeout task sleeps,
\* or its handler is still on the way to create it (_handle_ask_begin creates
\* the tasks after an await).
PendingAskCanTimeOut ==
  \A a \in Pending : \/ timer[a] = "sleeping"
                     \/ pc[Owner[a]] = "asking" /\ a \in work[Owner[a]]

\* No ask outlives its connection (Orphan Ask Drop Policy): while it pends, the
\* handler of its agent is serving, or has it in the snapshot it is dropping.
PendingAskHasAgent ==
  \A a \in Pending : \/ pc[Owner[a]] \in Serving
                     \/ pc[Owner[a]] = "dropping" /\ a \in work[Owner[a]]

\* A request that was not read yet is of its own connection, is the only one of
\* its ask, and its ask was never begun (request_id is a fresh uuid4).
BeginLine(a) == [type |-> "AskBegin", ask |-> a]
AskLinesAreFresh ==
  \A c \in Conns, a \in Asks : \A i \in DOMAIN inbox[c] :
    inbox[c][i] = BeginLine(a) =>
      /\ Owner[a] = c /\ status[a] = "sent"
      /\ \A j \in DOMAIN inbox[c] : inbox[c][j] = BeginLine(a) => j = i

\* The invariant of the asks that one step carries to the next.
AskInvariant ==
  /\ AskLinesAreFresh
  /\ AnsweredAtMostOnce
  /\ PendingAskCanTimeOut
  /\ PendingAskHasAgent

\* A full tag names one open thread over all asks and all notifies of all
\* agents (_assign_thread_tag), so a reply cannot reach two.
TagsAreUnique ==
  /\ \A a, b \in Pending : tag[a] = tag[b] => a = b
  /\ \A a \in Pending, l \in Labels : tag[a] \notin NotifyTags(l)
  /\ \A l, m \in Labels : \A i \in DOMAIN threads[l], j \in DOMAIN threads[m] :
       threads[l][i].tag = threads[m][j].tag => l = m /\ i = j

\* Each agent being served is the one registered under its label: no handshake
\* takes a label in use, no disconnect removes another agent's entry.
RegistryMatchesHandlers ==
  \A c \in Conns : pc[c] \in Serving => clients[label[c]] = c

\* A replyable notify-thread is held under its agent's label and is gone when
\* the handler of that agent is (_drop_notify_threads_for_label).
ThreadsDieWithTheirAgent ==
  \A l \in Labels : \A i \in DOMAIN threads[l] :
    LET c == threads[l][i].by
    IN label[c] = l /\ pc[c] \in Serving \cup {"dropping"}

\* The closing DM reason of each outcome that is not a Discord reply.
ReasonOf(how) == CASE how = "lost"    -> "lost_contact"
                   [] how = "replied" -> "cli_answered"
                   [] OTHER           -> how

\* The user hears of every ask that ends without a reply: by its timeout, its
\* withdrawal or its agent's loss.  Nothing is said of one still open, and of two
\* outcomes never more than one besides "lost contact" (Ask Closing
\* Notifications).
ClosingDmTellsOutcome ==
  \A a \in Asks :
    /\ status[a] \in {"timed_out", "withdrawn", "lost"}
         => ReasonOf(status[a]) \in closings[a]
    /\ \A reason \in closings[a] \ {"lost_contact"} :
         status[a] \in Settled /\ reason = ReasonOf(status[a])
    /\ closings[a] # {} => status[a] \in Settled

\* While the agent a message is for is served, the message waits under its
\* label and no other agent holds that label, so no other can drain it: only
\* what a departed agent left behind is found by its successor.
MessagesWaitForTheirAgent ==
  \A l \in Labels : \A i \in DOMAIN queues[l] :
    LET c == queues[l][i].to
    IN pc[c] \in Serving => label[c] = l /\ clients[l] = c

\* The registry names agents that are being served, each under its own label,
\* and besides them only one that died before its HELLO_OK was written: the
\* cleanup of its handler does not know a label to remove.
RegisteredIsServed ==
  \A l \in Registered :
    LET c == clients[l]
    IN \/ label[c] = l /\ pc[c] \in Serving
       \/ label[c] = NoLabel /\ pc[c] = "closed" /\ peer[c] # "open"

\* "Reply-resolved asks are silent (the user just sent the reply; they know)"
\* (Ask Closing Notifications): no reminder and no "lost contact" about an ask
\* the user has answered.
SettledAsksAreSilent ==
  \A a \in Asks : status[a] = "replied" =>
    reping[a] # "sending" /\ "lost_contact" \notin closings[a]

\* An ask call never hangs: it is answered, given up by its agent, or its
\* connection is closed, which unblocks it.
EveryAskReturns ==
  \A a \in Asks :
    status[a] = "sent" ~> told[a] = 1 \/ a \in cancelled \/ pc[Owner[a]] = "closed"

\* An agent that was served and is gone, or whose handler ended by an exception
\* of its own, leaves the registry; its asks and its notify-threads leave with it.
DepartedAgentIsForgotten ==
  \A c \in Conns :
    label[c] # NoLabel /\ (peer[c] # "open" \/ pc[c] \notin Serving) ~>
      /\ \A l \in Labels : clients[l] # c
      /\ \A a \in Pending : Owner[a] # c
      /\ \A l \in Labels : \A i \in DOMAIN threads[l] : threads[l][i].by # c

\* Each ask of the daemon behaves as AskLifecycle says.
Phase(a) == IF status[a] \in {"unasked", "sent"} THEN "idle" ELSE status[a]

Lifecycle == INSTANCE AskLifecycle
  WITH phase <- [a \in Asks |-> Phase(a)], answers <- told

ImplementsLifecycle == Lifecycle!Spec
=============================================================================
