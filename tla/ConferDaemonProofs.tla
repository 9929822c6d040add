-------------------------- MODULE ConferDaemonProofs --------------------------
(***************************************************************************)
(* What ConferDaemon guarantees for any connections, asks, labels, tags and *)
(* limits.                                                                  *)
(***************************************************************************)
EXTENDS ConferDaemon, SequenceTheorems, FiniteSetTheorems, TLAPS

-----------------------------------------------------------------------------
(* Lines and bounded queues. *)

\* Taking the head off an inbox leaves lines, and the head is one.
LEMMA ReceiveTyped ==
  ASSUME TypeOK, NEW c \in Conns, NEW type, Receive(c, type)
  PROVE  /\ inbox' \in [Conns -> Seq(Line)]
         /\ Head(inbox[c]) \in Line
         /\ type \in {"AskBegin", "AskCancel"} => Head(inbox[c]).ask \in Asks
  <1>1. inbox[c] \in Seq(Line) /\ inbox[c] # <<>>
    BY DEF TypeOK, Receive
  <1>2. Head(inbox[c]) \in Line /\ Tail(inbox[c]) \in Seq(Line)
    BY <1>1, HeadTailProperties
  <1>3. type \in {"AskBegin", "AskCancel"} => Head(inbox[c]).ask \in Asks
    BY <1>2 DEF Receive, Line, PlainLine, AskLine
  <1> QED
    BY <1>2, <1>3 DEF TypeOK, Receive

\* A line an agent writes leaves its inbox a sequence of lines.
LEMMA WriteTyped ==
  ASSUME TypeOK, NEW c \in Conns, NEW line \in Line, Write(c, line)
  PROVE  inbox' \in [Conns -> Seq(Line)]
  <1>1. Append(inbox[c], line) \in Seq(Line)
    BY AppendProperties DEF TypeOK
  <1> QED
    BY <1>1 DEF TypeOK, Write

\* What a closing agent writes are lines, and none of them is a request.
LEMMA FarewellTyped ==
  ASSUME NEW asks \in SUBSET Asks, NEW order \in Orders(asks)
  PROVE  /\ Farewell(order) \in Seq(Line)
         /\ \A i \in DOMAIN Farewell(order), a \in Asks : Farewell(order)[i] # BeginLine(a)
  <1> DEFINE n == Cardinality(asks)
             cancels == [i \in DOMAIN order |-> [type |-> "AskCancel", ask |-> order[i]]]
             bye == [type |-> "Bye"]
  <1>1. n \in Nat
    BY ConstantTypes, FS_Subset, FS_CardinalityType
  <1>2. order \in [1..n -> asks]
    BY DEF Orders
  <1>3. cancels \in Seq(Line) /\ bye \in Line
    <2>1. \A i \in 1..n : [type |-> "AskCancel", ask |-> order[i]] \in Line
      BY <1>2 DEF Line, AskLine
    <2>2. cancels \in [1..n -> Line]
      BY <1>2, <2>1
    <2> QED
      BY <1>1, <2>2, SeqDef DEF Line, PlainLine
  <1>4. /\ Farewell(order) = Append(cancels, bye) /\ Farewell(order) \in Seq(Line)
        /\ Len(cancels) = n
    BY <1>1, <1>2, <1>3, AppendProperties, LenProperties DEF Farewell
  <1>5. ASSUME NEW i \in DOMAIN Farewell(order), NEW a \in Asks
        PROVE  Farewell(order)[i] # BeginLine(a)
    <2>1. Farewell(order)[i].type \in {"AskCancel", "Bye"}
      BY <1>1, <1>2, <1>3, <1>4, <1>5, AppendProperties
    <2> QED
      BY <2>1 DEF BeginLine
  <1> QED
    BY <1>4, <1>5

\* A queue with its head dropped if it is full stays a queue of its entries.
LEMMA EnqueuedTyped ==
  ASSUME NEW S, NEW queue \in Seq(S), NEW entry \in S
  PROVE  Enqueued(queue, entry) \in Seq(S)
  <1>1. CASE queue = <<>>
    <2>1. Len(queue) # QueueLimit
      BY <1>1, EmptySeq, ConstantTypes
    <2> QED
      BY <2>1, AppendProperties DEF Enqueued
  <1>2. CASE queue # <<>>
    <2>1. Tail(queue) \in Seq(S)
      BY <1>2, HeadTailProperties
    <2> QED
      BY <2>1, AppendProperties DEF Enqueued
  <1> QED
    BY <1>1, <1>2

\* So does a list of notify-threads that drops its oldest at the cap.
LEMMA RememberThreadTyped ==
  ASSUME TypeOK, NEW l \in Labels, NEW entry \in Notification
  PROVE  RememberThread(l, entry) \in [Labels -> Seq(Notification)]
  <1> DEFINE s == threads[l]
             kept == IF Len(s) >= NotifyLimit THEN Tail(s) ELSE s
  <1>1. s \in Seq(Notification)
    BY DEF TypeOK
  <1>2. Len(s) >= NotifyLimit => s # <<>>
    BY <1>1, EmptySeq, ConstantTypes
  <1>3. kept \in Seq(Notification)
    BY <1>1, <1>2, HeadTailProperties
  <1>4. Append(kept, entry) \in Seq(Notification)
    BY <1>3, AppendProperties
  <1> QED
    BY <1>4 DEF TypeOK, RememberThread

-----------------------------------------------------------------------------
(* Type correctness. *)

\* A daemon that starts is well typed.
LEMMA InitTyped == Init => TypeOK
  BY EmptySeq DEF Init, TypeOK, HandlerState, AskStatus, TimerState, RePingState

\* Settling an ask, cancelling its tasks and telling the user keep the types.
LEMMA CancelTyped ==
  ASSUME TypeOK, NEW a \in Asks, CancelAskTasks(a)
  PROVE  timer' \in [Asks -> TimerState] /\ reping' \in [Asks -> RePingState]
  <1>1. \A s \in TimerState : Cancelled(s) \in TimerState
    BY DEF Cancelled, TimerState
  <1>2. \A s \in RePingState : Cancelled(s) \in RePingState
    BY DEF Cancelled, RePingState
  <1> QED
    BY <1>1, <1>2 DEF TypeOK, CancelAskTasks

\* An ask keeps a status when it is popped.
LEMMA SettleTyped ==
  ASSUME TypeOK, NEW a \in Asks, NEW how \in AskStatus, Settle(a, how)
  PROVE  status' \in [Asks -> AskStatus]
  BY DEF TypeOK, Settle

\* The DMs sent about an ask stay closing DMs.
LEMMA ClosingDmTyped ==
  ASSUME TypeOK, NEW a \in Asks, NEW reason \in Closing, ClosingDm(a, reason)
  PROVE  closings' \in [Asks -> SUBSET Closing]
  BY DEF TypeOK, ClosingDm

\* One round of the finally block: an orphan is dropped, or the block ends.
LEMMA DropNextTyped ==
  ASSUME TypeOK, NEW c \in Conns, NEW orphans \in SUBSET Asks, DropNext(c, orphans)
  PROVE  /\ threads' \in [Labels -> Seq(Notification)]
         /\ pc' \in [Conns -> HandlerState]
         /\ work' \in [Conns -> SUBSET Asks]
         /\ status' \in [Asks -> AskStatus]
         /\ timer' \in [Asks -> TimerState]
         /\ reping' \in [Asks -> RePingState]
         /\ closings' \in [Asks -> SUBSET Closing]
  <1>1. CASE orphans = {} /\ threads' = [threads EXCEPT ![label[c]] = <<>>]
             /\ pc' = [pc EXCEPT ![c] = "closed"] /\ work' = [work EXCEPT ![c] = {}]
             /\ UNCHANGED <<status, timer, reping, closings>>
    BY <1>1, EmptySeq DEF TypeOK, HandlerState
  <1>2. ASSUME NEW a \in orphans,
               IF status[a] = "open" THEN Settle(a, "lost") ELSE UNCHANGED status,
               CancelAskTasks(a), ClosingDm(a, "lost_contact"),
               work' = [work EXCEPT ![c] = orphans \ {a}],
               pc' = [pc EXCEPT ![c] = "dropping"], UNCHANGED threads
        PROVE  /\ threads' \in [Labels -> Seq(Notification)]
               /\ pc' \in [Conns -> HandlerState]
               /\ work' \in [Conns -> SUBSET Asks]
               /\ status' \in [Asks -> AskStatus]
               /\ timer' \in [Asks -> TimerState]
               /\ reping' \in [Asks -> RePingState]
               /\ closings' \in [Asks -> SUBSET Closing]
    <2>1. a \in Asks /\ "lost" \in AskStatus /\ "lost_contact" \in Closing
      BY DEF AskStatus, Settled, Closing
    <2>2. status' \in [Asks -> AskStatus]
      BY <1>2, <2>1, SettleTyped DEF TypeOK
    <2>3. /\ timer' \in [Asks -> TimerState] /\ reping' \in [Asks -> RePingState]
          /\ closings' \in [Asks -> SUBSET Closing]
      BY <1>2, <2>1, CancelTyped, ClosingDmTyped
    <2>4. work' \in [Conns -> SUBSET Asks] /\ pc' \in [Conns -> HandlerState]
      BY <1>2 DEF TypeOK, HandlerState
    <2> QED
      BY <1>2, <2>2, <2>3, <2>4 DEF TypeOK
  <1> QED
    BY <1>1, <1>2 DEF DropNext

\* The finally block up to its first await keeps every type.
LEMMA TeardownTyped ==
  ASSUME TypeOK, NEW c \in Conns, Teardown(c)
  PROVE  /\ clients' \in [Labels -> Conns \cup {NoConn}]
         /\ threads' \in [Labels -> Seq(Notification)]
         /\ pc' \in [Conns -> HandlerState]
         /\ work' \in [Conns -> SUBSET Asks]
         /\ status' \in [Asks -> AskStatus]
         /\ timer' \in [Asks -> TimerState]
         /\ reping' \in [Asks -> RePingState]
         /\ closings' \in [Asks -> SUBSET Closing]
  <1>1. {a \in Pending : Owner[a] = c} \in SUBSET Asks
    BY DEF Pending
  <1>2. clients' \in [Labels -> Conns \cup {NoConn}]
    BY DEF Teardown, TypeOK
  <1> QED
    BY <1>1, <1>2, DropNextTyped DEF Teardown

\* What the ladder hands to a notify-thread or an ask names one that is open.
LEMMA EnqueueNamesANotify ==
  ASSUME NEW m, NEW asks, NEW notifies, NEW connected,
         \A t \in asks : t.kind = "ask",
         RouteUserMessage(m, asks, notifies, connected).kind = "enqueue"
  PROVE  \E t \in notifies :
           /\ t.tag = RouteUserMessage(m, asks, notifies, connected).tag
           /\ t.label = RouteUserMessage(m, asks, notifies, connected).label
  <1> DEFINE threads_ == asks \cup notifies
             named == IF m.marker THEN PrefixMatches(m, threads_)
                                  ELSE ExactMatches(m, threads_)
  <1>1. RouteUserMessage(m, asks, notifies, connected) = RouteTagged(m, asks, threads_)
    BY DEF RouteUserMessage, Untargeted
  <1>2. RouteUntagged(asks).kind # "enqueue"
    BY DEF RouteUntagged, Untargeted, DeliverAsk
  <1>3. named # {} /\ RouteTagged(m, asks, threads_) = RouteToThread(TheOne(named))
    BY <1>1, <1>2 DEF RouteTagged, Untargeted
  <1>4. TheOne(named) \in threads_
    BY <1>3 DEF TheOne, PrefixMatches, ExactMatches
  <1>5. /\ TheOne(named).kind # "ask"
        /\ RouteToThread(TheOne(named)) = EnqueueNotifyReply(TheOne(named))
    BY <1>1, <1>3 DEF RouteToThread, DeliverAsk
  <1> QED
    BY <1>1, <1>3, <1>4, <1>5 DEF EnqueueNotifyReply

\* The ladder hands a message to a notify-thread that is open.
LEMMA RouteNamesNotify ==
  ASSUME NEW m, Route(m).kind = "enqueue"
  PROVE  Route(m).label \in Labels /\ Route(m).tag \in NotifyTags(Route(m).label)
  <1>1. \A t \in AskThreads : t.kind = "ask"
    BY DEF AskThreads, AskThread
  <1>2. PICK t \in NotifyThreads : t.tag = Route(m).tag /\ t.label = Route(m).label
    BY <1>1, EnqueueNamesANotify DEF Route
  <1>3. PICK l \in Labels : \E u \in NotifyTags(l) : t = NotifyThread(u, l)
    BY <1>2 DEF NotifyThreads
  <1> QED
    BY <1>2, <1>3 DEF NotifyThread

\* The agent of an open notify-thread is a connection.
LEMMA ThreadOwnerTyped ==
  ASSUME TypeOK, NEW l \in Labels, NEW t \in NotifyTags(l)
  PROVE  ThreadOwner(t, l) \in Conns
  <1> DEFINE entries == {threads[l][i] : i \in DOMAIN threads[l]}
  <1>1. threads[l] \in Seq(Notification)
    BY DEF TypeOK
  <1>2. \A e \in entries : e \in Notification
    BY <1>1, LenProperties, ElementOfSeq
  <1>3. \E e \in entries : e.tag = t
    BY DEF NotifyTags
  <1>4. ThreadOwner(t, l) = (CHOOSE e \in entries : e.tag = t).by
    BY DEF ThreadOwner
  <1>5. (CHOOSE e \in entries : e.tag = t) \in entries
    BY <1>3
  <1> QED
    BY <1>2, <1>4, <1>5 DEF Notification

\* Every step of the daemon, its users and its agents keeps the types.
LEMMA NextTyped == TypeOK /\ [Next]_vars => TypeOK'
  <1> SUFFICES ASSUME TypeOK, [Next]_vars PROVE TypeOK'
    OBVIOUS
  <1> USE DEF connVars, askVars, inboxVars, agentVars, history
  <1>1. ASSUME NEW c \in Conns, HandleHello(c) PROVE TypeOK'
    <2>1. inbox' \in [Conns -> Seq(Line)]
      BY <1>1, ReceiveTyped DEF HandleHello
    <2>2. PICK l \in AssignableLabels(c) :
            /\ clients' = [clients EXCEPT ![l] = c]
            /\ \/ label' = [label EXCEPT ![c] = l] /\ pc' = [pc EXCEPT ![c] = "reading"]
               \/ pc' = [pc EXCEPT ![c] = "closed"] /\ UNCHANGED label
      BY <1>1 DEF HandleHello
    <2>3. l \in Labels
      BY ConstantTypes DEF AssignableLabels
    <2>4. pc' \in [Conns -> HandlerState]
      BY <2>2 DEF TypeOK, HandlerState, Serving
    <2>5. /\ clients' \in [Labels -> Conns \cup {NoConn}]
          /\ label' \in [Conns -> Labels \cup {NoLabel}]
      BY <2>2, <2>3 DEF TypeOK
    <2> QED
      BY <1>1, <2>1, <2>4, <2>5 DEF HandleHello, TypeOK
  <1>2. ASSUME NEW c \in Conns, HandleOldHello(c) PROVE TypeOK'
    BY <1>2, ReceiveTyped DEF HandleOldHello, TypeOK, HandlerState
  <1>3. ASSUME NEW c \in Conns, HandleNotify(c) PROVE TypeOK'
    <2>1. inbox' \in [Conns -> Seq(Line)]
      BY <1>3, ReceiveTyped DEF HandleNotify
    <2>2. PICK t \in FreeTags : threads' = RememberThread(label[c], [tag |-> t, by |-> c])
      BY <1>3 DEF HandleNotify
    <2>3. CASE label[c] \in Labels
      <3>1. [tag |-> t, by |-> c] \in Notification
        BY DEF FreeTags, Notification
      <3>2. threads' \in [Labels -> Seq(Notification)]
        BY <2>2, <2>3, <3>1, RememberThreadTyped
      <3> QED
        BY <1>3, <2>1, <3>2 DEF HandleNotify, TypeOK, HandlerState, Serving
    <2>4. CASE label[c] \notin Labels
      <3>1. threads' = threads
        BY <2>2, <2>4 DEF RememberThread, TypeOK
      <3> QED
        BY <1>3, <2>1, <3>1 DEF HandleNotify, TypeOK, HandlerState, Serving
    <2> QED
      BY <2>3, <2>4
  <1>4. ASSUME NEW c \in Conns, NotifyDone(c) PROVE TypeOK'
    BY <1>4 DEF NotifyDone, TypeOK, HandlerState, Serving
  <1>5. ASSUME NEW c \in Conns, NotifyRaises(c) PROVE TypeOK'
    BY <1>5, TeardownTyped DEF NotifyRaises, TypeOK
  <1>6. ASSUME NEW c \in Conns, HandleAskBegin(c) PROVE TypeOK'
    <2>1. inbox' \in [Conns -> Seq(Line)] /\ Head(inbox[c]).ask \in Asks
      BY <1>6, ReceiveTyped DEF HandleAskBegin
    <2>2. status' \in [Asks -> AskStatus]
      BY <1>6, <2>1, SettleTyped DEF HandleAskBegin, AskStatus
    <2>3. tag' \in [Asks -> Tags \cup {NoTag}] /\ work' \in [Conns -> SUBSET Asks]
      BY <1>6, <2>1 DEF HandleAskBegin, TypeOK, FreeTags
    <2>4. pc' \in [Conns -> HandlerState]
      BY <1>6 DEF HandleAskBegin, TypeOK, HandlerState, Serving
    <2> QED
      BY <1>6, <2>1, <2>2, <2>3, <2>4 DEF HandleAskBegin, TypeOK
  <1>7. ASSUME NEW c \in Conns, QuestionSent(c) PROVE TypeOK'
    <2>1. timer' \in [Asks -> TimerState] /\ reping' \in [Asks -> RePingState]
      BY <1>7 DEF QuestionSent, TypeOK, TimerState, RePingState
    <2> QED
      BY <1>7, <2>1 DEF QuestionSent, TypeOK, HandlerState, Serving
  <1>8. ASSUME NEW c \in Conns, HandleAskCancel(c) PROVE TypeOK'
    <2> DEFINE a == Head(inbox[c]).ask
    <2>1. inbox' \in [Conns -> Seq(Line)] /\ a \in Asks
      BY <1>8, ReceiveTyped DEF HandleAskCancel
    <2>2. CASE Withdraw(a) /\ pc' = [pc EXCEPT ![c] = "withdrawing"]
      <3>1. /\ status' \in [Asks -> AskStatus]
            /\ timer' \in [Asks -> TimerState] /\ reping' \in [Asks -> RePingState]
            /\ closings' \in [Asks -> SUBSET Closing]
        BY <2>1, <2>2, SettleTyped, CancelTyped, ClosingDmTyped
          DEF Withdraw, AskStatus, Settled, Closing
      <3>2. pc' \in [Conns -> HandlerState]
        BY <2>2 DEF TypeOK, HandlerState, Serving
      <3> QED
        BY <1>8, <2>1, <3>1, <3>2 DEF HandleAskCancel, TypeOK
    <2>3. CASE UNCHANGED <<pc, status, timer, reping, closings>>
      BY <1>8, <2>1, <2>3 DEF HandleAskCancel, TypeOK
    <2> QED
      BY <1>8, <2>2, <2>3 DEF HandleAskCancel
  <1>9. ASSUME NEW c \in Conns, WithdrawalSent(c) PROVE TypeOK'
    BY <1>9 DEF WithdrawalSent, TypeOK, HandlerState, Serving
  <1>10. ASSUME NEW c \in Conns, HandleCheckMessages(c) PROVE TypeOK'
    <2>1. inbox' \in [Conns -> Seq(Line)]
      BY <1>10, ReceiveTyped DEF HandleCheckMessages
    <2>2. queues' \in [Labels -> Seq(QueuedMessage)]
      BY <1>10, EmptySeq DEF HandleCheckMessages, TypeOK
    <2>3. CASE UNCHANGED <<clients, pc, work, threads, status, timer, reping, closings>>
      BY <1>10, <2>1, <2>2, <2>3 DEF HandleCheckMessages, TypeOK
    <2>4. CASE Teardown(c)
      BY <1>10, <2>1, <2>2, <2>4, TeardownTyped DEF HandleCheckMessages, TypeOK
    <2> QED
      BY <1>10, <2>3, <2>4 DEF HandleCheckMessages
  <1>11. ASSUME NEW c \in Conns, HandleBye(c) PROVE TypeOK'
    <2>1. inbox' \in [Conns -> Seq(Line)]
      BY <1>11, ReceiveTyped DEF HandleBye
    <2> QED
      BY <1>11, <2>1, TeardownTyped DEF HandleBye, TypeOK
  <1>12. ASSUME NEW c \in Conns, HandleEof(c) PROVE TypeOK'
    BY <1>12, TeardownTyped DEF HandleEof, TypeOK
  <1>13. ASSUME NEW c \in Conns, HandleEofBeforeHello(c) PROVE TypeOK'
    BY <1>13 DEF HandleEofBeforeHello, TypeOK, HandlerState
  <1>14. ASSUME NEW c \in Conns, LostContactSent(c) PROVE TypeOK'
    <2>1. work[c] \in SUBSET Asks /\ DropNext(c, work[c])
      BY <1>14 DEF LostContactSent, TypeOK
    <2> QED
      BY <1>14, <2>1, DropNextTyped DEF LostContactSent, TypeOK
  <1>15. ASSUME NEW a \in Asks, TimeoutFires(a) PROVE TypeOK'
    <2>1. CASE Expire(a)
      <3>1. status' \in [Asks -> AskStatus] /\ closings' \in [Asks -> SUBSET Closing]
        BY <2>1, SettleTyped, ClosingDmTyped DEF Expire, AskStatus, Settled, Closing
      <3>2. /\ timer' \in [Asks -> TimerState]
            /\ reping' \in [Asks -> RePingState]
        BY <2>1 DEF Expire, TypeOK, TimerState, RePingState, Cancelled
      <3>3. told' \in [Asks -> Nat]
        BY <2>1 DEF Expire, TypeOK, Received
      <3>4. peer' \in [Conns -> {"open", "closed", "reset"}]
        BY <2>1 DEF Expire, TypeOK, AfterWriteTo
      <3> QED
        BY <1>15, <3>1, <3>2, <3>3, <3>4 DEF TimeoutFires, TypeOK
    <2>2. CASE /\ timer' = [timer EXCEPT ![a] = "done"]
               /\ UNCHANGED <<status, reping, told, peer, closings>>
      BY <1>15, <2>2 DEF TimeoutFires, TypeOK, TimerState
    <2> QED
      BY <1>15, <2>1, <2>2 DEF TimeoutFires
  <1>16. ASSUME NEW a \in Asks, TimeoutDmSent(a) PROVE TypeOK'
    BY <1>16 DEF TimeoutDmSent, TypeOK, TimerState
  <1>17. ASSUME NEW a \in Asks, RePing(a) \/ SkipRePing(a) \/ RePingSent(a) PROVE TypeOK'
    BY <1>17 DEF RePing, SkipRePing, RePingSent, TypeOK, RePingState
  <1>18. ASSUME NEW m \in UserMessages, NEW source \in {"discord", "cli"}, UserAnswers(source, m)
         PROVE TypeOK'
    <2>1. PICK a \in Pending : DeliverReply(a, source)
      BY <1>18 DEF UserAnswers
    <2>2. a \in Asks
      BY <2>1 DEF Pending
    <2>3. /\ status' \in [Asks -> AskStatus]
          /\ timer' \in [Asks -> TimerState] /\ reping' \in [Asks -> RePingState]
      BY <2>1, <2>2, SettleTyped, CancelTyped DEF DeliverReply, AskStatus, Settled
    <2>4. closings' \in [Asks -> SUBSET Closing]
      BY <2>1, <2>2, ClosingDmTyped DEF DeliverReply, Closing, TypeOK
    <2>5. told' \in [Asks -> Nat]
      <3>1. told' = [told EXCEPT ![a] = @ + Received(Owner[a])]
        BY <2>1 DEF DeliverReply
      <3>2. Received(Owner[a]) \in Nat
        BY DEF Received
      <3> QED
        BY <2>2, <3>1, <3>2 DEF TypeOK
    <2>6. peer' \in [Conns -> {"open", "closed", "reset"}]
      <3>1. peer' = AfterWriteTo(Owner[a])
        BY <2>1 DEF DeliverReply
      <3> QED
        BY <3>1 DEF TypeOK, AfterWriteTo
    <2> QED
      BY <1>18, <2>3, <2>4, <2>5, <2>6 DEF UserAnswers, TypeOK
  <1>19. ASSUME NEW m \in UserMessages, UserRepliesToNotify(m) PROVE TypeOK'
    <2> DEFINE l == Route(m).label
               entry == [to |-> ThreadOwner(Route(m).tag, l)]
    <2>1. queues' = [queues EXCEPT ![l] = Enqueued(queues[l], entry)]
      BY <1>19 DEF UserRepliesToNotify
    <2>2. l \in Labels /\ Route(m).tag \in NotifyTags(l)
      BY <1>19, RouteNamesNotify DEF UserRepliesToNotify
    <2>3. entry \in QueuedMessage
      BY <2>2, ThreadOwnerTyped DEF QueuedMessage
    <2>4. queues' \in [Labels -> Seq(QueuedMessage)]
      BY <2>1, <2>2, <2>3, EnqueuedTyped DEF TypeOK
    <2> QED
      BY <1>19, <2>4 DEF UserRepliesToNotify, TypeOK
  <1>20. ASSUME NEW m \in UserMessages, UserBroadcasts(m) PROVE TypeOK'
    <2>1. ASSUME NEW l \in Registered
          PROVE  Enqueued(queues[l], [to |-> clients[l]]) \in Seq(QueuedMessage)
      <3>1. l \in Labels /\ [to |-> clients[l]] \in QueuedMessage
        BY <2>1 DEF Registered, QueuedMessage, TypeOK
      <3> QED
        BY <3>1, EnqueuedTyped DEF TypeOK
    <2>2. queues' \in [Labels -> Seq(QueuedMessage)]
      BY <1>20, <2>1 DEF UserBroadcasts, TypeOK
    <2> QED
      BY <1>20, <2>2 DEF UserBroadcasts, TypeOK
  <1>21. ASSUME NEW c \in Conns, Connect(c) PROVE TypeOK'
    <2>1. PICK type \in {"Hello", "OldHello"} : Write(c, [type |-> type])
      BY <1>21 DEF Connect
    <2>2. [type |-> type] \in Line
      BY DEF Line, PlainLine
    <2> QED
      BY <1>21, <2>1, <2>2, WriteTyped DEF Connect, TypeOK, HandlerState
  <1>22. ASSUME NEW c \in Conns, SendLine(c) PROVE TypeOK'
    <2>1. PICK type \in AgentLines : Write(c, [type |-> type])
      BY <1>22 DEF SendLine
    <2>2. [type |-> type] \in Line
      BY ConstantTypes DEF Line, PlainLine
    <2> QED
      BY <1>22, <2>1, <2>2, WriteTyped DEF SendLine, TypeOK
  <1>23. ASSUME NEW a \in Asks, SendAsk(a) PROVE TypeOK'
    <2>1. Owner[a] \in Conns /\ [type |-> "AskBegin", ask |-> a] \in Line
      BY ConstantTypes DEF Line, AskLine
    <2>2. inbox' \in [Conns -> Seq(Line)]
      BY <1>23, <2>1, WriteTyped DEF SendAsk
    <2> QED
      BY <1>23, <2>2 DEF SendAsk, TypeOK, AskStatus
  <1>24. ASSUME NEW a \in Asks, SendCancel(a) PROVE TypeOK'
    <2>1. Owner[a] \in Conns /\ [type |-> "AskCancel", ask |-> a] \in Line
      BY ConstantTypes DEF Line, AskLine
    <2>2. inbox' \in [Conns -> Seq(Line)]
      BY <1>24, <2>1, WriteTyped DEF SendCancel
    <2> QED
      BY <1>24, <2>2 DEF SendCancel, TypeOK
  <1>25. ASSUME NEW c \in Conns, Close(c) PROVE TypeOK'
    <2>1. PICK asks \in SUBSET Begun(c) :
            /\ cancelled' = cancelled \cup asks
            /\ \E order \in Orders(asks) :
                 inbox' = [inbox EXCEPT ![c] = @ \o Farewell(order)]
      BY <1>25 DEF Close
    <2>2. PICK order \in Orders(asks) : inbox' = [inbox EXCEPT ![c] = @ \o Farewell(order)]
      BY <2>1
    <2>3. asks \in SUBSET Asks
      BY DEF Begun
    <2>4. inbox[c] \o Farewell(order) \in Seq(Line)
      BY <2>3, FarewellTyped, ConcatProperties DEF TypeOK
    <2>5. inbox' \in [Conns -> Seq(Line)] /\ cancelled' \subseteq Asks
      BY <2>1, <2>2, <2>3, <2>4 DEF TypeOK
    <2> QED
      BY <1>25, <2>5 DEF Close, TypeOK
  <1>26. ASSUME NEW c \in Conns, Crash(c) PROVE TypeOK'
    BY <1>26 DEF Crash, TypeOK
  <1>27. CASE UNCHANGED vars
    BY <1>27 DEF vars, TypeOK
  <1> QED
    BY <1>1, <1>2, <1>3, <1>4, <1>5, <1>6, <1>7, <1>8, <1>9, <1>10, <1>11, <1>12,
       <1>13, <1>14, <1>15, <1>16, <1>17, <1>18, <1>19, <1>20, <1>21, <1>22, <1>23,
       <1>24, <1>25, <1>26, <1>27 DEF Next, Handler, AskTask, User, Agent

\* Every variable of the daemon keeps its type.
THEOREM TypeCorrect == Spec => []TypeOK
  BY InitTyped, NextTyped, PTL DEF Spec

-----------------------------------------------------------------------------
(* The inductive invariant of the asks: a pending ask has an agent and a    *)
(* timeout, a settled one was answered at most once.                        *)

AskProgress == AnsweredAtMostOnce /\ PendingAskCanTimeOut /\ PendingAskHasAgent

\* Steps that settle no ask and begin none.
QuietStep ==
  /\ UNCHANGED <<told, work>>
  /\ \A a \in Asks : \/ status'[a] = status[a]
                     \/ status[a] = "unasked" /\ status'[a] = "sent"
  /\ \A a \in Pending : timer[a] = "sleeping" => timer'[a] = "sleeping"
  /\ \A c \in Conns : \/ pc'[c] = pc[c]
                      \/ /\ pc[c] \notin {"asking", "dropping"}
                         /\ pc[c] \in Serving => pc'[c] \in Serving

\* A step that settles nothing and ends no handler keeps the promises to asks.
LEMMA QuietStepKeeps ==
  ASSUME TypeOK, AskProgress, QuietStep
  PROVE  AskProgress'
  <1>1. AnsweredAtMostOnce'
    BY DEF TypeOK, AskProgress, QuietStep, AnsweredAtMostOnce
  <1>2. Pending' = Pending
    BY DEF QuietStep, Pending
  <1>3. \A a \in Asks : Owner[a] \in Conns
    BY ConstantTypes
  <1>4. PendingAskCanTimeOut'
    BY <1>2, <1>3 DEF AskProgress, QuietStep, PendingAskCanTimeOut, Pending
  <1>5. PendingAskHasAgent'
    BY <1>2, <1>3 DEF AskProgress, QuietStep, PendingAskHasAgent, Pending, Serving
  <1> QED
    BY <1>1, <1>4, <1>5 DEF AskProgress

\* Steps that settle one pending ask and answer its agent or not.
SettlingStep(a, how) ==
  /\ status[a] = "open"
  /\ Settle(a, how)
  /\ \/ UNCHANGED told
     \/ how \in {"replied", "timed_out"} /\ told' = [told EXCEPT ![a] = @ + Received(Owner[a])]
  /\ UNCHANGED work
  /\ \A b \in Asks \ {a} : timer'[b] = timer[b]
  /\ \A c \in Conns : pc'[c] = pc[c] \/ (pc[c] = "reading" /\ pc'[c] = "withdrawing")

\* A step that pops one ask keeps them: it tells its agent at most once.
LEMMA SettlingStepKeeps ==
  ASSUME TypeOK, AskProgress, NEW a \in Asks, NEW how \in Settled, SettlingStep(a, how)
  PROVE  AskProgress'
  <1>1. /\ status' = [status EXCEPT ![a] = how]
        /\ \A b \in Asks \ {a} : status'[b] = status[b]
        /\ status'[a] = how /\ how # "open"
    BY DEF SettlingStep, Settle, TypeOK, Settled
  <1>2. Pending' = Pending \ {a}
    BY <1>1 DEF Pending
  <1>3. \A b \in Asks : Owner[b] \in Conns
    BY ConstantTypes
  <1>4. told[a] = 0 /\ Received(Owner[a]) \in {0, 1}
    <2>1. told[a] \in Nat /\ told[a] <= 1 /\ told[a] # 1
      BY DEF TypeOK, AskProgress, AnsweredAtMostOnce, SettlingStep
    <2> QED
      BY <2>1 DEF Received
  <1>5. AnsweredAtMostOnce'
    <2>1. CASE UNCHANGED told
      BY <1>1, <1>4, <2>1 DEF AskProgress, AnsweredAtMostOnce
    <2>2. CASE /\ how \in {"replied", "timed_out"}
               /\ told' = [told EXCEPT ![a] = @ + Received(Owner[a])]
      <3>1. told'[a] \in {0, 1} /\ \A b \in Asks \ {a} : told'[b] = told[b]
        BY <1>4, <2>2 DEF TypeOK
      <3> QED
        BY <1>1, <2>2, <3>1 DEF AskProgress, AnsweredAtMostOnce
    <2> QED
      BY <2>1, <2>2 DEF SettlingStep
  <1>6. PendingAskCanTimeOut'
    BY <1>2, <1>3 DEF AskProgress, SettlingStep, PendingAskCanTimeOut, Pending
  <1>7. PendingAskHasAgent'
    BY <1>2, <1>3 DEF AskProgress, SettlingStep, PendingAskHasAgent, Pending, Serving
  <1> QED
    BY <1>5, <1>6, <1>7 DEF AskProgress

\* A handler that drops a snapshot which holds every pending ask of its agent.
LEMMA DropNextKeeps ==
  ASSUME TypeOK, AskProgress, NEW c \in Conns, NEW orphans \in SUBSET Asks,
         pc[c] # "asking", UNCHANGED told,
         \A a \in Pending : Owner[a] = c => a \in orphans,
         DropNext(c, orphans)
  PROVE  AskProgress'
  <1>1. \A a \in Asks : Owner[a] \in Conns
    BY ConstantTypes
  <1>2. CASE /\ orphans = {}
             /\ pc' = [pc EXCEPT ![c] = "closed"] /\ work' = [work EXCEPT ![c] = {}]
             /\ UNCHANGED <<status, timer, reping, closings>>
    <2>1. \A a \in Pending : Owner[a] # c
      BY <1>2
    <2>2. Pending' = Pending /\ \A d \in Conns \ {c} : pc'[d] = pc[d] /\ work'[d] = work[d]
      BY <1>2 DEF TypeOK, Pending
    <2>3. AnsweredAtMostOnce'
      BY <1>2 DEF AskProgress, AnsweredAtMostOnce
    <2>4. PendingAskCanTimeOut' /\ PendingAskHasAgent'
      BY <1>1, <1>2, <2>1, <2>2
        DEF AskProgress, PendingAskCanTimeOut, PendingAskHasAgent, Pending
    <2> QED
      BY <2>3, <2>4 DEF AskProgress
  <1>3. ASSUME NEW a \in orphans,
               IF status[a] = "open" THEN Settle(a, "lost") ELSE UNCHANGED status,
               CancelAskTasks(a), work' = [work EXCEPT ![c] = orphans \ {a}],
               pc' = [pc EXCEPT ![c] = "dropping"]
        PROVE  AskProgress'
    <2>1. /\ \A b \in Asks \ {a} : status'[b] = status[b] /\ timer'[b] = timer[b]
          /\ status[a] # "open" => status'[a] = status[a]
          /\ status[a] = "open" => status'[a] = "lost"
      BY <1>3 DEF TypeOK, Settle, CancelAskTasks
    <2>2. Pending' = Pending \ {a}
      BY <2>1 DEF Pending
    <2>3. /\ pc'[c] = "dropping" /\ work'[c] = orphans \ {a}
          /\ \A d \in Conns \ {c} : pc'[d] = pc[d] /\ work'[d] = work[d]
      BY <1>3 DEF TypeOK
    <2>4. AnsweredAtMostOnce'
      BY <2>1 DEF TypeOK, AskProgress, AnsweredAtMostOnce
    <2>5. PendingAskCanTimeOut'
      BY <1>1, <2>1, <2>2, <2>3 DEF AskProgress, PendingAskCanTimeOut, Pending
    <2>6. PendingAskHasAgent'
      BY <1>1, <2>2, <2>3 DEF AskProgress, PendingAskHasAgent, Pending
    <2> QED
      BY <2>4, <2>5, <2>6 DEF AskProgress
  <1> QED
    BY <1>2, <1>3 DEF DropNext

\* The finally block takes every pending ask of its agent into the snapshot.
LEMMA TeardownKeeps ==
  ASSUME TypeOK, AskProgress, NEW c \in Conns, pc[c] # "asking", UNCHANGED told, Teardown(c)
  PROVE  AskProgress'
  <1> DEFINE orphans == {a \in Pending : Owner[a] = c}
  <1>1. orphans \in SUBSET Asks
    BY DEF Pending
  <1> QED
    BY <1>1, DropNextKeeps DEF Teardown

-----------------------------------------------------------------------------
(* Requests on their way stay fresh. *)

\* A step that touches no inbox and no request on its way keeps them fresh.
LEMMA SameInboxKeepsFresh ==
  ASSUME TypeOK, AskLinesAreFresh, UNCHANGED inbox,
         \A a \in Asks : status[a] = "sent" => status'[a] = "sent"
  PROVE  AskLinesAreFresh'
  <1> SUFFICES ASSUME NEW d \in Conns, NEW a \in Asks, NEW i \in DOMAIN inbox'[d],
                      inbox'[d][i] = BeginLine(a)
               PROVE  /\ Owner[a] = d /\ status'[a] = "sent"
                      /\ \A j \in DOMAIN inbox'[d] : inbox'[d][j] = BeginLine(a) => j = i
    BY DEF AskLinesAreFresh, BeginLine
  <1> QED
    BY DEF AskLinesAreFresh

\* A handler that takes a line off its inbox keeps the others fresh.
LEMMA ReceiveKeepsFresh ==
  ASSUME TypeOK, AskLinesAreFresh, NEW c \in Conns, NEW type, Receive(c, type),
         \A a \in Asks : status[a] = "sent" /\ Head(inbox[c]) # BeginLine(a) => status'[a] = "sent"
  PROVE  AskLinesAreFresh'
  <1> SUFFICES ASSUME NEW d \in Conns, NEW a \in Asks, NEW i \in DOMAIN inbox'[d],
                      inbox'[d][i] = BeginLine(a)
               PROVE  /\ Owner[a] = d /\ status'[a] = "sent"
                      /\ \A j \in DOMAIN inbox'[d] : inbox'[d][j] = BeginLine(a) => j = i
    BY DEF AskLinesAreFresh, BeginLine
  <1>1. inbox[c] \in Seq(Line) /\ inbox[c] # <<>> /\ inbox' = [inbox EXCEPT ![c] = Tail(@)]
    BY DEF TypeOK, Receive
  <1>2. /\ Len(inbox[c]) \in Nat \ {0} /\ DOMAIN inbox[c] = 1..Len(inbox[c])
        /\ Head(inbox[c]) = inbox[c][1]
    BY <1>1, EmptySeq, LenProperties
  <1>3. /\ Tail(inbox[c]) \in Seq(Line) /\ Len(Tail(inbox[c])) = Len(inbox[c]) - 1
        /\ DOMAIN Tail(inbox[c]) = 1..Len(Tail(inbox[c]))
        /\ \A j \in 1..Len(Tail(inbox[c])) : Tail(inbox[c])[j] = inbox[c][j+1]
    BY <1>1, HeadTailProperties, LenProperties
  <1>4. CASE d = c
    <2>1. inbox'[c] = Tail(inbox[c])
      BY <1>1 DEF TypeOK
    <2>2. /\ i \in 1..(Len(inbox[c]) - 1) /\ i + 1 \in DOMAIN inbox[c]
          /\ inbox[c][i+1] = BeginLine(a)
      BY <1>2, <1>3, <1>4, <2>1
    <2>3. /\ Owner[a] = c /\ status[a] = "sent"
          /\ \A j \in DOMAIN inbox[c] : inbox[c][j] = BeginLine(a) => j = i + 1
      BY <2>2 DEF AskLinesAreFresh
    <2>4. Head(inbox[c]) # BeginLine(a)
      BY <1>2, <2>2, <2>3
    <2>5. ASSUME NEW j \in DOMAIN inbox'[d], inbox'[d][j] = BeginLine(a) PROVE j = i
      <3>1. j \in 1..(Len(inbox[c]) - 1) /\ j + 1 \in DOMAIN inbox[c]
            /\ inbox[c][j+1] = BeginLine(a)
        BY <1>2, <1>3, <1>4, <2>1, <2>5
      <3>2. j + 1 = i + 1
        BY <2>3, <3>1
      <3> QED
        BY <2>2, <3>1, <3>2
    <2> QED
      BY <1>4, <2>3, <2>4, <2>5
  <1>5. CASE d # c
    <2>1. inbox'[d] = inbox[d]
      BY <1>1, <1>5 DEF TypeOK
    <2>2. /\ Owner[a] = d /\ status[a] = "sent"
          /\ \A j \in DOMAIN inbox[d] : inbox[d][j] = BeginLine(a) => j = i
      BY <2>1 DEF AskLinesAreFresh
    <2>3. Head(inbox[c]) # BeginLine(a)
      BY <1>2, <1>5, <2>2 DEF AskLinesAreFresh
    <2> QED
      BY <2>1, <2>2, <2>3
  <1> QED
    BY <1>4, <1>5

\* A new line is no request, or the request of an ask that never had one.
LEMMA WriteKeepsFresh ==
  ASSUME TypeOK, AskLinesAreFresh, NEW c \in Conns, NEW line \in Line, Write(c, line),
         \A a \in Asks : status[a] = "sent" => status'[a] = "sent",
         \A a \in Asks : line = BeginLine(a) =>
           Owner[a] = c /\ status[a] = "unasked" /\ status'[a] = "sent"
  PROVE  AskLinesAreFresh'
  <1> SUFFICES ASSUME NEW d \in Conns, NEW a \in Asks, NEW i \in DOMAIN inbox'[d],
                      inbox'[d][i] = BeginLine(a)
               PROVE  /\ Owner[a] = d /\ status'[a] = "sent"
                      /\ \A j \in DOMAIN inbox'[d] : inbox'[d][j] = BeginLine(a) => j = i
    BY DEF AskLinesAreFresh, BeginLine
  <1>1. inbox[c] \in Seq(Line) /\ inbox' = [inbox EXCEPT ![c] = Append(@, line)]
    BY DEF TypeOK, Write
  <1>2. /\ Len(inbox[c]) \in Nat /\ DOMAIN inbox[c] = 1..Len(inbox[c])
        /\ Append(inbox[c], line) \in Seq(Line)
        /\ DOMAIN Append(inbox[c], line) = 1..(Len(inbox[c]) + 1)
        /\ \A j \in 1..Len(inbox[c]) : Append(inbox[c], line)[j] = inbox[c][j]
        /\ Append(inbox[c], line)[Len(inbox[c]) + 1] = line
    BY <1>1, AppendProperties, LenProperties
  <1>3. CASE d = c
    <2>1. inbox'[c] = Append(inbox[c], line)
      BY <1>1 DEF TypeOK
    <2>2. CASE line = BeginLine(a)
      <3>1. \A j \in DOMAIN inbox[c] : inbox[c][j] # BeginLine(a)
        BY <2>2 DEF AskLinesAreFresh
      <3>2. \A j \in DOMAIN inbox'[d] : inbox'[d][j] = BeginLine(a) => j = Len(inbox[c]) + 1
        BY <1>2, <1>3, <2>1, <3>1
      <3> QED
        BY <1>3, <2>2, <3>2
    <2>3. CASE line # BeginLine(a)
      <3>1. \A j \in DOMAIN inbox'[d] : inbox'[d][j] = BeginLine(a) =>
               j \in DOMAIN inbox[c] /\ inbox[c][j] = BeginLine(a)
        BY <1>2, <1>3, <2>1, <2>3
      <3> QED
        BY <1>3, <3>1 DEF AskLinesAreFresh
    <2> QED
      BY <2>2, <2>3
  <1>4. CASE d # c
    <2>1. inbox'[d] = inbox[d]
      BY <1>1, <1>4 DEF TypeOK
    <2> QED
      BY <2>1 DEF AskLinesAreFresh
  <1> QED
    BY <1>3, <1>4

\* So do lines that are no requests.
LEMMA ConcatKeepsFresh ==
  ASSUME TypeOK, AskLinesAreFresh, NEW c \in Conns, NEW lines \in Seq(Line),
         inbox' = [inbox EXCEPT ![c] = @ \o lines],
         \A i \in DOMAIN lines, a \in Asks : lines[i] # BeginLine(a),
         \A a \in Asks : status[a] = "sent" => status'[a] = "sent"
  PROVE  AskLinesAreFresh'
  <1> SUFFICES ASSUME NEW d \in Conns, NEW a \in Asks
               PROVE  \A i \in DOMAIN inbox'[d] : inbox'[d][i] = BeginLine(a) =>
                        /\ Owner[a] = d /\ status'[a] = "sent"
                        /\ \A j \in DOMAIN inbox'[d] : inbox'[d][j] = BeginLine(a) => j = i
    BY DEF AskLinesAreFresh, BeginLine
  <1>1. inbox[c] \in Seq(Line)
    BY DEF TypeOK
  <1>2. \A i \in DOMAIN inbox'[d] : inbox'[d][i] = BeginLine(a) =>
          i \in DOMAIN inbox[d] /\ inbox[d][i] = BeginLine(a)
    <2>1. CASE d # c
      BY <2>1 DEF TypeOK
    <2>2. CASE d = c
      <3>1. inbox'[d] = inbox[c] \o lines
        BY <2>2 DEF TypeOK
      <3>2. /\ DOMAIN (inbox[c] \o lines) = 1..(Len(inbox[c]) + Len(lines))
            /\ DOMAIN inbox[c] = 1..Len(inbox[c]) /\ DOMAIN lines = 1..Len(lines)
            /\ Len(inbox[c]) \in Nat /\ Len(lines) \in Nat
            /\ \A i \in 1..(Len(inbox[c]) + Len(lines)) : (inbox[c] \o lines)[i] =
                 IF i <= Len(inbox[c]) THEN inbox[c][i] ELSE lines[i - Len(inbox[c])]
        BY <1>1, ConcatProperties, LenProperties
      <3>3. \A i \in 1..(Len(inbox[c]) + Len(lines)) :
              i <= Len(inbox[c]) \/ i - Len(inbox[c]) \in DOMAIN lines
        BY <3>2
      <3> QED
        BY <2>2, <3>1, <3>2, <3>3
    <2> QED
      BY <2>1, <2>2
  <1> QED
    BY <1>2 DEF AskLinesAreFresh

-----------------------------------------------------------------------------
\* A daemon that starts owes no ask anything.
LEMMA InitAskInvariant == Init => AskInvariant
  BY EmptySeq DEF Init, AskInvariant, AskLinesAreFresh, AnsweredAtMostOnce,
     PendingAskCanTimeOut, PendingAskHasAgent, Pending

\* Steps of a handler, of an agent, of a task or of the user that are quiet.
LEMMA QuietNextKeeps ==
  ASSUME TypeOK, AskInvariant, QuietStep,
         \/ UNCHANGED inbox
         \/ \E c \in Conns, type \in {"Hello", "OldHello", "Notify", "AskCancel", "CheckMessages"} :
              Receive(c, type)
         \/ \E c \in Conns, line \in Line : /\ Write(c, line)
              /\ \A a \in Asks : line = BeginLine(a) =>
                   Owner[a] = c /\ status[a] = "unasked" /\ status'[a] = "sent"
         \/ AskLinesAreFresh'
  PROVE  AskInvariant'
  <1>1. AskProgress'
    BY QuietStepKeeps DEF AskInvariant, AskProgress
  <1>2. \A a \in Asks : status[a] = "sent" => status'[a] = "sent"
    BY DEF QuietStep
  <1>3. AskLinesAreFresh'
    <2>1. CASE UNCHANGED inbox
      BY <1>2, <2>1, SameInboxKeepsFresh DEF AskInvariant
    <2>2. ASSUME NEW c \in Conns, NEW type, Receive(c, type) PROVE AskLinesAreFresh'
      BY <1>2, <2>2, ReceiveKeepsFresh DEF AskInvariant
    <2>3. ASSUME NEW c \in Conns, NEW line \in Line, Write(c, line),
                 \A a \in Asks : line = BeginLine(a) =>
                   Owner[a] = c /\ status[a] = "unasked" /\ status'[a] = "sent"
          PROVE AskLinesAreFresh'
      BY <1>2, <2>3, WriteKeepsFresh DEF AskInvariant
    <2> QED
      BY <2>1, <2>2, <2>3
  <1> QED
    BY <1>1, <1>3 DEF AskInvariant, AskProgress

\* Steps that settle a pending ask, and the handler that takes a withdrawal.
LEMMA SettlingNextKeeps ==
  ASSUME TypeOK, AskInvariant, NEW a \in Asks, NEW how \in Settled, SettlingStep(a, how),
         \/ UNCHANGED inbox
         \/ \E c \in Conns : Receive(c, "AskCancel")
  PROVE  AskInvariant'
  <1>1. AskProgress'
    BY SettlingStepKeeps DEF AskInvariant, AskProgress
  <1>2. \A b \in Asks : status[b] = "sent" => status'[b] = "sent"
    BY DEF SettlingStep, Settle, TypeOK
  <1>3. AskLinesAreFresh'
    <2>1. CASE UNCHANGED inbox
      BY <1>2, <2>1, SameInboxKeepsFresh DEF AskInvariant
    <2>2. ASSUME NEW c \in Conns, Receive(c, "AskCancel") PROVE AskLinesAreFresh'
      BY <1>2, <2>2, ReceiveKeepsFresh DEF AskInvariant
    <2> QED
      BY <2>1, <2>2
  <1> QED
    BY <1>1, <1>3 DEF AskInvariant, AskProgress

\* The finally block of a handler, entered after a line or an end of file.
LEMMA DroppingNextKeeps ==
  ASSUME TypeOK, AskInvariant, NEW c \in Conns, UNCHANGED told,
         \/ pc[c] # "asking" /\ Teardown(c)
         \/ pc[c] = "dropping" /\ DropNext(c, work[c]),
         \/ UNCHANGED inbox
         \/ \E type \in {"CheckMessages", "Bye"} : Receive(c, type)
  PROVE  AskInvariant'
  <1>1. AskProgress
    BY DEF AskInvariant, AskProgress
  <1>2. AskProgress'
    <2>1. CASE pc[c] # "asking" /\ Teardown(c)
      BY <1>1, <2>1, TeardownKeeps
    <2>2. CASE pc[c] = "dropping" /\ DropNext(c, work[c])
      <3>1. work[c] \in SUBSET Asks
        BY DEF TypeOK
      <3>2. \A a \in Pending : Owner[a] = c => a \in work[c]
        BY <2>2 DEF AskInvariant, PendingAskHasAgent, Serving
      <3> QED
        BY <1>1, <2>2, <3>1, <3>2, DropNextKeeps
    <2> QED
      BY <2>1, <2>2
  <1>3. \A b \in Asks : status[b] = "sent" => status'[b] = "sent"
    <2>1. \A orphans : DropNext(c, orphans) =>
            \A b \in Asks : status[b] = "sent" => status'[b] = "sent"
      BY DEF DropNext, Settle, TypeOK
    <2> QED
      BY <2>1 DEF Teardown
  <1>4. AskLinesAreFresh'
    <2>1. CASE UNCHANGED inbox
      BY <1>3, <2>1, SameInboxKeepsFresh DEF AskInvariant
    <2>2. ASSUME NEW type, Receive(c, type) PROVE AskLinesAreFresh'
      BY <1>3, <2>2, ReceiveKeepsFresh DEF AskInvariant
    <2> QED
      BY <2>1, <2>2
  <1> QED
    BY <1>2, <1>4 DEF AskInvariant, AskProgress

\* A begun ask pends while its handler is about to create its timeout task.
LEMMA AskBeginKeeps ==
  ASSUME TypeOK, AskInvariant, NEW c \in Conns, HandleAskBegin(c)
  PROVE  AskInvariant'
  <1> DEFINE a == Head(inbox[c]).ask
  <1>1. /\ Receive(c, "AskBegin") /\ pc[c] = "reading"
        /\ status' = [status EXCEPT ![a] = "open"]
        /\ work' = [work EXCEPT ![c] = {a}] /\ pc' = [pc EXCEPT ![c] = "asking"]
        /\ UNCHANGED <<timer, told>>
    BY DEF HandleAskBegin, Settle, history
  <1>2. Head(inbox[c]) \in Line /\ a \in Asks
    BY <1>1, ReceiveTyped
  <1>3. Head(inbox[c]) = BeginLine(a)
    BY <1>1, <1>2 DEF Receive, Line, PlainLine, AskLine, BeginLine
  <1>4. 1 \in DOMAIN inbox[c] /\ inbox[c][1] = BeginLine(a)
    <2>1. inbox[c] \in Seq(Line) /\ inbox[c] # <<>>
      BY <1>1 DEF TypeOK, Receive
    <2> QED
      BY <1>3, <2>1, EmptySeq, LenProperties
  <1>5. Owner[a] = c /\ status[a] = "sent"
    BY <1>2, <1>4 DEF AskInvariant, AskLinesAreFresh
  <1>6. \A b \in Asks : b # a => status'[b] = status[b]
    BY <1>1 DEF TypeOK
  <1>7. AskLinesAreFresh'
    <2>1. \A b \in Asks : status[b] = "sent" /\ Head(inbox[c]) # BeginLine(b) => status'[b] = "sent"
      BY <1>3, <1>6
    <2> QED
      BY <1>1, <2>1, ReceiveKeepsFresh DEF AskInvariant
  <1>8. Pending' = Pending \cup {a}
    BY <1>1, <1>2 DEF TypeOK, Pending
  <1>9. AnsweredAtMostOnce'
    BY <1>1, <1>2, <1>5, <1>6 DEF AskInvariant, AnsweredAtMostOnce
  <1>10. /\ pc'[c] = "asking" /\ work'[c] = {a}
         /\ \A d \in Conns \ {c} : pc'[d] = pc[d] /\ work'[d] = work[d]
    BY <1>1 DEF TypeOK
  <1>11. \A b \in Asks : Owner[b] \in Conns
    BY ConstantTypes
  <1>12. PendingAskCanTimeOut'
    BY <1>1, <1>5, <1>8, <1>10, <1>11 DEF AskInvariant, PendingAskCanTimeOut, Pending
  <1>13. PendingAskHasAgent'
    BY <1>1, <1>5, <1>8, <1>10, <1>11 DEF AskInvariant, PendingAskHasAgent, Pending, Serving
  <1> QED
    BY <1>7, <1>9, <1>12, <1>13 DEF AskInvariant

\* The handler that sent the question leaves a sleeping timeout task behind.
LEMMA QuestionSentKeeps ==
  ASSUME TypeOK, AskInvariant, NEW c \in Conns, QuestionSent(c)
  PROVE  AskInvariant'
  <1> USE DEF agentVars, history
  <1>1. AskLinesAreFresh'
    BY SameInboxKeepsFresh DEF AskInvariant, QuestionSent
  <1>2. AnsweredAtMostOnce'
    BY DEF AskInvariant, AnsweredAtMostOnce, QuestionSent
  <1>3. Pending' = Pending /\ \A a \in Asks : Owner[a] \in Conns
    BY ConstantTypes DEF QuestionSent, Pending
  <1>4. /\ pc[c] = "asking" /\ pc'[c] = "reading"
        /\ \A d \in Conns \ {c} : pc'[d] = pc[d] /\ work'[d] = work[d]
    BY DEF QuestionSent, TypeOK
  <1>5. \A a \in Asks : (a \in work[c] \/ timer[a] = "sleeping") => timer'[a] = "sleeping"
    BY DEF QuestionSent
  <1>6. PendingAskCanTimeOut'
    BY <1>3, <1>4, <1>5 DEF AskInvariant, PendingAskCanTimeOut, Pending
  <1>7. PendingAskHasAgent'
    BY <1>3, <1>4 DEF AskInvariant, PendingAskHasAgent, Serving, Pending
  <1> QED
    BY <1>1, <1>2, <1>6, <1>7 DEF AskInvariant

\* Every step carries the invariant of the asks to the next state.
LEMMA NextAskInvariant == TypeOK /\ AskInvariant /\ [Next]_vars => AskInvariant'
  <1> SUFFICES ASSUME TypeOK, AskInvariant, [Next]_vars PROVE AskInvariant'
    OBVIOUS
  <1> USE DEF connVars, askVars, inboxVars, agentVars, history
  <1>1. ASSUME NEW c \in Conns, HandleHello(c) PROVE AskInvariant'
    <2>1. QuietStep
      BY <1>1 DEF HandleHello, QuietStep, TypeOK, Serving
    <2> QED
      BY <1>1, <2>1, QuietNextKeeps DEF HandleHello
  <1>2. ASSUME NEW c \in Conns, HandleOldHello(c) PROVE AskInvariant'
    <2>1. QuietStep
      BY <1>2 DEF HandleOldHello, QuietStep, TypeOK, Serving
    <2> QED
      BY <1>2, <2>1, QuietNextKeeps DEF HandleOldHello
  <1>3. ASSUME NEW c \in Conns, HandleNotify(c) PROVE AskInvariant'
    <2>1. QuietStep
      BY <1>3 DEF HandleNotify, QuietStep, TypeOK, Serving
    <2> QED
      BY <1>3, <2>1, QuietNextKeeps DEF HandleNotify
  <1>4. ASSUME NEW c \in Conns, NotifyDone(c) \/ WithdrawalSent(c) PROVE AskInvariant'
    <2>1. QuietStep /\ UNCHANGED inbox
      BY <1>4 DEF NotifyDone, WithdrawalSent, QuietStep, TypeOK, Serving
    <2> QED
      BY <2>1, QuietNextKeeps
  <1>5. ASSUME NEW c \in Conns, NotifyRaises(c) \/ HandleEof(c) PROVE AskInvariant'
    BY <1>5, DroppingNextKeeps DEF NotifyRaises, HandleEof
  <1>6. ASSUME NEW c \in Conns, HandleAskBegin(c) PROVE AskInvariant'
    BY <1>6, AskBeginKeeps
  <1>7. ASSUME NEW c \in Conns, QuestionSent(c) PROVE AskInvariant'
    BY <1>7, QuestionSentKeeps
  <1>8. ASSUME NEW c \in Conns, HandleAskCancel(c) PROVE AskInvariant'
    <2> DEFINE a == Head(inbox[c]).ask
    <2>1. Receive(c, "AskCancel") /\ a \in Asks
      BY <1>8, ReceiveTyped DEF HandleAskCancel
    <2>2. CASE a \in Pending /\ Withdraw(a) /\ pc' = [pc EXCEPT ![c] = "withdrawing"]
      <3>1. SettlingStep(a, "withdrawn") /\ "withdrawn" \in Settled
        BY <1>8, <2>1, <2>2
          DEF HandleAskCancel, Withdraw, SettlingStep, CancelAskTasks, Pending, TypeOK, Settled
      <3> QED
        BY <2>1, <3>1, SettlingNextKeeps
    <2>3. CASE UNCHANGED <<pc, status, timer, reping, closings>>
      <3>1. QuietStep
        BY <1>8, <2>3 DEF HandleAskCancel, QuietStep
      <3> QED
        BY <2>1, <3>1, QuietNextKeeps
    <2> QED
      BY <1>8, <2>2, <2>3 DEF HandleAskCancel
  <1>9. ASSUME NEW c \in Conns, HandleCheckMessages(c) PROVE AskInvariant'
    <2>1. CASE UNCHANGED <<clients, pc, work, threads, status, timer, reping, closings>>
      <3>1. QuietStep /\ Receive(c, "CheckMessages")
        BY <1>9, <2>1 DEF HandleCheckMessages, QuietStep
      <3> QED
        BY <3>1, QuietNextKeeps
    <2>2. CASE Teardown(c)
      BY <1>9, <2>2, DroppingNextKeeps DEF HandleCheckMessages
    <2> QED
      BY <1>9, <2>1, <2>2 DEF HandleCheckMessages
  <1>10. ASSUME NEW c \in Conns, HandleBye(c) PROVE AskInvariant'
    BY <1>10, DroppingNextKeeps DEF HandleBye
  <1>11. ASSUME NEW c \in Conns, HandleEofBeforeHello(c) PROVE AskInvariant'
    <2>1. QuietStep /\ UNCHANGED inbox
      BY <1>11 DEF HandleEofBeforeHello, QuietStep, TypeOK, Serving
    <2> QED
      BY <2>1, QuietNextKeeps
  <1>12. ASSUME NEW c \in Conns, LostContactSent(c) PROVE AskInvariant'
    BY <1>12, DroppingNextKeeps DEF LostContactSent
  <1>13. ASSUME NEW a \in Asks, TimeoutFires(a) PROVE AskInvariant'
    <2>1. CASE a \in Pending /\ Expire(a)
      <3>1. SettlingStep(a, "timed_out") /\ UNCHANGED inbox /\ "timed_out" \in Settled
        BY <1>13, <2>1 DEF TimeoutFires, Expire, SettlingStep, Pending, TypeOK, Settled
      <3> QED
        BY <3>1, SettlingNextKeeps
    <2>2. CASE /\ a \notin Pending /\ timer' = [timer EXCEPT ![a] = "done"]
               /\ UNCHANGED <<status, reping, told, peer, closings>>
      <3>1. QuietStep /\ UNCHANGED inbox
        BY <1>13, <2>2 DEF TimeoutFires, QuietStep, TypeOK, Pending
      <3> QED
        BY <3>1, QuietNextKeeps
    <2> QED
      BY <1>13, <2>1, <2>2 DEF TimeoutFires
  <1>14. ASSUME NEW a \in Asks,
                TimeoutDmSent(a) \/ RePing(a) \/ SkipRePing(a) \/ RePingSent(a)
         PROVE  AskInvariant'
    <2>1. QuietStep /\ UNCHANGED inbox
      BY <1>14 DEF TimeoutDmSent, RePing, SkipRePing, RePingSent, QuietStep, TypeOK, Pending
    <2> QED
      BY <2>1, QuietNextKeeps
  <1>15. ASSUME NEW m \in UserMessages, NEW source \in {"discord", "cli"},
                UserAnswers(source, m)
         PROVE  AskInvariant'
    <2>1. PICK a \in Pending : DeliverReply(a, source)
      BY <1>15 DEF UserAnswers
    <2>2. a \in Asks /\ status[a] = "open" /\ "replied" \in Settled
      BY DEF Pending, Settled
    <2>3. SettlingStep(a, "replied") /\ UNCHANGED inbox
      BY <1>15, <2>1, <2>2 DEF UserAnswers, DeliverReply, CancelAskTasks, SettlingStep, TypeOK
    <2> QED
      BY <2>2, <2>3, SettlingNextKeeps
  <1>16. ASSUME NEW m \in UserMessages, UserRepliesToNotify(m) \/ UserBroadcasts(m)
         PROVE  AskInvariant'
    <2>1. QuietStep /\ UNCHANGED inbox
      BY <1>16 DEF UserRepliesToNotify, UserBroadcasts, QuietStep
    <2> QED
      BY <2>1, QuietNextKeeps
  <1>17. ASSUME NEW c \in Conns, Connect(c) PROVE AskInvariant'
    <2>1. PICK type \in {"Hello", "OldHello"} : Write(c, [type |-> type])
      BY <1>17 DEF Connect
    <2>2. [type |-> type] \in Line /\ \A a \in Asks : [type |-> type] # BeginLine(a)
      BY DEF Line, PlainLine, BeginLine
    <2>3. QuietStep
      BY <1>17 DEF Connect, QuietStep, TypeOK, Serving
    <2> QED
      BY <2>1, <2>2, <2>3, QuietNextKeeps
  <1>18. ASSUME NEW c \in Conns, SendLine(c) PROVE AskInvariant'
    <2>1. PICK type \in AgentLines : Write(c, [type |-> type])
      BY <1>18 DEF SendLine
    <2>2. [type |-> type] \in Line /\ \A a \in Asks : [type |-> type] # BeginLine(a)
      BY ConstantTypes DEF Line, PlainLine, BeginLine
    <2>3. QuietStep
      BY <1>18 DEF SendLine, QuietStep
    <2> QED
      BY <2>1, <2>2, <2>3, QuietNextKeeps
  <1>19. ASSUME NEW a \in Asks, SendAsk(a) PROVE AskInvariant'
    <2>1. /\ Owner[a] \in Conns /\ BeginLine(a) \in Line
          /\ \A b \in Asks : BeginLine(b) = BeginLine(a) => b = a
      BY ConstantTypes DEF Line, AskLine, BeginLine
    <2>2. Write(Owner[a], BeginLine(a))
      BY <1>19 DEF SendAsk, BeginLine
    <2>3. status[a] = "unasked" /\ status'[a] = "sent"
      BY <1>19 DEF SendAsk, TypeOK
    <2>4. QuietStep
      BY <1>19 DEF SendAsk, QuietStep, TypeOK
    <2> QED
      BY <2>1, <2>2, <2>3, <2>4, QuietNextKeeps
  <1>20. ASSUME NEW a \in Asks, SendCancel(a) PROVE AskInvariant'
    <2> DEFINE line == [type |-> "AskCancel", ask |-> a]
    <2>1. Owner[a] \in Conns /\ line \in Line /\ \A b \in Asks : line # BeginLine(b)
      BY ConstantTypes DEF Line, AskLine, BeginLine
    <2>2. QuietStep /\ Write(Owner[a], line)
      BY <1>20 DEF SendCancel, QuietStep
    <2> QED
      BY <2>1, <2>2, QuietNextKeeps
  <1>21. ASSUME NEW c \in Conns, Close(c) PROVE AskInvariant'
    <2>1. PICK asks \in SUBSET Begun(c) :
            \E order \in Orders(asks) : inbox' = [inbox EXCEPT ![c] = @ \o Farewell(order)]
      BY <1>21 DEF Close
    <2>2. PICK order \in Orders(asks) : inbox' = [inbox EXCEPT ![c] = @ \o Farewell(order)]
      BY <2>1
    <2>3. /\ Farewell(order) \in Seq(Line)
          /\ \A i \in DOMAIN Farewell(order), a \in Asks : Farewell(order)[i] # BeginLine(a)
      BY FarewellTyped DEF Begun
    <2>4. QuietStep
      BY <1>21 DEF Close, QuietStep
    <2>5. AskLinesAreFresh'
      BY <2>2, <2>3, <2>4, ConcatKeepsFresh DEF AskInvariant, QuietStep
    <2> QED
      BY <2>4, <2>5, QuietNextKeeps
  <1>22. CASE \/ \E c \in Conns : Crash(c)
              \/ UNCHANGED vars
    <2>1. QuietStep /\ UNCHANGED inbox
      BY <1>22 DEF Crash, vars, QuietStep
    <2> QED
      BY <2>1, QuietNextKeeps
  <1> QED
    BY <1>1, <1>2, <1>3, <1>4, <1>5, <1>6, <1>7, <1>8, <1>9, <1>10, <1>11, <1>12,
       <1>13, <1>14, <1>15, <1>16, <1>17, <1>18, <1>19, <1>20, <1>21, <1>22
       DEF Next, Handler, AskTask, User, Agent

\* The strengthening of the three promises to asks, which is inductive: requests
\* on their way belong to asks that were never begun (_handle_ask_begin).
THEOREM AskInvariantHolds == Spec => []AskInvariant
  BY InitAskInvariant, NextAskInvariant, TypeCorrect, PTL DEF Spec

\* No ask call is answered twice, nor answered by anything but the event that
\* settled it, whatever reply, timeout, withdrawal and disconnect race for it.
THEOREM AnsweredOnce == Spec => []AnsweredAtMostOnce
  BY AskInvariantHolds, PTL DEF AskInvariant

\* An ask is never left pending without a timeout to end it.
THEOREM NoAskWithoutTimeout == Spec => []PendingAskCanTimeOut
  BY AskInvariantHolds, PTL DEF AskInvariant

\* An ask is never left pending by an agent that is gone.
THEOREM NoOrphanAsk == Spec => []PendingAskHasAgent
  BY AskInvariantHolds, PTL DEF AskInvariant

-----------------------------------------------------------------------------
(* Each step of the daemon is a step of AskLifecycle or none. *)

PhaseOfEach == [a \in Asks |-> Phase(a)]
LifecycleStep == [Lifecycle!Next]_<<PhaseOfEach, told>>

\* An ask that is popped changes its phase, and no other does.
LEMMA SettledPhase ==
  ASSUME TypeOK, NEW a \in Asks, NEW how \in Settled, Settle(a, how)
  PROVE  PhaseOfEach' = [PhaseOfEach EXCEPT ![a] = how]
  <1>1. status'[a] = how /\ \A b \in Asks \ {a} : status'[b] = status[b]
    BY DEF Settle, TypeOK
  <1>2. \A b \in Asks : PhaseOfEach'[b] = [PhaseOfEach EXCEPT ![a] = how][b]
    BY <1>1 DEF PhaseOfEach, Phase, Settled
  <1> QED
    BY <1>2 DEF PhaseOfEach

\* A pending ask is in the phase "open" and was not answered.
LEMMA PendingPhase ==
  ASSUME TypeOK, AskInvariant, NEW a \in Pending
  PROVE  a \in Asks /\ PhaseOfEach[a] = "open" /\ told[a] = 0
  <1>1. a \in Asks /\ status[a] = "open"
    BY DEF Pending
  <1>2. told[a] \in Nat /\ told[a] <= 1 /\ told[a] # 1
    BY <1>1 DEF TypeOK, AskInvariant, AnsweredAtMostOnce
  <1> QED
    BY <1>1, <1>2 DEF PhaseOfEach, Phase

\* A reply or a timeout, which the agent may or may not receive.
LEMMA AnswerImplements ==
  ASSUME TypeOK, AskInvariant, NEW a \in Pending, NEW how \in {"replied", "timed_out"},
         Settle(a, how), told' = [told EXCEPT ![a] = @ + Received(Owner[a])]
  PROVE  LifecycleStep
  <1>1. a \in Asks /\ PhaseOfEach[a] = "open" /\ told[a] = 0
    BY PendingPhase
  <1>2. PhaseOfEach' = [PhaseOfEach EXCEPT ![a] = how]
    BY <1>1, SettledPhase DEF Settled
  <1>3. Received(Owner[a]) \in 0..1 /\ told' = [told EXCEPT ![a] = Received(Owner[a])]
    BY <1>1 DEF Received
  <1> QED
    BY <1>1, <1>2, <1>3
      DEF LifecycleStep, Lifecycle!Next, Lifecycle!Settle, Lifecycle!Answer, PhaseOfEach

\* A withdrawal or a disconnect.
LEMMA DropImplements ==
  ASSUME TypeOK, AskInvariant, NEW a \in Pending, NEW how \in {"withdrawn", "lost"},
         Settle(a, how), UNCHANGED told
  PROVE  LifecycleStep
  <1>1. a \in Asks /\ PhaseOfEach[a] = "open"
    BY PendingPhase
  <1>2. PhaseOfEach' = [PhaseOfEach EXCEPT ![a] = how]
    BY <1>1, SettledPhase DEF Settled
  <1> QED
    BY <1>1, <1>2
      DEF LifecycleStep, Lifecycle!Next, Lifecycle!Settle, Lifecycle!Drop, PhaseOfEach

\* One round of the finally block pops an ask, or finds it popped.
LEMMA DropNextImplements ==
  ASSUME TypeOK, AskInvariant, NEW c \in Conns, NEW orphans \in SUBSET Asks,
         DropNext(c, orphans), UNCHANGED told
  PROVE  LifecycleStep
  <1>1. CASE UNCHANGED status
    BY <1>1 DEF LifecycleStep, PhaseOfEach, Phase
  <1>2. ASSUME NEW a \in orphans, status[a] = "open", Settle(a, "lost")
        PROVE  LifecycleStep
    BY <1>2, DropImplements DEF Pending
  <1> QED
    BY <1>1, <1>2 DEF DropNext

\* An ask that begins was never begun.
LEMMA BeginsFresh ==
  ASSUME AskLinesAreFresh, TypeOK, NEW c \in Conns, HandleAskBegin(c)
  PROVE  LET a == Head(inbox[c]).ask IN a \in Asks /\ status[a] = "sent"
  <1> DEFINE a == Head(inbox[c]).ask
  <1>1. a \in Asks /\ Head(inbox[c]) \in Line
    BY ReceiveTyped DEF HandleAskBegin
  <1>2. inbox[c] \in Seq(Line) /\ inbox[c] # <<>> /\ Head(inbox[c]).type = "AskBegin"
    BY DEF HandleAskBegin, Receive, TypeOK
  <1>3. Head(inbox[c]) = BeginLine(a)
    BY <1>1, <1>2 DEF Line, PlainLine, AskLine, BeginLine
  <1>4. 1 \in DOMAIN inbox[c] /\ inbox[c][1] = BeginLine(a)
    BY <1>2, <1>3, LenProperties, EmptySeq
  <1> QED
    BY <1>1, <1>4 DEF AskLinesAreFresh

\* Steps that open no ask and settle none are none of AskLifecycle's.
LEMMA SilentImplements ==
  ASSUME UNCHANGED told, \A a \in Asks : Phase(a)' = Phase(a)
  PROVE  LifecycleStep
  BY DEF LifecycleStep, PhaseOfEach

\* Every step of the daemon, action by action.
LEMMA NextImplements ==
  ASSUME TypeOK, AskInvariant, [Next]_vars
  PROVE  LifecycleStep
  <1> USE DEF connVars, askVars, inboxVars, agentVars, history
  <1>1. ASSUME NEW c \in Conns, HandleAskBegin(c) PROVE LifecycleStep
    <2> DEFINE a == Head(inbox[c]).ask
    <2>1. a \in Asks /\ status[a] = "sent"
      BY <1>1, BeginsFresh DEF AskInvariant
    <2>2. status'[a] = "open" /\ \A b \in Asks \ {a} : status'[b] = status[b]
      BY <1>1, <2>1 DEF HandleAskBegin, Settle, TypeOK
    <2>3. \A b \in Asks : PhaseOfEach'[b] = [PhaseOfEach EXCEPT ![a] = "open"][b]
      BY <2>1, <2>2 DEF PhaseOfEach, Phase
    <2>4. PhaseOfEach' = [PhaseOfEach EXCEPT ![a] = "open"] /\ PhaseOfEach[a] = "idle"
      BY <2>1, <2>3 DEF PhaseOfEach, Phase
    <2>5. UNCHANGED told
      BY <1>1 DEF HandleAskBegin
    <2> QED
      BY <2>1, <2>4, <2>5
        DEF LifecycleStep, Lifecycle!Next, Lifecycle!Open, PhaseOfEach
  <1>2. ASSUME NEW c \in Conns, HandleAskCancel(c) PROVE LifecycleStep
    <2> DEFINE a == Head(inbox[c]).ask
    <2>1. CASE UNCHANGED status
      BY <1>2, <2>1, SilentImplements DEF HandleAskCancel, Phase
    <2>2. CASE a \in Pending /\ Withdraw(a)
      BY <1>2, <2>2, DropImplements DEF HandleAskCancel, Withdraw
    <2> QED
      BY <1>2, <2>1, <2>2 DEF HandleAskCancel
  <1>3. ASSUME NEW c \in Conns,
               \/ NotifyRaises(c) \/ HandleBye(c) \/ HandleEof(c)
               \/ HandleCheckMessages(c) /\ Teardown(c)
        PROVE  LifecycleStep
    <2>1. UNCHANGED told /\ DropNext(c, {a \in Pending : Owner[a] = c})
      BY <1>3 DEF NotifyRaises, HandleBye, HandleEof, HandleCheckMessages, Teardown
    <2>2. {a \in Pending : Owner[a] = c} \in SUBSET Asks
      BY DEF Pending
    <2> QED
      BY <2>1, <2>2, DropNextImplements
  <1>4. ASSUME NEW c \in Conns, LostContactSent(c) PROVE LifecycleStep
    BY <1>4, DropNextImplements DEF LostContactSent, TypeOK
  <1>5. ASSUME NEW a \in Asks, TimeoutFires(a) PROVE LifecycleStep
    <2>1. CASE a \in Pending /\ Expire(a)
      BY <2>1, AnswerImplements DEF Expire
    <2>2. CASE UNCHANGED <<status, told>>
      BY <2>2, SilentImplements DEF Phase
    <2> QED
      BY <1>5, <2>1, <2>2 DEF TimeoutFires
  <1>6. ASSUME NEW m \in UserMessages, NEW source \in {"discord", "cli"}, UserAnswers(source, m)
        PROVE  LifecycleStep
    <2>1. PICK a \in Pending : DeliverReply(a, source)
      BY <1>6 DEF UserAnswers
    <2> QED
      BY <2>1, AnswerImplements DEF DeliverReply
  <1>7. ASSUME NEW a \in Asks, SendAsk(a) PROVE LifecycleStep
    <2>1. UNCHANGED told /\ \A b \in Asks : Phase(b)' = Phase(b)
      BY <1>7 DEF SendAsk, Phase, TypeOK
    <2> QED
      BY <2>1, SilentImplements
  <1>8. CASE UNCHANGED <<status, told>>
    BY <1>8, SilentImplements DEF Phase
  <1>9. ASSUME NEW c \in Conns,
               \/ HandleHello(c) \/ HandleOldHello(c) \/ HandleNotify(c) \/ NotifyDone(c)
               \/ QuestionSent(c) \/ WithdrawalSent(c) \/ HandleEofBeforeHello(c)
               \/ Connect(c) \/ SendLine(c) \/ Close(c) \/ Crash(c)
        PROVE  UNCHANGED <<status, told>>
    BY <1>9 DEF HandleHello, HandleOldHello, HandleNotify, NotifyDone, QuestionSent,
       WithdrawalSent, HandleEofBeforeHello, Connect, SendLine, Close, Crash
  <1>10. ASSUME NEW c \in Conns, HandleCheckMessages(c), ~Teardown(c)
         PROVE  UNCHANGED <<status, told>>
    BY <1>10 DEF HandleCheckMessages
  <1>11. ASSUME NEW a \in Asks,
                \/ TimeoutDmSent(a) \/ RePing(a) \/ SkipRePing(a) \/ RePingSent(a)
                \/ SendCancel(a)
         PROVE  UNCHANGED <<status, told>>
    BY <1>11 DEF TimeoutDmSent, RePing, SkipRePing, RePingSent, SendCancel
  <1>12. ASSUME NEW m \in UserMessages, UserRepliesToNotify(m) \/ UserBroadcasts(m)
         PROVE  UNCHANGED <<status, told>>
    BY <1>12 DEF UserRepliesToNotify, UserBroadcasts
  <1>13. CASE UNCHANGED vars
    BY <1>8, <1>13 DEF vars
  <1> QED
    BY <1>1, <1>2, <1>3, <1>4, <1>5, <1>6, <1>7, <1>8, <1>9, <1>10, <1>11, <1>12, <1>13
      DEF Next, Handler, AskTask, User, Agent

\* Before any agent connects no ask is open, and none was answered.
LEMMA InitImplements == Init => Lifecycle!Init
  BY DEF Init, Lifecycle!Init, Phase

\* Whatever reply, timeout, withdrawal, disconnect and agent do, each step opens
\* one ask, settles one open ask once and for good, or does nothing AskLifecycle
\* can see: its safety part (the code behind ImplementsLifecycle).
THEOREM StepsImplementLifecycle ==
  Spec => Lifecycle!Init /\ [][Lifecycle!Next]_<<PhaseOfEach, told>>
  BY InitImplements, NextImplements, TypeCorrect, AskInvariantHolds, PTL
    DEF Spec, LifecycleStep

-----------------------------------------------------------------------------
(* The DMs that close asks.  A snapshot of orphans holds only asks that were *)
(* open: a lost-contact DM is never about one that is.                       *)

Asked == {"open"} \cup Settled

OrphansWereAsked ==
  \A c \in Conns : pc[c] = "dropping" => \A a \in work[c] : status[a] \in Asked

ClosingInvariant == ClosingDmTellsOutcome /\ OrphansWereAsked

\* What a step may do to an ask: nothing, begin it, answer it, settle it and
\* say so, or say once more that its agent is gone.
Same(a)      == status'[a] = status[a] /\ closings'[a] = closings[a]
Begins(a)    == /\ \/ status[a] = "unasked" /\ status'[a] = "sent"
                   \/ status[a] = "sent" /\ status'[a] = "open"
                /\ closings'[a] = closings[a]
Replies(a)   == status[a] = "open" /\ status'[a] = "replied" /\ closings'[a] = closings[a]
Announces(a) == /\ status[a] = "open" /\ status'[a] \in Settled
                /\ closings'[a] = closings[a] \cup {ReasonOf(status'[a])}
LostAgain(a) == /\ status[a] \in Settled /\ status'[a] = status[a]
                /\ closings'[a] = closings[a] \cup {"lost_contact"}
OutcomeStep  == \A a \in Asks :
                  Same(a) \/ Begins(a) \/ Replies(a) \/ Announces(a) \/ LostAgain(a)

\* Such steps leave what the user was told true.
LEMMA OutcomeStepKeeps ==
  ASSUME TypeOK, ClosingDmTellsOutcome, OutcomeStep
  PROVE  ClosingDmTellsOutcome'
  <1> SUFFICES ASSUME NEW a \in Asks
      PROVE  /\ status'[a] \in {"timed_out", "withdrawn", "lost"}
                  => ReasonOf(status'[a]) \in closings'[a]
             /\ \A reason \in closings'[a] \ {"lost_contact"} :
                  status'[a] \in Settled /\ reason = ReasonOf(status'[a])
             /\ closings'[a] # {} => status'[a] \in Settled
    BY DEF ClosingDmTellsOutcome, ReasonOf
  <1>1. /\ status[a] \in {"timed_out", "withdrawn", "lost"}
             => ReasonOf(status[a]) \in closings[a]
        /\ \A reason \in closings[a] \ {"lost_contact"} :
             status[a] \in Settled /\ reason = ReasonOf(status[a])
        /\ closings[a] # {} => status[a] \in Settled
    BY DEF ClosingDmTellsOutcome
  <1>2. CASE Same(a)
    BY <1>1, <1>2 DEF Same
  <1>3. CASE Begins(a) \/ Replies(a)
    BY <1>1, <1>3 DEF Begins, Replies, Settled
  <1>4. CASE Announces(a)
    <2>1. closings[a] = {}
      BY <1>1, <1>4 DEF Announces, Settled
    <2> QED
      BY <2>1, <1>4 DEF Announces
  <1>5. CASE LostAgain(a)
    BY <1>1, <1>5 DEF LostAgain
  <1> QED
    BY <1>2, <1>3, <1>4, <1>5 DEF OutcomeStep

\* A step keeps the invariant if its new orphans, if any, were asked.
LEMMA OutcomeKeeps ==
  ASSUME TypeOK, ClosingInvariant, OutcomeStep,
         \A c \in Conns : pc'[c] = "dropping" =>
           \/ pc[c] = "dropping" /\ work'[c] \subseteq work[c]
           \/ work'[c] \subseteq Pending
  PROVE  ClosingInvariant'
  <1>1. \A a \in Asks : status[a] \in Asked => status'[a] \in Asked
    BY DEF OutcomeStep, Same, Begins, Replies, Announces, LostAgain, Asked, Settled
  <1>2. \A c \in Conns : work[c] \subseteq Asks
    BY DEF TypeOK
  <1>3. OrphansWereAsked'
    BY <1>1, <1>2 DEF ClosingInvariant, OrphansWereAsked, Pending, Asked
  <1> QED
    BY <1>3, OutcomeStepKeeps DEF ClosingInvariant

\* Asks that are not touched stay as they are.
LEMMA SilentOutcome ==
  ASSUME UNCHANGED <<status, closings>>
  PROVE  OutcomeStep
  BY DEF OutcomeStep, Same

\* An ask that is popped, and the DM that says how.
LEMMA AnnouncedOutcome ==
  ASSUME TypeOK, NEW a \in Pending, NEW how \in Settled, Settle(a, how),
         ClosingDm(a, ReasonOf(how))
  PROVE  OutcomeStep
  <1>1. a \in Asks /\ status[a] = "open"
    BY DEF Pending
  <1>2. status'[a] = how /\ \A b \in Asks \ {a} : status'[b] = status[b]
    BY <1>1 DEF Settle, TypeOK
  <1>3. /\ closings'[a] = closings[a] \cup {ReasonOf(how)}
        /\ \A b \in Asks \ {a} : closings'[b] = closings[b]
    BY <1>1 DEF ClosingDm, TypeOK
  <1> QED
    BY <1>1, <1>2, <1>3 DEF OutcomeStep, Same, Announces

\* One round of the finally block over asks that were open.
LEMMA DropNextOutcome ==
  ASSUME TypeOK, NEW c \in Conns, NEW orphans \in SUBSET Asks, DropNext(c, orphans),
         \A a \in orphans : status[a] \in Asked
  PROVE  /\ OutcomeStep
         /\ \A d \in Conns : pc'[d] = "dropping" =>
              \/ d = c /\ work'[d] \subseteq orphans
              \/ d # c /\ pc[d] = "dropping" /\ work'[d] = work[d]
  <1>1. CASE orphans = {} /\ pc' = [pc EXCEPT ![c] = "closed"]
             /\ work' = [work EXCEPT ![c] = {}] /\ UNCHANGED <<status, closings>>
    BY <1>1, SilentOutcome DEF TypeOK
  <1>2. ASSUME NEW a \in orphans, ClosingDm(a, "lost_contact"),
               IF status[a] = "open" THEN Settle(a, "lost") ELSE UNCHANGED status,
               work' = [work EXCEPT ![c] = orphans \ {a}],
               pc' = [pc EXCEPT ![c] = "dropping"]
        PROVE  /\ OutcomeStep
               /\ \A d \in Conns : pc'[d] = "dropping" =>
                    \/ d = c /\ work'[d] \subseteq orphans
                    \/ d # c /\ pc[d] = "dropping" /\ work'[d] = work[d]
    <2>1. ASSUME status[a] = "open" PROVE OutcomeStep
      <3>1. ReasonOf("lost") = "lost_contact"
        BY DEF ReasonOf
      <3> QED
        BY <1>2, <2>1, <3>1, AnnouncedOutcome DEF Pending, Settled
    <2>2. ASSUME status[a] # "open" PROVE OutcomeStep
      <3>1. a \in Asks /\ status[a] \in Settled /\ UNCHANGED status
        BY <1>2, <2>2 DEF Asked
      <3>2. /\ closings'[a] = closings[a] \cup {"lost_contact"}
            /\ \A b \in Asks \ {a} : closings'[b] = closings[b]
        BY <1>2, <3>1 DEF ClosingDm, TypeOK
      <3> QED
        BY <3>1, <3>2 DEF OutcomeStep, Same, LostAgain
    <2>3. \A d \in Conns : pc'[d] = "dropping" =>
            \/ d = c /\ work'[d] \subseteq orphans
            \/ d # c /\ pc[d] = "dropping" /\ work'[d] = work[d]
      BY <1>2 DEF TypeOK
    <2> QED
      BY <2>1, <2>2, <2>3
  <1> QED
    BY <1>1, <1>2 DEF DropNext

\* Every step of the daemon leaves what the user was told true.
LEMMA NextClosing ==
  ASSUME TypeOK, AskInvariant, ClosingInvariant, [Next]_vars
  PROVE  ClosingInvariant'
  <1> USE DEF connVars, askVars, inboxVars, agentVars, history
  <1> DEFINE Drops == \A c \in Conns : pc'[c] = "dropping" =>
                        \/ pc[c] = "dropping" /\ work'[c] \subseteq work[c]
                        \/ work'[c] \subseteq Pending
  <1>1. ASSUME NEW c \in Conns, HandleAskBegin(c) PROVE OutcomeStep /\ Drops
    <2> DEFINE a == Head(inbox[c]).ask
    <2>1. a \in Asks /\ status[a] = "sent"
      BY <1>1, BeginsFresh DEF AskInvariant
    <2>2. status'[a] = "open" /\ \A b \in Asks \ {a} : status'[b] = status[b]
      BY <1>1, <2>1 DEF HandleAskBegin, Settle, TypeOK
    <2>3. UNCHANGED closings
      BY <1>1 DEF HandleAskBegin
    <2>4. OutcomeStep
      BY <2>1, <2>2, <2>3 DEF OutcomeStep, Same, Begins
    <2>5. Drops
      BY <1>1 DEF HandleAskBegin, TypeOK
    <2> QED
      BY <2>4, <2>5
  <1>2. ASSUME NEW c \in Conns, HandleAskCancel(c) PROVE OutcomeStep /\ Drops
    <2> DEFINE a == Head(inbox[c]).ask
    <2>1. ASSUME a \in Pending, Withdraw(a) PROVE OutcomeStep
      <3>1. ReasonOf("withdrawn") = "withdrawn"
        BY DEF ReasonOf
      <3> QED
        BY <2>1, <3>1, AnnouncedOutcome DEF Withdraw, Settled
    <2>2. ASSUME UNCHANGED <<status, closings>> PROVE OutcomeStep
      BY <2>2, SilentOutcome
    <2>3. OutcomeStep
      BY <1>2, <2>1, <2>2 DEF HandleAskCancel
    <2>4. Drops
      BY <1>2 DEF HandleAskCancel, TypeOK
    <2> QED
      BY <2>3, <2>4
  <1>3. ASSUME NEW c \in Conns,
               \/ NotifyRaises(c) \/ HandleBye(c) \/ HandleEof(c)
               \/ HandleCheckMessages(c) /\ Teardown(c)
        PROVE  OutcomeStep /\ Drops
    <2> DEFINE orphans == {a \in Pending : Owner[a] = c}
    <2>1. DropNext(c, orphans)
      BY <1>3 DEF NotifyRaises, HandleBye, HandleEof, HandleCheckMessages, Teardown
    <2>2. orphans \in SUBSET Asks /\ \A a \in orphans : status[a] \in Asked
      BY DEF Pending, Asked
    <2> QED
      BY <2>1, <2>2, DropNextOutcome
  <1>4. ASSUME NEW c \in Conns, LostContactSent(c) PROVE OutcomeStep /\ Drops
    <2>1. /\ work[c] \in SUBSET Asks /\ pc[c] = "dropping"
          /\ \A a \in work[c] : status[a] \in Asked /\ DropNext(c, work[c])
          /\ DropNext(c, work[c])
      BY <1>4 DEF LostContactSent, TypeOK, ClosingInvariant, OrphansWereAsked
    <2> QED
      BY <2>1, DropNextOutcome
  <1>5. ASSUME NEW a \in Asks, TimeoutFires(a) PROVE OutcomeStep /\ Drops
    <2>1. CASE a \in Pending /\ Expire(a)
      <3>1. ReasonOf("timed_out") = "timed_out"
        BY DEF ReasonOf
      <3> QED
        BY <2>1, <3>1, AnnouncedOutcome, <1>5 DEF Expire, Settled, TimeoutFires
    <2>2. CASE UNCHANGED <<status, closings>>
      BY <1>5, <2>2, SilentOutcome DEF TimeoutFires
    <2> QED
      BY <1>5, <2>1, <2>2 DEF TimeoutFires
  <1>6. ASSUME NEW m \in UserMessages, NEW source \in {"discord", "cli"}, UserAnswers(source, m)
        PROVE  OutcomeStep /\ Drops
    <2>1. PICK a \in Pending : DeliverReply(a, source)
      BY <1>6 DEF UserAnswers
    <2>2. CASE source = "cli"
      <3>1. ReasonOf("replied") = "cli_answered"
        BY DEF ReasonOf
      <3> QED
        BY <1>6, <2>1, <2>2, <3>1, AnnouncedOutcome DEF DeliverReply, Settled, UserAnswers
    <2>3. CASE source # "cli"
      <3>1. a \in Asks /\ status[a] = "open"
        BY DEF Pending
      <3>2. /\ status'[a] = "replied" /\ \A b \in Asks \ {a} : status'[b] = status[b]
            /\ UNCHANGED closings
        BY <2>1, <2>3, <3>1 DEF DeliverReply, Settle, TypeOK
      <3> QED
        BY <1>6, <3>1, <3>2 DEF OutcomeStep, Same, Replies, UserAnswers
    <2> QED
      BY <2>2, <2>3
  <1>7. ASSUME NEW a \in Asks, SendAsk(a) PROVE OutcomeStep /\ Drops
    <2>1. status[a] = "unasked" /\ status'[a] = "sent" /\ \A b \in Asks \ {a} : status'[b] = status[b]
      BY <1>7 DEF SendAsk, TypeOK
    <2> QED
      BY <1>7, <2>1 DEF SendAsk, OutcomeStep, Same, Begins
  <1>8. ASSUME NEW c \in Conns,
               \/ HandleHello(c) \/ HandleOldHello(c) \/ HandleNotify(c) \/ NotifyDone(c)
               \/ QuestionSent(c) \/ WithdrawalSent(c) \/ HandleEofBeforeHello(c)
               \/ Connect(c) \/ SendLine(c) \/ Close(c) \/ Crash(c)
        PROVE  UNCHANGED <<status, closings>> /\ Drops
    BY <1>8 DEF HandleHello, HandleOldHello, HandleNotify, NotifyDone, QuestionSent,
       WithdrawalSent, HandleEofBeforeHello, Connect, SendLine, Close, Crash, TypeOK
  <1>9. ASSUME NEW c \in Conns, HandleCheckMessages(c), ~Teardown(c)
        PROVE  UNCHANGED <<status, closings>> /\ Drops
    BY <1>9 DEF HandleCheckMessages
  <1>10. ASSUME NEW a \in Asks,
                \/ TimeoutDmSent(a) \/ RePing(a) \/ SkipRePing(a) \/ RePingSent(a)
                \/ SendCancel(a)
         PROVE  UNCHANGED <<status, closings>> /\ Drops
    BY <1>10 DEF TimeoutDmSent, RePing, SkipRePing, RePingSent, SendCancel
  <1>11. ASSUME NEW m \in UserMessages, UserRepliesToNotify(m) \/ UserBroadcasts(m)
         PROVE  UNCHANGED <<status, closings>> /\ Drops
    BY <1>11 DEF UserRepliesToNotify, UserBroadcasts
  <1>12. ASSUME UNCHANGED vars PROVE UNCHANGED <<status, closings>> /\ Drops
    BY <1>12 DEF vars
  <1>13. OutcomeStep /\ Drops
    BY <1>1, <1>2, <1>3, <1>4, <1>5, <1>6, <1>7, <1>8, <1>9, <1>10, <1>11, <1>12, SilentOutcome
      DEF Next, Handler, AskTask, User, Agent
  <1> QED
    BY <1>13, OutcomeKeeps

\* No DM was sent yet, and no handler cleans up.
LEMMA InitClosing == Init => ClosingInvariant
  BY DEF Init, ClosingInvariant, ClosingDmTellsOutcome, OrphansWereAsked, ReasonOf

\* Whatever interleaves, the user is told of every ask that ends without a
\* Discord reply, of none that is open, and never of two outcomes but that its
\* agent was lost as well (the code behind ClosingDmTellsOutcome).
THEOREM ClosingDmIsTrue == Spec => []ClosingDmTellsOutcome
  <1>1. Spec => []ClosingInvariant
    BY InitClosing, NextClosing, TypeCorrect, AskInvariantHolds, PTL DEF Spec
  <1> QED
    BY <1>1, PTL DEF ClosingInvariant
=============================================================================
