------------------------- MODULE ConferRegistryProofs -------------------------
(***************************************************************************)
(* Whom the daemon knows, and what it holds for whom: the registry, the    *)
(* notify-threads, the queues and the tags of ConferDaemon, for any number *)
(* of agents that come and go.                                             *)
(***************************************************************************)
EXTENDS ConferDaemonProofs

Attending == Serving \cup {"dropping"}
Strange   == {"absent", "greeting"}

\* A handler knows its label from the handshake until it ends.
LabelsAreHeld ==
  \A c \in Conns : /\ pc[c] \in Attending => label[c] \in Labels
                   /\ pc[c] \in Strange => label[c] = NoLabel

\* Nothing is queued for an agent before its handshake: with a label it would
\* then get, the message might wait under another.
MessagesAreForKnown ==
  \A l \in Labels : \A i \in DOMAIN queues[l] : pc[queues[l][i].to] \notin Strange

Registry ==
  /\ LabelsAreHeld
  /\ RegistryMatchesHandlers
  /\ RegisteredIsServed
  /\ ThreadsDieWithTheirAgent
  /\ MessagesAreForKnown
  /\ MessagesWaitForTheirAgent

RegistryInvariant == Registry /\ TagsAreUnique

-----------------------------------------------------------------------------
(* Bounded sequences. *)

\* A sequence that drops its head when full and gets a new end: each entry is
\* an old one, one place further down or not, or the new one.
LEMMA DropAppend ==
  ASSUME NEW S, NEW s \in Seq(S), NEW e \in S, NEW full \in BOOLEAN, full => s # <<>>
  PROVE  LET t == Append(IF full THEN Tail(s) ELSE s, e)
         IN \E k \in {0, 1} :
              /\ Len(t) = Len(s) + 1 - k /\ DOMAIN t = 1..Len(t)
              /\ t[Len(t)] = e
              /\ \A i \in 1..Len(t) : i # Len(t) =>
                   i + k \in 1..Len(s) /\ t[i] = s[i + k]
  <1> DEFINE kept == IF full THEN Tail(s) ELSE s
             t == Append(kept, e)
             k == IF full THEN 1 ELSE 0
  <1>1. /\ kept \in Seq(S) /\ Len(s) \in Nat /\ Len(kept) = Len(s) - k
        /\ \A i \in 1..Len(kept) : kept[i] = s[i + k]
    BY HeadTailProperties, LenProperties
  <1>2. /\ t \in Seq(S) /\ Len(t) = Len(kept) + 1 /\ t[Len(kept) + 1] = e
        /\ \A i \in 1..Len(kept) : t[i] = kept[i]
    BY <1>1, AppendProperties
  <1>3. DOMAIN t = 1..Len(t)
    BY <1>2, LenProperties
  <1> HIDE DEF kept, t
  <1>4. \A i \in 1..Len(t) : i # Len(t) => i + k \in 1..Len(s) /\ t[i] = s[i + k]
    BY <1>1, <1>2
  <1>5. Len(t) = Len(s) + 1 - k /\ t[Len(t)] = e /\ k \in {0, 1}
    BY <1>1, <1>2
  <1> QED
    BY <1>3, <1>4, <1>5 DEF kept, t

\* A queue after a message: its entries are the old ones and the new one.
LEMMA EnqueuedEntries ==
  ASSUME NEW S, NEW queue \in Seq(S), NEW entry \in S
  PROVE  \A i \in DOMAIN Enqueued(queue, entry) :
           \/ Enqueued(queue, entry)[i] = entry
           \/ \E j \in DOMAIN queue : Enqueued(queue, entry)[i] = queue[j]
  <1> DEFINE full == Len(queue) = QueueLimit
             t == Append(IF full THEN Tail(queue) ELSE queue, entry)
  <1>1. full => queue # <<>>
    BY EmptySeq, ConstantTypes
  <1>2. PICK k \in {0, 1} :
          /\ DOMAIN t = 1..Len(t) /\ t[Len(t)] = entry
          /\ \A i \in 1..Len(t) : i # Len(t) => i + k \in 1..Len(queue) /\ t[i] = queue[i + k]
    BY <1>1, DropAppend
  <1>3. Enqueued(queue, entry) = t /\ DOMAIN queue = 1..Len(queue)
    BY LenProperties DEF Enqueued
  <1> QED
    BY <1>2, <1>3

\* What a label's list of notify-threads is after a notify.
LEMMA Remembered ==
  ASSUME TypeOK, NEW l \in Labels, NEW e \in Notification, threads' = RememberThread(l, e)
  PROVE  /\ \A m \in Labels \ {l} : threads'[m] = threads[m]
         /\ \E k \in {0, 1} :
              /\ Len(threads[l]) \in Nat /\ DOMAIN threads[l] = 1..Len(threads[l])
              /\ Len(threads'[l]) = Len(threads[l]) + 1 - k
              /\ DOMAIN threads'[l] = 1..Len(threads'[l])
              /\ threads'[l][Len(threads'[l])] = e
              /\ \A i \in 1..Len(threads'[l]) : i # Len(threads'[l]) =>
                   i + k \in 1..Len(threads[l]) /\ threads'[l][i] = threads[l][i + k]
  <1> DEFINE s == threads[l]
             full == Len(s) >= NotifyLimit
             t == Append(IF full THEN Tail(s) ELSE s, e)
  <1>1. s \in Seq(Notification)
    BY DEF TypeOK
  <1>2. full => s # <<>>
    BY EmptySeq, ConstantTypes
  <1>3. threads'[l] = t /\ \A m \in Labels \ {l} : threads'[m] = threads[m]
    BY DEF RememberThread, TypeOK
  <1>4. Len(s) \in Nat /\ DOMAIN s = 1..Len(s) /\ full \in BOOLEAN
    BY <1>1, LenProperties
  <1>5. PICK k \in {0, 1} :
          /\ Len(t) = Len(s) + 1 - k /\ DOMAIN t = 1..Len(t) /\ t[Len(t)] = e
          /\ \A i \in 1..Len(t) : i # Len(t) => i + k \in 1..Len(s) /\ t[i] = s[i + k]
    BY <1>1, <1>2, <1>4, DropAppend
  <1> HIDE DEF t
  <1> QED
    BY <1>3, <1>4, <1>5

\* Entries are of connections.
LEMMA EntriesTyped ==
  ASSUME TypeOK, NEW l \in Labels
  PROVE  /\ \A i \in DOMAIN threads[l] : threads[l][i].by \in Conns
         /\ \A i \in DOMAIN queues[l] : queues[l][i].to \in Conns
  <1>1. threads[l] \in Seq(Notification) /\ queues[l] \in Seq(QueuedMessage)
    BY DEF TypeOK
  <1>2. \A i \in DOMAIN threads[l] : threads[l][i] \in Notification
    BY <1>1, LenProperties, ElementOfSeq
  <1>3. \A i \in DOMAIN queues[l] : queues[l][i] \in QueuedMessage
    BY <1>1, LenProperties, ElementOfSeq
  <1> QED
    BY <1>2, <1>3 DEF Notification, QueuedMessage

-----------------------------------------------------------------------------
(* The registry: which steps keep it. *)

\* Steps of handlers that neither register nor end, and of everything else.
SteadyStep ==
  /\ UNCHANGED <<clients, label, threads, queues>>
  /\ \A c \in Conns : \/ pc'[c] = pc[c]
                      \/ pc[c] \in Serving /\ pc'[c] \in Serving
                      \/ pc[c] \in Strange /\ pc'[c] \in {"greeting", "closed"}
  /\ \A c \in Conns : peer[c] # "open" => peer'[c] # "open"

\* A step after which the same handlers attend and the same are strangers, or
\* fewer, disturbs nothing.
LEMMA SteadyKeeps ==
  ASSUME TypeOK, Registry, SteadyStep
  PROVE  Registry'
  <1> USE DEF Registry
  <1>1. \A c \in Conns :
          /\ pc'[c] \in Serving <=> pc[c] \in Serving
          /\ pc'[c] \in Attending <=> pc[c] \in Attending
          /\ pc'[c] \in Strange => pc[c] \in Strange
          /\ pc[c] = "closed" => pc'[c] = "closed"
    BY DEF SteadyStep, Serving, Attending, Strange
  <1>2. LabelsAreHeld' /\ RegistryMatchesHandlers'
    BY <1>1 DEF SteadyStep, LabelsAreHeld, RegistryMatchesHandlers
  <1>3. RegisteredIsServed'
    <2>1. \A l \in Registered : clients[l] \in Conns
      BY DEF Registered, TypeOK
    <2> QED
      BY <1>1, <2>1 DEF SteadyStep, RegisteredIsServed, Registered
  <1>4. ThreadsDieWithTheirAgent'
    BY <1>1, EntriesTyped DEF SteadyStep, ThreadsDieWithTheirAgent, Attending
  <1>5. MessagesAreForKnown' /\ MessagesWaitForTheirAgent'
    BY <1>1, EntriesTyped DEF SteadyStep, MessagesAreForKnown, MessagesWaitForTheirAgent
  <1> QED
    BY <1>2, <1>3, <1>4, <1>5

\* A message of a queue is for an agent that is no stranger, and if that agent
\* is served the queue is its own.
MayWait(c, l) ==
  /\ c \in Conns /\ pc[c] \notin Strange
  /\ pc[c] \in Serving => label[c] = l /\ clients[l] = c

\* Steps that only put messages where they may wait, or take some away.
LEMMA QueueingKeeps ==
  ASSUME TypeOK, Registry, UNCHANGED <<clients, label, pc, peer, threads>>,
         \A l \in Labels : \A i \in DOMAIN queues'[l] : MayWait(queues'[l][i].to, l)
  PROVE  Registry'
  <1> USE DEF Registry
  <1>1. LabelsAreHeld' /\ RegistryMatchesHandlers' /\ RegisteredIsServed'
    BY DEF LabelsAreHeld, RegistryMatchesHandlers, RegisteredIsServed, Registered
  <1>2. ThreadsDieWithTheirAgent'
    BY DEF ThreadsDieWithTheirAgent
  <1>3. MessagesAreForKnown' /\ MessagesWaitForTheirAgent'
    BY DEF MessagesAreForKnown, MessagesWaitForTheirAgent, MayWait
  <1> QED
    BY <1>1, <1>2, <1>3

\* What waits may wait.
LEMMA WaitingMayWait ==
  ASSUME TypeOK, Registry, NEW l \in Labels, NEW i \in DOMAIN queues[l]
  PROVE  MayWait(queues[l][i].to, l)
  BY EntriesTyped DEF Registry, MessagesAreForKnown, MessagesWaitForTheirAgent, MayWait

\* A handshake takes a label nobody has, for an agent nothing is held for; if
\* the agent is gone already its entry stays.
LEMMA HelloKeeps ==
  ASSUME TypeOK, Registry, NEW c \in Conns, HandleHello(c)
  PROVE  Registry'
  <1> USE DEF Registry
  <1>1. PICK l \in AssignableLabels(c) :
          /\ clients' = [clients EXCEPT ![l] = c]
          /\ \/ /\ peer[c] = "open"
                /\ label' = [label EXCEPT ![c] = l] /\ pc' = [pc EXCEPT ![c] = "reading"]
             \/ /\ peer[c] # "open"
                /\ pc' = [pc EXCEPT ![c] = "closed"] /\ UNCHANGED label
    BY DEF HandleHello
  <1>2. l \in Labels /\ l \notin Registered
    BY ConstantTypes DEF AssignableLabels
  <1>3. pc[c] = "greeting" /\ label[c] = NoLabel /\ UNCHANGED <<peer, threads, queues>>
    BY DEF HandleHello, LabelsAreHeld, Strange, inboxVars
  <1>4. /\ clients[l] = NoConn /\ clients'[l] = c /\ c # NoConn
        /\ \A m \in Labels \ {l} : clients'[m] = clients[m]
    BY <1>1, <1>2, NoConnIsNone DEF Registered, TypeOK
  <1>5. /\ \A d \in Conns \ {c} : pc'[d] = pc[d] /\ label'[d] = label[d]
        /\ \/ peer[c] = "open" /\ pc'[c] = "reading" /\ label'[c] = l
           \/ peer[c] # "open" /\ pc'[c] = "closed" /\ label'[c] = NoLabel
    BY <1>1, <1>3 DEF TypeOK
  <1>6. \A m \in Labels : clients[m] # c
    BY <1>3, <1>4 DEF RegisteredIsServed, Registered, Serving
  <1>7. LabelsAreHeld'
    BY <1>2, <1>5 DEF LabelsAreHeld, Attending, Serving, Strange
  <1>8. RegistryMatchesHandlers'
    <2>1. ASSUME NEW d \in Conns, pc'[d] \in Serving
          PROVE  clients'[label'[d]] = d
      <3>1. CASE d = c
        BY <1>4, <1>5, <2>1, <3>1 DEF Serving
      <3>2. CASE d # c
        <4>1. pc[d] \in Serving /\ clients[label[d]] = d /\ label[d] \in Labels
          BY <1>5, <2>1, <3>2 DEF RegistryMatchesHandlers, LabelsAreHeld, Attending
        <4>2. label[d] # l
          BY <1>4, <4>1, NoConnIsNone
        <4> QED
          BY <1>4, <1>5, <3>2, <4>1, <4>2
      <3> QED
        BY <3>1, <3>2
    <2> QED
      BY <2>1 DEF RegistryMatchesHandlers
  <1>9. RegisteredIsServed'
    <2>1. ASSUME NEW m \in Labels, clients'[m] # NoConn
          PROVE  LET d == clients'[m]
                 IN \/ label'[d] = m /\ pc'[d] \in Serving
                    \/ label'[d] = NoLabel /\ pc'[d] = "closed" /\ peer'[d] # "open"
      <3>1. CASE m = l
        BY <1>3, <1>4, <1>5, <3>1 DEF Serving
      <3>2. CASE m # l
        <4>1. clients[m] = clients'[m] /\ clients[m] \in Conns \ {c} /\ m \in Registered
          BY <1>4, <1>6, <2>1, <3>2 DEF TypeOK, Registered
        <4> QED
          BY <1>3, <1>5, <4>1 DEF RegisteredIsServed
      <3> QED
        BY <3>1, <3>2
    <2> QED
      BY <2>1 DEF RegisteredIsServed, Registered
  <1>10. ThreadsDieWithTheirAgent'
    <2>1. ASSUME NEW m \in Labels, NEW i \in DOMAIN threads[m]
          PROVE  /\ threads[m][i].by \in Conns \ {c} /\ label[threads[m][i].by] = m
                 /\ pc[threads[m][i].by] \in Attending
      BY <1>3, EntriesTyped DEF ThreadsDieWithTheirAgent, Attending, Serving
    <2> QED
      BY <1>3, <1>5, <2>1 DEF ThreadsDieWithTheirAgent, Attending
  <1>11. MessagesAreForKnown' /\ MessagesWaitForTheirAgent'
    <2>1. ASSUME NEW m \in Labels, NEW i \in DOMAIN queues[m]
          PROVE  /\ queues[m][i].to \in Conns \ {c} /\ MayWait(queues[m][i].to, m)
      BY <1>3, WaitingMayWait DEF MayWait, Strange
    <2>2. \A m \in Labels, d \in Conns : clients[m] = d => clients'[m] = d
      BY <1>4, NoConnIsNone
    <2> QED
      BY <1>3, <1>5, <2>1, <2>2
        DEF MayWait, MessagesAreForKnown, MessagesWaitForTheirAgent
  <1> QED
    BY <1>7, <1>8, <1>9, <1>10, <1>11

\* Steps of the finally block: the label is given up, the asks are walked, and
\* with the end of the handler the threads of the label go.
DroppingStep(c) ==
  /\ pc[c] \in Attending
  /\ \A d \in Conns \ {c} : pc'[d] = pc[d]
  /\ \/ pc'[c] = "dropping" /\ UNCHANGED threads
     \/ pc'[c] = "closed" /\ threads' = [threads EXCEPT ![label[c]] = <<>>]
  /\ \/ pc[c] \in Serving /\ clients' = [clients EXCEPT ![label[c]] = NoConn]
     \/ pc[c] = "dropping" /\ UNCHANGED clients
  /\ UNCHANGED <<label, peer>>
  /\ queues' = queues \/ queues' = [queues EXCEPT ![label[c]] = <<>>]

\* The finally block takes nothing that is another agent's.
LEMMA DroppingKeeps ==
  ASSUME TypeOK, Registry, NEW c \in Conns, DroppingStep(c)
  PROVE  Registry'
  <1> USE DEF Registry
  <1> DEFINE l == label[c]
  <1>1. l \in Labels /\ pc'[c] \notin Serving /\ pc'[c] \notin Strange /\ pc[c] \notin Strange
    BY DEF DroppingStep, LabelsAreHeld, Attending, Serving, Strange
  <1>2. /\ \A m \in Labels \ {l} : clients'[m] = clients[m]
        /\ clients'[l] \in {NoConn, clients[l]}
        /\ pc[c] \in Serving => clients'[l] = NoConn
    BY <1>1 DEF DroppingStep, TypeOK, Serving
  <1>3. \A d \in Conns \ {c} : pc'[d] = pc[d]
    BY DEF DroppingStep
  <1>4. LabelsAreHeld'
    BY <1>1, <1>3 DEF DroppingStep, LabelsAreHeld, Attending
  <1>5. \A d \in Conns \ {c} : pc[d] \in Serving => clients'[label[d]] = d
    <2>1. ASSUME NEW d \in Conns \ {c}, pc[d] \in Serving
          PROVE  clients'[label[d]] = d
      <3>1. label[d] \in Labels /\ clients[label[d]] = d
        BY <2>1 DEF RegistryMatchesHandlers, LabelsAreHeld, Attending
      <3>2. pc[c] \in Serving => clients[l] = c
        BY DEF RegistryMatchesHandlers
      <3>3. pc[c] = "dropping" => clients' = clients
        BY DEF DroppingStep, Serving
      <3> QED
        BY <1>2, <3>1, <3>2, <3>3 DEF DroppingStep, Attending
    <2> QED
      BY <2>1
  <1>6. RegistryMatchesHandlers'
    BY <1>1, <1>3, <1>5 DEF DroppingStep, RegistryMatchesHandlers
  <1>7. RegisteredIsServed'
    <2>1. ASSUME NEW m \in Labels, clients'[m] # NoConn
          PROVE  LET d == clients'[m]
                 IN \/ label'[d] = m /\ pc'[d] \in Serving
                    \/ label'[d] = NoLabel /\ pc'[d] = "closed" /\ peer'[d] # "open"
      <3>1. clients[m] = clients'[m] /\ clients[m] \in Conns /\ m \in Registered
        BY <1>1, <1>2, <2>1 DEF TypeOK, Registered
      <3>2. clients[m] # c
        <4>1. CASE pc[c] \in Serving
          BY <1>1, <1>2, <2>1, <3>1, <4>1, RoutingNone DEF RegisteredIsServed
        <4>2. CASE pc[c] = "dropping"
          BY <3>1, <4>2 DEF RegisteredIsServed, Serving
        <4> QED
          BY <4>1, <4>2 DEF DroppingStep, Attending
      <3> QED
        BY <1>3, <3>1, <3>2 DEF DroppingStep, RegisteredIsServed
    <2> QED
      BY <2>1 DEF RegisteredIsServed, Registered
  <1>8. ThreadsDieWithTheirAgent'
    <2>1. ASSUME NEW m \in Labels, NEW i \in DOMAIN threads'[m]
          PROVE  /\ label'[threads'[m][i].by] = m
                 /\ pc'[threads'[m][i].by] \in Serving \cup {"dropping"}
      <3>1. CASE pc'[c] = "closed" /\ m = l
        <4>1. threads'[m] = <<>>
          BY <1>1, <3>1 DEF DroppingStep, TypeOK
        <4> QED
          BY <2>1, <4>1
      <3>2. CASE pc'[c] = "dropping" \/ m # l
        <4>1. threads'[m] = threads[m]
          BY <1>1, <3>2 DEF DroppingStep, TypeOK
        <4>2. /\ threads[m][i].by \in Conns /\ label[threads[m][i].by] = m
              /\ pc[threads[m][i].by] \in Serving \cup {"dropping"}
          BY <4>1, EntriesTyped DEF ThreadsDieWithTheirAgent
        <4>3. threads[m][i].by = c => pc'[c] = "dropping"
          BY <3>2, <4>2
        <4> QED
          BY <1>3, <4>1, <4>2, <4>3 DEF DroppingStep
      <3> QED
        BY <3>1, <3>2 DEF DroppingStep
    <2> QED
      BY <2>1 DEF ThreadsDieWithTheirAgent
  <1>9. MessagesAreForKnown' /\ MessagesWaitForTheirAgent'
    <2>1. ASSUME NEW m \in Labels, NEW i \in DOMAIN queues'[m]
          PROVE  /\ i \in DOMAIN queues[m] /\ queues'[m][i] = queues[m][i]
                 /\ MayWait(queues[m][i].to, m)
      <3>1. queues'[m] \in {queues[m], <<>>}
        BY <1>1 DEF DroppingStep, TypeOK
      <3>2. queues'[m] = queues[m]
        BY <2>1, <3>1
      <3> QED
        BY <2>1, <3>2, WaitingMayWait
    <2>2. ASSUME NEW d \in Conns, NEW m \in Labels, MayWait(d, m)
          PROVE  /\ pc'[d] \notin Strange
                 /\ pc'[d] \in Serving => label'[d] = m /\ clients'[m] = d
      BY <1>1, <1>3, <1>5, <2>2 DEF MayWait, DroppingStep
    <2> QED
      BY <2>1, <2>2 DEF MessagesAreForKnown, MessagesWaitForTheirAgent, MayWait
  <1> QED
    BY <1>4, <1>6, <1>7, <1>8, <1>9

\* One round of the finally block is such a step.
LEMMA DropNextDrops ==
  ASSUME TypeOK, NEW c \in Conns, NEW orphans, DropNext(c, orphans)
  PROVE  /\ \A d \in Conns \ {c} : pc'[d] = pc[d]
         /\ \/ pc'[c] = "dropping" /\ UNCHANGED threads
            \/ pc'[c] = "closed" /\ threads' = [threads EXCEPT ![label[c]] = <<>>]
  BY DEF DropNext, TypeOK

\* A replyable notify opens a thread of the agent that sent it.
LEMMA NotifyKeeps ==
  ASSUME TypeOK, Registry, NEW c \in Conns, HandleNotify(c)
  PROVE  Registry'
  <1> USE DEF Registry
  <1> DEFINE l == label[c]
  <1>1. PICK t \in FreeTags : threads' = RememberThread(l, [tag |-> t, by |-> c])
    BY DEF HandleNotify
  <1>2. /\ pc[c] = "reading" /\ pc'[c] = "notifying" /\ \A d \in Conns \ {c} : pc'[d] = pc[d]
        /\ UNCHANGED <<clients, label, peer, queues>>
    BY DEF HandleNotify, TypeOK
  <1>3. l \in Labels /\ [tag |-> t, by |-> c] \in Notification
    BY <1>2 DEF LabelsAreHeld, Attending, Serving, FreeTags, Notification
  <1>4. \A d \in Conns :
          /\ pc'[d] \in Serving <=> pc[d] \in Serving
          /\ pc'[d] \in Attending <=> pc[d] \in Attending
          /\ pc'[d] \in Strange <=> pc[d] \in Strange
          /\ pc'[d] = "closed" <=> pc[d] = "closed"
    BY <1>2 DEF Serving, Attending, Strange
  <1>5. LabelsAreHeld' /\ RegistryMatchesHandlers'
    BY <1>2, <1>4 DEF LabelsAreHeld, RegistryMatchesHandlers
  <1>6. RegisteredIsServed'
    <2>1. \A m \in Registered : clients[m] \in Conns
      BY DEF Registered, TypeOK
    <2> QED
      BY <1>2, <1>4, <2>1 DEF RegisteredIsServed, Registered
  <1>7. ThreadsDieWithTheirAgent'
    <2>1. ASSUME NEW m \in Labels, NEW i \in DOMAIN threads'[m]
          PROVE  /\ label'[threads'[m][i].by] = m
                 /\ pc'[threads'[m][i].by] \in Serving \cup {"dropping"}
      <3>1. \/ \E j \in DOMAIN threads[m] : threads'[m][i] = threads[m][j]
            \/ m = l /\ threads'[m][i] = [tag |-> t, by |-> c]
        BY <1>1, <1>3, <2>1, Remembered
      <3>2. CASE m = l /\ threads'[m][i] = [tag |-> t, by |-> c]
        BY <1>2, <3>2 DEF Serving
      <3>3. ASSUME NEW j \in DOMAIN threads[m], threads'[m][i] = threads[m][j]
            PROVE  /\ label'[threads'[m][i].by] = m
                   /\ pc'[threads'[m][i].by] \in Serving \cup {"dropping"}
        BY <1>2, <1>4, <3>3, EntriesTyped DEF ThreadsDieWithTheirAgent, Attending
      <3> QED
        BY <3>1, <3>2, <3>3
    <2> QED
      BY <2>1 DEF ThreadsDieWithTheirAgent
  <1>8. MessagesAreForKnown' /\ MessagesWaitForTheirAgent'
    BY <1>2, <1>4, EntriesTyped DEF MessagesAreForKnown, MessagesWaitForTheirAgent
  <1> QED
    BY <1>5, <1>6, <1>7, <1>8

\* A reply to a notify waits for the agent that sent it.
LEMMA NotifyReplyKeeps ==
  ASSUME TypeOK, Registry, NEW m \in UserMessages, UserRepliesToNotify(m)
  PROVE  Registry'
  <1> DEFINE l == Route(m).label
             t == Route(m).tag
             entry == [to |-> ThreadOwner(t, l)]
             entries == {threads[l][i] : i \in DOMAIN threads[l]}
  <1>1. l \in Labels /\ t \in NotifyTags(l)
    BY RouteNamesNotify DEF UserRepliesToNotify
  <1>2. \E e \in entries : e.tag = t
    BY <1>1 DEF NotifyTags
  <1>3. PICK i \in DOMAIN threads[l] : ThreadOwner(t, l) = threads[l][i].by
    BY <1>2 DEF ThreadOwner
  <1>4. MayWait(ThreadOwner(t, l), l)
    <2>1. /\ threads[l][i].by \in Conns /\ label[threads[l][i].by] = l
          /\ pc[threads[l][i].by] \in Attending
      BY <1>1, <1>3, EntriesTyped DEF Registry, ThreadsDieWithTheirAgent, Attending
    <2> QED
      BY <1>3, <2>1 DEF MayWait, Registry, RegistryMatchesHandlers, Attending, Serving, Strange
  <1>5. entry \in QueuedMessage /\ queues[l] \in Seq(QueuedMessage)
    BY <1>1, <1>4 DEF QueuedMessage, MayWait, TypeOK
  <1>6. ASSUME NEW k \in Labels, NEW j \in DOMAIN queues'[k]
        PROVE  MayWait(queues'[k][j].to, k)
    <2>1. queues'[k] = IF k = l THEN Enqueued(queues[l], entry) ELSE queues[k]
      BY <1>1 DEF UserRepliesToNotify, TypeOK
    <2>2. \/ k = l /\ queues'[k][j] = entry
          \/ \E n \in DOMAIN queues[k] : queues'[k][j] = queues[k][n]
      BY <1>5, <1>6, <2>1, EnqueuedEntries
    <2> QED
      BY <1>4, <2>2, WaitingMayWait
  <1>7. UNCHANGED <<clients, label, pc, peer, threads>>
    BY DEF UserRepliesToNotify, connVars, agentVars
  <1> QED
    BY <1>6, <1>7, QueueingKeeps

\* A copy of a broadcast waits for each agent that is registered.
LEMMA BroadcastKeeps ==
  ASSUME TypeOK, Registry, NEW m \in UserMessages, UserBroadcasts(m)
  PROVE  Registry'
  <1>1. ASSUME NEW l \in Registered
        PROVE  MayWait(clients[l], l)
    BY <1>1 DEF Registered, TypeOK, Registry, RegisteredIsServed, MayWait, Serving, Strange
  <1>2. ASSUME NEW k \in Labels, NEW j \in DOMAIN queues'[k]
        PROVE  MayWait(queues'[k][j].to, k)
    <2>1. CASE k \in Registered
      <3>1. queues'[k] = Enqueued(queues[k], [to |-> clients[k]])
        BY <2>1 DEF UserBroadcasts
      <3>2. [to |-> clients[k]] \in QueuedMessage /\ queues[k] \in Seq(QueuedMessage)
        BY <1>1, <2>1 DEF QueuedMessage, MayWait, TypeOK
      <3>3. \/ queues'[k][j] = [to |-> clients[k]]
            \/ \E n \in DOMAIN queues[k] : queues'[k][j] = queues[k][n]
        BY <1>2, <3>1, <3>2, EnqueuedEntries
      <3> QED
        BY <1>1, <2>1, <3>3, WaitingMayWait
    <2>2. CASE k \notin Registered
      <3>1. queues'[k] = queues[k]
        BY <2>2 DEF UserBroadcasts
      <3> QED
        BY <1>2, <3>1, WaitingMayWait
    <2> QED
      BY <2>1, <2>2
  <1>3. UNCHANGED <<clients, label, pc, peer, threads>>
    BY DEF UserBroadcasts, connVars, agentVars
  <1> QED
    BY <1>2, <1>3, QueueingKeeps

\* check_messages takes what waits; if its answer cannot be written the
\* handler ends.
LEMMA CheckMessagesKeeps ==
  ASSUME TypeOK, Registry, NEW c \in Conns, HandleCheckMessages(c)
  PROVE  Registry'
  <1>1. /\ pc[c] = "reading" /\ queues' = [queues EXCEPT ![label[c]] = <<>>]
        /\ UNCHANGED <<label, peer>>
    BY DEF HandleCheckMessages
  <1>2. CASE UNCHANGED <<clients, pc, threads>>
    <2>1. ASSUME NEW k \in Labels, NEW j \in DOMAIN queues'[k]
          PROVE  MayWait(queues'[k][j].to, k)
      <3>1. queues'[k] \in {queues[k], <<>>}
        BY <1>1 DEF TypeOK
      <3>2. queues'[k] = queues[k]
        BY <2>1, <3>1
      <3> QED
        BY <2>1, <3>2, WaitingMayWait
    <2> QED
      BY <1>1, <1>2, <2>1, QueueingKeeps
  <1>3. CASE Teardown(c)
    <2>1. DroppingStep(c)
      BY <1>1, <1>3, DropNextDrops DEF Teardown, DroppingStep, Attending, Serving
    <2> QED
      BY <2>1, DroppingKeeps
  <1> QED
    BY <1>2, <1>3 DEF HandleCheckMessages

\* A handler that ends on Bye, an end of file or an exception of its own.
LEMMA TeardownKeepsRegistry ==
  ASSUME TypeOK, Registry, NEW c \in Conns, pc[c] \in Serving, Teardown(c),
         UNCHANGED <<label, peer, queues>>
  PROVE  Registry'
  <1>1. DroppingStep(c)
    BY DropNextDrops DEF Teardown, DroppingStep, Attending
  <1> QED
    BY <1>1, DroppingKeeps

-----------------------------------------------------------------------------
(* Tags: which steps keep them unique. *)

\* Steps that open no thread and give no ask a tag.
NoNewTag ==
  /\ UNCHANGED tag
  /\ Pending' \subseteq Pending
  /\ \A l \in Labels : threads'[l] \in {threads[l], <<>>}

\* With fewer threads the tags stay unique.
LEMMA NoNewTagKeeps ==
  ASSUME TagsAreUnique, NoNewTag
  PROVE  TagsAreUnique'
  <1>1. ASSUME NEW l \in Labels, NEW i \in DOMAIN threads'[l]
        PROVE  i \in DOMAIN threads[l] /\ threads'[l] = threads[l]
    BY <1>1 DEF NoNewTag
  <1>2. \A l \in Labels : NotifyTags(l)' \subseteq NotifyTags(l)
    BY <1>1 DEF NotifyTags
  <1>3. \A a, b \in Pending' : tag'[a] = tag'[b] => a = b
    BY DEF NoNewTag, TagsAreUnique
  <1>4. \A a \in Pending', l \in Labels : tag'[a] \notin NotifyTags(l)'
    BY <1>2 DEF NoNewTag, TagsAreUnique
  <1>5. \A l, m \in Labels : \A i \in DOMAIN threads'[l], j \in DOMAIN threads'[m] :
          threads'[l][i].tag = threads'[m][j].tag => l = m /\ i = j
    BY <1>1 DEF TagsAreUnique
  <1> QED
    BY <1>3, <1>4, <1>5 DEF TagsAreUnique

\* The tag of an ask that begins is nobody's.
LEMMA AskBeginKeepsTags ==
  ASSUME TypeOK, TagsAreUnique, NEW c \in Conns, HandleAskBegin(c)
  PROVE  TagsAreUnique'
  <1> DEFINE a == Head(inbox[c]).ask
  <1>1. a \in Asks
    BY ReceiveTyped DEF HandleAskBegin
  <1>2. PICK t \in FreeTags : tag' = [tag EXCEPT ![a] = t]
    BY DEF HandleAskBegin
  <1>3. tag'[a] = t /\ \A b \in Asks \ {a} : tag'[b] = tag[b]
    BY <1>1, <1>2 DEF TypeOK
  <1>4. Pending' = Pending \cup {a} /\ UNCHANGED threads
    BY <1>1 DEF HandleAskBegin, Settle, TypeOK, Pending, inboxVars
  <1>5. /\ \A b \in Pending : tag[b] # t
        /\ \A l \in Labels : t \notin NotifyTags(l)
    BY <1>2 DEF FreeTags, ActiveTags
  <1>6. \A l \in Labels : NotifyTags(l)' = NotifyTags(l)
    BY <1>4 DEF NotifyTags
  <1>7. \A b \in Pending : b \in Asks
    BY DEF Pending
  <1>8. \A b, d \in Pending' : tag'[b] = tag'[d] => b = d
    BY <1>3, <1>4, <1>5, <1>7 DEF TagsAreUnique
  <1>9. \A b \in Pending', l \in Labels : tag'[b] \notin NotifyTags(l)'
    BY <1>3, <1>4, <1>5, <1>6, <1>7 DEF TagsAreUnique
  <1> QED
    BY <1>4, <1>8, <1>9 DEF TagsAreUnique

\* Nor is the tag of a new notify-thread, whichever thread it evicts.
LEMMA NotifyKeepsTags ==
  ASSUME TypeOK, LabelsAreHeld, TagsAreUnique, NEW c \in Conns, HandleNotify(c)
  PROVE  TagsAreUnique'
  <1> DEFINE l == label[c]
  <1>1. PICK t \in FreeTags : threads' = RememberThread(l, [tag |-> t, by |-> c])
    BY DEF HandleNotify
  <1> DEFINE e == [tag |-> t, by |-> c]
             last == Len(threads'[l])
  <1>2. l \in Labels /\ e \in Notification
    BY DEF HandleNotify, LabelsAreHeld, Attending, Serving, FreeTags, Notification
  <1>3. PICK k \in {0, 1} :
          /\ Len(threads[l]) \in Nat /\ DOMAIN threads[l] = 1..Len(threads[l])
          /\ last = Len(threads[l]) + 1 - k /\ DOMAIN threads'[l] = 1..last
          /\ threads'[l][last] = e
          /\ \A i \in 1..last : i # last =>
               i + k \in 1..Len(threads[l]) /\ threads'[l][i] = threads[l][i + k]
    BY <1>1, <1>2, Remembered
  <1>4. \A m \in Labels \ {l} : threads'[m] = threads[m]
    BY <1>1, <1>2, Remembered
  <1>5. Pending' = Pending /\ tag' = tag
    BY DEF HandleNotify, askVars, Pending
  <1>6. /\ \A b \in Pending : tag[b] # t
        /\ \A m \in Labels : \A j \in DOMAIN threads[m] : threads[m][j].tag # t
    BY DEF FreeTags, ActiveTags, NotifyTags
  <1>7. \A m \in Labels : NotifyTags(m)' \subseteq NotifyTags(m) \cup {t}
    <2>1. ASSUME NEW m \in Labels, NEW i \in DOMAIN threads'[m]
          PROVE  threads'[m][i].tag \in NotifyTags(m) \cup {t}
      <3>1. CASE m = l
        <4>1. CASE i = last
          BY <1>3, <3>1, <4>1
        <4>2. CASE i # last
          <5>1. i + k \in DOMAIN threads[l] /\ threads'[l][i] = threads[l][i + k]
            BY <1>3, <2>1, <3>1, <4>2
          <5> QED
            BY <3>1, <5>1 DEF NotifyTags
        <4> QED
          BY <4>1, <4>2
      <3>2. CASE m # l
        BY <1>4, <2>1, <3>2 DEF NotifyTags
      <3> QED
        BY <3>1, <3>2
    <2> QED
      BY <2>1 DEF NotifyTags
  <1>8. \A b \in Pending', m \in Labels : tag'[b] \notin NotifyTags(m)'
    BY <1>5, <1>6, <1>7 DEF TagsAreUnique
  <1>9. ASSUME NEW m \in Labels, NEW n \in Labels,
               NEW i \in DOMAIN threads'[m], NEW j \in DOMAIN threads'[n],
               threads'[m][i].tag = threads'[n][j].tag
        PROVE  m = n /\ i = j
    <2> DEFINE Old(p, q) == IF p = l THEN q + k ELSE q
               New(p, q) == p = l /\ q = last
    <2>1. ASSUME NEW p \in Labels, NEW q \in DOMAIN threads'[p], ~New(p, q)
          PROVE  /\ Old(p, q) \in DOMAIN threads[p]
                 /\ threads'[p][q] = threads[p][Old(p, q)]
      BY <1>3, <1>4, <2>1
    <2>2. CASE New(m, i)
      <3>1. threads'[n][j].tag = t
        BY <1>3, <1>9, <2>2
      <3>2. New(n, j)
        BY <1>6, <2>1, <3>1
      <3> QED
        BY <2>2, <3>2
    <2>3. CASE New(n, j)
      <3>1. threads'[m][i].tag = t
        BY <1>3, <1>9, <2>3
      <3>2. New(m, i)
        BY <1>6, <2>1, <3>1
      <3> QED
        BY <2>3, <3>2
    <2>4. CASE ~New(m, i) /\ ~New(n, j)
      <3>1. m = n /\ Old(m, i) = Old(n, j)
        BY <1>9, <2>1, <2>4 DEF TagsAreUnique
      <3>2. CASE m = l
        <4>1. i \in 1..last /\ j \in 1..last
          <5>1. threads'[m] = threads'[l] /\ threads'[n] = threads'[l]
            BY <3>1, <3>2
          <5> QED
            BY <1>3, <1>9, <5>1
        <4>2. i + k = j + k
          BY <3>1, <3>2
        <4> QED
          BY <3>1, <4>1, <4>2
      <3>3. CASE m # l
        BY <3>1, <3>3
      <3> QED
        BY <3>2, <3>3
    <2> QED
      BY <2>2, <2>3, <2>4
  <1> QED
    BY <1>5, <1>8, <1>9 DEF TagsAreUnique

-----------------------------------------------------------------------------
(* Every step keeps the registry and the tags. *)

\* A finally block opens no thread.
LEMMA DropNextOpensNothing ==
  ASSUME TypeOK, NEW c \in Conns, NEW orphans, DropNext(c, orphans), UNCHANGED tag
  PROVE  NoNewTag
  <1>1. \A l \in Labels : threads'[l] \in {threads[l], <<>>}
    BY DropNextDrops DEF TypeOK
  <1>2. Pending' \subseteq Pending
    BY DEF DropNext, Settle, TypeOK, Pending
  <1> QED
    BY <1>1, <1>2 DEF NoNewTag

\* At first nobody is registered and nothing is open or queued.
LEMMA InitRegistry == Init => RegistryInvariant
  BY DEF Init, RegistryInvariant, Registry, LabelsAreHeld, RegistryMatchesHandlers,
     RegisteredIsServed, Registered, ThreadsDieWithTheirAgent, MessagesAreForKnown,
     MessagesWaitForTheirAgent, TagsAreUnique, Pending, NotifyTags, Attending, Serving

\* What the other handlers, and the agents, do leaves the registry and the tags
\* alone.
LEMMA QuietHandlerSteps ==
  ASSUME TypeOK, NEW c \in Conns,
         \/ HandleOldHello(c) \/ HandleEofBeforeHello(c) \/ Connect(c)
         \/ NotifyDone(c) \/ QuestionSent(c) \/ HandleAskCancel(c) \/ WithdrawalSent(c)
         \/ SendLine(c) \/ Close(c) \/ Crash(c)
  PROVE  SteadyStep /\ NoNewTag
  <1> USE DEF connVars, askVars, inboxVars, agentVars, history, SteadyStep, NoNewTag,
              TypeOK, Pending
  <1>1. CASE HandleOldHello(c) \/ HandleEofBeforeHello(c) \/ Connect(c)
    BY <1>1 DEF HandleOldHello, HandleEofBeforeHello, Connect, Strange
  <1>2. CASE NotifyDone(c) \/ QuestionSent(c) \/ WithdrawalSent(c)
    BY <1>2 DEF NotifyDone, QuestionSent, WithdrawalSent, Serving
  <1>3. CASE HandleAskCancel(c)
    BY <1>3 DEF HandleAskCancel, Withdraw, Settle, Serving
  <1>4. CASE SendLine(c) \/ Close(c) \/ Crash(c)
    BY <1>4 DEF SendLine, Close, Crash
  <1> QED
    BY <1>1, <1>2, <1>3, <1>4

\* So do the tasks of the asks.
LEMMA QuietAskSteps ==
  ASSUME TypeOK, NEW a \in Asks, AskTask(a) \/ SendAsk(a) \/ SendCancel(a)
  PROVE  SteadyStep /\ NoNewTag
  <1> USE DEF connVars, askVars, inboxVars, agentVars, history, SteadyStep, NoNewTag,
              TypeOK, Pending
  <1>1. CASE TimeoutFires(a)
    BY <1>1 DEF TimeoutFires, Expire, Settle, AfterWriteTo
  <1>2. CASE TimeoutDmSent(a) \/ RePing(a) \/ SkipRePing(a) \/ RePingSent(a)
    BY <1>2 DEF TimeoutDmSent, RePing, SkipRePing, RePingSent
  <1>3. CASE SendAsk(a) \/ SendCancel(a)
    BY <1>3 DEF SendAsk, SendCancel
  <1> QED
    BY <1>1, <1>2, <1>3 DEF AskTask

\* And the user's answer to an ask.
LEMMA AnswerIsQuiet ==
  ASSUME TypeOK, NEW m \in UserMessages, NEW source \in {"discord", "cli"},
         UserAnswers(source, m)
  PROVE  SteadyStep /\ NoNewTag
  <1>1. PICK a \in Pending : DeliverReply(a, source)
    BY DEF UserAnswers
  <1>2. Pending' \subseteq Pending /\ \A c \in Conns : peer[c] # "open" => peer'[c] # "open"
    BY <1>1 DEF DeliverReply, Settle, AfterWriteTo, TypeOK, Pending
  <1>3. UNCHANGED <<connVars, tag, inboxVars>>
    BY DEF UserAnswers
  <1> QED
    BY <1>2, <1>3 DEF SteadyStep, NoNewTag, connVars, inboxVars

\* Every step keeps the registry, the threads, the messages and the tags together.
LEMMA NextRegistry == TypeOK /\ RegistryInvariant /\ [Next]_vars => RegistryInvariant'
  <1> SUFFICES ASSUME TypeOK, Registry, TagsAreUnique, [Next]_vars
               PROVE  Registry' /\ TagsAreUnique'
    BY DEF RegistryInvariant
  <1>1. ASSUME NEW c \in Conns, HandleHello(c) PROVE Registry' /\ TagsAreUnique'
    <2>1. NoNewTag
      BY <1>1 DEF HandleHello, NoNewTag, askVars, inboxVars, Pending
    <2> QED
      BY <1>1, <2>1, HelloKeeps, NoNewTagKeeps
  <1>2. ASSUME NEW c \in Conns, HandleNotify(c) PROVE Registry' /\ TagsAreUnique'
    BY <1>2, NotifyKeeps, NotifyKeepsTags DEF Registry
  <1>3. ASSUME NEW c \in Conns, HandleAskBegin(c) PROVE Registry' /\ TagsAreUnique'
    <2>1. SteadyStep
      BY <1>3 DEF HandleAskBegin, SteadyStep, TypeOK, Serving, inboxVars
    <2> QED
      BY <1>3, <2>1, SteadyKeeps, AskBeginKeepsTags
  <1>4. ASSUME NEW c \in Conns, NotifyRaises(c) \/ HandleBye(c) \/ HandleEof(c)
        PROVE  Registry' /\ TagsAreUnique'
    <2>1. /\ pc[c] \in Serving /\ Teardown(c)
          /\ UNCHANGED <<label, peer, queues, tag>>
      BY <1>4 DEF NotifyRaises, HandleBye, HandleEof, Serving, agentVars
    <2>2. NoNewTag
      BY <2>1, DropNextOpensNothing DEF Teardown
    <2> QED
      BY <2>1, <2>2, TeardownKeepsRegistry, NoNewTagKeeps
  <1>5. ASSUME NEW c \in Conns, HandleCheckMessages(c) PROVE Registry' /\ TagsAreUnique'
    <2>1. NoNewTag
      <3>1. CASE UNCHANGED <<threads, status>>
        BY <1>5, <3>1 DEF HandleCheckMessages, NoNewTag, Pending
      <3>2. CASE Teardown(c)
        BY <1>5, <3>2, DropNextOpensNothing DEF HandleCheckMessages, Teardown
      <3> QED
        BY <1>5, <3>1, <3>2 DEF HandleCheckMessages
    <2> QED
      BY <1>5, <2>1, CheckMessagesKeeps, NoNewTagKeeps
  <1>6. ASSUME NEW c \in Conns, LostContactSent(c) PROVE Registry' /\ TagsAreUnique'
    <2>1. DroppingStep(c)
      BY <1>6, DropNextDrops
        DEF LostContactSent, DroppingStep, Attending, agentVars
    <2>2. NoNewTag
      BY <1>6, DropNextOpensNothing DEF LostContactSent
    <2> QED
      BY <2>1, <2>2, DroppingKeeps, NoNewTagKeeps
  <1>7. ASSUME NEW m \in UserMessages, UserRepliesToNotify(m) \/ UserBroadcasts(m)
        PROVE  Registry' /\ TagsAreUnique'
    <2>1. NoNewTag
      BY <1>7 DEF UserRepliesToNotify, UserBroadcasts, NoNewTag, askVars, Pending
    <2> QED
      BY <1>7, <2>1, NotifyReplyKeeps, BroadcastKeeps, NoNewTagKeeps
  <1>8. ASSUME SteadyStep, NoNewTag PROVE Registry' /\ TagsAreUnique'
    BY <1>8, SteadyKeeps, NoNewTagKeeps
  <1>9. ASSUME NEW c \in Conns,
               \/ HandleOldHello(c) \/ HandleEofBeforeHello(c) \/ Connect(c)
               \/ NotifyDone(c) \/ QuestionSent(c) \/ HandleAskCancel(c) \/ WithdrawalSent(c)
               \/ SendLine(c) \/ Close(c) \/ Crash(c)
        PROVE  SteadyStep /\ NoNewTag
    BY <1>9, QuietHandlerSteps
  <1>10. ASSUME NEW a \in Asks, AskTask(a) \/ SendAsk(a) \/ SendCancel(a)
         PROVE  SteadyStep /\ NoNewTag
    BY <1>10, QuietAskSteps
  <1>11. ASSUME NEW m \in UserMessages, NEW source \in {"discord", "cli"},
                UserAnswers(source, m)
         PROVE  SteadyStep /\ NoNewTag
    BY <1>11, AnswerIsQuiet
  <1>12. CASE UNCHANGED vars
    <2>1. SteadyStep /\ NoNewTag
      BY <1>12 DEF vars, SteadyStep, NoNewTag, Pending, connVars, askVars, inboxVars, agentVars
    <2> QED
      BY <1>8, <2>1
  <1> QED
    BY <1>1, <1>2, <1>3, <1>4, <1>5, <1>6, <1>7, <1>8, <1>9, <1>10, <1>11, <1>12
      DEF Next, Handler, User, Agent

-----------------------------------------------------------------------------
\* The registry's inductive invariant: no agent attends without a label, or
\* has messages before it has one (_assign_label, _handle_client).
THEOREM RegistryInvariantHolds == Spec => []RegistryInvariant
  BY InitRegistry, NextRegistry, TypeCorrect, PTL DEF Spec

\* However many agents of one checkout come and go, each one served is the one
\* registered under its label.
THEOREM ServedIsRegistered == Spec => []RegistryMatchesHandlers
  BY RegistryInvariantHolds, PTL DEF RegistryInvariant, Registry

\* Conversely, no dead agent stays registered but one that died in its handshake.
THEOREM OnlyServedAreRegistered == Spec => []RegisteredIsServed
  BY RegistryInvariantHolds, PTL DEF RegistryInvariant, Registry

\* No notify-thread outlives the handler of its agent or moves to another's label.
THEOREM NoOrphanThread == Spec => []ThreadsDieWithTheirAgent
  BY RegistryInvariantHolds, PTL DEF RegistryInvariant, Registry

\* No message for a served agent is held where another agent could drain it.
THEOREM NoMisdelivery == Spec => []MessagesWaitForTheirAgent
  BY RegistryInvariantHolds, PTL DEF RegistryInvariant, Registry

\* Whatever is evicted, dropped or drawn again, a tag names one open thread.
THEOREM NoSharedTag == Spec => []TagsAreUnique
  BY RegistryInvariantHolds, PTL DEF RegistryInvariant
=============================================================================
