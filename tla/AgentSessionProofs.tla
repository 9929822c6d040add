------------------------- MODULE AgentSessionProofs -------------------------
(***************************************************************************)
(* What the two real ends of a socket promise each other, for any tool      *)
(* calls, tags and messages of the user: each implements what the other's   *)
(* module assumes of it, and agent and user hear the same of every ask.     *)
(***************************************************************************)
EXTENDS AgentSession, DaemonClientProofs

\* What is known of the client's end alone (DaemonClientProofs).
ClientSide ==
  /\ TypeOK /\ WaitingCallIsInTable /\ ClientInvariant
  /\ RefusalsAreOfHello /\ FailedByLoss /\ DisconnectIsReal

SessionTyped ==
  /\ greeting \in {"Hello", "OldHello"} /\ alive \in BOOLEAN /\ held \in {0, 1}
  /\ pc \in [{Conn} -> Server!HandlerState]
  /\ work \in [{Conn} -> SUBSET Asks]
  /\ peer \in [{Conn} -> {"open", "closed", "reset"}]
  /\ status \in [Asks -> Server!AskStatus]
  /\ timer \in [Asks -> Server!TimerState]
  /\ cancelled \subseteq Asks

\* The socket lasts as long as the handler.  Before its greeting is read the daemon has
\* answered nothing, and the agent has sent nothing else.
SocketsMeet ==
  /\ socket = "up" <=> pc[Conn] # "closed"
  /\ pc[Conn] = "absent" <=> task[Hello] = "idle"
  /\ pc[Conn] = "absent" => requests = <<>> /\ held = 0
  /\ pc[Conn] \in {"absent", "greeting"} =>
       /\ phase \in {"connecting", "failed"} /\ future[Hello] # "result"
       /\ \A i \in DOMAIN answers :
            ~(answers[i].type = "Answer" /\ answers[i].call = Hello)
  /\ phase \in {"connecting", "failed"} => \A a \in Asks : status[a] = "unasked"
  /\ alive /\ phase # "closed" => peer[Conn] = "open"
  /\ phase = "closed" => reader # "reading"

\* The line that the handler has in its hands.
HandsMeet ==
  /\ held = 1 => requests # <<>> /\ pc[Conn] \in {"notifying", "dropping", "closed"}
  /\ pc[Conn] = "notifying" =>
       held = 1 /\ \E n \in Notifies : Head(requests) = Begin(n)

\* The asks in the daemon's table are those the client's module has it hold; the handler
\* that drops them has them in its snapshot.
TablesMeet ==
  /\ Server!Pending \subseteq open
  /\ pc[Conn] = "dropping" => Server!Pending \subseteq work[Conn]

\* What is on its way from the client.
LinesMeet ==
  /\ \A a \in Asks : /\ InFlight(Begin(a)) => status[a] = "sent"
                     /\ InFlight(AskCancel(a)) => a \in cancelled
  /\ \A i \in DOMAIN requests : requests[i].type = "AskCancel" => requests[i].call \in Asks
  /\ phase # "closed" =>
       /\ \A i, j \in DOMAIN requests : requests[i] = requests[j] => i = j
       /\ \A k \in Calls : task[k] = "idle" => ~InFlight(Begin(k))

\* What the client does with an ask, and what the daemon then knows of it.
AskMeets(a) ==
  /\ task[a] = "idle" => status[a] = "unasked"
  /\ task[a] = "waiting" \/ a \in pending => status[a] # "unasked"
  /\ a \in cancelled => outcome[a] = "cancelled" \/ phase = "closed"
  /\ status[a] \in {"sent", "open"} /\ socket = "up" =>
       task[a] = "waiting" \/ a \in cancelled
  /\ phase = "closed" /\ socket = "up" /\ task[a] = "waiting" => a \in cancelled
  /\ future[a] = "unresolved" => task[a] = "waiting" \/ status[a] = "unasked"
CallsMeet ==
  /\ \A a \in Asks : AskMeets(a)
  /\ \A k \in Calls :
       /\ task[k] # "done" => outcome[k] = "none"
       /\ outcome[k] = "answer" => future[k] = "result"
       /\ outcome[k] = "directive" => future[k] = "error"
       /\ outcome[k] = "cancelled" => future[k] # "unresolved"

\* What the daemon does with an ask, and what the client then hears of it.
NewsOf(a) ==
  /\ Answered(a) \/ future[a] = "result" => status[a] \in {"replied", "timed_out"}
  /\ status[a] \in {"replied", "timed_out"} /\ future[a] = "unresolved" => Answered(a)
  /\ future[a] = "error" => status[a] \in {"sent", "lost"} \/ phase = "closed"
  /\ status[a] = "withdrawn" => outcome[a] = "cancelled" \/ phase = "closed"
NewsMeet == \A a \in Asks : NewsOf(a)

\* Why contact with an agent can be lost.
LossHasCause == ~alive \/ peer[Conn] = "reset" \/ held = 1 \/ LinesAreLost
LossesMeet ==
  /\ pc[Conn] = "dropping" => LossHasCause
  /\ \A a \in Asks : status[a] = "lost" => pc[Conn] \in {"dropping", "closed"} /\ LossHasCause

SessionInvariant ==
  /\ ClientSide /\ SessionTyped
  /\ SocketsMeet /\ HandsMeet /\ TablesMeet /\ LinesMeet
  /\ CallsMeet /\ NewsMeet /\ LossesMeet

-----------------------------------------------------------------------------
(* The lines of the client, as the daemon reads them. *)

\* The decoder makes one kind of line of each request.
LEMMA LinesOfRequests ==
  ASSUME NEW version
  PROVE  /\ LineOf(version, Begin(Hello)) = [type |-> version]
         /\ LineOf(version, Bye) = [type |-> "Bye"]
         /\ \A a \in Asks : /\ LineOf(version, Begin(a)) = [type |-> "AskBegin", ask |-> a]
                            /\ LineOf(version, AskCancel(a)) = [type |-> "AskCancel", ask |-> a]
         /\ \A k \in Calls : LineOf(version, AskCancel(k)) = [type |-> "AskCancel", ask |-> k]
         /\ \A n \in Notifies : LineOf(version, Begin(n)) = [type |-> "Notify"]
         /\ \A k \in Checks : LineOf(version, Begin(k)) = [type |-> "CheckMessages"]
  <1>1. /\ \A k : Begin(k).type = "Begin" /\ Begin(k).call = k
        /\ \A k : AskCancel(k).type = "AskCancel" /\ AskCancel(k).call = k
        /\ Bye.type = "Bye"
    BY DEF Begin, AskCancel, Bye
  <1>2. "Begin" # "AskCancel" /\ "Begin" # "Bye" /\ "AskCancel" # "Bye"
    OBVIOUS
  <1>3. \A k : LineOf(version, AskCancel(k)) = [type |-> "AskCancel", ask |-> k]
    BY <1>1, <1>2 DEF LineOf
  <1>4. LineOf(version, Bye) = [type |-> "Bye"]
    BY <1>1, <1>2 DEF LineOf
  <1>5. LineOf(version, Begin(Hello)) = [type |-> version]
    <2>1. Hello \notin Asks /\ Hello \notin Notifies /\ Hello \notin Checks
      BY CallsAreDistinct DEF Tools
    <2> QED
      BY <1>1, <1>2, <2>1 DEF LineOf
  <1>6. ASSUME NEW a \in Asks
        PROVE  LineOf(version, Begin(a)) = [type |-> "AskBegin", ask |-> a]
    <2>1. a # Hello /\ a \notin Notifies /\ a \notin Checks
      BY CallsAreDistinct DEF Tools
    <2> QED
      BY <1>1, <1>2, <2>1 DEF LineOf
  <1>7. ASSUME NEW n \in Notifies PROVE LineOf(version, Begin(n)) = [type |-> "Notify"]
    <2>1. n # Hello /\ n \notin Asks /\ n \notin Checks
      BY CallsAreDistinct DEF Tools
    <2> QED
      BY <1>1, <1>2, <2>1 DEF LineOf
  <1>8. ASSUME NEW k \in Checks PROVE LineOf(version, Begin(k)) = [type |-> "CheckMessages"]
    <2>1. k # Hello /\ k \notin Asks /\ k \notin Notifies
      BY CallsAreDistinct DEF Tools
    <2> QED
      BY <1>1, <1>2, <2>1 DEF LineOf
  <1> QED
    BY <1>3, <1>4, <1>5, <1>6, <1>7, <1>8

\* So a line tells which request it was.
LEMMA RequestsOfLines ==
  ASSUME NEW version \in {"Hello", "OldHello"}, NEW r \in Request
  PROVE  LET line == LineOf(version, r)
         IN  /\ line.type = version \/ line.type \in {"Hello", "OldHello"} => r = Begin(Hello)
             /\ line.type = "Bye" => r = Bye
             /\ line.type = "AskBegin" => r = Begin(line.ask) /\ line.ask \in Asks
             /\ line.type = "AskCancel" => r = AskCancel(line.ask) /\ line.ask = r.call
             /\ line.type = "Notify" => \E n \in Notifies : r = Begin(n)
             /\ line.type = "CheckMessages" => \E k \in Checks : r = Begin(k)
  <1> DEFINE line == LineOf(version, r)
  <1>1. CASE r.type = "AskCancel"
    <2>1. r = AskCancel(r.call) /\ r.call \in Calls
      BY <1>1, RequestShapes
    <2>2. line = [type |-> "AskCancel", ask |-> r.call]
      BY <2>1, LinesOfRequests
    <2> QED
      BY <2>1, <2>2
  <1>2. CASE r.type = "Bye"
    <2>1. r = Bye
      BY <1>2, RequestShapes
    <2>2. line = [type |-> "Bye"]
      BY <2>1, LinesOfRequests
    <2> QED
      BY <2>1, <2>2
  <1>3. CASE r.type = "Begin"
    <2>1. r = Begin(r.call) /\ r.call \in Calls
      BY <1>3, RequestShapes
    <2> DEFINE k == r.call
    <2> HIDE DEF k
    <2>2. r = Begin(k) /\ (k = Hello \/ k \in Asks \/ k \in Notifies \/ k \in Checks)
      BY <2>1 DEF k, Calls, Tools
    <2>3. CASE k = Hello
      <3>1. line = [type |-> version]
        BY <2>2, <2>3, LinesOfRequests
      <3> QED
        BY <2>2, <2>3, <3>1
    <2>4. CASE k \in Asks
      <3>1. line = [type |-> "AskBegin", ask |-> k]
        BY <2>2, <2>4, LinesOfRequests
      <3> QED
        BY <2>2, <2>4, <3>1
    <2>5. CASE k \in Notifies
      <3>1. line = [type |-> "Notify"]
        BY <2>2, <2>5, LinesOfRequests
      <3> QED
        BY <2>2, <2>5, <3>1
    <2>6. CASE k \in Checks
      <3>1. line = [type |-> "CheckMessages"]
        BY <2>2, <2>6, LinesOfRequests
      <3> QED
        BY <2>2, <2>6, <3>1
    <2> QED
      BY <2>2, <2>3, <2>4, <2>5, <2>6
  <1> QED
    BY <1>1, <1>2, <1>3, RequestShapes

\* The lines of the requests s of which the handler has taken h.
LinesOf(version, s, h) ==
  [i \in DOMAIN SubSeq(s, h + 1, Len(s)) |-> LineOf(version, SubSeq(s, h + 1, Len(s))[i])]

Decoded(version) == {LineOf(version, r) : r \in Request}

\* What the daemon has not read are the requests behind the one in its hands.
LEMMA LinesMean ==
  ASSUME NEW version, NEW s \in Seq(Request), NEW h \in {0, 1}, h = 1 => s # <<>>
  PROVE  /\ Len(s) \in Nat /\ Len(s) - h \in Nat
         /\ LinesOf(version, s, h) \in Seq(Decoded(version))
         /\ Len(LinesOf(version, s, h)) = Len(s) - h
         /\ \A i \in 1..(Len(s) - h) : /\ s[h + i] \in Request
                                       /\ LinesOf(version, s, h)[i] = LineOf(version, s[h + i])
  <1>1. Len(s) \in Nat /\ h <= Len(s)
    BY LenProperties, EmptySeq
  <1>2. \A i \in (h + 1)..Len(s) : s[i] \in Request
    BY <1>1, ElementOfSeq
  <1> DEFINE u == SubSeq(s, h + 1, Len(s))
             n == Len(s) - h
             lines == LinesOf(version, s, h)
  <1>3. /\ u \in Seq(Request) /\ Len(u) = n
        /\ \A i \in 1..n : u[i] = s[h + i]
    <2>1. /\ u \in Seq(Request)
          /\ Len(u) = IF h + 1 <= Len(s) THEN Len(s) - (h + 1) + 1 ELSE 0
          /\ \A i \in 1..(Len(s) - (h + 1) + 1) : u[i] = s[h + 1 + i - 1]
      BY <1>1, <1>2, SubSeqProperties
    <2> QED
      BY <1>1, <2>1
  <1>4. lines = [i \in DOMAIN u |-> LineOf(version, u[i])]
    BY DEF LinesOf
  <1>5. n \in Nat
    BY <1>1
  <1> HIDE DEF u, n, lines
  <1>6. DOMAIN u = 1..n /\ \A i \in 1..n : u[i] \in Request
    BY <1>3, <1>5, LenProperties, ElementOfSeq
  <1>7. lines = [i \in 1..n |-> LineOf(version, u[i])]
    BY <1>4, <1>6
  <1>8. lines \in Seq(Decoded(version)) /\ Len(lines) = n
    BY <1>5, <1>6, <1>7 DEF Decoded
  <1>9. \A i \in 1..n : lines[i] = LineOf(version, s[h + i]) /\ s[h + i] \in Request
    BY <1>3, <1>6, <1>7
  <1> QED
    BY <1>1, <1>5, <1>8, <1>9 DEF u, n, lines

\* A handler that takes a line takes what the first request says.
LEMMA LineTaken ==
  ASSUME TypeOK, requests # <<>>, held = 0, NEW type, Server!Receive(Conn, type)
  PROVE  /\ peer[Conn] # "reset"
         /\ Head(requests) \in Request /\ requests[1] = Head(requests)
         /\ LineOf(greeting, Head(requests)).type = type
         /\ Head(Lines) = LineOf(greeting, Head(requests))
  <1>1. requests \in Seq(Request)
    BY DEF TypeOK
  <1>2. /\ Head(requests) \in Request /\ requests[1] = Head(requests)
        /\ Len(requests) \in Nat /\ Len(requests) > 0
    BY <1>1, HeadTailProperties, LenProperties, EmptySeq
  <1>3. /\ Lines \in Seq(Decoded(greeting))
        /\ Len(Lines) = Len(requests)
        /\ Lines[1] = LineOf(greeting, Head(requests))
    <2>1. 1 \in 1..(Len(requests) - 0) /\ 0 + 1 = 1 /\ Len(requests) - 0 = Len(requests)
      BY <1>2
    <2>2. Lines = LinesOf(greeting, requests, 0)
      BY DEF Lines, Unread, LinesOf
    <2> QED
      BY <1>1, <1>2, <2>1, <2>2, LinesMean
  <1>4. Head(Lines) = Lines[1]
    BY <1>2, <1>3, HeadTailProperties
  <1> QED
    BY <1>2, <1>3, <1>4 DEF Server!Receive

\* A handler with an unread line finds it, and finds none when there is none.
LEMMA NothingToRead ==
  ASSUME TypeOK, held = 0
  PROVE  Lines = <<>> <=> requests = <<>>
  <1>1. requests \in Seq(Request) /\ Len(requests) \in Nat
    BY LenProperties DEF TypeOK
  <1>2. Lines \in Seq(Decoded(greeting)) /\ Len(Lines) = Len(requests)
    <2>1. Lines = LinesOf(greeting, requests, 0) /\ Len(requests) - 0 = Len(requests)
      BY <1>1 DEF Lines, Unread, LinesOf
    <2> QED
      BY <1>1, <2>1, LinesMean
  <1> QED
    BY <1>1, <1>2, EmptySeq

\* Dropping the asks of the connection loses those in the table, and ends when
\* none is left.
LEMMA Drops ==
  ASSUME SessionTyped, NEW orphans \in SUBSET Asks, Server!Pending \subseteq orphans,
         Server!DropNext(Conn, orphans)
  PROVE  /\ pc' \in [{Conn} -> {"dropping", "closed"}]
         /\ work' \in [{Conn} -> SUBSET Asks]
         /\ status' \in [Asks -> Server!AskStatus]
         /\ timer' \in [Asks -> Server!TimerState]
         /\ \A a \in Asks : \/ status'[a] = status[a]
                            \/ status[a] = "open" /\ status'[a] = "lost"
         /\ pc'[Conn] = "closed" => UNCHANGED status /\ Server!Pending = {}
         /\ pc'[Conn] = "dropping" => Server!Pending' \subseteq work'[Conn]
  <1>1. CASE orphans = {} /\ pc' = [pc EXCEPT ![Conn] = "closed"]
             /\ work' = [work EXCEPT ![Conn] = {}] /\ UNCHANGED <<status, timer>>
    BY <1>1 DEF SessionTyped
  <1>2. ASSUME NEW a \in orphans,
               IF status[a] = "open" THEN Server!Settle(a, "lost") ELSE UNCHANGED status,
               Server!CancelAskTasks(a),
               work' = [work EXCEPT ![Conn] = orphans \ {a}],
               pc' = [pc EXCEPT ![Conn] = "dropping"]
        PROVE  /\ pc' \in [{Conn} -> {"dropping", "closed"}]
               /\ work' \in [{Conn} -> SUBSET Asks]
               /\ status' \in [Asks -> Server!AskStatus]
               /\ timer' \in [Asks -> Server!TimerState]
               /\ \A b \in Asks : \/ status'[b] = status[b]
                                  \/ status[b] = "open" /\ status'[b] = "lost"
               /\ pc'[Conn] = "closed" => UNCHANGED status /\ Server!Pending = {}
               /\ pc'[Conn] = "dropping" => Server!Pending' \subseteq work'[Conn]
    <2>1. pc'[Conn] = "dropping" /\ work'[Conn] = orphans \ {a}
          /\ pc' \in [{Conn} -> {"dropping", "closed"}] /\ work' \in [{Conn} -> SUBSET Asks]
      BY <1>2 DEF SessionTyped
    <2>2. timer' \in [Asks -> Server!TimerState]
      BY <1>2 DEF SessionTyped, Server!CancelAskTasks, Server!Cancelled, Server!TimerState
    <2>3. /\ status' \in [Asks -> Server!AskStatus]
          /\ \A b \in Asks \ {a} : status'[b] = status[b]
          /\ status'[a] = IF status[a] = "open" THEN "lost" ELSE status[a]
      <3>1. CASE status[a] = "open"
        BY <1>2, <3>1 DEF SessionTyped, Server!Settle, Server!AskStatus, Server!Settled
      <3>2. CASE status[a] # "open"
        BY <1>2, <3>2 DEF SessionTyped
      <3> QED
        BY <3>1, <3>2
    <2>4. Server!Pending' \subseteq orphans \ {a}
      BY <2>3 DEF Server!Pending
    <2> QED
      BY <2>1, <2>2, <2>3, <2>4
  <1> QED
    BY <1>1, <1>2 DEF Server!DropNext

\* The disconnect of a handler that served drops every ask in the table: there is no
\* other connection.
LEMMA TeardownDrops ==
  ASSUME Server!Teardown(Conn)
  PROVE  Server!DropNext(Conn, Server!Pending)
  <1>1. {a \in Server!Pending : [b \in Asks |-> Conn][a] = Conn} = Server!Pending
    BY DEF Server!Pending
  <1> QED
    BY <1>1 DEF Server!Teardown

-----------------------------------------------------------------------------
(* The daemon's end. *)

\* What a step of the handler or of a task may do to what the two ends share.
StatusMoves(a) ==
  \/ status'[a] = status[a]
  \/ /\ pc[Conn] # "closed" /\ status[a] = "sent" /\ status'[a] = "open"
     /\ ~InFlight(Begin(a))'
  \/ /\ pc[Conn] # "closed" /\ status[a] = "open"
     /\ \/ status'[a] \in {"replied", "timed_out"} /\ answers' = Answers("Answer", a)
        \/ status'[a] = "withdrawn" /\ a \in cancelled
        \/ status'[a] = "lost" /\ pc'[Conn] = "dropping"

AnswersMove ==
  \/ UNCHANGED answers
  \/ \E type \in {"Answer", "TooLong", "HelloErr"}, k \in Calls :
       /\ answers' = Answers(type, k)
       /\ k \in Asks => status'[k] \in {"replied", "timed_out"}
       /\ type = "Answer" /\ k = Hello => pc'[Conn] \notin {"absent", "greeting"}

DaemonMoves ==
  /\ UNCHANGED <<clientVars, processVars, cancelled>>
  /\ SessionTyped'
  /\ requests' = requests \/ (requests # <<>> /\ requests' = Tail(requests))
  /\ pc'[Conn] = "absent" <=> pc[Conn] = "absent"
  /\ pc'[Conn] = "absent" => requests' = requests /\ held' = held
  /\ pc'[Conn] = "greeting" => pc[Conn] = "greeting"
  /\ pc[Conn] \in {"dropping", "closed"} => pc'[Conn] \in {"dropping", "closed"} /\ held' = held
  /\ pc[Conn] = "closed" => pc'[Conn] = "closed"
  /\ socket' = "up" <=> pc'[Conn] # "closed"
  /\ peer'[Conn] = peer[Conn] \/ (peer[Conn] = "closed" /\ peer'[Conn] = "reset")
  /\ \A a \in Asks : StatusMoves(a)
  /\ AnswersMove
  /\ pc'[Conn] = "dropping" => LossHasCause'
  /\ HandsMeet'
  /\ TablesMeet'

\* What was answered before still is, and a new answer is of the call it names.
LEMMA AnswersGrow ==
  ASSUME TypeOK, AnswersMove
  PROVE  /\ answers # <<>> => answers' # <<>>
         /\ \A a \in Asks : Answered(a) => Answered(a)'
         /\ \A a \in Asks : Answered(a)' => Answered(a) \/ status'[a] \in {"replied", "timed_out"}
         /\ \A a \in Asks : answers' = Answers("Answer", a) => Answered(a)'
         /\ pc'[Conn] \in {"absent", "greeting"} => \A i \in DOMAIN answers' :
              answers'[i].type = "Answer" /\ answers'[i].call = Hello =>
                i \in DOMAIN answers /\ answers'[i] = answers[i]
  <1>1. ASSUME NEW type, NEW k, answers' = Answers(type, k)
        PROVE  /\ Len(answers) \in Nat /\ DOMAIN answers = 1..Len(answers)
               /\ DOMAIN answers' = 1..(Len(answers) + 1)
               /\ \A i \in 1..Len(answers) : answers'[i] = answers[i]
               /\ answers'[Len(answers) + 1].type = type
               /\ answers'[Len(answers) + 1].call = k
    <2> DEFINE line == [type |-> type, call |-> k]
    <2>1. answers' = Append(answers, line) /\ line.type = type /\ line.call = k
      BY <1>1 DEF Answers
    <2>2. answers \in Seq(Answer \cup {line})
      BY DEF TypeOK
    <2> HIDE DEF line
    <2> QED
      BY <2>1, <2>2, AppendProperties, LenProperties
  <1>2. CASE UNCHANGED answers
    BY <1>2, <1>1 DEF Answered
  <1>3. ASSUME NEW type \in {"Answer", "TooLong", "HelloErr"}, NEW k \in Calls,
               answers' = Answers(type, k),
               k \in Asks => status'[k] \in {"replied", "timed_out"},
               type = "Answer" /\ k = Hello => pc'[Conn] \notin {"absent", "greeting"}
        PROVE  /\ \A a \in Asks : Answered(a) => Answered(a)'
               /\ \A a \in Asks : Answered(a)' => Answered(a) \/ status'[a] \in {"replied", "timed_out"}
               /\ pc'[Conn] \in {"absent", "greeting"} => \A i \in DOMAIN answers' :
                    answers'[i].type = "Answer" /\ answers'[i].call = Hello =>
                      i \in DOMAIN answers /\ answers'[i] = answers[i]
    BY <1>3, <1>1 DEF Answered
  <1>4. ASSUME NEW a \in Asks, answers' = Answers("Answer", a) PROVE Answered(a)'
    BY <1>4, <1>1 DEF Answered
  <1>5. answers # <<>> => answers' # <<>>
    <2>1. ASSUME NEW type, NEW k, answers' = Answers(type, k) PROVE answers' # <<>>
      BY <1>1, <2>1
    <2> QED
      BY <2>1 DEF AnswersMove
  <1> QED
    BY <1>2, <1>3, <1>4, <1>5 DEF AnswersMove

\* Such a step keeps everything the two ends know of each other.
LEMMA DaemonMovesKeepInvariant ==
  ASSUME SessionInvariant, ClientSide', DaemonMoves
  PROVE  SessionInvariant'
  <1>1. TypeOK /\ SessionTyped /\ SessionTyped'
    BY DEF SessionInvariant, ClientSide, DaemonMoves
  <1>2. /\ UNCHANGED <<phase, task, future, outcome, pending, asking, reader>>
        /\ UNCHANGED <<greeting, alive, cancelled>>
    BY DEF DaemonMoves, clientVars, callVars, tableVars, processVars
  <1>3. \A a \in Asks : StatusMoves(a)
    BY DEF DaemonMoves
  <1>4. SocketsMeet'
    BY <1>1, <1>2, <1>3, AnswersGrow DEF SessionInvariant, SocketsMeet, DaemonMoves, StatusMoves
  <1>5. LinesMeet'
    <2>1. CASE requests' = requests
      BY <1>2, <1>3, <2>1 DEF SessionInvariant, LinesMeet, InFlight, StatusMoves
    <2>2. CASE requests # <<>> /\ requests' = Tail(requests)
      <3>1. /\ \A x \in Request : InFlight(x)' => InFlight(x)
            /\ Len(requests) \in Nat /\ Len(requests) > 0
            /\ DOMAIN requests = 1..Len(requests)
            /\ DOMAIN requests' = 1..(Len(requests) - 1)
            /\ \A i \in 1..(Len(requests) - 1) : requests'[i] = requests[i + 1]
        BY <1>1, <2>2, TakeInFlight
      <3>2. ASSUME NEW a \in Asks
            PROVE  /\ InFlight(Begin(a))' => status'[a] = "sent"
                   /\ InFlight(AskCancel(a))' => a \in cancelled'
        <4>1. Begin(a) \in Request /\ AskCancel(a) \in Request
          BY RequestShapes DEF Calls, Tools
        <4> QED
          BY <1>2, <1>3, <3>1, <4>1 DEF SessionInvariant, LinesMeet, StatusMoves
      <3>3. ASSUME NEW i \in DOMAIN requests'
            PROVE  i + 1 \in DOMAIN requests /\ requests'[i] = requests[i + 1]
        BY <3>1
      <3>4. \A i \in DOMAIN requests' : requests'[i].type = "AskCancel" => requests'[i].call \in Asks
        BY <3>3 DEF SessionInvariant, LinesMeet
      <3>5. ASSUME phase' # "closed"
            PROVE  /\ \A i, j \in DOMAIN requests' : requests'[i] = requests'[j] => i = j
                   /\ \A k \in Calls : task'[k] = "idle" => ~InFlight(Begin(k))'
        <4>1. /\ \A i, j \in DOMAIN requests : requests[i] = requests[j] => i = j
              /\ \A k \in Calls : task[k] = "idle" => ~InFlight(Begin(k))
          BY <1>2, <3>5 DEF SessionInvariant, LinesMeet
        <4>2. ASSUME NEW i \in DOMAIN requests', NEW j \in DOMAIN requests', requests'[i] = requests'[j]
              PROVE  i = j
          <5>1. i + 1 = j + 1
            BY <3>3, <4>1, <4>2
          <5>2. i \in Nat /\ j \in Nat
            BY <3>1
          <5> QED
            BY <5>1, <5>2
        <4>3. ASSUME NEW k \in Calls, task'[k] = "idle" PROVE ~InFlight(Begin(k))'
          BY <1>2, <3>1, <4>1, <4>3, RequestShapes
        <4> QED
          BY <4>2, <4>3
      <3> QED
        BY <3>2, <3>4, <3>5 DEF LinesMeet
    <2> QED
      BY <2>1, <2>2 DEF DaemonMoves
  <1>6. CallsMeet'
    <2>1. socket' = "up" => socket = "up"
      BY DEF DaemonMoves, SessionInvariant, SocketsMeet
    <2> QED
      BY <1>1, <1>2, <1>3, <2>1 DEF SessionInvariant, CallsMeet, AskMeets, StatusMoves
  <1>7. NewsMeet'
    <2> SUFFICES ASSUME NEW a \in Asks PROVE NewsOf(a)'
      BY DEF NewsMeet
    <2>1. AnswersMove /\ StatusMoves(a)
      BY <1>3 DEF DaemonMoves
    <2>2. future[a] = "error" => pc[Conn] = "closed" \/ phase = "closed"
      BY DEF SessionInvariant, ClientSide, FailedByLoss, SocketsMeet, Tools
    <2>3. a \in cancelled => outcome[a] = "cancelled" \/ phase = "closed"
      BY DEF SessionInvariant, CallsMeet, AskMeets
    <2> QED
      BY <1>1, <1>2, <2>1, <2>2, <2>3, AnswersGrow
         DEF SessionInvariant, NewsMeet, NewsOf, StatusMoves
  <1>8. LossesMeet'
    <2>1. pc[Conn] \in {"dropping", "closed"} => (LossHasCause => LossHasCause')
      BY <1>1, <1>2, AnswersGrow DEF DaemonMoves, LossHasCause, LinesAreLost
    <2> QED
      BY <1>3, <2>1 DEF SessionInvariant, LossesMeet, DaemonMoves, StatusMoves
  <1> QED
    BY <1>1, <1>4, <1>5, <1>6, <1>7, <1>8 DEF SessionInvariant, DaemonMoves

\* The greeting is answered with HELLO_OK or HELLO_ERR: the daemon reads the handshake.
LEMMA GreetingReadMoves ==
  ASSUME SessionInvariant, GreetingRead
  PROVE  DaemonMoves /\ DaemonReads
  <1>1. TypeOK /\ SessionTyped /\ SocketsMeet /\ HandsMeet /\ TablesMeet
    BY DEF SessionInvariant, ClientSide
  <1>2. /\ requests # <<>> /\ requests' = Tail(requests) /\ held = 0 /\ held' = 0
        /\ UNCHANGED <<clientVars, socket, open, processVars>>
    BY DEF GreetingRead, TakeLine
  <1>3. PICK type \in {"Answer", "HelloErr"} :
          /\ answers' = Answers(type, Hello)
          /\ type = "Answer" => Server!HandleHello(Conn)
          /\ type = "HelloErr" => Server!HandleOldHello(Conn)
    BY DEF GreetingRead
  <1>4. Head(requests) = Begin(Hello)
    <2>1. Server!Receive(Conn, "Hello") \/ Server!Receive(Conn, "OldHello")
      BY <1>3 DEF Server!HandleHello, Server!HandleOldHello
    <2>2. greeting \in {"Hello", "OldHello"}
      BY <1>1 DEF SessionTyped
    <2>3. /\ Head(requests) \in Request
          /\ LineOf(greeting, Head(requests)).type \in {"Hello", "OldHello"}
      BY <1>1, <1>2, <2>1, LineTaken
    <2> QED
      BY <2>2, <2>3, RequestsOfLines
  <1>5. /\ pc[Conn] = "greeting" /\ pc' \in [{Conn} -> Server!HandlerState]
        /\ pc'[Conn] = IF type = "Answer" THEN "reading" ELSE "greeting"
        /\ UNCHANGED <<work, status, timer, peer, cancelled>>
    <2>1. peer[Conn] = "open"
      BY DEF GreetingRead
    <2>2. CASE type = "Answer"
      BY <1>1, <1>3, <2>1, <2>2
         DEF Server!HandleHello, Server!askVars, SessionTyped, Server!HandlerState, Server!Serving
    <2>3. CASE type = "HelloErr"
      BY <1>1, <1>3, <2>1, <2>3
         DEF Server!HandleOldHello, Server!askVars, SessionTyped, Server!HandlerState,
             Server!Serving
    <2> QED
      BY <2>2, <2>3
  <1>6. Hello \in Calls /\ Hello \notin Asks
    BY CallsAreDistinct DEF Calls, Tools
  <1>7. DaemonReads
    <2>1. Begin(Hello).type = "Begin" /\ Begin(Hello).call = Hello
      BY DEF Begin
    <2> QED
      BY <1>1, <1>2, <1>3, <1>4, <1>5, <1>6, <2>1 DEF DaemonReads, SocketsMeet, clientVars
  <1>8. SessionTyped' /\ HandsMeet' /\ TablesMeet' /\ AnswersMove
    BY <1>1, <1>2, <1>3, <1>5, <1>6
       DEF SessionTyped, HandsMeet, TablesMeet, AnswersMove, Server!Pending, processVars
  <1>9. pc'[Conn] # "dropping" /\ pc'[Conn] # "absent" /\ pc'[Conn] # "closed"
    BY <1>5
  <1> QED
    BY <1>1, <1>2, <1>5, <1>7, <1>8, <1>9 DEF DaemonMoves, SocketsMeet, StatusMoves

\* A notify takes its line, and keeps it until Discord answered.
LEMMA NotifyReadMoves ==
  ASSUME SessionInvariant, NotifyRead
  PROVE  DaemonMoves /\ UNCHANGED vars
  <1>1. TypeOK /\ SessionTyped /\ SocketsMeet /\ HandsMeet /\ TablesMeet
    BY DEF SessionInvariant, ClientSide
  <1>2. /\ requests # <<>> /\ requests' = requests /\ held = 0 /\ held' = 1
        /\ UNCHANGED <<clientVars, answers, processVars, socket, open>>
    BY DEF NotifyRead, HoldLine, Silent
  <1>3. /\ pc[Conn] = "reading" /\ pc' = [pc EXCEPT ![Conn] = "notifying"]
        /\ Server!Receive(Conn, "Notify")
        /\ UNCHANGED <<work, status, timer, peer, cancelled>>
    BY DEF NotifyRead, Server!HandleNotify, Server!askVars
  <1>4. pc'[Conn] = "notifying" /\ pc' \in [{Conn} -> Server!HandlerState]
    BY <1>1, <1>3 DEF SessionTyped, Server!HandlerState, Server!Serving
  <1>5. \E n \in Notifies : Head(requests) = Begin(n)
    <2>1. Head(requests) \in Request /\ LineOf(greeting, Head(requests)).type = "Notify"
      BY <1>1, <1>2, <1>3, LineTaken
    <2> QED
      BY <1>1, <2>1, RequestsOfLines DEF SessionTyped
  <1>6. SessionTyped' /\ HandsMeet' /\ TablesMeet'
    BY <1>1, <1>2, <1>3, <1>4, <1>5
       DEF SessionTyped, HandsMeet, TablesMeet, Server!Pending, processVars
  <1>7. UNCHANGED vars
    BY <1>2 DEF vars, clientVars, callVars, tableVars, daemonVars
  <1> QED
    BY <1>1, <1>2, <1>3, <1>4, <1>6, <1>7 DEF DaemonMoves, SocketsMeet, StatusMoves, AnswersMove

\* Discord answered: the notify's line is done, and its status goes back.
LEMMA NotifyAnsweredMoves ==
  ASSUME SessionInvariant, NotifyAnswered
  PROVE  DaemonMoves /\ DaemonReads
  <1>1. TypeOK /\ SessionTyped /\ SocketsMeet /\ HandsMeet /\ TablesMeet
    BY DEF SessionInvariant, ClientSide
  <1>2. /\ requests' = Tail(requests) /\ held = 1 /\ held' = 0
        /\ answers' = Answers("Answer", Head(requests).call)
        /\ UNCHANGED <<clientVars, socket, open, processVars>>
    BY DEF NotifyAnswered
  <1>3. /\ pc[Conn] = "notifying" /\ pc' = [pc EXCEPT ![Conn] = "reading"]
        /\ UNCHANGED <<work, status, timer, peer, cancelled>>
    BY DEF NotifyAnswered, Server!NotifyDone, Server!askVars, Server!agentVars
  <1>4. pc'[Conn] = "reading" /\ pc' \in [{Conn} -> Server!HandlerState]
    BY <1>1, <1>3 DEF SessionTyped, Server!HandlerState, Server!Serving
  <1>5. requests # <<>>
    BY <1>1, <1>2 DEF HandsMeet
  <1>6. PICK n \in Notifies : Head(requests) = Begin(n)
    BY <1>1, <1>3 DEF HandsMeet
  <1>7. /\ Head(requests).type = "Begin" /\ Head(requests).call = n
        /\ n \in Calls /\ n \notin Asks /\ n # Hello
    BY <1>6, CallsAreDistinct DEF Begin, Calls, Tools
  <1>8. DaemonReads
    BY <1>1, <1>2, <1>3, <1>5, <1>7 DEF DaemonReads, SocketsMeet, clientVars
  <1>9. SessionTyped' /\ HandsMeet' /\ TablesMeet' /\ AnswersMove
    BY <1>1, <1>2, <1>3, <1>4, <1>7
       DEF SessionTyped, HandsMeet, TablesMeet, AnswersMove, Server!Pending, processVars
  <1> QED
    BY <1>1, <1>2, <1>3, <1>4, <1>5, <1>8, <1>9 DEF DaemonMoves, SocketsMeet, StatusMoves

\* An ask enters the table and the client's model of it.
LEMMA AskReadMoves ==
  ASSUME SessionInvariant, AskRead
  PROVE  DaemonMoves /\ DaemonReads
  <1>1. TypeOK /\ SessionTyped /\ SocketsMeet /\ HandsMeet /\ TablesMeet
    BY DEF SessionInvariant, ClientSide
  <1>2. /\ requests # <<>> /\ requests' = Tail(requests) /\ held = 0 /\ held' = 0
        /\ open' = open \cup {Head(requests).call}
        /\ UNCHANGED <<clientVars, answers, socket, processVars>>
    BY DEF AskRead, TakeLine, Silent
  <1>3. /\ pc[Conn] = "reading" /\ pc' = [pc EXCEPT ![Conn] = "asking"]
        /\ Server!Receive(Conn, "AskBegin")
        /\ status' = [status EXCEPT ![Head(Lines).ask] = "open"]
        /\ work' = [work EXCEPT ![Conn] = {Head(Lines).ask}]
        /\ UNCHANGED <<timer, peer, cancelled>>
    BY DEF AskRead, Server!HandleAskBegin, Server!Settle
  <1>4. PICK a \in Asks : Head(requests) = Begin(a) /\ Head(Lines).ask = a
    <2>1. /\ Head(requests) \in Request /\ LineOf(greeting, Head(requests)).type = "AskBegin"
          /\ Head(Lines) = LineOf(greeting, Head(requests))
      BY <1>1, <1>2, <1>3, LineTaken
    <2> QED
      BY <1>1, <2>1, RequestsOfLines DEF SessionTyped
  <1>5. Begin(a).type = "Begin" /\ Begin(a).call = a
    BY DEF Begin
  <1>6. /\ pc'[Conn] = "asking" /\ pc' \in [{Conn} -> Server!HandlerState]
        /\ work' \in [{Conn} -> SUBSET Asks]
        /\ status' \in [Asks -> Server!AskStatus]
        /\ status'[a] = "open" /\ \A b \in Asks \ {a} : status'[b] = status[b]
    BY <1>1, <1>3, <1>4 DEF SessionTyped, Server!HandlerState, Server!Serving, Server!AskStatus
  <1>7. /\ InFlight(Begin(a)) /\ ~InFlight(Begin(a))'
    <2>1. /\ Len(requests) \in Nat /\ DOMAIN requests = 1..Len(requests)
          /\ DOMAIN requests' = 1..(Len(requests) - 1)
          /\ \A i \in 1..(Len(requests) - 1) : requests'[i] = requests[i + 1]
          /\ requests[1] = Begin(a) /\ InFlight(Begin(a)) /\ Len(requests) > 0
      BY <1>1, <1>2, <1>4, TakeInFlight
    <2>2. \A i, j \in DOMAIN requests : requests[i] = Begin(a) /\ requests[j] = Begin(a) => i = j
      BY <1>4 DEF SessionInvariant, ClientSide, ClientInvariant, LinesAreInOrder
    <2>3. ASSUME NEW i \in DOMAIN requests', requests'[i] = Begin(a) PROVE FALSE
      <3>1. i + 1 \in DOMAIN requests /\ 1 \in DOMAIN requests /\ i \in Nat /\ i >= 1
        BY <2>1
      <3>2. requests[i + 1] = Begin(a)
        BY <2>1, <2>3
      <3>3. i + 1 = 1
        BY <2>1, <2>2, <3>1, <3>2
      <3> QED
        BY <3>1, <3>3
    <2> QED
      BY <2>1, <2>3 DEF InFlight
  <1>8. status[a] = "sent"
    BY <1>4, <1>7 DEF SessionInvariant, LinesMeet
  <1>9. DaemonReads
    BY <1>1, <1>2, <1>3, <1>4, <1>5 DEF DaemonReads, SocketsMeet, clientVars
  <1>10. SessionTyped' /\ HandsMeet'
    BY <1>1, <1>2, <1>3, <1>6 DEF SessionTyped, HandsMeet, processVars
  <1>11. TablesMeet'
    BY <1>1, <1>2, <1>4, <1>5, <1>6 DEF TablesMeet, Server!Pending
  <1>12. \A b \in Asks : StatusMoves(b)
    BY <1>3, <1>6, <1>7, <1>8 DEF StatusMoves
  <1> QED
    BY <1>1, <1>2, <1>3, <1>6, <1>9, <1>10, <1>11, <1>12 DEF DaemonMoves, SocketsMeet, AnswersMove

\* A DM is out: the handler goes back to its lines.
LEMMA DmSentMoves ==
  ASSUME SessionInvariant, DmSent
  PROVE  DaemonMoves /\ UNCHANGED vars
  <1>1. TypeOK /\ SessionTyped /\ SocketsMeet /\ HandsMeet /\ TablesMeet
    BY DEF SessionInvariant, ClientSide
  <1>2. /\ UNCHANGED <<requests, held>>
        /\ UNCHANGED <<clientVars, answers, processVars, socket, open>>
    BY DEF DmSent, Quiet, Silent
  <1>3. /\ pc[Conn] \in {"asking", "withdrawing"} /\ pc' = [pc EXCEPT ![Conn] = "reading"]
        /\ UNCHANGED <<status, peer, cancelled>>
        /\ work' \in [{Conn} -> SUBSET Asks] /\ timer' \in [Asks -> Server!TimerState]
    <2>1. CASE Server!QuestionSent(Conn)
      BY <1>1, <2>1 DEF Server!QuestionSent, Server!agentVars, SessionTyped, Server!TimerState
    <2>2. CASE Server!WithdrawalSent(Conn)
      BY <1>1, <2>2 DEF Server!WithdrawalSent, Server!agentVars, Server!askVars, SessionTyped
    <2> QED
      BY <2>1, <2>2 DEF DmSent
  <1>4. pc'[Conn] = "reading" /\ pc' \in [{Conn} -> Server!HandlerState]
    BY <1>1, <1>3 DEF SessionTyped, Server!HandlerState, Server!Serving
  <1>5. SessionTyped' /\ HandsMeet' /\ TablesMeet'
    BY <1>1, <1>2, <1>3, <1>4
       DEF SessionTyped, HandsMeet, TablesMeet, Server!Pending, processVars
  <1>6. UNCHANGED vars
    BY <1>2 DEF vars, clientVars, callVars, tableVars, daemonVars
  <1> QED
    BY <1>1, <1>2, <1>3, <1>4, <1>5, <1>6 DEF DaemonMoves, SocketsMeet, StatusMoves, AnswersMove

\* A withdrawal ends its ask, if that still pends.
LEMMA CancelReadMoves ==
  ASSUME SessionInvariant, CancelRead
  PROVE  DaemonMoves /\ DaemonReads
  <1>1. TypeOK /\ SessionTyped /\ SocketsMeet /\ HandsMeet /\ TablesMeet
    BY DEF SessionInvariant, ClientSide
  <1> DEFINE a == Head(Lines).ask
  <1>2. /\ requests # <<>> /\ requests' = Tail(requests) /\ held = 0 /\ held' = 0
        /\ open' = open \ {Head(requests).call}
        /\ UNCHANGED <<clientVars, answers, socket, processVars>>
    BY DEF CancelRead, TakeLine, Silent
  <1>3. /\ pc[Conn] = "reading"
        /\ Server!Receive(Conn, "AskCancel")
        /\ \/ /\ a \in Server!Pending /\ pc' = [pc EXCEPT ![Conn] = "withdrawing"]
              /\ Server!Withdraw(a)
           \/ a \notin Server!Pending /\ UNCHANGED <<pc, status, timer>>
        /\ UNCHANGED <<work, peer, cancelled>>
    BY DEF CancelRead, Server!HandleAskCancel
  <1>4. Head(requests) = AskCancel(a) /\ Head(requests).call = a
        /\ Head(requests).type = "AskCancel" /\ requests[1] = Head(requests)
    <2>1. /\ Head(requests) \in Request /\ LineOf(greeting, Head(requests)).type = "AskCancel"
          /\ Head(Lines) = LineOf(greeting, Head(requests)) /\ requests[1] = Head(requests)
      BY <1>1, <1>2, <1>3, LineTaken
    <2> QED
      BY <1>1, <2>1, RequestsOfLines DEF SessionTyped, AskCancel
  <1> HIDE DEF a
  <1>5. a \in Asks /\ a \in cancelled
    <2>1. InFlight(AskCancel(a)) /\ Len(requests) \in Nat /\ Len(requests) > 0
          /\ DOMAIN requests = 1..Len(requests)
      BY <1>1, <1>2, <1>4, TakeInFlight
    <2>2. a \in Asks
      BY <1>4, <2>1 DEF SessionInvariant, LinesMeet
    <2> QED
      BY <2>1, <2>2 DEF SessionInvariant, LinesMeet
  <1>6. /\ pc'[Conn] \in {"reading", "withdrawing"} /\ pc' \in [{Conn} -> Server!HandlerState]
        /\ status' \in [Asks -> Server!AskStatus] /\ timer' \in [Asks -> Server!TimerState]
        /\ \A b \in Asks \ {a} : status'[b] = status[b]
        /\ \/ status'[a] = status[a] /\ a \notin Server!Pending
           \/ status[a] = "open" /\ status'[a] = "withdrawn"
    <2>1. CASE a \in Server!Pending
      <3>1. /\ pc' = [pc EXCEPT ![Conn] = "withdrawing"]
            /\ status' = [status EXCEPT ![a] = "withdrawn"]
            /\ timer' = [timer EXCEPT ![a] = IF @ = "none" THEN "none" ELSE "done"]
        BY <1>3, <2>1 DEF Server!Withdraw, Server!Settle, Server!CancelAskTasks, Server!Cancelled
      <3> QED
        BY <1>1, <1>5, <2>1, <3>1
           DEF SessionTyped, Server!Pending, Server!HandlerState, Server!Serving,
               Server!AskStatus, Server!Settled, Server!TimerState
    <2>2. CASE a \notin Server!Pending
      BY <1>1, <1>3, <2>2 DEF SessionTyped
    <2> QED
      BY <2>1, <2>2
  <1>7. DaemonReads
    BY <1>1, <1>2, <1>3, <1>4 DEF DaemonReads, SocketsMeet, clientVars
  <1>8. SessionTyped' /\ HandsMeet'
    BY <1>1, <1>2, <1>3, <1>6 DEF SessionTyped, HandsMeet, processVars
  <1>9. TablesMeet'
    BY <1>1, <1>2, <1>4, <1>6 DEF TablesMeet, Server!Pending
  <1>10. \A b \in Asks : StatusMoves(b)
    BY <1>3, <1>5, <1>6 DEF StatusMoves
  <1> QED
    BY <1>1, <1>2, <1>3, <1>6, <1>7, <1>8, <1>9, <1>10 DEF DaemonMoves, SocketsMeet, AnswersMove

\* A check_messages is answered, with a line that may be too long.
LEMMA CheckReadMoves ==
  ASSUME SessionInvariant, CheckRead
  PROVE  DaemonMoves /\ DaemonReads
  <1>1. TypeOK /\ SessionTyped /\ SocketsMeet /\ HandsMeet /\ TablesMeet
    BY DEF SessionInvariant, ClientSide
  <1>2. /\ requests # <<>> /\ requests' = Tail(requests) /\ held = 0 /\ held' = 0
        /\ UNCHANGED <<clientVars, socket, open, processVars>>
    BY DEF CheckRead, TakeLine
  <1>3. PICK type \in {"Answer", "TooLong"} : answers' = Answers(type, Head(requests).call)
    BY DEF CheckRead
  <1>4. /\ pc[Conn] = "reading" /\ Server!Receive(Conn, "CheckMessages")
        /\ UNCHANGED <<pc, work, status, timer, peer, cancelled>>
    BY DEF CheckRead, Server!HandleCheckMessages
  <1>5. PICK k \in Checks : Head(requests) = Begin(k)
    <2>1. Head(requests) \in Request /\ LineOf(greeting, Head(requests)).type = "CheckMessages"
      BY <1>1, <1>2, <1>4, LineTaken
    <2> QED
      BY <1>1, <2>1, RequestsOfLines DEF SessionTyped
  <1>6. /\ Head(requests).type = "Begin" /\ Head(requests).call = k
        /\ k \in Calls /\ k \notin Asks /\ k # Hello
    BY <1>5, CallsAreDistinct DEF Begin, Calls, Tools
  <1>7. DaemonReads
    BY <1>1, <1>2, <1>3, <1>4, <1>6 DEF DaemonReads, SocketsMeet, clientVars
  <1>8. SessionTyped' /\ HandsMeet' /\ TablesMeet' /\ AnswersMove
    BY <1>1, <1>2, <1>3, <1>4, <1>6
       DEF SessionTyped, HandsMeet, TablesMeet, AnswersMove, Server!Pending, processVars
  <1> QED
    BY <1>1, <1>2, <1>4, <1>7, <1>8 DEF DaemonMoves, SocketsMeet, StatusMoves

\* The socket of a handler that stops closes, and is reset only if lines are left.
LEMMA HandlerStops ==
  ASSUME SessionInvariant, pc[Conn] \notin {"absent", "closed"},
         UNCHANGED <<clientVars, answers, processVars, peer, cancelled>>, HangUp,
         requests' = requests \/ (requests # <<>> /\ requests' = Tail(requests)),
         held' \in {held, 1}, held' = 1 => requests' # <<>>,
         pc[Conn] = "dropping" => held' = held,
         pc' \in [{Conn} -> {"dropping", "closed"}],
         work' \in [{Conn} -> SUBSET Asks],
         status' \in [Asks -> Server!AskStatus],
         timer' \in [Asks -> Server!TimerState],
         \A a \in Asks : \/ status'[a] = status[a]
                         \/ status[a] = "open" /\ status'[a] = "lost",
         pc'[Conn] = "closed" => UNCHANGED status /\ Server!Pending = {},
         pc'[Conn] = "dropping" => Server!Pending' \subseteq work'[Conn] /\ LossHasCause'
  PROVE  /\ DaemonMoves
         /\ requests' = requests => DaemonDisconnects \/ UNCHANGED vars
  <1>1. TypeOK /\ SessionTyped /\ SocketsMeet /\ HandsMeet /\ TablesMeet
    BY DEF SessionInvariant, ClientSide
  <1>2. pc'[Conn] \in {"dropping", "closed"} /\ held' \in {0, 1} /\ socket = "up"
    BY <1>1 DEF SessionTyped, SocketsMeet
  <1>3. pc' \in [{Conn} -> Server!HandlerState]
    BY DEF Server!HandlerState
  <1>4. SessionTyped' /\ HandsMeet'
    BY <1>1, <1>2, <1>3 DEF SessionTyped, HandsMeet, processVars
  <1>5. socket' = "up" <=> pc'[Conn] # "closed"
    BY <1>1, <1>2 DEF HangUp
  <1>6. TablesMeet'
    <2>1. Server!Pending' \subseteq Server!Pending
      BY DEF Server!Pending
    <2>2. pc'[Conn] = "closed" => Server!Pending' = {}
      BY DEF Server!Pending
    <2>3. pc'[Conn] # "closed" => open' = open
      BY DEF HangUp
    <2> QED
      BY <1>1, <1>2, <2>1, <2>2, <2>3 DEF TablesMeet
  <1>7. \A a \in Asks : StatusMoves(a)
    BY <1>2 DEF StatusMoves
  <1>8. DaemonMoves
    BY <1>1, <1>2, <1>4, <1>5, <1>6, <1>7 DEF DaemonMoves, AnswersMove
  <1>9. ASSUME requests' = requests PROVE DaemonDisconnects \/ UNCHANGED vars
    <2>1. CASE pc'[Conn] # "closed"
      <3>1. UNCHANGED <<socket, open>>
        BY <2>1 DEF HangUp
      <3> QED
        BY <1>9, <3>1 DEF vars, clientVars, callVars, tableVars, daemonVars
    <2>2. CASE pc'[Conn] = "closed"
      <3>1. Unread' # <<>> => requests # <<>>
        <4> SUFFICES ASSUME requests = <<>> PROVE Unread' = <<>>
          OBVIOUS
        <4>1. held' = 0
          BY <1>2, <1>9
        <4>2. Len(<<>>) = 0 /\ SubSeq(<<>>, 0 + 1, 0) = <<>>
          BY SubSeqEmpty, EmptySeq
        <4> QED
          BY <1>9, <4>1, <4>2 DEF Unread
      <3>2. open' = {} /\ (socket' = "ended" \/ (requests # <<>> /\ socket' = "reset"))
        BY <2>2, <3>1 DEF HangUp
      <3> QED
        BY <1>2, <1>9, <3>2 DEF DaemonDisconnects, clientVars
    <2> QED
      BY <2>1, <2>2
  <1> QED
    BY <1>8, <1>9

\* A greeting that cannot be answered, or never comes, ends the connection.
LEMMA GreetingEndsMoves ==
  ASSUME SessionInvariant,
         GreetingInVain \/ (Quiet /\ Server!HandleEofBeforeHello(Conn) /\ HangUp)
  PROVE  DaemonMoves /\ (DaemonDisconnects \/ UNCHANGED vars)
  <1>1. TypeOK /\ SessionTyped /\ SocketsMeet /\ HandsMeet
    BY DEF SessionInvariant, ClientSide
  <1>2. /\ requests' = requests /\ held' \in {held, 1} /\ (held' = 1 => requests' # <<>>)
        /\ UNCHANGED <<clientVars, answers, processVars>> /\ HangUp
    BY <1>1 DEF GreetingInVain, HoldLine, Quiet, Silent, HandsMeet
  <1>3. /\ pc[Conn] = "greeting" /\ pc' = [pc EXCEPT ![Conn] = "closed"]
        /\ UNCHANGED <<work, status, timer, peer, cancelled>>
    <2>1. CASE GreetingInVain
      <3>1. CASE Server!HandleHello(Conn)
        BY <2>1, <3>1 DEF GreetingInVain, Server!HandleHello, Server!askVars
      <3>2. CASE Server!HandleOldHello(Conn)
        BY <2>1, <3>2 DEF GreetingInVain, Server!HandleOldHello, Server!askVars
      <3> QED
        BY <2>1, <3>1, <3>2 DEF GreetingInVain
    <2>2. CASE Server!HandleEofBeforeHello(Conn)
      BY <2>2 DEF Server!HandleEofBeforeHello, Server!askVars, Server!agentVars
    <2> QED
      BY <2>1, <2>2
  <1>4. Server!Pending = {}
    BY <1>1, <1>3 DEF SocketsMeet, Server!Pending
  <1>5. pc'[Conn] = "closed" /\ pc' \in [{Conn} -> {"dropping", "closed"}]
    BY <1>1, <1>3 DEF SessionTyped
  <1> QED
    BY <1>1, <1>2, <1>3, <1>4, <1>5, HandlerStops DEF SessionTyped

\* A handler that served drops what is left of its asks: the end of a line it could not
\* answer, of the last line, or of the socket.
LEMMA DroppingMoves ==
  ASSUME SessionInvariant,
         pc[Conn] \notin {"absent", "closed"},
         UNCHANGED <<clientVars, answers, processVars, peer, cancelled>>, HangUp,
         requests' = requests \/ (requests # <<>> /\ requests' = Tail(requests)),
         held' \in {held, 1}, held' = 1 => requests' # <<>>,
         pc[Conn] = "dropping" => held' = held,
         NEW orphans \in SUBSET Asks, Server!Pending \subseteq orphans,
         Server!DropNext(Conn, orphans),
         LossHasCause' \/ orphans = {}
  PROVE  /\ DaemonMoves
         /\ requests' = requests => DaemonDisconnects \/ UNCHANGED vars
         /\ orphans = {} => pc'[Conn] = "closed"
  <1>1. SessionTyped
    BY DEF SessionInvariant
  <1>2. orphans = {} => pc'[Conn] = "closed"
    BY <1>1 DEF Server!DropNext, SessionTyped
  <1>3. /\ pc' \in [{Conn} -> {"dropping", "closed"}]
        /\ work' \in [{Conn} -> SUBSET Asks]
        /\ status' \in [Asks -> Server!AskStatus]
        /\ timer' \in [Asks -> Server!TimerState]
        /\ \A a \in Asks : \/ status'[a] = status[a]
                           \/ status[a] = "open" /\ status'[a] = "lost"
        /\ pc'[Conn] = "closed" => UNCHANGED status /\ Server!Pending = {}
        /\ pc'[Conn] = "dropping" => Server!Pending' \subseteq work'[Conn]
    BY <1>1, Drops
  <1>4. pc'[Conn] = "dropping" => LossHasCause'
    BY <1>2
  <1> QED
    BY <1>2, <1>3, <1>4, HandlerStops

\* Discord's failure, or a socket that took no answer, is what an agent can lose contact by.
LEMMA NotifyFailsMoves ==
  ASSUME SessionInvariant, NotifyFails
  PROVE  DaemonMoves /\ (DaemonDisconnects \/ UNCHANGED vars)
  <1>1. TypeOK /\ SessionTyped /\ HandsMeet
    BY DEF SessionInvariant, ClientSide
  <1>2. /\ UNCHANGED <<clientVars, answers, processVars, requests, held>> /\ HangUp
        /\ Server!NotifyRaises(Conn)
    BY DEF NotifyFails, Quiet, Silent
  <1>3. pc[Conn] = "notifying" /\ Server!Teardown(Conn) /\ UNCHANGED <<peer, cancelled>>
    BY <1>2 DEF Server!NotifyRaises, Server!agentVars
  <1>4. held' = 1 /\ requests # <<>>
    BY <1>1, <1>2, <1>3 DEF HandsMeet
  <1>5. Server!DropNext(Conn, Server!Pending) /\ Server!Pending \in SUBSET Asks
    BY <1>3, TeardownDrops DEF Server!Pending
  <1>6. LossHasCause'
    BY <1>4 DEF LossHasCause
  <1> QED
    BY <1>1, <1>2, <1>3, <1>4, <1>5, <1>6, DroppingMoves

\* A summary for an agent that is gone.
LEMMA CheckInVainMoves ==
  ASSUME SessionInvariant, CheckInVain
  PROVE  DaemonMoves /\ (DaemonDisconnects \/ UNCHANGED vars)
  <1>1. /\ requests # <<>> /\ UNCHANGED requests /\ held' = 1 /\ HangUp
        /\ UNCHANGED <<clientVars, answers, processVars>>
        /\ peer[Conn] # "open" /\ Server!HandleCheckMessages(Conn)
    BY DEF CheckInVain, HoldLine, Silent
  <1>2. pc[Conn] = "reading" /\ Server!Teardown(Conn) /\ UNCHANGED <<peer, cancelled>>
    BY <1>1 DEF Server!HandleCheckMessages
  <1>3. Server!DropNext(Conn, Server!Pending) /\ Server!Pending \in SUBSET Asks
    BY <1>2, TeardownDrops DEF Server!Pending
  <1>4. LossHasCause'
    BY <1>1 DEF LossHasCause
  <1> QED
    BY <1>1, <1>2, <1>3, <1>4, DroppingMoves

\* Bye comes last, and behind the withdrawals: nothing is dropped, nothing is unread.
LEMMA ByeReadMoves ==
  ASSUME SessionInvariant, ByeRead
  PROVE  DaemonMoves /\ DaemonReads
  <1>1. TypeOK /\ ClientInvariant /\ SessionTyped /\ TablesMeet /\ SocketsMeet
    BY DEF SessionInvariant, ClientSide
  <1>2. /\ requests # <<>> /\ requests' = Tail(requests) /\ held = 0 /\ held' = 0 /\ HangUp
        /\ UNCHANGED <<clientVars, answers, processVars>>
        /\ Server!HandleBye(Conn)
    BY DEF ByeRead, TakeLine, Silent
  <1>3. /\ pc[Conn] = "reading" /\ Server!Receive(Conn, "Bye")
        /\ Server!Teardown(Conn) /\ UNCHANGED <<peer, cancelled>>
    BY <1>2 DEF Server!HandleBye
  <1>4. Head(requests) = Bye /\ requests[1] = Bye
    <2>1. /\ Head(requests) \in Request /\ requests[1] = Head(requests)
          /\ LineOf(greeting, Head(requests)).type = "Bye"
      BY <1>1, <1>2, <1>3, LineTaken
    <2> QED
      BY <1>1, <2>1, RequestsOfLines DEF SessionTyped
  <1>5. Server!Pending = {}
    BY <1>1, <1>2, <1>4, LastLineIsBye DEF ByeLeavesNoAsk, TablesMeet
  <1>6. Server!DropNext(Conn, {})
    BY <1>3, <1>5, TeardownDrops
  <1>7. DaemonMoves /\ pc'[Conn] = "closed"
    BY <1>2, <1>3, <1>5, <1>6, DroppingMoves
  <1>8. Unread' = <<>>
    <2>1. Len(requests) \in Nat /\ Len(requests) > 0 /\ DOMAIN requests = 1..Len(requests)
          /\ DOMAIN requests' = 1..(Len(requests) - 1) /\ requests' \in Seq(Request)
      BY <1>1, <1>2, TakeInFlight, HeadTailProperties DEF TypeOK
    <2>2. \A j \in DOMAIN requests : j <= 1
      BY <1>1, <1>4, <2>1 DEF ClientInvariant, LinesAreInOrder
    <2>3. Len(requests) = 1
      BY <2>1, <2>2
    <2>4. requests' = <<>>
      BY <2>1, <2>3, EmptySeq, LenProperties
    <2>5. Len(<<>>) = 0 /\ SubSeq(<<>>, 0 + 1, 0) = <<>>
      BY SubSeqEmpty, EmptySeq
    <2> QED
      BY <1>2, <2>4, <2>5 DEF Unread
  <1>9. socket' = "ended" /\ open' = {}
    BY <1>2, <1>7, <1>8 DEF HangUp
  <1>10. Bye.type = "Bye"
    BY DEF Bye
  <1> QED
    BY <1>1, <1>2, <1>3, <1>4, <1>7, <1>9, <1>10 DEF DaemonReads, SocketsMeet, clientVars

\* The end of the socket, or of the orphans.  After a graceful close the withdrawals have
\* emptied the table before the handler reads the end, unless answers that the client left
\* unread reset the socket before.
LEMMA HandlerEndsMoves ==
  ASSUME SessionInvariant, HandlerEnds
  PROVE  DaemonMoves /\ (DaemonDisconnects \/ UNCHANGED vars)
  <1>1. TypeOK /\ SessionTyped /\ HandsMeet /\ TablesMeet /\ SocketsMeet
    BY DEF SessionInvariant, ClientSide
  <1>2. /\ Quiet /\ HangUp
        /\ UNCHANGED <<clientVars, answers, processVars, requests, held>>
    BY DEF HandlerEnds, Quiet, Silent
  <1>3. held' \in {held, 1} /\ (held' = 1 => requests' # <<>>)
    BY <1>1, <1>2 DEF HandsMeet
  <1>4. CASE Server!HandleEofBeforeHello(Conn)
    BY <1>2, <1>4, GreetingEndsMoves
  <1>5. CASE Server!HandleEof(Conn) /\ (Server!AgentGone(Conn) \/ LinesAreLost)
    <2>1. /\ pc[Conn] = "reading" /\ (Server!AgentGone(Conn) \/ LinesAreLost)
          /\ Server!Teardown(Conn) /\ UNCHANGED <<peer, cancelled>>
      BY <1>5 DEF Server!HandleEof, Server!agentVars
    <2>2. Server!DropNext(Conn, Server!Pending) /\ Server!Pending \in SUBSET Asks
      BY <2>1, TeardownDrops DEF Server!Pending
    <2>3. LossHasCause' \/ Server!Pending = {}
      <3>1. CASE peer[Conn] = "reset" \/ ~alive \/ LinesAreLost
        BY <1>2, <2>1, <3>1 DEF LossHasCause, LinesAreLost, processVars
      <3>2. CASE peer[Conn] # "reset" /\ alive /\ ~LinesAreLost
        <4>1. Lines = <<>> /\ peer[Conn] = "closed"
          BY <2>1, <3>2 DEF Server!AgentGone
        <4>2. phase = "closed"
          BY <1>1, <3>2, <4>1 DEF SocketsMeet
        <4>3. held = 0
          BY <1>1, <2>1 DEF HandsMeet, SessionTyped
        <4>4. requests = <<>>
          BY <1>1, <4>1, <4>3, NothingToRead
        <4>5. \A a \in open : InFlight(AskCancel(a))
          BY <4>2 DEF SessionInvariant, ClientSide, ClientInvariant, OpenAskHasCaller, HasCaller
        <4>6. open = {}
          BY <4>4, <4>5, EmptySeq DEF InFlight
        <4> QED
          BY <1>1, <4>6 DEF TablesMeet
      <3> QED
        BY <3>1, <3>2
    <2> QED
      BY <1>2, <1>3, <2>1, <2>2, <2>3, DroppingMoves
  <1>6. CASE Server!LostContactSent(Conn)
    <2>1. /\ pc[Conn] = "dropping" /\ Server!DropNext(Conn, work[Conn])
          /\ UNCHANGED <<peer, cancelled>>
      BY <1>6 DEF Server!LostContactSent, Server!agentVars
    <2>2. work[Conn] \in SUBSET Asks /\ Server!Pending \subseteq work[Conn]
      BY <1>1, <2>1 DEF SessionTyped, TablesMeet
    <2>3. LossHasCause'
      BY <1>2, <2>1 DEF SessionInvariant, LossesMeet, LossHasCause, LinesAreLost, processVars
    <2> QED
      BY <1>2, <1>3, <2>1, <2>2, <2>3, DroppingMoves
  <1> QED
    BY <1>4, <1>5, <1>6 DEF HandlerEnds

\* A reply or a timeout settles an ask of the table, and answers it.
LEMMA SettlingMoves ==
  ASSUME SessionInvariant, NEW a \in Server!Pending, NEW how \in {"replied", "timed_out"},
         status' = [status EXCEPT ![a] = how],
         timer' \in [Asks -> Server!TimerState],
         peer' = Server!AfterWriteTo(Conn), AnswerWritten(a),
         UNCHANGED <<pc, work, requests, held, clientVars, socket, processVars, cancelled>>
  PROVE  DaemonMoves /\ AskSettled(a)
  <1>1. TypeOK /\ SessionTyped /\ SocketsMeet /\ HandsMeet /\ TablesMeet /\ LossesMeet
    BY DEF SessionInvariant, ClientSide
  <1>2. a \in Asks /\ a \in open /\ status[a] = "open"
    BY <1>1 DEF TablesMeet, Server!Pending
  <1>3. socket = "up" /\ pc[Conn] # "closed"
    BY <1>1, <1>2 DEF SessionInvariant, ClientSide, ClientInvariant, AskIsInOnePlace, SocketsMeet
  <1>4. /\ status' \in [Asks -> Server!AskStatus] /\ status'[a] = how
        /\ \A b \in Asks \ {a} : status'[b] = status[b]
    BY <1>1, <1>2 DEF SessionTyped, Server!AskStatus, Server!Settled
  <1>5. /\ peer' \in [{Conn} -> {"open", "closed", "reset"}]
        /\ peer'[Conn] = IF peer[Conn] = "closed" THEN "reset" ELSE peer[Conn]
    BY <1>1 DEF Server!AfterWriteTo, SessionTyped
  <1>6. open' = open \ {a} /\ answers' = Answers("Answer", a)
    BY DEF AnswerWritten
  <1>7. SessionTyped' /\ HandsMeet'
    BY <1>1, <1>4, <1>5 DEF SessionTyped, HandsMeet, processVars
  <1>8. TablesMeet'
    BY <1>1, <1>4, <1>6 DEF TablesMeet, Server!Pending
  <1>9. \A b \in Asks : StatusMoves(b)
    BY <1>2, <1>3, <1>4, <1>6 DEF StatusMoves
  <1>10. AnswersMove
    BY <1>2, <1>4, <1>6, CallsAreDistinct DEF AnswersMove, Calls, Tools
  <1>11. pc'[Conn] = "dropping" => LossHasCause'
    BY <1>1, <1>5 DEF LossesMeet, LossHasCause, LinesAreLost, processVars
  <1>12. AskSettled(a)
    BY <1>2, <1>3, <1>6 DEF AskSettled, clientVars
  <1> QED
    BY <1>1, <1>5, <1>7, <1>8, <1>9, <1>10, <1>11, <1>12 DEF DaemonMoves, SocketsMeet

\* What happens to the tasks and the queues of the daemon is none of the client's business.
LEMMA ElsewhereMoves ==
  ASSUME SessionInvariant, timer' \in [Asks -> Server!TimerState],
         UNCHANGED <<pc, work, status, peer, cancelled, requests, held, answers, open, socket>>,
         UNCHANGED <<clientVars, processVars>>
  PROVE  DaemonMoves /\ UNCHANGED vars
  <1>1. TypeOK /\ SessionTyped /\ SocketsMeet /\ HandsMeet /\ TablesMeet /\ LossesMeet
    BY DEF SessionInvariant, ClientSide
  <1>2. SessionTyped' /\ HandsMeet' /\ TablesMeet'
    BY <1>1 DEF SessionTyped, HandsMeet, TablesMeet, Server!Pending, processVars
  <1>3. pc'[Conn] = "dropping" => LossHasCause'
    BY <1>1 DEF LossesMeet, LossHasCause, LinesAreLost, processVars
  <1>4. UNCHANGED vars
    BY DEF vars, clientVars, callVars, tableVars, daemonVars
  <1> QED
    BY <1>1, <1>2, <1>3, <1>4 DEF DaemonMoves, SocketsMeet, StatusMoves, AnswersMove

\* The deadline of an ask that still pends is its answer.
LEMMA DeadlineMoves ==
  ASSUME SessionInvariant, NEW a \in Asks, Deadline(a)
  PROVE  DaemonMoves /\ (AskSettled(a) \/ UNCHANGED vars)
  <1>1. SessionTyped
    BY DEF SessionInvariant
  <1>2. /\ UNCHANGED <<requests, held, clientVars, socket, processVars>>
        /\ Server!TimeoutFires(a)
    BY DEF Deadline
  <1>3. UNCHANGED <<pc, work, cancelled>>
    BY <1>2 DEF Server!TimeoutFires, Server!connVars
  <1>4. CASE a \in Server!Pending /\ Server!Expire(a)
    <2>1. /\ status' = [status EXCEPT ![a] = "timed_out"]
          /\ timer' = [timer EXCEPT ![a] = "closing"]
          /\ peer' = Server!AfterWriteTo(Conn)
      BY <1>4 DEF Server!Expire, Server!Settle, Server!AfterWriteTo
    <2>2. timer'[a] = "closing" /\ timer' \in [Asks -> Server!TimerState]
      BY <1>1, <2>1 DEF SessionTyped, Server!TimerState
    <2>3. AnswerWritten(a)
      BY <2>2 DEF Deadline
    <2> QED
      BY <1>2, <1>3, <1>4, <2>1, <2>2, <2>3, SettlingMoves
  <1>5. CASE a \notin Server!Pending /\ timer' = [timer EXCEPT ![a] = "done"]
             /\ UNCHANGED <<status, peer>>
    <2>1. timer'[a] # "closing" /\ timer' \in [Asks -> Server!TimerState]
      BY <1>1, <1>5 DEF SessionTyped, Server!TimerState
    <2>2. UNCHANGED <<answers, open>>
      BY <2>1 DEF Deadline
    <2> QED
      BY <1>2, <1>3, <1>5, <2>1, <2>2, ElsewhereMoves
  <1> QED
    BY <1>2, <1>4, <1>5 DEF Server!TimeoutFires

\* A reply of the user is the answer of the ask whose tag it names.
LEMMA UserRepliesMoves ==
  ASSUME SessionInvariant, UserReplies
  PROVE  DaemonMoves /\ \E a \in Asks : AskSettled(a)
  <1>1. SessionTyped
    BY DEF SessionInvariant
  <1>2. /\ UNCHANGED <<requests, held, clientVars, socket, processVars>>
        /\ \E m \in UserMessages, source \in {"discord"} : Server!UserAnswers(source, m)
        /\ \E b \in Asks : status'[b] # status[b] /\ AnswerWritten(b)
    BY DEF UserReplies
  <1>3. PICK m \in UserMessages, source \in {"discord"} : Server!UserAnswers(source, m)
    BY <1>2
  <1>4. PICK a \in Server!Pending : Server!DeliverReply(a, source)
    BY <1>3 DEF Server!UserAnswers
  <1>5. UNCHANGED <<pc, work, cancelled>>
    BY <1>3 DEF Server!UserAnswers, Server!connVars
  <1>6. a \in Asks
    BY DEF Server!Pending
  <1>7. /\ status' = [status EXCEPT ![a] = "replied"]
        /\ timer' = [timer EXCEPT ![a] = IF @ = "none" THEN "none" ELSE "done"]
        /\ peer' = Server!AfterWriteTo(Conn)
    BY <1>4, <1>6 DEF Server!DeliverReply, Server!Settle, Server!CancelAskTasks, Server!Cancelled,
                Server!AfterWriteTo
  <1>8. timer' \in [Asks -> Server!TimerState]
    BY <1>1, <1>6, <1>7 DEF SessionTyped, Server!TimerState
  <1>9. PICK b \in Asks : status'[b] # status[b] /\ AnswerWritten(b)
    BY <1>2
  <1>10. b = a
    BY <1>1, <1>7, <1>9 DEF SessionTyped
  <1> QED
    BY <1>2, <1>5, <1>6, <1>7, <1>8, <1>9, <1>10, SettlingMoves

\* Every step of the daemon's end moves what is shared as it may, and is a step that the
\* client's module expects of its daemon.
LEMMA DaemonStepMoves ==
  ASSUME SessionInvariant,
         HandlerEnd \/ (\E a \in Asks : Deadline(a)) \/ UserReplies \/ Elsewhere
  PROVE  DaemonMoves /\ (Daemon \/ UNCHANGED vars)
  <1>1. CASE HandlerEnd
    <2>1. CASE GreetingInVain
      BY <2>1, GreetingEndsMoves DEF Daemon
    <2> QED
      BY <1>1, <2>1, GreetingReadMoves, NotifyReadMoves, NotifyAnsweredMoves, NotifyFailsMoves,
         AskReadMoves, DmSentMoves, CancelReadMoves, CheckReadMoves, CheckInVainMoves,
         ByeReadMoves, HandlerEndsMoves
         DEF HandlerEnd, Daemon
  <1>2. CASE (\E a \in Asks : Deadline(a)) \/ UserReplies
    BY <1>2, DeadlineMoves, UserRepliesMoves DEF Daemon
  <1>3. CASE Elsewhere
    <2>1. SessionTyped
      BY DEF SessionInvariant
    <2>2. /\ UNCHANGED <<requests, held, answers, open, socket>>
          /\ UNCHANGED <<clientVars, processVars>>
      BY <1>3 DEF Elsewhere, Quiet, Silent
    <2>3. ASSUME NEW a \in Asks, Server!TimeoutDmSent(a)
          PROVE  /\ UNCHANGED <<pc, work, status, peer, cancelled>>
                 /\ timer' \in [Asks -> Server!TimerState]
      BY <2>1, <2>3 DEF Server!TimeoutDmSent, Server!connVars, Server!agentVars, SessionTyped,
                        Server!TimerState
    <2>4. ASSUME NEW m \in UserMessages, Server!UserRepliesToNotify(m) \/ Server!UserBroadcasts(m)
          PROVE  UNCHANGED <<pc, work, status, timer, peer, cancelled>>
      BY <2>4 DEF Server!UserRepliesToNotify, Server!UserBroadcasts, Server!connVars,
                  Server!agentVars, Server!askVars
    <2>5. /\ UNCHANGED <<pc, work, status, peer, cancelled>>
          /\ timer' \in [Asks -> Server!TimerState]
      <3>1. CASE \E a \in Asks : Server!TimeoutDmSent(a)
        BY <2>3, <3>1
      <3>2. CASE \E m \in UserMessages : Server!UserRepliesToNotify(m) \/ Server!UserBroadcasts(m)
        BY <2>1, <2>4, <3>2 DEF SessionTyped
      <3> QED
        BY <1>3, <3>1, <3>2 DEF Elsewhere
    <2> QED
      BY <2>2, <2>5, ElsewhereMoves
  <1> QED
    BY <1>1, <1>2, <1>3

-----------------------------------------------------------------------------
(* The client's end. *)

\* What a step of the client may do to what the two ends share.
AgentMoves ==
  /\ UNCHANGED <<held, work, timer, open, greeting>>
  /\ SessionTyped'
  /\ pc'[Conn] = pc[Conn] \/ (pc[Conn] = "absent" /\ pc'[Conn] = "greeting")
  /\ \A a \in Asks : status'[a] = status[a] \/ (status[a] = "unasked" /\ status'[a] = "sent")
  /\ requests # <<>> => requests' # <<>> /\ Head(requests') = Head(requests)
  /\ alive' => alive
  /\ peer'[Conn] = peer[Conn] \/ (peer[Conn] = "open" /\ peer'[Conn] = "closed")
  /\ LinesAreLost => LinesAreLost'

\* Such a step leaves alone what the handler has in its hands, its table and its snapshot.
LEMMA AgentMovesKeep ==
  ASSUME SessionInvariant, AgentMoves
  PROVE  HandsMeet' /\ TablesMeet' /\ LossesMeet'
  <1>1. SessionTyped /\ SessionTyped' /\ HandsMeet /\ TablesMeet /\ LossesMeet /\ SocketsMeet
    BY DEF SessionInvariant, AgentMoves
  <1>2. HandsMeet'
    BY <1>1 DEF AgentMoves, HandsMeet, SocketsMeet
  <1>3. TablesMeet'
    BY <1>1 DEF AgentMoves, TablesMeet, Server!Pending
  <1>4. LossesMeet'
    BY <1>1 DEF AgentMoves, LossesMeet, LossHasCause, SessionTyped
  <1> QED
    BY <1>2, <1>3, <1>4

\* A new line stands behind the others.
LEMMA WriteKeepsHead ==
  ASSUME TypeOK, NEW line \in Request, requests' = Append(requests, line), requests # <<>>
  PROVE  requests' # <<>> /\ Head(requests') = Head(requests)
  <1>1. /\ Len(requests) \in Nat /\ Len(requests) > 0 /\ requests \in Seq(Request)
        /\ requests' \in Seq(Request) /\ Len(requests') = Len(requests) + 1
        /\ requests'[1] = requests[1]
    BY AppendProperties, LenProperties, EmptySeq DEF TypeOK
  <1>2. requests' # <<>>
    BY <1>1, EmptySeq
  <1> QED
    BY <1>1, <1>2, HeadTailProperties

\* The steps of the client are those of its module.
LEMMA ClientEndSteps ==
  ASSUME ClientEnd
  PROVE  [Next]_vars
  <1>1. Hello \in Calls /\ Asks \subseteq Calls /\ Notifies \cup Checks \subseteq Calls
    BY DEF Calls, Tools
  <1>2. CASE Handshake
    BY <1>1, <1>2 DEF Handshake, Next
  <1>3. ASSUME NEW a \in Asks, AskCalled(a) PROVE Next
    BY <1>1, <1>3 DEF AskCalled, Next
  <1>4. ASSUME NEW k \in Notifies \cup Checks, OtherCalled(k) PROVE Next
    BY <1>1, <1>4 DEF OtherCalled, Next
  <1>5. ASSUME NEW k \in Calls, CallCancelled(k) \/ CallReturns(k) PROVE Next
    BY <1>5 DEF CallCancelled, CallReturns, Next
  <1>6. CASE SessionCloses \/ ClientReads
    BY <1>6 DEF SessionCloses, ClientReads, Next
  <1>7. CASE Killed
    BY <1>7 DEF Killed, clientVars, socketVars, vars, callVars, tableVars, daemonVars
  <1> QED
    BY <1>2, <1>3, <1>4, <1>5, <1>6, <1>7 DEF ClientEnd

\* The read loop.  It learns the news of an ask only from the daemon, and gives up what is in
\* its table only when the daemon can know of no answer to it.
LEMMA ClientReadsKeepsInvariant ==
  ASSUME SessionInvariant, ClientReads
  PROVE  SessionTyped' /\ SocketsMeet' /\ HandsMeet' /\ TablesMeet' /\ LinesMeet'
         /\ CallsMeet' /\ NewsMeet' /\ LossesMeet'
  <1>1. /\ TypeOK /\ WaitingCallIsInTable /\ SessionTyped /\ SocketsMeet /\ LinesMeet
        /\ CallsMeet /\ NewsMeet /\ TablesMeet /\ AskIsInOnePlace
    BY DEF SessionInvariant, ClientSide, ClientInvariant
  <1>2. /\ UNCHANGED <<phase, task, outcome, asking, socket, requests, open>>
        /\ UNCHANGED <<held, greeting, alive, pc, work, peer, status, timer, cancelled>>
        /\ reader = "reading" /\ pending' \subseteq pending
    BY DEF ClientReads, ReadLoop, ReadAnswer, ReadEof, ReadRaises, FailPending, callVars, tableVars,
           daemonVars, processVars, serverVars
  <1>3. SessionTyped'
    BY <1>1, <1>2 DEF SessionTyped
  <1>5. LinesMeet'
    BY <1>1, <1>2 DEF LinesMeet, InFlight
  <1>6. phase # "closed"
    BY <1>1, <1>2 DEF SocketsMeet
  <1>4. HandsMeet' /\ TablesMeet' /\ LossesMeet'
    <2>1. ~LinesAreLost
      BY <1>1, <1>6 DEF ClientReads, SocketsMeet, LinesAreLost
    <2> QED
      BY <1>2, <1>3, <2>1, AgentMovesKeep DEF AgentMoves
  <1>7. /\ \A a \in Asks : Answered(a)' => Answered(a)
        /\ \A i \in DOMAIN answers' : \E j \in DOMAIN answers : answers'[i] = answers[j]
        /\ \A k \in Calls :
             \/ future'[k] = future[k]
             \/ /\ future[k] = "unresolved" /\ k \in pending
                /\ \/ /\ future'[k] = "result"
                      /\ \E i \in DOMAIN answers : answers[i].type = "Answer" /\ answers[i].call = k
                   \/ future'[k] = "refusal"
                   \/ future'[k] = "error" /\ answers = <<>> /\ socket = "ended"
        /\ \A a \in Asks : Answered(a) => Answered(a)' \/ a \notin pending \/ future'[a] # "unresolved"
    <2>1. CASE ReadAnswer
      <3>1. /\ Len(answers) \in Nat /\ Len(answers) > 0 /\ DOMAIN answers = 1..Len(answers)
            /\ DOMAIN answers' = 1..(Len(answers) - 1)
            /\ \A i \in 1..(Len(answers) - 1) : answers'[i] = answers[i + 1]
            /\ Head(answers) = answers[1] /\ Head(answers) \in Answer
        BY <1>1, <2>1, HeadTailProperties, LenProperties, EmptySeq DEF TypeOK, ReadAnswer
      <3>2. \A i \in DOMAIN answers' : i + 1 \in DOMAIN answers /\ answers'[i] = answers[i + 1]
        BY <3>1
      <3>3. \A a \in Asks : Answered(a)' => Answered(a)
        BY <3>2 DEF Answered
      <3>4. ASSUME NEW a \in Asks, Answered(a) PROVE Answered(a)' \/ Head(answers).call = a
        <4>1. PICK i \in DOMAIN answers : answers[i].call = a
          BY <3>4 DEF Answered
        <4>2. CASE i = 1
          BY <3>1, <4>1, <4>2
        <4>3. CASE i # 1
          <5>1. i - 1 \in DOMAIN answers' /\ (i - 1) + 1 = i
            BY <3>1, <4>3
          <5>2. answers'[i - 1] = answers[i]
            BY <3>2, <5>1
          <5> QED
            BY <4>1, <5>1, <5>2 DEF Answered
        <4> QED
          BY <4>2, <4>3
      <3> DEFINE line == Head(answers)
      <3>5. 1 \in DOMAIN answers /\ line = answers[1] /\ line.call \in Calls
            /\ line.type \in {"Answer", "HelloErr"}
        BY <2>1, <3>1 DEF ReadAnswer, Answer
      <3>6. /\ \A k \in Calls \ {line.call} : future'[k] = future[k]
            /\ future'[line.call] =
                 IF line.call \in pending /\ future[line.call] = "unresolved"
                   THEN IF line.type = "Answer" THEN "result" ELSE "refusal"
                   ELSE future[line.call]
        BY <1>1, <2>1, <3>5 DEF ReadAnswer, Resolve, TypeOK
      <3> HIDE DEF line
      <3>7. \A k \in Calls :
             \/ future'[k] = future[k]
             \/ /\ future[k] = "unresolved" /\ k \in pending
                /\ \/ /\ future'[k] = "result"
                      /\ \E i \in DOMAIN answers : answers[i].type = "Answer" /\ answers[i].call = k
                   \/ future'[k] = "refusal"
        BY <3>5, <3>6
      <3>8. \A a \in Asks : Answered(a) => Answered(a)' \/ a \notin pending \/ future'[a] # "unresolved"
        BY <3>4, <3>6 DEF line
      <3> QED
        BY <3>2, <3>3, <3>7, <3>8
    <2>2. CASE ReadEof
      BY <1>1, <2>2 DEF ReadEof, FailPending, Answered, TypeOK, daemonVars
    <2>3. CASE ReadRaises
      BY <2>3 DEF ReadRaises, Answered, callVars, daemonVars
    <2> QED
      BY <2>1, <2>2, <2>3 DEF ClientReads, ReadLoop
  <1>8. SocketsMeet'
    <2>1. reader' # "reading" \/ phase' # "closed"
      BY <1>2, <1>6
    <2>2. Hello \in Calls
      BY DEF Calls
    <2>3. pc[Conn] \in {"absent", "greeting"} => future'[Hello] # "result"
      BY <1>1, <1>7, <2>2 DEF SocketsMeet
    <2>4. pc[Conn] \in {"absent", "greeting"} => \A i \in DOMAIN answers' :
            ~(answers'[i].type = "Answer" /\ answers'[i].call = Hello)
      BY <1>1, <1>7 DEF SocketsMeet
    <2> QED
      BY <1>1, <1>2, <2>1, <2>3, <2>4 DEF SocketsMeet
  <1>9. CallsMeet'
    BY <1>1, <1>2, <1>7 DEF CallsMeet, AskMeets, Calls, Tools
  <1>10. NewsMeet'
    <2> SUFFICES ASSUME NEW a \in Asks PROVE NewsOf(a)'
      BY DEF NewsMeet
    <2>1. a \in Calls
      BY DEF Calls, Tools
    <2>2. Answered(a)' \/ future'[a] = "result" => status'[a] \in {"replied", "timed_out"}
      <3>1. future'[a] = "result" => future[a] = "result" \/ Answered(a)
        BY <1>7, <2>1 DEF Answered
      <3> QED
        BY <1>1, <1>2, <1>7, <3>1 DEF NewsMeet, NewsOf
    <2>3. ASSUME status'[a] \in {"replied", "timed_out"}, future'[a] = "unresolved" PROVE Answered(a)'
      <3>1. future[a] = "unresolved"
        BY <1>7, <2>1, <2>3
      <3>2. Answered(a) /\ task[a] = "waiting"
        BY <1>1, <1>2, <2>3, <3>1 DEF NewsMeet, NewsOf, CallsMeet, AskMeets
      <3>3. a \in pending
        BY <1>1, <1>2, <2>1, <3>1, <3>2 DEF WaitingCallIsInTable
      <3> QED
        BY <1>7, <2>3, <3>2, <3>3
    <2>4. ASSUME future'[a] = "error" PROVE status'[a] \in {"sent", "lost"}
      <3>1. CASE future[a] = "error"
        BY <1>1, <1>2, <1>6, <3>1 DEF NewsMeet, NewsOf
      <3>2. CASE future[a] # "error"
        <4>1. future[a] = "unresolved" /\ a \in pending /\ answers = <<>> /\ socket = "ended"
          BY <1>7, <2>1, <2>4, <3>2
        <4>2. status[a] # "unasked"
          BY <1>1, <4>1 DEF CallsMeet, AskMeets
        <4>3. status[a] # "open"
          BY <1>1, <4>1 DEF TablesMeet, AskIsInOnePlace, Server!Pending
        <4>4. status[a] \notin {"replied", "timed_out"}
          <5>1. ~Answered(a)
            BY <4>1, EmptySeq DEF Answered
          <5> QED
            BY <1>1, <4>1, <5>1 DEF NewsMeet, NewsOf
        <4>5. status[a] # "withdrawn"
          BY <1>1, <1>6, <2>1, <4>1 DEF NewsMeet, NewsOf, CallsMeet, AskMeets
        <4> QED
          BY <1>1, <1>2, <4>2, <4>3, <4>4, <4>5 DEF SessionTyped, Server!AskStatus, Server!Settled
      <3> QED
        BY <3>1, <3>2
    <2>5. status'[a] = "withdrawn" => outcome'[a] = "cancelled" \/ phase' = "closed"
      BY <1>1, <1>2 DEF NewsMeet, NewsOf
    <2> QED
      BY <2>2, <2>3, <2>4, <2>5 DEF NewsOf
  <1> QED
    BY <1>3, <1>4, <1>5, <1>8, <1>9, <1>10

\* The requests in flight stay as the two ends know them when a new line is written.
LEMMA WriteKeepsLines ==
  ASSUME TypeOK, LinesMeet, NEW line \in Request, requests' = Append(requests, line),
         phase' # "closed" => phase # "closed" /\ ~InFlight(line),
         line.type = "AskCancel" => line.call \in Asks,
         \A a \in Asks : /\ status[a] = "sent" => status'[a] = "sent"
                         /\ line = Begin(a) => status'[a] = "sent"
                         /\ line = AskCancel(a) => a \in cancelled'
                         /\ a \in cancelled => a \in cancelled',
         \A k \in Calls : task'[k] = "idle" => task[k] = "idle" /\ line # Begin(k)
  PROVE  LinesMeet'
  <1>1. /\ \A x \in Request : InFlight(x)' <=> InFlight(x) \/ x = line
        /\ Len(requests) \in Nat
        /\ DOMAIN requests = 1..Len(requests)
        /\ DOMAIN requests' = 1..(Len(requests) + 1)
        /\ \A i \in 1..Len(requests) : requests'[i] = requests[i]
        /\ requests'[Len(requests) + 1] = line
    BY WriteInFlight
  <1>2. \A a \in Asks : /\ InFlight(Begin(a))' => status'[a] = "sent"
                        /\ InFlight(AskCancel(a))' => a \in cancelled'
    BY <1>1, AskFacts DEF LinesMeet
  <1>3. \A i \in DOMAIN requests' :
          requests'[i] = line \/ (i \in DOMAIN requests /\ requests'[i] = requests[i])
    BY <1>1
  <1>4. \A i \in DOMAIN requests' : requests'[i].type = "AskCancel" => requests'[i].call \in Asks
    BY <1>3 DEF LinesMeet
  <1>5. ASSUME phase' # "closed"
        PROVE  \A i, j \in DOMAIN requests' : requests'[i] = requests'[j] => i = j
    <2>1. \A i \in DOMAIN requests : requests[i] # line
      BY <1>5 DEF InFlight
    <2>2. \A i, j \in DOMAIN requests : requests[i] = requests[j] => i = j
      BY <1>5 DEF LinesMeet
    <2>3. \A i \in DOMAIN requests' : i \in DOMAIN requests \/ i = Len(requests) + 1
      BY <1>1
    <2> QED
      BY <1>1, <2>1, <2>2, <2>3
  <1>6. ASSUME phase' # "closed", NEW k \in Calls, task'[k] = "idle"
        PROVE  ~InFlight(Begin(k))'
    BY <1>1, <1>6, RequestShapes DEF LinesMeet
  <1> QED
    BY <1>2, <1>4, <1>5, <1>6 DEF LinesMeet

\* They stay so when none is written.
LEMMA NoWriteKeepsLines ==
  ASSUME LinesMeet, UNCHANGED requests, phase' # "closed" => phase # "closed",
         \A a \in Asks : /\ status[a] = "sent" => status'[a] = "sent"
                         /\ a \in cancelled => a \in cancelled',
         \A k \in Calls : task'[k] = "idle" => task[k] = "idle"
  PROVE  LinesMeet'
  BY DEF LinesMeet, InFlight

\* A call that begins: what it asks for is on its way, or was not written.
LEMMA CallKeepsSession ==
  ASSUME SessionInvariant, NEW k \in Calls, Call(k), SessionTyped',
         UNCHANGED <<held, greeting, alive, work, peer, timer, cancelled>>,
         pc'[Conn] = IF k = Hello THEN "greeting" ELSE pc[Conn],
         \A a \in Asks : status'[a] = IF a = k /\ socket = "up" THEN "sent" ELSE status[a]
  PROVE  SessionTyped' /\ SocketsMeet' /\ HandsMeet' /\ TablesMeet' /\ LinesMeet'
         /\ CallsMeet' /\ NewsMeet' /\ LossesMeet'
  <1>1. /\ TypeOK /\ SessionTyped /\ SocketsMeet /\ LinesMeet /\ CallsMeet /\ NewsMeet
        /\ HandshakeComesFirst
    BY DEF SessionInvariant, ClientSide, ClientInvariant
  <1>2. /\ task[k] = "idle" /\ phase = (IF k = Hello THEN "connecting" ELSE "serving")
        /\ phase # "closed" /\ UNCHANGED <<answers, open>>
        /\ \A j \in Calls \ {k} : /\ task'[j] = task[j] /\ future'[j] = future[j]
                                  /\ outcome'[j] = outcome[j] /\ (j \in pending' <=> j \in pending)
        /\ future'[k] = "unresolved" /\ task'[k] # "idle"
        /\ outcome[k] = "none"
    BY <1>1 DEF Call, TypeOK, CallsMeet, AskMeets
  <1>3. /\ k = Hello => pc[Conn] = "absent" /\ socket = "up"
        /\ k # Hello => pc[Conn] \notin {"absent", "greeting"}
    BY <1>1, <1>2 DEF SocketsMeet
  <1>4. \/ /\ socket = "up" /\ requests' = Append(requests, Begin(k)) /\ task'[k] = "waiting"
           /\ outcome'[k] = "none" /\ UNCHANGED <<phase, reader, socket>>
        \/ /\ socket # "up" /\ socket' = "broken" /\ UNCHANGED <<requests, phase>>
           /\ task'[k] = "done" /\ outcome'[k] = "raised" /\ reader' # "reading"
           /\ k \in Asks => (k \in pending' <=> k \in pending)
    BY <1>1, <1>2, <1>3 DEF Call, BreakSocket, TypeOK
  <1>5. Begin(k) \in Request /\ Begin(k).type = "Begin" /\ Begin(k).call = k
        /\ \A j \in Calls : (Begin(k) = Begin(j) => j = k) /\ Begin(k) # AskCancel(j)
    BY RequestShapes, RequestsDiffer DEF Begin
  <1>6. k \in Asks => status[k] = "unasked"
    BY <1>1, <1>2 DEF CallsMeet, AskMeets
  <1>7. HandsMeet' /\ TablesMeet' /\ LossesMeet'
    <2>1. requests # <<>> => requests' # <<>> /\ Head(requests') = Head(requests)
      BY <1>1, <1>4, <1>5, WriteKeepsHead
    <2>2. \A a \in Asks : status'[a] = status[a] \/ (status[a] = "unasked" /\ status'[a] = "sent")
      BY <1>6
    <2> QED
      BY <1>2, <1>3, <2>1, <2>2, AgentMovesKeep DEF AgentMoves, LinesAreLost
  <1>8. SocketsMeet'
    <2>1. pc'[Conn] \in {"absent", "greeting"} =>
            /\ k = Hello /\ future'[Hello] = "unresolved" /\ phase' = "connecting"
            /\ \A i \in DOMAIN answers' : ~(answers'[i].type = "Answer" /\ answers'[i].call = Hello)
      BY <1>1, <1>2, <1>3, <1>4 DEF SocketsMeet
    <2>2. Hello \in Calls /\ Hello \notin Asks
      BY CallsAreDistinct DEF Calls, Tools
    <2>3. pc'[Conn] # "absent" /\ task'[Hello] # "idle"
      BY <1>1, <1>2, <1>3, <2>2 DEF SocketsMeet
    <2>4. socket' = "up" <=> pc'[Conn] # "closed"
      BY <1>1, <1>3, <1>4 DEF SocketsMeet
    <2>5. phase' \in {"connecting", "failed"} => \A a \in Asks : status'[a] = "unasked"
      BY <1>1, <1>2, <1>4, <2>2 DEF SocketsMeet
    <2> QED
      BY <1>1, <1>2, <1>4, <2>1, <2>3, <2>4, <2>5 DEF SocketsMeet
  <1>9. LinesMeet'
    <2>1. CASE UNCHANGED requests
      BY <1>1, <1>2, <2>1, NoWriteKeepsLines
    <2>2. CASE socket = "up" /\ requests' = Append(requests, Begin(k))
      <3>1. ~InFlight(Begin(k))
        BY <1>1, <1>2 DEF LinesMeet
      <3> QED
        BY <1>1, <1>2, <1>5, <2>2, <3>1, AskFacts, WriteKeepsLines
    <2> QED
      BY <1>4, <2>1, <2>2
  <1>10. CallsMeet'
    <2>1. ASSUME NEW a \in Asks, a = k PROVE AskMeets(a)'
      BY <1>1, <1>2, <1>4, <1>6, <2>1 DEF CallsMeet, AskMeets
    <2>2. ASSUME NEW a \in Asks, a # k PROVE AskMeets(a)'
      BY <1>1, <1>2, <1>4, <2>2, AskFacts DEF CallsMeet, AskMeets
    <2>3. \A j \in Calls : /\ task'[j] # "done" => outcome'[j] = "none"
                           /\ outcome'[j] = "answer" => future'[j] = "result"
                           /\ outcome'[j] = "directive" => future'[j] = "error"
                           /\ outcome'[j] = "cancelled" => future'[j] # "unresolved"
      BY <1>1, <1>2, <1>4 DEF CallsMeet, AskMeets
    <2> QED
      BY <2>1, <2>2, <2>3 DEF CallsMeet, AskMeets
  <1>11. NewsMeet'
    BY <1>1, <1>2, <1>4, <1>6, AskFacts DEF NewsMeet, NewsOf, Answered
  <1> QED
    BY <1>7, <1>8, <1>9, <1>10, <1>11

\* The handshake, the asks and the other calls begin.
LEMMA CallsKeepSession ==
  ASSUME SessionInvariant,
         Handshake \/ (\E a \in Asks : AskCalled(a)) \/ \E k \in Notifies \cup Checks : OtherCalled(k)
  PROVE  SessionTyped' /\ SocketsMeet' /\ HandsMeet' /\ TablesMeet' /\ LinesMeet'
         /\ CallsMeet' /\ NewsMeet' /\ LossesMeet'
  <1>1. SessionTyped
    BY DEF SessionInvariant
  <1>2. Hello \in Calls /\ Hello \notin Asks
    BY CallsAreDistinct DEF Calls, Tools
  <1>3. CASE Handshake
    <2>1. /\ Call(Hello) /\ pc' = [pc EXCEPT ![Conn] = "greeting"]
          /\ UNCHANGED <<held, greeting, alive, work, peer, timer, cancelled, status>>
      BY <1>3 DEF Handshake, processVars
    <2>2. SessionTyped' /\ pc'[Conn] = "greeting"
      BY <1>1, <2>1 DEF SessionTyped, Server!HandlerState
    <2> QED
      BY <1>2, <2>1, <2>2, CallKeepsSession
  <1>4. ASSUME NEW a \in Asks, AskCalled(a)
        PROVE  SessionTyped' /\ SocketsMeet' /\ HandsMeet' /\ TablesMeet' /\ LinesMeet'
               /\ CallsMeet' /\ NewsMeet' /\ LossesMeet'
    <2>1. /\ Call(a) /\ status' = (IF socket = "up" THEN [status EXCEPT ![a] = "sent"] ELSE status)
          /\ UNCHANGED <<held, greeting, alive, work, peer, timer, cancelled, pc>>
      BY <1>4 DEF AskCalled, processVars
    <2>2. SessionTyped' /\ a \in Calls /\ a # Hello
      BY <1>1, <2>1, AskFacts DEF SessionTyped, Server!AskStatus
    <2>3. \A b \in Asks : status'[b] = IF b = a /\ socket = "up" THEN "sent" ELSE status[b]
      BY <1>1, <2>1 DEF SessionTyped
    <2> QED
      BY <2>1, <2>2, <2>3, CallKeepsSession
  <1>5. ASSUME NEW k \in Notifies \cup Checks, OtherCalled(k)
        PROVE  SessionTyped' /\ SocketsMeet' /\ HandsMeet' /\ TablesMeet' /\ LinesMeet'
               /\ CallsMeet' /\ NewsMeet' /\ LossesMeet'
    <2>1. /\ Call(k)
          /\ UNCHANGED <<held, greeting, alive, work, peer, timer, cancelled, pc, status>>
      BY <1>5 DEF OtherCalled, processVars, serverVars
    <2>2. SessionTyped' /\ k \in Calls /\ k # Hello /\ k \notin Asks
      BY <1>1, <2>1, CallsAreDistinct DEF SessionTyped, Calls, Tools
    <2> QED
      BY <2>1, <2>2, CallKeepsSession
  <1> QED
    BY <1>3, <1>4, <1>5

\* A call that returns: what it made of its future is what it was told.
LEMMA CallReturnsKeepsInvariant ==
  ASSUME SessionInvariant, NEW k \in Calls, CallReturns(k)
  PROVE  SessionTyped' /\ SocketsMeet' /\ HandsMeet' /\ TablesMeet' /\ LinesMeet'
         /\ CallsMeet' /\ NewsMeet' /\ LossesMeet'
  <1>1. /\ TypeOK /\ SessionTyped /\ SocketsMeet /\ LinesMeet /\ CallsMeet /\ NewsMeet
        /\ HandshakeComesFirst /\ FailedByLoss
    BY DEF SessionInvariant, ClientSide, ClientInvariant
  <1>2. /\ task[k] = "waiting" /\ future[k] \in {"result", "refusal", "error"}
        /\ task'[k] = "done" /\ outcome'[k] = OutcomeOf(k) /\ outcome[k] = "none"
        /\ pending' \subseteq pending
        /\ \A j \in Calls \ {k} : task'[j] = task[j] /\ outcome'[j] = outcome[j]
        /\ phase' = IF k # Hello THEN phase ELSE IF future[k] = "result" THEN "serving" ELSE "failed"
        /\ UNCHANGED <<future, reader, socket, requests, answers, open>>
        /\ UNCHANGED <<held, greeting, alive, pc, work, peer, status, timer, cancelled>>
    BY <1>1
       DEF CallReturns, Return, Forget, TypeOK, CallsMeet, AskMeets, daemonVars, processVars,
           serverVars
  <1>3. /\ k = Hello => phase = "connecting"
        /\ phase' # "closed" => phase # "closed"
        /\ phase = "closed" => phase' = "closed"
    BY <1>1, <1>2 DEF HandshakeComesFirst
  <1>4. SessionTyped'
    BY <1>1, <1>2 DEF SessionTyped
  <1>5. HandsMeet' /\ TablesMeet' /\ LossesMeet'
    BY <1>2, <1>4, AgentMovesKeep DEF AgentMoves, LinesAreLost
  <1>6. LinesMeet'
    BY <1>1, <1>2, <1>3, NoWriteKeepsLines
  <1>7. SocketsMeet'
    <2>1. Hello \in Calls /\ (task'[Hello] = "idle" <=> task[Hello] = "idle")
      BY <1>2 DEF Calls
    <2>2. pc[Conn] \in {"absent", "greeting"} => phase' \in {"connecting", "failed"}
      BY <1>1, <1>2 DEF SocketsMeet
    <2>3. phase' \in {"connecting", "failed"} => phase \in {"connecting", "failed"}
      BY <1>2, <1>3
    <2> QED
      BY <1>1, <1>2, <1>3, <2>1, <2>2, <2>3 DEF SocketsMeet
  <1>8. /\ outcome'[k] = "answer" => future[k] = "result"
        /\ outcome'[k] = "directive" => future[k] = "error"
        /\ outcome'[k] # "cancelled"
    <2>1. CASE future[k] = "result"
      BY <1>2, <2>1 DEF OutcomeOf
    <2>2. CASE future[k] = "error"
      BY <1>2, <2>2 DEF OutcomeOf
    <2>3. CASE future[k] = "refusal"
      BY <1>2, <2>3 DEF OutcomeOf
    <2> QED
      BY <1>2, <2>1, <2>2, <2>3
  <1>9. CallsMeet'
    <2>1. ASSUME NEW a \in Asks, a = k PROVE AskMeets(a)'
      <3>1. future[a] = "result" => status[a] \in {"replied", "timed_out"}
        BY <1>1 DEF NewsMeet, NewsOf
      <3>2. future[a] \in {"refusal", "error"} => socket # "up" \/ phase = "closed"
        BY <1>1 DEF FailedByLoss, Tools
      <3> QED
        BY <1>1, <1>2, <1>3, <2>1, <3>1, <3>2 DEF CallsMeet, AskMeets
    <2>2. ASSUME NEW a \in Asks, a # k PROVE AskMeets(a)'
      BY <1>1, <1>2, <1>3, <2>2, AskFacts DEF CallsMeet, AskMeets
    <2>3. \A j \in Calls : /\ task'[j] # "done" => outcome'[j] = "none"
                           /\ outcome'[j] = "answer" => future'[j] = "result"
                           /\ outcome'[j] = "directive" => future'[j] = "error"
                           /\ outcome'[j] = "cancelled" => future'[j] # "unresolved"
      BY <1>1, <1>2, <1>8 DEF CallsMeet, AskMeets
    <2> QED
      BY <2>1, <2>2, <2>3 DEF CallsMeet, AskMeets
  <1>10. NewsMeet'
    <2>1. \A a \in Asks : outcome[a] = "cancelled" => outcome'[a] = "cancelled"
      BY <1>2, AskFacts
    <2> QED
      BY <1>1, <1>2, <1>3, <2>1 DEF NewsMeet, NewsOf, Answered
  <1> QED
    BY <1>4, <1>5, <1>6, <1>7, <1>9, <1>10

\* A call given up: its withdrawal is the only one on its way.
LEMMA CallCancelledKeepsInvariant ==
  ASSUME SessionInvariant, NEW k \in Calls, CallCancelled(k)
  PROVE  SessionTyped' /\ SocketsMeet' /\ HandsMeet' /\ TablesMeet' /\ LinesMeet'
         /\ CallsMeet' /\ NewsMeet' /\ LossesMeet'
  <1>1. /\ TypeOK /\ SessionTyped /\ SocketsMeet /\ LinesMeet /\ CallsMeet /\ NewsMeet
    BY DEF SessionInvariant, ClientSide, ClientInvariant
  <1>2. /\ task[k] = "waiting" /\ phase = "serving" /\ k # Hello
        /\ task'[k] = "done" /\ outcome'[k] = "cancelled" /\ outcome[k] = "none"
        /\ pending' \subseteq pending
        /\ future'[k] = IF future[k] = "unresolved" THEN "cancelled" ELSE future[k]
        /\ \A j \in Calls \ {k} : task'[j] = task[j] /\ outcome'[j] = outcome[j]
                                  /\ future'[j] = future[j]
        /\ UNCHANGED <<phase, answers, open>>
        /\ UNCHANGED <<held, greeting, alive, pc, work, peer, status, timer>>
        /\ cancelled' = cancelled \cup (IF socket = "up" THEN {k} \cap Asks ELSE {})
    BY <1>1, CallsAreDistinct
       DEF CallCancelled, Cancel, Forget, TypeOK, CallsMeet, AskMeets, processVars
  <1>3. \/ /\ k \in Asks /\ socket = "up" /\ requests' = Append(requests, AskCancel(k))
           /\ UNCHANGED <<reader, socket>>
        \/ /\ k \in Asks /\ socket # "up" /\ socket' = "broken" /\ UNCHANGED requests
           /\ reader' = (IF reader = "reading" THEN "died" ELSE reader)
        \/ k \notin Asks /\ UNCHANGED <<reader, socket, requests>>
    BY DEF CallCancelled, Cancel, BreakSocket
  <1>4. SessionTyped'
    BY <1>1, <1>2 DEF SessionTyped
  <1>5. HandsMeet' /\ TablesMeet' /\ LossesMeet'
    <2>1. requests # <<>> => requests' # <<>> /\ Head(requests') = Head(requests)
      BY <1>1, <1>3, AskFacts, WriteKeepsHead
    <2> QED
      BY <1>2, <1>4, <2>1, AgentMovesKeep DEF AgentMoves, LinesAreLost
  <1>6. SocketsMeet'
    <2>1. /\ socket' = "up" <=> socket = "up"
          /\ Hello \in Calls /\ task'[Hello] = task[Hello] /\ future'[Hello] = future[Hello]
      BY <1>2, <1>3 DEF Calls
    <2>2. pc[Conn] \notin {"absent", "greeting"}
      BY <1>1, <1>2 DEF SocketsMeet
    <2> QED
      BY <1>1, <1>2, <2>1, <2>2 DEF SocketsMeet
  <1>7. LinesMeet'
    <2>1. CASE UNCHANGED requests
      BY <1>1, <1>2, <2>1, NoWriteKeepsLines
    <2>2. CASE k \in Asks /\ socket = "up" /\ requests' = Append(requests, AskCancel(k))
      <3>1. ~InFlight(AskCancel(k))
        BY <1>1, <1>2, <2>2 DEF LinesMeet, CallsMeet, AskMeets
      <3>2. /\ AskCancel(k) \in Request /\ AskCancel(k).call = k
            /\ \A j \in Calls : AskCancel(k) # Begin(j) /\ (AskCancel(k) = AskCancel(j) => j = k)
        BY RequestShapes, RequestsDiffer DEF AskCancel
      <3> QED
        BY <1>1, <1>2, <2>2, <3>1, <3>2, AskFacts, WriteKeepsLines
    <2> QED
      BY <1>3, <2>1, <2>2
  <1>8. CallsMeet'
    <2>1. ASSUME NEW a \in Asks, a = k PROVE AskMeets(a)'
      BY <1>1, <1>2, <1>3, <2>1 DEF CallsMeet, AskMeets
    <2>2. ASSUME NEW a \in Asks, a # k PROVE AskMeets(a)'
      BY <1>1, <1>2, <1>3, <2>2, AskFacts DEF CallsMeet, AskMeets
    <2>3. \A j \in Calls : /\ task'[j] # "done" => outcome'[j] = "none"
                           /\ outcome'[j] = "answer" => future'[j] = "result"
                           /\ outcome'[j] = "directive" => future'[j] = "error"
                           /\ outcome'[j] = "cancelled" => future'[j] # "unresolved"
      BY <1>1, <1>2 DEF CallsMeet, AskMeets
    <2> QED
      BY <2>1, <2>2, <2>3 DEF CallsMeet, AskMeets
  <1>9. NewsMeet'
    BY <1>1, <1>2, AskFacts DEF NewsMeet, NewsOf, Answered
  <1> QED
    BY <1>4, <1>5, <1>6, <1>7, <1>8, <1>9

\* The session closes: the withdrawals and Bye stand behind what was written before.
LEMMA SessionClosesKeepsInvariant ==
  ASSUME SessionInvariant, SessionCloses
  PROVE  SessionTyped' /\ SocketsMeet' /\ HandsMeet' /\ TablesMeet' /\ LinesMeet'
         /\ CallsMeet' /\ NewsMeet' /\ LossesMeet'
  <1>1. /\ TypeOK /\ SessionTyped /\ SocketsMeet /\ LinesMeet /\ CallsMeet /\ NewsMeet
        /\ AskingAreWaiting
    BY DEF SessionInvariant, ClientSide, ClientInvariant
  <1>2. /\ phase = "serving" /\ phase' = "closed" /\ reader' # "reading"
        /\ UNCHANGED <<task, outcome, asking, answers, open>>
        /\ UNCHANGED <<held, greeting, alive, pc, work, status, timer>>
        /\ socket' = "up" <=> socket = "up"
        /\ socket # "up" => UNCHANGED <<future, pending, requests>>
        /\ pending' \subseteq pending
        /\ \A k \in Calls : \/ future'[k] = future[k]
                            \/ future[k] = "unresolved" /\ future'[k] = "error"
        /\ cancelled' = (IF socket = "up" THEN cancelled \cup asking ELSE cancelled)
        /\ alive
    BY <1>1 DEF SessionCloses, Close, CloseTransport, FailPending, BreakSocket, TypeOK, processVars
  <1>3. peer' \in [{Conn} -> {"open", "closed", "reset"}]
        /\ peer'[Conn] \in {peer[Conn], "closed"} /\ peer[Conn] = "open"
    BY <1>1, <1>2 DEF SessionCloses, SessionTyped, SocketsMeet
  <1>4. SessionTyped'
    BY <1>1, <1>2, <1>3 DEF SessionTyped, TypeOK
  <1>5. /\ requests # <<>> => requests' # <<>> /\ Head(requests') = Head(requests)
        /\ LinesMeet'
    <2>1. CASE UNCHANGED requests
      BY <1>1, <1>2, <2>1, NoWriteKeepsLines
    <2>2. ASSUME NEW order \in WithdrawalOrders, socket = "up",
                 requests' = requests \o [i \in DOMAIN order |-> AskCancel(order[i])] \o <<Bye>>
          PROVE  /\ requests # <<>> => requests' # <<>> /\ Head(requests') = Head(requests)
                 /\ LinesMeet'
      <3>1. PICK m \in Nat, n \in Nat :
              /\ DOMAIN requests = 1..m /\ DOMAIN requests' = 1..(m + n + 1)
              /\ \A i \in 1..m : requests'[i] = requests[i]
              /\ \A i \in 1..n : \E a \in asking : requests'[m + i] = AskCancel(a)
              /\ requests'[m + n + 1] = Bye
        BY <1>1, <2>2, CloseInFlight
      <3>2. /\ TypeOK' /\ requests' \in Seq(Request) /\ requests \in Seq(Request)
        <4>1. Next
          BY DEF Next, SessionCloses
        <4> QED
          BY <1>1, <4>1, StepTyped DEF TypeOK
      <3>3. ASSUME NEW i \in DOMAIN requests'
            PROVE  \/ i \in DOMAIN requests /\ requests'[i] = requests[i]
                   \/ \E a \in asking : requests'[i] = AskCancel(a)
                   \/ requests'[i] = Bye
        <4>1. CASE i \in 1..m
          BY <3>1, <4>1
        <4>2. CASE i \in (m + 1)..(m + n)
          <5>1. i - m \in 1..n /\ m + (i - m) = i
            BY <3>1, <4>2
          <5> QED
            BY <3>1, <5>1
        <4>3. CASE i = m + n + 1
          BY <3>1, <4>3
        <4> QED
          BY <3>1, <4>1, <4>2, <4>3
      <3>4. asking \subseteq Asks /\ asking \subseteq cancelled' /\ cancelled \subseteq cancelled'
        BY <1>1, <1>2, <2>2 DEF TypeOK
      <3>5. /\ \A a \in Asks, b \in asking : AskCancel(b) # Begin(a)
                                             /\ (AskCancel(a) = AskCancel(b) => a = b)
            /\ \A a \in Asks : Bye # Begin(a) /\ Bye # AskCancel(a)
            /\ \A a \in asking : AskCancel(a).call = a
            /\ Bye.type # "AskCancel"
        BY <3>4, AskFacts, RequestsDiffer DEF AskCancel, Bye
      <3>6. ASSUME NEW a \in Asks
            PROVE  /\ InFlight(Begin(a))' => status'[a] = "sent"
                   /\ InFlight(AskCancel(a))' => a \in cancelled'
        <4>1. ASSUME InFlight(Begin(a))' PROVE status'[a] = "sent"
          <5>1. PICK i \in DOMAIN requests' : requests'[i] = Begin(a)
            BY <4>1 DEF InFlight
          <5>2. i \in DOMAIN requests /\ requests[i] = Begin(a)
            BY <3>3, <3>5, <5>1
          <5> QED
            BY <1>1, <1>2, <5>2 DEF LinesMeet, InFlight
        <4>2. ASSUME InFlight(AskCancel(a))' PROVE a \in cancelled'
          <5>1. PICK i \in DOMAIN requests' : requests'[i] = AskCancel(a)
            BY <4>2 DEF InFlight
          <5>2. CASE i \in DOMAIN requests /\ requests[i] = AskCancel(a)
            BY <1>1, <3>4, <5>2 DEF LinesMeet, InFlight
          <5>3. CASE \E b \in asking : requests'[i] = AskCancel(b)
            BY <3>4, <3>5, <5>1, <5>3
          <5> QED
            BY <3>3, <3>5, <5>1, <5>2, <5>3
        <4> QED
          BY <4>1, <4>2
      <3>7. ASSUME NEW i \in DOMAIN requests', requests'[i].type = "AskCancel"
            PROVE  requests'[i].call \in Asks
        BY <1>1, <3>3, <3>4, <3>5, <3>7 DEF LinesMeet
      <3>8. LinesMeet'
        BY <1>2, <3>6, <3>7 DEF LinesMeet
      <3>9. ASSUME requests # <<>>
            PROVE  requests' # <<>> /\ Head(requests') = Head(requests)
        <4>1. Len(requests) = m /\ m > 0
          BY <3>1, <3>2, <3>9, LenProperties, EmptySeq
        <4>2. 1 \in DOMAIN requests' /\ requests'[1] = requests[1]
          BY <3>1, <4>1
        <4>3. requests' # <<>>
          BY <4>2
        <4> QED
          BY <3>2, <3>9, <4>2, <4>3, HeadTailProperties
      <3> QED
        BY <3>8, <3>9
    <2> QED
      BY <2>1, <2>2 DEF SessionCloses, Close
  <1>6. HandsMeet' /\ TablesMeet' /\ LossesMeet'
    BY <1>2, <1>3, <1>4, <1>5, AgentMovesKeep DEF AgentMoves, LinesAreLost
  <1>7. SocketsMeet'
    <2>1. pc[Conn] \notin {"absent", "greeting"}
      BY <1>1, <1>2 DEF SocketsMeet
    <2> QED
      BY <1>1, <1>2, <2>1 DEF SocketsMeet
  <1>8. CallsMeet'
    <2>1. ASSUME NEW a \in Asks PROVE AskMeets(a)'
      BY <1>1, <1>2, AskFacts DEF CallsMeet, AskMeets, AskingAreWaiting
    <2>2. ASSUME NEW k \in Calls
          PROVE  /\ task'[k] # "done" => outcome'[k] = "none"
                 /\ outcome'[k] = "answer" => future'[k] = "result"
                 /\ outcome'[k] = "directive" => future'[k] = "error"
                 /\ outcome'[k] = "cancelled" => future'[k] # "unresolved"
      BY <1>1, <1>2 DEF CallsMeet
    <2> QED
      BY <2>1, <2>2 DEF CallsMeet
  <1>9. NewsMeet'
    BY <1>1, <1>2, AskFacts DEF NewsMeet, NewsOf, Answered
  <1> QED
    BY <1>4, <1>5, <1>6, <1>7, <1>8, <1>9

\* A killed process leaves everything as it was but its end of the socket.
LEMMA KilledKeepsInvariant ==
  ASSUME SessionInvariant, Killed
  PROVE  SessionTyped' /\ SocketsMeet' /\ HandsMeet' /\ TablesMeet' /\ LinesMeet'
         /\ CallsMeet' /\ NewsMeet' /\ LossesMeet'
  <1>1. SessionTyped /\ SocketsMeet /\ LinesMeet /\ CallsMeet /\ NewsMeet
    BY DEF SessionInvariant
  <1>2. /\ UNCHANGED <<phase, task, future, outcome, pending, asking, reader>>
        /\ UNCHANGED <<socket, requests, answers, open>>
        /\ UNCHANGED <<held, greeting, pc, work, status, timer, cancelled>>
        /\ peer[Conn] = "open" /\ ~alive' /\ alive' \in BOOLEAN
        /\ peer' = [peer EXCEPT ![Conn] = "closed"]
    BY DEF Killed, clientVars, callVars, tableVars, socketVars
  <1>3. peer' \in [{Conn} -> {"open", "closed", "reset"}] /\ peer'[Conn] = "closed"
    BY <1>1, <1>2 DEF SessionTyped
  <1>4. SessionTyped'
    BY <1>1, <1>2, <1>3 DEF SessionTyped
  <1>5. HandsMeet' /\ TablesMeet' /\ LossesMeet'
    BY <1>2, <1>3, <1>4, AgentMovesKeep DEF AgentMoves, LinesAreLost
  <1>6. SocketsMeet' /\ LinesMeet' /\ CallsMeet' /\ NewsMeet'
    BY <1>1, <1>2
       DEF SocketsMeet, LinesMeet, CallsMeet, AskMeets, NewsMeet, NewsOf, InFlight, Answered
  <1> QED
    BY <1>4, <1>5, <1>6

-----------------------------------------------------------------------------
(* The invariant, and what it makes of the two ends. *)

\* At the start nothing has been sent or read.
LEMMA SessionStarts == SessionInit => SessionInvariant
  <1> SUFFICES ASSUME SessionInit PROVE SessionInvariant
    OBVIOUS
  <1>1. Init
    BY DEF SessionInit
  <1>2. ClientSide
    <2>1. WaitingCallIsInTable /\ RefusalsAreOfHello /\ FailedByLoss /\ DisconnectIsReal
      BY <1>1
         DEF Init, WaitingCallIsInTable, RefusalsAreOfHello, FailedByLoss, DisconnectIsReal, Calls
    <2> QED
      BY <1>1, <2>1, InitTyped, InitHasClientInvariant DEF ClientSide
  <1>3. /\ task = [k \in Calls |-> "idle"] /\ future = [k \in Calls |-> "none"]
        /\ outcome = [k \in Calls |-> "none"]
        /\ pending = {} /\ open = {} /\ phase = "connecting" /\ socket = "up" /\ reader = "reading"
        /\ requests = <<>> /\ DOMAIN requests = {} /\ answers = <<>> /\ DOMAIN answers = {}
        /\ Asks \subseteq Calls /\ Hello \in Calls
    BY <1>1 DEF Init, Calls, Tools
  <1>4. /\ alive = TRUE /\ held = 0 /\ cancelled = {}
        /\ pc = [c \in {Conn} |-> "absent"] /\ work = [c \in {Conn} |-> {}]
        /\ peer = [c \in {Conn} |-> "open"]
        /\ status = [a \in Asks |-> "unasked"] /\ timer = [a \in Asks |-> "none"]
        /\ greeting \in {"Hello", "OldHello"}
    BY DEF SessionInit
  <1>5. SessionTyped
    BY <1>4 DEF SessionTyped, Server!HandlerState, Server!AskStatus, Server!TimerState
  <1>6. SocketsMeet /\ HandsMeet /\ TablesMeet /\ LossesMeet
    BY <1>3, <1>4 DEF SocketsMeet, HandsMeet, TablesMeet, LossesMeet, Server!Pending
  <1>7. LinesMeet /\ CallsMeet /\ NewsMeet
    BY <1>3, <1>4 DEF LinesMeet, CallsMeet, AskMeets, NewsMeet, NewsOf, InFlight, Answered
  <1> QED
    BY <1>2, <1>5, <1>6, <1>7 DEF SessionInvariant

\* What the client's module keeps on its own, the session's client keeps.
LEMMA ClientSideKept ==
  ASSUME ClientSide, [Next]_vars
  PROVE  ClientSide'
  BY StepTyped, StepKeepsTable, StepKeepsClientInvariant, StepRefusesHelloOnly,
     StepFailsByLossOnly DEF ClientSide, ClientInvariant

\* Every step of the session is a step of the client's module, or nothing to it: the daemon
\* at the other end does what that module has a daemon do.
LEMMA SessionStepsClient ==
  ASSUME SessionInvariant, [SessionNext]_sessionVars
  PROVE  [Next]_vars
  <1>1. CASE ClientEnd
    BY <1>1, ClientEndSteps
  <1>2. CASE HandlerEnd \/ (\E a \in Asks : Deadline(a)) \/ UserReplies \/ Elsewhere
    BY <1>2, DaemonStepMoves DEF Next
  <1>3. CASE UNCHANGED sessionVars
    BY <1>3 DEF sessionVars, clientVars, socketVars, vars, callVars, tableVars, daemonVars
  <1> QED
    BY <1>1, <1>2, <1>3 DEF SessionNext

\* Every step keeps the invariant.
LEMMA SessionStepKeepsInvariant ==
  SessionInvariant /\ [SessionNext]_sessionVars => SessionInvariant'
  <1> SUFFICES ASSUME SessionInvariant, [SessionNext]_sessionVars PROVE SessionInvariant'
    OBVIOUS
  <1>1. ClientSide'
    BY SessionStepsClient, ClientSideKept DEF SessionInvariant
  <1>2. CASE ClientEnd
    <2>1. CASE Handshake \/ (\E a \in Asks : AskCalled(a))
               \/ \E k \in Notifies \cup Checks : OtherCalled(k)
      BY <1>1, <2>1, CallsKeepSession DEF SessionInvariant
    <2>2. ASSUME NEW k \in Calls, CallCancelled(k) \/ CallReturns(k) PROVE SessionInvariant'
      BY <1>1, <2>2, CallCancelledKeepsInvariant, CallReturnsKeepsInvariant DEF SessionInvariant
    <2>3. CASE SessionCloses \/ ClientReads \/ Killed
      BY <1>1, <2>3, SessionClosesKeepsInvariant, ClientReadsKeepsInvariant, KilledKeepsInvariant
         DEF SessionInvariant
    <2> QED
      BY <1>2, <2>1, <2>2, <2>3 DEF ClientEnd
  <1>3. CASE HandlerEnd \/ (\E a \in Asks : Deadline(a)) \/ UserReplies \/ Elsewhere
    BY <1>1, <1>3, DaemonStepMoves, DaemonMovesKeepInvariant
  <1>4. CASE UNCHANGED sessionVars
    <2>1. /\ UNCHANGED <<phase, task, future, outcome, pending, asking, reader>>
          /\ UNCHANGED <<socket, requests, answers, open, greeting, alive, held>>
          /\ UNCHANGED <<pc, work, peer, status, timer, cancelled>>
      BY <1>4 DEF sessionVars, clientVars, callVars, tableVars, socketVars, processVars, serverVars
    <2>2. SessionTyped' /\ SocketsMeet' /\ HandsMeet' /\ TablesMeet'
      BY <2>1 DEF SessionInvariant, SessionTyped, SocketsMeet, HandsMeet, TablesMeet, Server!Pending
    <2>3. LinesMeet' /\ CallsMeet' /\ NewsMeet' /\ LossesMeet'
      BY <2>1 DEF SessionInvariant, LinesMeet, CallsMeet, AskMeets, NewsMeet, NewsOf, LossesMeet,
                  LossHasCause, LinesAreLost, InFlight, Answered
    <2> QED
      BY <1>1, <2>2, <2>3 DEF SessionInvariant
  <1> QED
    BY <1>2, <1>3, <1>4 DEF SessionNext

\* In every reachable state of a session the two ends know the same.
THEOREM SessionInvariantHolds == SessionSpec => []SessionInvariant
  BY SessionStarts, SessionStepKeepsInvariant, PTL DEF SessionSpec

\* An answer of an agent is a reply or a timeout of its user's, whoever hears that the daemon
\* is gone was not answered unless its session ended, and contact is lost with a cause
\* (BothEndsAgree).
LEMMA InvariantAgrees == SessionInvariant => BothEndsAgree
  <1> SUFFICES ASSUME SessionInvariant, NEW a \in Asks
               PROVE  /\ outcome[a] = "answer" => status[a] \in {"replied", "timed_out"}
                      /\ status[a] = "withdrawn" => outcome[a] = "cancelled" \/ phase = "closed"
                      /\ outcome[a] = "directive" =>
                           status[a] \in {"sent", "lost"} \/ phase = "closed"
                      /\ status[a] = "lost" =>
                           ~alive \/ peer[Conn] = "reset" \/ held = 1 \/ LinesAreLost
    BY DEF BothEndsAgree
  <1>1. a \in Calls
    BY AskFacts
  <1>2. NewsOf(a) /\ CallsMeet /\ LossesMeet
    BY DEF SessionInvariant, NewsMeet
  <1> QED
    BY <1>1, <1>2 DEF NewsOf, CallsMeet, LossesMeet, LossHasCause

\* What the agent and the user hear of an ask agrees (BothEndsAgree).
THEOREM EndsAgree == SessionSpec => []BothEndsAgree
  BY SessionInvariantHolds, InvariantAgrees, PTL

\* The real daemon treats its client as DaemonClient assumes, and its client behaves as that
\* module says: the safety part of ImplementsClient.
THEOREM SessionImplementsClient == SessionSpec => Spec
  <1>1. SessionInit => Init
    BY DEF SessionInit
  <1>2. SessionInvariant /\ [SessionNext]_sessionVars => [Next]_vars
    BY SessionStepsClient
  <1> QED
    BY <1>1, <1>2, SessionInvariantHolds, PTL DEF SessionSpec, Spec

-----------------------------------------------------------------------------
(* The agent of the daemon's module. *)

\* The lines of requests written behind others stand behind the lines of those.
LEMMA LinesOfConcat ==
  ASSUME NEW version, NEW s \in Seq(Request), NEW t \in Seq(Request),
         NEW h \in {0, 1}, h = 1 => s # <<>>
  PROVE  LinesOf(version, s \o t, h) =
           LinesOf(version, s, h) \o [i \in 1..Len(t) |-> LineOf(version, t[i])]
  <1> DEFINE old == LinesOf(version, s, h)
             new == [i \in 1..Len(t) |-> LineOf(version, t[i])]
             all == LinesOf(version, s \o t, h)
             m == Len(s)
             n == Len(t)
             k == m - h
  <1>1. /\ s \o t \in Seq(Request) /\ Len(s \o t) = m + n
        /\ \A i \in 1..(m + n) : (s \o t)[i] = IF i <= m THEN s[i] ELSE t[i - m]
    BY ConcatProperties
  <1>2. m \in Nat /\ n \in Nat /\ k \in Nat /\ m = k + h
    BY LenProperties, EmptySeq
  <1>3. h = 1 => s \o t # <<>>
    BY <1>1, <1>2, EmptySeq
  <1>4. /\ old \in Seq(Decoded(version)) /\ Len(old) = k
        /\ \A i \in 1..k : old[i] = LineOf(version, s[h + i])
    BY LinesMean
  <1>5. /\ all \in Seq(Decoded(version)) /\ Len(all) = m + n - h
        /\ \A i \in 1..(m + n - h) : all[i] = LineOf(version, (s \o t)[h + i])
    <2>1. ASSUME NEW c \in Seq(Request), h = 1 => c # <<>>
          PROVE  /\ LinesOf(version, c, h) \in Seq(Decoded(version))
                 /\ Len(LinesOf(version, c, h)) = Len(c) - h
                 /\ \A i \in 1..(Len(c) - h) : LinesOf(version, c, h)[i] = LineOf(version, c[h + i])
      BY <2>1, LinesMean
    <2> DEFINE c == s \o t
    <2>2. c \in Seq(Request) /\ (h = 1 => c # <<>>) /\ Len(c) = m + n
      BY <1>1, <1>3
    <2> HIDE DEF c
    <2>3. /\ LinesOf(version, c, h) \in Seq(Decoded(version))
          /\ Len(LinesOf(version, c, h)) = Len(c) - h
          /\ \A i \in 1..(Len(c) - h) : LinesOf(version, c, h)[i] = LineOf(version, c[h + i])
      BY <2>1, <2>2
    <2> QED
      BY <2>2, <2>3 DEF c
  <1>6. /\ new \in Seq(Decoded(version)) /\ Len(new) = n
        /\ \A i \in 1..n : new[i] = LineOf(version, t[i])
    <2>1. \A i \in 1..n : t[i] \in Request
      BY <1>2, ElementOfSeq
    <2> QED
      BY <1>2, <2>1 DEF Decoded
  <1> HIDE DEF old, new, all, m, n, k
  <1>7. /\ old \o new \in Seq(Decoded(version)) /\ Len(old \o new) = k + n
        /\ \A i \in 1..(k + n) : (old \o new)[i] = IF i <= k THEN old[i] ELSE new[i - k]
    BY <1>4, <1>6, ConcatProperties
  <1>8. m + n - h = k + n
    BY <1>2
  <1>9. ASSUME NEW i \in 1..(k + n) PROVE all[i] = (old \o new)[i]
    <2>1. h + i \in 1..(m + n) /\ (h + i <= m <=> i <= k)
      BY <1>2
    <2>2. CASE i <= k
      <3>1. i \in 1..k
        BY <1>2, <2>2
      <3> QED
        BY <1>1, <1>4, <1>5, <1>7, <1>8, <2>1, <2>2, <3>1
    <2>3. CASE ~(i <= k)
      <3>1. (h + i) - m = i - k /\ i - k \in 1..n
        BY <1>2, <2>3
      <3>2. (s \o t)[h + i] = t[(h + i) - m]
        BY <1>1, <2>1, <2>3
      <3>3. (old \o new)[i] = new[i - k]
        BY <1>7, <2>3
      <3> QED
        BY <1>5, <1>6, <1>8, <3>1, <3>2, <3>3
    <2> QED
      BY <2>2, <2>3
  <1>10. all = old \o new
    BY <1>2, <1>5, <1>7, <1>8, <1>9, SeqEqual
  <1> QED
    BY <1>10 DEF all, old, new

\* So the daemon finds a new line behind those it has not read.
LEMMA LinesOfAppend ==
  ASSUME NEW version, NEW s \in Seq(Request), NEW r \in Request,
         NEW h \in {0, 1}, h = 1 => s # <<>>
  PROVE  LinesOf(version, Append(s, r), h) = Append(LinesOf(version, s, h), LineOf(version, r))
  <1> DEFINE line == LineOf(version, r)
             rest == [i \in 1..Len(<<r>>) |-> LineOf(version, <<r>>[i])]
  <1>1. <<r>> \in Seq(Request) /\ Len(<<r>>) = 1 /\ <<r>>[1] = r
    OBVIOUS
  <1>2. Append(s, r) = s \o <<r>>
    BY AppendIsConcat
  <1>3. LinesOf(version, s, h) \in Seq(Decoded(version)) /\ line \in Decoded(version)
    BY LinesMean DEF Decoded
  <1>4. LinesOf(version, s \o <<r>>, h) = LinesOf(version, s, h) \o rest
    BY <1>1, LinesOfConcat
  <1>5. rest = [i \in 1..1 |-> line]
    BY <1>1
  <1> HIDE DEF line, rest
  <1>6. [i \in 1..1 |-> line] = <<line>>
    OBVIOUS
  <1>7. Append(LinesOf(version, s, h), line) = LinesOf(version, s, h) \o <<line>>
    BY <1>3, AppendIsConcat
  <1> QED
    BY <1>2, <1>4, <1>5, <1>6, <1>7 DEF line

\* As long as the session lasts, the lines in flight are fewer than the bound of the daemon's
\* module: each call is begun once, and all but the handshake are withdrawn at most once.
LEMMA FewLines ==
  ASSUME SessionInvariant, phase # "closed"
  PROVE  Len(Lines) < 2 * Cardinality(Calls)
  <1>1. TypeOK /\ SessionTyped /\ HandsMeet /\ LinesMeet /\ LinesAreInOrder
    BY DEF SessionInvariant, ClientSide, ClientInvariant
  <1> DEFINE n == Len(requests)
             Kinds == {"Begin", "AskCancel"}
             Pairs == Calls \X Kinds
             Written == Pairs \ {<<Hello, "AskCancel">>}
             f == [i \in 1..n |-> <<requests[i].call, requests[i].type>>]
  <1>2. n \in Nat /\ DOMAIN requests = 1..n /\ \A i \in 1..n : requests[i] \in Request
    BY <1>1, LenProperties, ElementOfSeq DEF TypeOK
  <1>3. ASSUME NEW i \in 1..n
        PROVE  /\ \/ requests[i] = Begin(requests[i].call) /\ requests[i].type = "Begin"
                  \/ /\ requests[i] = AskCancel(requests[i].call) /\ requests[i].type = "AskCancel"
                     /\ requests[i].call \in Asks
               /\ requests[i].call \in Calls
    <2>1. requests[i] # Bye
      BY <1>1, <1>2 DEF LinesAreInOrder
    <2>2. requests[i].type = "AskCancel" => requests[i].call \in Asks
      BY <1>1, <1>2 DEF LinesMeet
    <2> QED
      BY <1>2, <2>1, <2>2, RequestShapes
  <1>4. \A i \in 1..n : <<requests[i].call, requests[i].type>> \in Written
    <2>1. Hello \notin Asks
      BY CallsAreDistinct DEF Tools
    <2> QED
      BY <1>3, <2>1
  <1>5. ASSUME NEW i \in 1..n, NEW j \in 1..n,
               requests[i].call = requests[j].call, requests[i].type = requests[j].type
        PROVE  i = j
    <2>1. requests[i] = requests[j]
      BY <1>3, <1>5
    <2> QED
      BY <1>1, <1>2, <2>1 DEF LinesMeet
  <1>6. IsFiniteSet(Calls) /\ Cardinality(Calls) \in Nat
    BY CallsAreFinite, FS_CardinalityType
  <1>7. IsFiniteSet(Kinds) /\ Cardinality(Kinds) = 2
    <2>1. IsFiniteSet({"Begin"}) /\ Cardinality({"Begin"}) = 1
      BY FS_Singleton
    <2>2. Kinds = {"Begin"} \cup {"AskCancel"} /\ "AskCancel" \notin {"Begin"}
      OBVIOUS
    <2> QED
      BY <2>1, <2>2, FS_AddElement
  <1>8. IsFiniteSet(Pairs) /\ Cardinality(Pairs) = Cardinality(Calls) * 2
    BY <1>6, <1>7, FS_Product
  <1>9. <<Hello, "AskCancel">> \in Pairs
    BY DEF Calls
  <1> HIDE DEF Pairs
  <1>10. IsFiniteSet(Written) /\ Cardinality(Written) = Cardinality(Calls) * 2 - 1
    BY <1>8, <1>9, FS_RemoveElement
  <1>11. f \in Injection(1..n, Written)
    <2>1. f \in [1..n -> Written]
      BY <1>4
    <2>2. \A i, j \in 1..n : f[i] = f[j] => i = j
      BY <1>5
    <2> HIDE DEF f, n, Written
    <2> QED
      BY <2>1, <2>2 DEF Injection, IsInjective
  <1>12. Cardinality(1..n) = n
    BY <1>2, FS_Interval
  <1> HIDE DEF f, n, Written
  <1>13. n <= Cardinality(Calls) * 2 - 1
    BY <1>10, <1>11, <1>12, FS_Injection
  <1>14. Len(Lines) = n - held /\ held \in {0, 1}
    <2>1. Lines = LinesOf(greeting, requests, held)
      BY DEF Lines, Unread, LinesOf
    <2> QED
      BY <1>1, <2>1, LinesMean DEF n, TypeOK, SessionTyped, HandsMeet
  <1> QED
    BY <1>2, <1>6, <1>13, <1>14

\* A line that the client writes arrives behind the unread ones.
LEMMA LineArrives ==
  ASSUME SessionInvariant, phase # "closed", NEW r \in Request,
         requests' = Append(requests, r), UNCHANGED <<held, greeting>>
  PROVE  Server!Write(Conn, LineOf(greeting, r))
  <1>1. requests \in Seq(Request) /\ held \in {0, 1} /\ (held = 1 => requests # <<>>)
    BY DEF SessionInvariant, ClientSide, TypeOK, SessionTyped, HandsMeet
  <1>2. Lines = LinesOf(greeting, requests, held) /\ Lines' = LinesOf(greeting, requests', held)
    BY DEF Lines, Unread, LinesOf
  <1>3. Lines' = Append(Lines, LineOf(greeting, r))
    BY <1>1, <1>2, LinesOfAppend
  <1>4. Len(Lines) < 2 * Cardinality(Calls)
    BY FewLines
  <1> HIDE DEF Lines
  <1> QED
    BY <1>3, <1>4 DEF Server!Write

\* The lines stay as they are while nothing is written or taken.
LEMMA LinesStay ==
  ASSUME UNCHANGED <<requests, held, greeting>>
  PROVE  Lines' = Lines
  BY DEF Lines, Unread

\* While the session lasts the daemon's module has its agent connected.
LEMMA ServedIsConnected ==
  ASSUME SessionInvariant, alive, phase = "serving", socket = "up"
  PROVE  Server!Connected(Conn)
  <1>1. SessionTyped /\ SocketsMeet
    BY DEF SessionInvariant
  <1>2. pc[Conn] \in Server!HandlerState /\ pc[Conn] \notin {"absent", "greeting", "closed"}
    BY <1>1 DEF SessionTyped, SocketsMeet
  <1>3. peer[Conn] = "open"
    BY <1>1 DEF SocketsMeet
  <1> QED
    BY <1>2, <1>3 DEF Server!Connected, Server!HandlerState

\* The handshake connects the agent, with the greeting of its protocol version.
LEMMA HandshakeConnects ==
  ASSUME SessionInvariant, Handshake
  PROVE  Server!Connect(Conn)
  <1>1. /\ Call(Hello) /\ pc' = [pc EXCEPT ![Conn] = "greeting"]
        /\ UNCHANGED <<held, greeting, clients, label, work, peer, status, tag, timer, reping,
                       threads, queues, cancelled, told, closings>>
    BY DEF Handshake, processVars
  <1>2. SessionTyped /\ SocketsMeet
    BY DEF SessionInvariant
  <1>3. pc[Conn] = "absent" /\ phase = "connecting" /\ requests' = Append(requests, Begin(Hello))
    BY <1>1, <1>2 DEF Call, SocketsMeet
  <1>4. Begin(Hello) \in Request /\ LineOf(greeting, Begin(Hello)) = [type |-> greeting]
    BY LinesOfRequests, RequestShapes DEF Calls
  <1>5. Server!Write(Conn, [type |-> greeting])
    BY <1>1, <1>3, <1>4, LineArrives
  <1>6. greeting \in {"Hello", "OldHello"}
    BY <1>2 DEF SessionTyped
  <1> QED
    BY <1>1, <1>3, <1>5, <1>6 DEF Server!Connect, Server!askVars, Server!inboxVars, Server!history

\* An ask of the client is one of the agent's; written to a socket that is gone it is nothing.
LEMMA AskCalledSends ==
  ASSUME SessionInvariant, NEW a \in Asks, AskCalled(a)
  PROVE  Server!SendAsk(a) \/ UNCHANGED Server!vars
  <1>1. /\ Call(a) /\ alive
        /\ UNCHANGED <<held, greeting, clients, label, pc, work, peer, tag, timer, reping,
                       threads, queues, cancelled, told, closings>>
    BY DEF AskCalled, processVars
  <1>2. task[a] = "idle" /\ phase = "serving"
    BY <1>1, AskFacts DEF Call
  <1>3. CASE socket = "up"
    <2>1. requests' = Append(requests, Begin(a)) /\ status' = [status EXCEPT ![a] = "sent"]
      BY <1>1, <1>3 DEF Call, AskCalled
    <2>2. status[a] = "unasked"
      BY <1>2 DEF SessionInvariant, CallsMeet, AskMeets
    <2>3. Begin(a) \in Request /\ LineOf(greeting, Begin(a)) = [type |-> "AskBegin", ask |-> a]
      BY LinesOfRequests, AskFacts
    <2>4. Server!Write(Conn, [type |-> "AskBegin", ask |-> a])
      BY <1>1, <1>2, <2>1, <2>3, LineArrives
    <2>5. Server!Connected(Conn)
      BY <1>1, <1>2, <1>3, ServedIsConnected
    <2> QED
      BY <1>1, <2>1, <2>2, <2>4, <2>5
         DEF Server!SendAsk, Server!connVars, Server!inboxVars, Server!history
  <1>4. CASE socket # "up"
    <2>1. UNCHANGED <<requests, status>>
      BY <1>1, <1>4 DEF Call, AskCalled
    <2>2. Lines' = Lines
      BY <1>1, <2>1, LinesStay
    <2> QED
      BY <1>1, <2>1, <2>2 DEF Server!vars, Server!connVars, Server!askVars, Server!inboxVars,
                               Server!agentVars, Server!history
  <1> QED
    BY <1>3, <1>4

\* So is every other line.
LEMMA OtherCalledSends ==
  ASSUME SessionInvariant, NEW k \in Notifies \cup Checks, OtherCalled(k)
  PROVE  Server!SendLine(Conn) \/ UNCHANGED Server!vars
  <1>1. /\ Call(k) /\ alive
        /\ UNCHANGED <<held, greeting, clients, label, pc, work, peer, status, tag, timer, reping,
                       threads, queues, cancelled, told, closings>>
    BY DEF OtherCalled, processVars, serverVars
  <1>2. k \in Calls /\ k # Hello
    BY CallsAreDistinct DEF Calls, Tools
  <1>3. phase = "serving"
    BY <1>1, <1>2 DEF Call
  <1>4. CASE socket = "up"
    <2>1. requests' = Append(requests, Begin(k))
      BY <1>1, <1>4 DEF Call
    <2>2. PICK type \in {"Notify", "CheckMessages"} : LineOf(greeting, Begin(k)) = [type |-> type]
      BY LinesOfRequests
    <2>3. Begin(k) \in Request
      BY <1>2, RequestShapes
    <2>4. Server!Write(Conn, [type |-> type])
      BY <1>1, <1>3, <2>1, <2>2, <2>3, LineArrives
    <2>5. Server!Connected(Conn)
      BY <1>1, <1>3, <1>4, ServedIsConnected
    <2> QED
      BY <1>1, <2>4, <2>5
         DEF Server!SendLine, Server!connVars, Server!askVars, Server!inboxVars, Server!history
  <1>5. CASE socket # "up"
    <2>1. UNCHANGED requests
      BY <1>1, <1>5 DEF Call
    <2>2. Lines' = Lines
      BY <1>1, <2>1, LinesStay
    <2> QED
      BY <1>1, <2>2 DEF Server!vars, Server!connVars, Server!askVars, Server!inboxVars,
                        Server!agentVars, Server!history
  <1> QED
    BY <1>4, <1>5

\* An ask is withdrawn once, after it was sent.
LEMMA CallCancelledSends ==
  ASSUME SessionInvariant, NEW k \in Calls, CallCancelled(k)
  PROVE  (\E a \in Asks : Server!SendCancel(a)) \/ UNCHANGED Server!vars
  <1>1. /\ Cancel(k) /\ alive
        /\ UNCHANGED <<held, greeting, clients, label, pc, work, peer, status, tag, timer, reping,
                       threads, queues, told, closings>>
        /\ cancelled' = cancelled \cup (IF socket = "up" THEN {k} \cap Asks ELSE {})
    BY DEF CallCancelled, processVars
  <1>2. task[k] = "waiting" /\ phase = "serving" /\ CallsMeet
    BY <1>1 DEF Cancel, SessionInvariant
  <1>3. CASE k \in Asks /\ socket = "up"
    <2>1. requests' = Append(requests, AskCancel(k)) /\ cancelled' = cancelled \cup {k}
      BY <1>1, <1>3 DEF Cancel
    <2>2. status[k] # "unasked" /\ k \notin cancelled
      BY <1>2, <1>3 DEF CallsMeet, AskMeets
    <2>3. AskCancel(k) \in Request /\ LineOf(greeting, AskCancel(k)) = [type |-> "AskCancel", ask |-> k]
      BY <1>3, LinesOfRequests, AskFacts
    <2>4. Server!Write(Conn, [type |-> "AskCancel", ask |-> k])
      BY <1>1, <1>2, <2>1, <2>3, LineArrives
    <2>5. Server!Connected(Conn)
      BY <1>1, <1>2, <1>3, ServedIsConnected
    <2>6. Server!SendCancel(k)
      BY <1>1, <1>3, <2>1, <2>2, <2>4, <2>5
         DEF Server!SendCancel, Server!connVars, Server!askVars, Server!inboxVars, Server!history
    <2> QED
      BY <1>3, <2>6
  <1>4. CASE ~(k \in Asks /\ socket = "up")
    <2>1. UNCHANGED <<requests, cancelled>>
      BY <1>1, <1>4 DEF Cancel
    <2>2. Lines' = Lines
      BY <1>1, <2>1, LinesStay
    <2> QED
      BY <1>1, <2>1, <2>2 DEF Server!vars, Server!connVars, Server!askVars, Server!inboxVars,
                               Server!agentVars, Server!history
  <1> QED
    BY <1>3, <1>4

\* A closing session withdraws every ask that its agent began and did not withdraw, as far as
\* the daemon can still have it, says Bye and closes its end of the socket.
LEMMA SessionClosesSends ==
  ASSUME SessionInvariant, SessionCloses
  PROVE  Server!Close(Conn) \/ UNCHANGED Server!vars
  <1>1. /\ phase = "serving" /\ alive
        /\ UNCHANGED <<held, greeting, clients, label, pc, work, status, tag, timer, reping,
                       threads, queues, told, closings>>
    BY DEF SessionCloses, Close, processVars
  <1>2. /\ TypeOK /\ CallsMeet /\ AskingAreWaiting
        /\ requests \in Seq(Request) /\ held \in {0, 1} /\ (held = 1 => requests # <<>>)
    BY DEF SessionInvariant, ClientSide, ClientInvariant, TypeOK, SessionTyped, HandsMeet
  <1>3. CASE socket = "up"
    <2>1. PICK order \in WithdrawalOrders :
            requests' = requests \o [i \in DOMAIN order |-> AskCancel(order[i])] \o <<Bye>>
      BY <1>3 DEF SessionCloses, Close
    <2>2. cancelled' = cancelled \cup asking /\ peer' = [peer EXCEPT ![Conn] = "closed"]
      BY <1>3 DEF SessionCloses
    <2> DEFINE W == [i \in DOMAIN order |-> AskCancel(order[i])]
               L == [i \in DOMAIN order |-> [type |-> "AskCancel", ask |-> order[i]]]
    <2>3. /\ W \in Seq(Request) /\ \A i \in DOMAIN order : order[i] \in asking
          /\ DOMAIN order = 1..Len(W)
      BY <1>2, WithdrawalsTyped
    <2>4. [i \in 1..Len(W) |-> LineOf(greeting, W[i])] = L
      <3>1. \A i \in DOMAIN order : LineOf(greeting, W[i]) = [type |-> "AskCancel", ask |-> order[i]]
        BY <1>2, <2>3, LinesOfRequests DEF TypeOK
      <3> QED
        BY <2>3, <3>1
    <2>5. LinesOf(greeting, requests \o W, held) = Lines \o L
      <3>1. Lines = LinesOf(greeting, requests, held)
        BY DEF Lines, Unread, LinesOf
      <3> HIDE DEF W, L, Lines
      <3>2. LinesOf(greeting, requests \o W, held)
              = LinesOf(greeting, requests, held) \o [i \in 1..Len(W) |-> LineOf(greeting, W[i])]
        BY <1>2, <2>3, LinesOfConcat
      <3> QED
        BY <2>4, <3>1, <3>2
    <2>6. Lines' = Append(Lines \o L, [type |-> "Bye"])
      <3>1. requests \o W \in Seq(Request) /\ (held = 1 => requests \o W # <<>>)
        BY <1>2, <2>3, ConcatProperties, LenProperties, EmptySeq
      <3>2. requests' = Append(requests \o W, Bye) /\ Bye \in Request
        <4>1. Bye \in Request
          BY RequestShapes
        <4> QED
          BY <2>1, <3>1, <4>1, AppendIsConcat
      <3>3. Lines' = LinesOf(greeting, requests', held)
        BY <1>1 DEF Lines, Unread, LinesOf
      <3>4. LineOf(greeting, Bye) = [type |-> "Bye"]
        BY LinesOfRequests
      <3> HIDE DEF W, L
      <3> DEFINE s == requests \o W
      <3>5. LinesOf(greeting, Append(s, Bye), held) = Append(LinesOf(greeting, s, held), [type |-> "Bye"])
        <4>1. s \in Seq(Request) /\ (held = 1 => s # <<>>)
          BY <3>1
        <4> HIDE DEF s
        <4> QED
          BY <1>2, <3>2, <3>4, <4>1, LinesOfAppend
      <3> QED
        BY <2>5, <3>2, <3>3, <3>5
    <2>7. Lines' = Lines \o Server!Farewell(order)
      <3> DEFINE S == Decoded(greeting) \cup {[type |-> "AskCancel", ask |-> a] : a \in Asks}
                        \cup {[type |-> "Bye"]}
      <3>1. Lines \in Seq(S) /\ L \in Seq(S) /\ [type |-> "Bye"] \in S
        <4>1. Lines = LinesOf(greeting, requests, held)
          BY DEF Lines, Unread, LinesOf
        <4>2. Lines \in Seq(Decoded(greeting))
          BY <1>2, <4>1, LinesMean
        <4>3. \A i \in 1..Len(W) : [type |-> "AskCancel", ask |-> order[i]] \in S
          BY <1>2, <2>3 DEF TypeOK
        <4>4. Len(W) \in Nat
          BY <2>3, LenProperties
        <4> HIDE DEF W, S, Lines
        <4>5. L \in Seq(S)
          BY <2>3, <4>3, <4>4
        <4>6. Decoded(greeting) \subseteq S
          BY DEF S
        <4>7. [type |-> "Bye"] \in S
          BY DEF S
        <4> QED
          BY <4>2, <4>5, <4>6, <4>7, SeqMonotonic
      <3> DEFINE bye == [type |-> "Bye"]
      <3> HIDE DEF S, L, Lines, bye
      <3>2. /\ L \o <<bye>> = Append(L, bye) /\ <<bye>> \in Seq(S) /\ bye \in S
            /\ Lines \o L \in Seq(S)
        BY <3>1, AppendIsConcat, ConcatProperties DEF bye
      <3>3. Append(Lines \o L, bye) = (Lines \o L) \o <<bye>>
        BY <3>2, AppendIsConcat
      <3>4. (Lines \o L) \o <<bye>> = Lines \o (L \o <<bye>>)
        BY <3>1, <3>2, ConcatAssociative
      <3>5. Server!Farewell(order) = Append(L, bye)
        BY DEF Server!Farewell, L, bye
      <3>6. Lines' = Append(Lines \o L, bye)
        BY <2>6 DEF bye
      <3> QED
        BY <3>2, <3>3, <3>4, <3>5, <3>6
    <2>8. Len(Lines) < 2 * Cardinality(Calls)
      BY <1>1, FewLines
    <2>9. asking \in SUBSET Server!Begun(Conn) /\ Server!InFlight(Conn) \subseteq asking
      <3>1. ASSUME NEW a \in asking PROVE a \in Server!Begun(Conn)
        <4>1. a \in Asks /\ task[a] = "waiting" /\ a \in Calls
          BY <1>2, AskFacts DEF AskingAreWaiting
        <4> QED
          BY <1>1, <1>2, <4>1 DEF CallsMeet, AskMeets, Server!Begun
      <3>2. ASSUME NEW a \in Server!InFlight(Conn) PROVE a \in asking
        BY <1>2, <1>3 DEF CallsMeet, AskMeets, AskingAreWaiting, Server!InFlight, Server!Begun
      <3> QED
        BY <3>1, <3>2
    <2>10. order \in Server!Orders(asking)
      BY DEF Server!Orders, WithdrawalOrders, Server!Cardinality, Cardinality
    <2>11. Server!Connected(Conn)
      BY <1>1, <1>3, ServedIsConnected
    <2>12. [c \in {Conn} |-> Lines]' =
             [[c \in {Conn} |-> Lines] EXCEPT ![Conn] = @ \o Server!Farewell(order)]
      BY <2>7
    <2>13. Len([c \in {Conn} |-> Lines][Conn]) < 2 * Cardinality(Calls)
      BY <2>8
    <2> HIDE DEF Lines
    <2> QED
      BY <1>1, <2>2, <2>9, <2>10, <2>11, <2>12, <2>13
         DEF Server!Close, Server!connVars, Server!askVars, Server!inboxVars, Server!history
  <1>4. CASE socket # "up"
    <2>1. UNCHANGED <<requests, cancelled, peer>>
      BY <1>4 DEF SessionCloses, Close
    <2>2. Lines' = Lines
      BY <1>1, <2>1, LinesStay
    <2> QED
      BY <1>1, <2>1, <2>2 DEF Server!vars, Server!connVars, Server!askVars, Server!inboxVars,
                               Server!agentVars, Server!history
  <1> QED
    BY <1>3, <1>4
\* A client that reads an answer or returns a call leaves the daemon's end as it was.
LEMMA ServerStays ==
  ASSUME UNCHANGED <<requests, held, greeting, serverVars>>
  PROVE  UNCHANGED Server!vars
  <1>1. Lines' = Lines
    BY LinesStay
  <1> QED
    BY <1>1 DEF serverVars, Server!vars, Server!connVars, Server!askVars, Server!inboxVars,
                Server!agentVars, Server!history

\* A process that is killed after it connected is a crash of the daemon's module.
LEMMA KilledCrashes ==
  ASSUME SessionInvariant, Killed
  PROVE  Server!Crash(Conn)
  <1>1. /\ peer[Conn] = "open" /\ pc[Conn] \notin {"absent", "closed"}
        /\ peer' = [peer EXCEPT ![Conn] = "closed"]
        /\ UNCHANGED <<requests, held, greeting, clients, label, pc, work, status, tag, timer,
                       reping, threads, queues, cancelled, told, closings>>
    BY DEF Killed, socketVars
  <1>2. pc[Conn] \in Server!Serving \cup {"greeting", "dropping"}
    BY <1>1 DEF SessionInvariant, SessionTyped, Server!HandlerState
  <1>3. Lines' = Lines
    BY <1>1, LinesStay
  <1> QED
    BY <1>1, <1>2, <1>3 DEF Server!Crash, Server!connVars, Server!askVars, Server!inboxVars,
                            Server!history

\* What the client's end does is what the daemon's module has an agent do, or nothing.
LEMMA ClientEndIsAgent ==
  ASSUME SessionInvariant, ClientEnd
  PROVE  Server!Agent \/ UNCHANGED Server!vars
  <1>1. CASE Handshake
    BY <1>1, HandshakeConnects DEF Server!Agent
  <1>2. CASE \E a \in Asks : AskCalled(a)
    BY <1>2, AskCalledSends DEF Server!Agent
  <1>3. CASE \E k \in Notifies \cup Checks : OtherCalled(k)
    BY <1>3, OtherCalledSends DEF Server!Agent
  <1>4. CASE \E k \in Calls : CallCancelled(k)
    BY <1>4, CallCancelledSends DEF Server!Agent
  <1>5. CASE \E k \in Calls : CallReturns(k)
    <2>1. UNCHANGED <<requests, held, greeting, serverVars>>
      BY <1>5 DEF CallReturns, Return, processVars, daemonVars
    <2> QED
      BY <2>1, ServerStays
  <1>6. CASE SessionCloses
    BY <1>6, SessionClosesSends DEF Server!Agent
  <1>7. CASE ClientReads
    <2>1. UNCHANGED <<requests, held, greeting, serverVars>>
      BY <1>7 DEF ClientReads, ReadLoop, ReadAnswer, ReadEof, ReadRaises, processVars, daemonVars
    <2> QED
      BY <2>1, ServerStays
  <1>8. CASE Killed
    BY <1>8, KilledCrashes DEF Server!Agent
  <1> QED
    BY <1>1, <1>2, <1>3, <1>4, <1>5, <1>6, <1>7, <1>8 DEF ClientEnd

\* Every step of the handler in a session is one of the handler in the daemon's module.
LEMMA HandlerEndIsHandler ==
  ASSUME HandlerEnd
  PROVE  Server!Handler(Conn)
  BY DEF HandlerEnd, GreetingRead, GreetingInVain, NotifyRead, NotifyAnswered, NotifyFails,
         AskRead, DmSent, CancelRead, CheckRead, CheckInVain, ByeRead, HandlerEnds,
         Server!Handler

\* Every step of a session is a step of the daemon's module, or none of the daemon's.
LEMMA SessionStepsServer ==
  ASSUME SessionInvariant, [SessionNext]_sessionVars
  PROVE  [Server!Next]_(Server!vars)
  <1>1. CASE ClientEnd
    BY <1>1, ClientEndIsAgent DEF Server!Next
  <1>2. CASE HandlerEnd
    BY <1>2, HandlerEndIsHandler DEF Server!Next
  <1>3. CASE \E a \in Asks : Deadline(a)
    BY <1>3 DEF Deadline, Server!Next, Server!AskTask
  <1>4. CASE UserReplies
    <2>1. \E m \in UserMessages : Server!UserAnswers("discord", m)
      BY <1>4 DEF UserReplies
    <2> QED
      BY <2>1 DEF Server!Next, Server!User
  <1>5. CASE Elsewhere
    BY <1>5 DEF Elsewhere, Server!Next, Server!AskTask, Server!User
  <1>6. CASE UNCHANGED sessionVars
    BY <1>6, ServerStays DEF sessionVars, socketVars, processVars
  <1> QED
    BY <1>1, <1>2, <1>3, <1>4, <1>5, <1>6 DEF SessionNext

\* A session begins with a daemon that has just started.
LEMMA SessionStartsServer == SessionInit => Server!Init
  <1> SUFFICES ASSUME SessionInit PROVE Server!Init
    OBVIOUS
  <1>1. requests = <<>> /\ held = 0
    BY DEF SessionInit, Init
  <1>2. TypeOK
    BY SessionStarts DEF SessionInvariant, ClientSide
  <1>3. Lines = <<>>
    BY <1>1, <1>2, NothingToRead
  <1> HIDE DEF Lines
  <1> QED
    BY <1>3 DEF SessionInit, Server!Init

\* The client's end keeps the promises that ConferDaemon asks of an agent, and the steps of the
\* session are steps of the daemon: what is proved of the daemon holds in every session with
\* the real client.
THEOREM SessionImplementsDaemon == SessionSpec => ImplementsDaemon
  <1>1. SessionInvariant /\ [SessionNext]_sessionVars => [Server!Next]_(Server!vars)
    BY SessionStepsServer
  <1> QED
    BY <1>1, SessionStartsServer, SessionInvariantHolds, PTL
       DEF SessionSpec, ImplementsDaemon, Server!Spec

-----------------------------------------------------------------------------
(* What is proved of the two modules, of a session.  The theorems of         *)
(* ConferDaemonProofs are those of an instance: it writes the same formulas  *)
(* as the one in AgentSession, which the lemmas below say operator by        *)
(* operator.                                                                 *)

Proved == INSTANCE ConferDaemonProofs WITH
  Conns <- {Conn}, Labels <- {Label},
  Owner <- [a \in Asks |-> Conn],
  Preferred <- [c \in {Conn} |-> Label], Candidates <- [c \in {Conn} |-> {}],
  AgentLines <- {"Notify", "CheckMessages"}, MaxInbox <- 2 * Cardinality(Calls),
  inbox <- [c \in {Conn} |-> Lines]

\* The handler of a connection.
LEMMA SameHandler ==
  Server!Handler(Conn) <=> Proved!Handler(Conn)
  <1>1. Server!HandleHello(Conn) <=> Proved!HandleHello(Conn)
    BY DEF Server!HandleHello, Server!askVars, Server!inboxVars, Server!history,
           Server!Registered, Server!AssignableLabels, Server!Receive, Proved!HandleHello,
           Proved!askVars, Proved!inboxVars, Proved!history, Proved!Registered,
           Proved!AssignableLabels, Proved!Receive
  <1>2. Server!HandleOldHello(Conn) <=> Proved!HandleOldHello(Conn)
    BY DEF Server!HandleOldHello, Server!askVars, Server!inboxVars, Server!history,
           Server!Receive, Proved!HandleOldHello, Proved!askVars, Proved!inboxVars,
           Proved!history, Proved!Receive
  <1>3. Server!HandleNotify(Conn) <=> Proved!HandleNotify(Conn)
    BY DEF Server!HandleNotify, Server!askVars, Server!history, Server!Pending,
           Server!NotifyTags, Server!ActiveTags, Server!FreeTags, Server!RememberThread,
           Server!Receive, Proved!HandleNotify, Proved!askVars, Proved!history, Proved!Pending,
           Proved!NotifyTags, Proved!ActiveTags, Proved!FreeTags, Proved!RememberThread,
           Proved!Receive
  <1>4. Server!HandleAskBegin(Conn) <=> Proved!HandleAskBegin(Conn)
    BY DEF Server!HandleAskBegin, Server!inboxVars, Server!history, Server!Pending,
           Server!NotifyTags, Server!ActiveTags, Server!FreeTags, Server!Settle, Server!Receive,
           Proved!HandleAskBegin, Proved!inboxVars, Proved!history, Proved!Pending,
           Proved!NotifyTags, Proved!ActiveTags, Proved!FreeTags, Proved!Settle, Proved!Receive
  <1>5. Server!HandleAskCancel(Conn) <=> Proved!HandleAskCancel(Conn)
    BY DEF Server!HandleAskCancel, Server!inboxVars, Server!Pending, Server!Cancelled,
           Server!CancelAskTasks, Server!Settle, Server!ClosingDm, Server!Receive,
           Server!Withdraw, Proved!HandleAskCancel, Proved!inboxVars, Proved!Pending,
           Proved!Cancelled, Proved!CancelAskTasks, Proved!Settle, Proved!ClosingDm,
           Proved!Receive, Proved!Withdraw
  <1>6. Server!HandleCheckMessages(Conn) <=> Proved!HandleCheckMessages(Conn)
    BY DEF Server!HandleCheckMessages, Server!Pending, Server!Cancelled, Server!CancelAskTasks,
           Server!Settle, Server!ClosingDm, Server!Receive, Server!DropNext, Server!Teardown,
           Proved!HandleCheckMessages, Proved!Pending, Proved!Cancelled, Proved!CancelAskTasks,
           Proved!Settle, Proved!ClosingDm, Proved!Receive, Proved!DropNext, Proved!Teardown
  <1>7. Server!HandleBye(Conn) <=> Proved!HandleBye(Conn)
    BY DEF Server!HandleBye, Server!Pending, Server!Cancelled, Server!CancelAskTasks,
           Server!Settle, Server!ClosingDm, Server!Receive, Server!DropNext, Server!Teardown,
           Proved!HandleBye, Proved!Pending, Proved!Cancelled, Proved!CancelAskTasks,
           Proved!Settle, Proved!ClosingDm, Proved!Receive, Proved!DropNext, Proved!Teardown
  <1>8. Server!HandleEof(Conn) <=> Proved!HandleEof(Conn)
    BY DEF Server!HandleEof, Server!agentVars, Server!Pending, Server!Cancelled,
           Server!CancelAskTasks, Server!Settle, Server!ClosingDm, Server!DropNext,
           Server!Teardown, Server!AgentGone, Proved!HandleEof, Proved!agentVars,
           Proved!Pending, Proved!Cancelled, Proved!CancelAskTasks, Proved!Settle,
           Proved!ClosingDm, Proved!DropNext, Proved!Teardown, Proved!AgentGone
  <1>9. Server!HandleEofBeforeHello(Conn) <=> Proved!HandleEofBeforeHello(Conn)
    BY DEF Server!HandleEofBeforeHello, Server!askVars, Server!inboxVars, Server!agentVars,
           Server!history, Server!AgentGone, Proved!HandleEofBeforeHello, Proved!askVars,
           Proved!inboxVars, Proved!agentVars, Proved!history, Proved!AgentGone
  <1>10. Server!NotifyDone(Conn) <=> Proved!NotifyDone(Conn)
    BY DEF Server!NotifyDone, Server!askVars, Server!inboxVars, Server!agentVars,
           Server!history, Proved!NotifyDone, Proved!askVars, Proved!inboxVars,
           Proved!agentVars, Proved!history
  <1>11. Server!NotifyRaises(Conn) <=> Proved!NotifyRaises(Conn)
    BY DEF Server!NotifyRaises, Server!agentVars, Server!Pending, Server!Cancelled,
           Server!CancelAskTasks, Server!Settle, Server!ClosingDm, Server!DropNext,
           Server!Teardown, Proved!NotifyRaises, Proved!agentVars, Proved!Pending,
           Proved!Cancelled, Proved!CancelAskTasks, Proved!Settle, Proved!ClosingDm,
           Proved!DropNext, Proved!Teardown
  <1>12. Server!QuestionSent(Conn) <=> Proved!QuestionSent(Conn)
    BY DEF Server!QuestionSent, Server!inboxVars, Server!agentVars, Server!history,
           Proved!QuestionSent, Proved!inboxVars, Proved!agentVars, Proved!history
  <1>13. Server!WithdrawalSent(Conn) <=> Proved!WithdrawalSent(Conn)
    BY DEF Server!WithdrawalSent, Server!askVars, Server!inboxVars, Server!agentVars,
           Server!history, Proved!WithdrawalSent, Proved!askVars, Proved!inboxVars,
           Proved!agentVars, Proved!history
  <1>14. Server!LostContactSent(Conn) <=> Proved!LostContactSent(Conn)
    BY DEF Server!LostContactSent, Server!agentVars, Server!Cancelled, Server!CancelAskTasks,
           Server!Settle, Server!ClosingDm, Server!DropNext, Proved!LostContactSent,
           Proved!agentVars, Proved!Cancelled, Proved!CancelAskTasks, Proved!Settle,
           Proved!ClosingDm, Proved!DropNext
  <1> QED
    BY <1>1, <1>2, <1>3, <1>4, <1>5, <1>6, <1>7, <1>8, <1>9, <1>10, <1>11, <1>12, <1>13, <1>14
       DEF Server!Handler, Proved!Handler

\* The tasks of an ask.
LEMMA SameAskTasks ==
  ASSUME NEW a \in Asks
  PROVE  Server!AskTask(a) <=> Proved!AskTask(a)
  <1>1. Server!TimeoutFires(a) <=> Proved!TimeoutFires(a)
    BY DEF Server!TimeoutFires, Server!connVars, Server!inboxVars, Server!Pending,
           Server!AfterWriteTo, Server!Received, Server!Cancelled, Server!Settle,
           Server!ClosingDm, Server!Expire, Proved!TimeoutFires, Proved!connVars,
           Proved!inboxVars, Proved!Pending, Proved!AfterWriteTo, Proved!Received,
           Proved!Cancelled, Proved!Settle, Proved!ClosingDm, Proved!Expire
  <1>2. Server!TimeoutDmSent(a) <=> Proved!TimeoutDmSent(a)
    BY DEF Server!TimeoutDmSent, Server!connVars, Server!inboxVars, Server!agentVars,
           Server!history, Proved!TimeoutDmSent, Proved!connVars, Proved!inboxVars,
           Proved!agentVars, Proved!history
  <1>3. Server!RePing(a) <=> Proved!RePing(a)
    BY DEF Server!RePing, Server!connVars, Server!inboxVars, Server!agentVars, Server!history,
           Proved!RePing, Proved!connVars, Proved!inboxVars, Proved!agentVars, Proved!history
  <1>4. Server!SkipRePing(a) <=> Proved!SkipRePing(a)
    BY DEF Server!SkipRePing, Server!connVars, Server!inboxVars, Server!agentVars,
           Server!history, Proved!SkipRePing, Proved!connVars, Proved!inboxVars,
           Proved!agentVars, Proved!history
  <1>5. Server!RePingSent(a) <=> Proved!RePingSent(a)
    BY DEF Server!RePingSent, Server!connVars, Server!inboxVars, Server!agentVars,
           Server!history, Proved!RePingSent, Proved!connVars, Proved!inboxVars,
           Proved!agentVars, Proved!history
  <1> QED
    BY <1>1, <1>2, <1>3, <1>4, <1>5
       DEF Server!AskTask, Proved!AskTask

\* The messages of the user.
LEMMA SameUser == Server!User <=> Proved!User
  <1>1. ASSUME NEW m, NEW source
        PROVE  Server!UserAnswers(source, m) <=> Proved!UserAnswers(source, m)
    BY DEF Server!UserAnswers, Server!AskThread, Server!NotifyThread, Server!DeliverAsk,
           Server!EnqueueNotifyReply, Server!Untargeted, Server!RouteToThread,
           Server!PrefixMatches, Server!ExactMatches, Server!Single, Server!TheOne,
           Server!RouteUntagged, Server!RouteTagged, Server!RouteUserMessage, Server!connVars,
           Server!inboxVars, Server!Pending, Server!Registered, Server!NotifyTags,
           Server!AfterWriteTo, Server!Received, Server!Cancelled, Server!CancelAskTasks,
           Server!Settle, Server!ClosingDm, Server!AskThreads, Server!NotifyThreads,
           Server!Route, Server!DeliverReply, Proved!UserAnswers, Proved!AskThread,
           Proved!NotifyThread, Proved!DeliverAsk, Proved!EnqueueNotifyReply, Proved!Untargeted,
           Proved!RouteToThread, Proved!PrefixMatches, Proved!ExactMatches, Proved!Single,
           Proved!TheOne, Proved!RouteUntagged, Proved!RouteTagged, Proved!RouteUserMessage,
           Proved!connVars, Proved!inboxVars, Proved!Pending, Proved!Registered,
           Proved!NotifyTags, Proved!AfterWriteTo, Proved!Received, Proved!Cancelled,
           Proved!CancelAskTasks, Proved!Settle, Proved!ClosingDm, Proved!AskThreads,
           Proved!NotifyThreads, Proved!Route, Proved!DeliverReply
  <1>2. ASSUME NEW m
        PROVE  Server!UserRepliesToNotify(m) <=> Proved!UserRepliesToNotify(m)
    BY DEF Server!UserRepliesToNotify, Server!AskThread, Server!NotifyThread, Server!DeliverAsk,
           Server!EnqueueNotifyReply, Server!Untargeted, Server!RouteToThread,
           Server!PrefixMatches, Server!ExactMatches, Server!Single, Server!TheOne,
           Server!RouteUntagged, Server!RouteTagged, Server!RouteUserMessage, Server!connVars,
           Server!askVars, Server!agentVars, Server!history, Server!Pending, Server!Registered,
           Server!NotifyTags, Server!Enqueued, Server!AskThreads, Server!NotifyThreads,
           Server!Route, Server!ThreadOwner, Proved!UserRepliesToNotify, Proved!AskThread,
           Proved!NotifyThread, Proved!DeliverAsk, Proved!EnqueueNotifyReply, Proved!Untargeted,
           Proved!RouteToThread, Proved!PrefixMatches, Proved!ExactMatches, Proved!Single,
           Proved!TheOne, Proved!RouteUntagged, Proved!RouteTagged, Proved!RouteUserMessage,
           Proved!connVars, Proved!askVars, Proved!agentVars, Proved!history, Proved!Pending,
           Proved!Registered, Proved!NotifyTags, Proved!Enqueued, Proved!AskThreads,
           Proved!NotifyThreads, Proved!Route, Proved!ThreadOwner
  <1>3. ASSUME NEW m
        PROVE  Server!UserBroadcasts(m) <=> Proved!UserBroadcasts(m)
    BY DEF Server!UserBroadcasts, Server!AskThread, Server!NotifyThread, Server!DeliverAsk,
           Server!EnqueueNotifyReply, Server!Untargeted, Server!RouteToThread,
           Server!PrefixMatches, Server!ExactMatches, Server!Single, Server!TheOne,
           Server!RouteUntagged, Server!RouteTagged, Server!RouteUserMessage, Server!connVars,
           Server!askVars, Server!agentVars, Server!history, Server!Pending, Server!Registered,
           Server!NotifyTags, Server!Enqueued, Server!AskThreads, Server!NotifyThreads,
           Server!Route, Proved!UserBroadcasts, Proved!AskThread, Proved!NotifyThread,
           Proved!DeliverAsk, Proved!EnqueueNotifyReply, Proved!Untargeted,
           Proved!RouteToThread, Proved!PrefixMatches, Proved!ExactMatches, Proved!Single,
           Proved!TheOne, Proved!RouteUntagged, Proved!RouteTagged, Proved!RouteUserMessage,
           Proved!connVars, Proved!askVars, Proved!agentVars, Proved!history, Proved!Pending,
           Proved!Registered, Proved!NotifyTags, Proved!Enqueued, Proved!AskThreads,
           Proved!NotifyThreads, Proved!Route
  <1> QED
    BY <1>1, <1>2, <1>3 DEF Server!User, Proved!User

\* The agent.
LEMMA SameAgent == Server!Agent <=> Proved!Agent
  <1>1. Server!Connect(Conn) <=> Proved!Connect(Conn)
    BY DEF Server!Connect, Server!askVars, Server!inboxVars, Server!history, Server!Write,
           Proved!Connect, Proved!askVars, Proved!inboxVars, Proved!history, Proved!Write
  <1>2. Server!SendLine(Conn) <=> Proved!SendLine(Conn)
    BY DEF Server!SendLine, Server!connVars, Server!askVars, Server!inboxVars, Server!history,
           Server!Serving, Server!Write, Server!Connected, Proved!SendLine, Proved!connVars,
           Proved!askVars, Proved!inboxVars, Proved!history, Proved!Serving, Proved!Write,
           Proved!Connected
  <1>3. Server!Close(Conn) <=> Proved!Close(Conn)
    BY DEF Server!Close, Server!connVars, Server!askVars, Server!inboxVars, Server!history,
           Server!Serving, Server!Connected, Server!Begun, Server!InFlight, Server!Orders,
           Server!Farewell, Proved!Close, Proved!connVars, Proved!askVars, Proved!inboxVars,
           Proved!history, Proved!Serving, Proved!Connected, Proved!Begun, Proved!InFlight,
           Proved!Orders, Proved!Farewell, Server!Cardinality, Proved!Cardinality
  <1>4. Server!Crash(Conn) <=> Proved!Crash(Conn)
    BY DEF Server!Crash, Server!connVars, Server!askVars, Server!inboxVars, Server!history,
           Server!Serving, Proved!Crash, Proved!connVars, Proved!askVars, Proved!inboxVars,
           Proved!history, Proved!Serving
  <1>5. ASSUME NEW a \in Asks
        PROVE  Server!SendAsk(a) <=> Proved!SendAsk(a)
    BY DEF Server!SendAsk, Server!connVars, Server!inboxVars, Server!history, Server!Serving,
           Server!Write, Server!Connected, Proved!SendAsk, Proved!connVars, Proved!inboxVars,
           Proved!history, Proved!Serving, Proved!Write, Proved!Connected
  <1>6. ASSUME NEW a \in Asks
        PROVE  Server!SendCancel(a) <=> Proved!SendCancel(a)
    BY DEF Server!SendCancel, Server!connVars, Server!askVars, Server!inboxVars, Server!history,
           Server!Serving, Server!Write, Server!Connected, Proved!SendCancel, Proved!connVars,
           Proved!askVars, Proved!inboxVars, Proved!history, Proved!Serving, Proved!Write,
           Proved!Connected
  <1> QED
    BY <1>1, <1>2, <1>3, <1>4, <1>5, <1>6 DEF Server!Agent, Proved!Agent

\* The two instances begin alike.
LEMMA SameStart == Server!Init <=> Proved!Init
  BY DEF Server!Init, Proved!Init

\* So a behaviour of the one is a behaviour of the other.
LEMMA SameSpec == Server!Spec => Proved!Spec
  <1>1. Server!Next <=> Proved!Next
    BY SameHandler, SameAskTasks, SameUser, SameAgent DEF Server!Next, Proved!Next
  <1>2. [Server!Next]_(Server!vars) => [Proved!Next]_(Proved!vars)
    <2>1. UNCHANGED Server!vars => UNCHANGED Proved!vars
      BY DEF Server!vars, Server!connVars, Server!askVars, Server!inboxVars, Server!agentVars,
             Server!history, Proved!vars, Proved!connVars, Proved!askVars, Proved!inboxVars,
             Proved!agentVars, Proved!history
    <2> QED
      BY <1>1, <2>1
  <1>3. Server!Init => Proved!Init
    BY SameStart
  <1> QED
    BY <1>2, <1>3, PTL DEF Server!Spec, Proved!Spec

\* What ConferDaemon promises of asks is the same formula in both.
LEMMA SamePromises ==
  /\ Proved!AnsweredAtMostOnce => Server!AnsweredAtMostOnce
  /\ Proved!PendingAskCanTimeOut => Server!PendingAskCanTimeOut
  /\ Proved!PendingAskHasAgent => Server!PendingAskHasAgent
  /\ Proved!ClosingDmTellsOutcome => Server!ClosingDmTellsOutcome
  <1>1. Proved!AnsweredAtMostOnce => Server!AnsweredAtMostOnce
    BY DEF Server!AnsweredAtMostOnce, Proved!AnsweredAtMostOnce
  <1>2. Proved!PendingAskCanTimeOut => Server!PendingAskCanTimeOut
    BY DEF Server!PendingAskCanTimeOut, Server!Pending, Proved!PendingAskCanTimeOut,
           Proved!Pending
  <1>3. Proved!PendingAskHasAgent => Server!PendingAskHasAgent
    BY DEF Server!PendingAskHasAgent, Server!Serving, Server!Pending, Proved!PendingAskHasAgent,
           Proved!Serving, Proved!Pending
  <1>4. Proved!ClosingDmTellsOutcome => Server!ClosingDmTellsOutcome
    BY DEF Server!ClosingDmTellsOutcome, Server!Settled, Server!ReasonOf,
           Proved!ClosingDmTellsOutcome, Proved!Settled, Proved!ReasonOf
  <1> QED
    BY <1>1, <1>2, <1>3, <1>4

\* The constants of a session meet what ConferDaemon assumes of its own.
LEMMA DaemonAssumptions ==
  /\ Proved!IsFiniteSet(Asks)
  /\ NoConn \notin {Conn} /\ NoTag \notin Tags /\ NoLabel \notin {Label}
  /\ [a \in Asks |-> Conn] \in [Asks -> {Conn}]
  /\ [c \in {Conn} |-> Label] \in [{Conn} -> {Label}]
  /\ [c \in {Conn} |-> {}] \in [{Conn} -> SUBSET {Label}]
  /\ UserMessages \subseteq Proved!Message
  /\ QueueLimit \in Nat \ {0} /\ NotifyLimit \in Nat \ {0}
  /\ 2 * Cardinality(Calls) \in Nat
  <1>1. Proved!IsFiniteSet(Asks)
    BY CallsAreDistinct DEF IsFiniteSet, Proved!IsFiniteSet
  <1>2. Cardinality(Calls) \in Nat
    BY CallsAreFinite, FS_CardinalityType
  <1>3. UserMessages \subseteq Proved!Message
    BY DaemonConstants DEF Server!Message, Proved!Message
  <1> QED
    BY <1>1, <1>2, <1>3, DaemonConstants

\* A session keeps what the two modules promise, each without the assumptions it makes about the
\* other end: an ask gets one answer, has a live timeout and a live handler while it is pending,
\* and its end is told truly; while its session lasts nobody is told that a daemon is gone which
\* is there, and the daemon holds no ask that nobody waits for, nor any after Bye.
THEOREM SessionKeepsPromises ==
  SessionSpec => [](/\ Server!AnsweredAtMostOnce /\ Server!PendingAskCanTimeOut
                    /\ Server!PendingAskHasAgent /\ Server!ClosingDmTellsOutcome
                    /\ OpenAskHasCaller /\ ByeLeavesNoAsk /\ DisconnectIsReal)
  <1>1. SessionSpec => Proved!Spec
    BY SessionImplementsDaemon, SameSpec DEF ImplementsDaemon
  <1>2. Proved!Spec => []Proved!AnsweredAtMostOnce
    BY DaemonAssumptions, Proved!AnsweredOnce
  <1>3. Proved!Spec => []Proved!PendingAskCanTimeOut
    BY DaemonAssumptions, Proved!NoAskWithoutTimeout
  <1>4. Proved!Spec => []Proved!PendingAskHasAgent
    BY DaemonAssumptions, Proved!NoOrphanAsk
  <1>5. Proved!Spec => []Proved!ClosingDmTellsOutcome
    BY DaemonAssumptions, Proved!ClosingDmIsTrue
  <1> QED
    BY <1>1, <1>2, <1>3, <1>4, <1>5, SamePromises, SessionImplementsClient, NoAskWithoutCaller,
       ShutdownWithdraws, NoFalseAlarm, PTL

=============================================================================
