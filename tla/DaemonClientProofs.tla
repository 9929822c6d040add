------------------------ MODULE DaemonClientProofs ------------------------
(***************************************************************************)
(* What DaemonClient keeps for every set of calls: its type, the table of  *)
(* the read loop, and that the daemon holds no ask nobody waits for.       *)
(***************************************************************************)
EXTENDS DaemonClient, SequenceTheorems, FiniteSetTheorems, TLAPS

\* The lines a client writes and those it reads, by their shape.
LEMMA RequestShapes ==
  /\ \A k \in Calls : Begin(k) \in Request /\ AskCancel(k) \in Request
  /\ Bye \in Request
  /\ \A line \in Request : line.type \in {"Begin", "AskCancel", "Bye"}
  /\ \A line \in Request : line.type = "Begin" => line = Begin(line.call) /\ line.call \in Calls
  /\ \A line \in Request : line.type = "AskCancel" => line = AskCancel(line.call) /\ line.call \in Calls
  /\ \A line \in Request : line.type = "Bye" => line = Bye
  BY DEF Request, Begin, AskCancel, Bye

\* An order of withdrawals is a sequence of requests.
LEMMA WithdrawalsTyped ==
  ASSUME TypeOK, NEW order \in WithdrawalOrders
  PROVE  /\ [i \in DOMAIN order |-> AskCancel(order[i])] \in Seq(Request)
         /\ \A i \in DOMAIN order : order[i] \in asking
         /\ \A a \in asking : \E i \in DOMAIN order : order[i] = a
         /\ Len([i \in DOMAIN order |-> AskCancel(order[i])]) \in Nat
         /\ DOMAIN order = 1..Len([i \in DOMAIN order |-> AskCancel(order[i])])
  <1>1. IsFiniteSet(asking)
    BY FS_Subset, CallsAreDistinct DEF TypeOK
  <1>2. Cardinality(asking) \in Nat
    BY <1>1, FS_CardinalityType
  <1>3. /\ order \in [1..Cardinality(asking) -> asking]
        /\ DOMAIN order = 1..Cardinality(asking)
        /\ {order[i] : i \in DOMAIN order} = asking
    BY DEF WithdrawalOrders
  <1>4. \A i \in DOMAIN order : AskCancel(order[i]) \in Request
    BY <1>3, RequestShapes DEF TypeOK, Calls, Tools
  <1>5. [i \in DOMAIN order |-> AskCancel(order[i])] \in Seq(Request)
    BY <1>2, <1>3, <1>4, IsASeq
  <1>6. Len([i \in DOMAIN order |-> AskCancel(order[i])]) = Cardinality(asking)
    BY <1>2, <1>3, <1>5, LenProperties
  <1> QED
    BY <1>2, <1>3, <1>5, <1>6

-----------------------------------------------------------------------------
(* Types. *)

\* The first state is well typed.
LEMMA InitTyped == Init => TypeOK
  <1> SUFFICES ASSUME Init PROVE TypeOK
    OBVIOUS
  <1>1. <<>> \in Seq(Request) /\ <<>> \in Seq(Answer)
    BY EmptySeq
  <1> QED
    BY <1>1 DEF Init, TypeOK

\* Every step of the client, its read loop and the daemon keeps the types.
LEMMA StepTyped == TypeOK /\ [Next]_vars => TypeOK'
  <1> SUFFICES ASSUME TypeOK, [Next]_vars PROVE TypeOK'
    OBVIOUS
  <1> USE DEF TypeOK
  <1>1. ASSUME NEW k \in Calls, Call(k) PROVE TypeOK'
    <2>1. Append(requests, Begin(k)) \in Seq(Request)
      BY RequestShapes, AppendProperties
    <2>2. requests' \in Seq(Request)
      BY <1>1, <2>1 DEF Call
    <2>3. asking' \subseteq Asks /\ pending' \subseteq Calls
      BY <1>1 DEF Call, Remembered
    <2> QED
      BY <1>1, <2>2, <2>3 DEF Call, BreakSocket
  <1>2. ASSUME NEW k \in Calls, Return(k) PROVE TypeOK'
    BY <1>2 DEF Return, Forget, OutcomeOf, daemonVars
  <1>3. ASSUME NEW k \in Calls, Cancel(k) PROVE TypeOK'
    <2>1. Append(requests, AskCancel(k)) \in Seq(Request)
      BY RequestShapes, AppendProperties
    <2>2. requests' \in Seq(Request)
      BY <1>3, <2>1 DEF Cancel
    <2> QED
      BY <1>3, <2>2 DEF Cancel, Forget, BreakSocket
  <1>4. ASSUME Close PROVE TypeOK'
    <2>1. requests' \in Seq(Request)
      <3>1. CASE UNCHANGED requests
        BY <3>1
      <3>2. ASSUME NEW order \in WithdrawalOrders,
                   requests' = requests \o [i \in DOMAIN order |-> AskCancel(order[i])] \o <<Bye>>
            PROVE  requests' \in Seq(Request)
        <4> DEFINE withdrawals == [i \in DOMAIN order |-> AskCancel(order[i])]
        <4>1. withdrawals \in Seq(Request)
          BY WithdrawalsTyped
        <4>2. requests \o withdrawals \in Seq(Request)
          BY <4>1, ConcatProperties
        <4>3. <<Bye>> \in Seq(Request)
          BY RequestShapes
        <4> QED
          BY <3>2, <4>2, <4>3, ConcatProperties
      <3> QED
        BY <1>4, <3>1, <3>2 DEF Close
    <2> QED
      BY <1>4, <2>1 DEF Close, CloseTransport, FailPending, BreakSocket
  <1>5. CASE ReadLoop
    <2>1. CASE ReadAnswer
      <3>1. Head(answers) \in Answer /\ Tail(answers) \in Seq(Answer)
        BY <2>1, HeadTailProperties DEF ReadAnswer
      <3> QED
        BY <2>1, <3>1 DEF ReadAnswer, Resolve
    <2>2. CASE ReadEof
      BY <2>2 DEF ReadEof, FailPending, daemonVars
    <2>3. CASE ReadRaises
      BY <2>3 DEF ReadRaises, callVars, tableVars, daemonVars
    <2> QED
      BY <1>5, <2>1, <2>2, <2>3 DEF ReadLoop
  <1>6. ASSUME NEW k \in Calls, NEW type \in {"Answer", "TooLong", "HelloErr"}
        PROVE  Answers(type, k) \in Seq(Answer)
    <2>1. [type |-> type, call |-> k] \in Answer
      BY DEF Answer
    <2> QED
      BY <2>1, AppendProperties DEF Answers
  <1>7. CASE Daemon
    <2>1. CASE DaemonReads
      <3>1. Head(requests) \in Request /\ Tail(requests) \in Seq(Request)
        BY <2>1, HeadTailProperties DEF DaemonReads
      <3>2. answers' \in Seq(Answer)
        BY <2>1, <3>1, <1>6, RequestShapes DEF DaemonReads
      <3> QED
        BY <2>1, <3>1, <3>2 DEF DaemonReads, callVars, tableVars
    <2>2. CASE DaemonDisconnects
      BY <2>2 DEF DaemonDisconnects, callVars, tableVars
    <2>3. ASSUME NEW a \in Asks, AskSettled(a) PROVE TypeOK'
      <3>1. answers' \in Seq(Answer)
        BY <2>3, <1>6 DEF AskSettled, Calls, Tools
      <3> QED
        BY <2>3, <3>1 DEF AskSettled, callVars, tableVars
    <2> QED
      BY <1>7, <2>1, <2>2, <2>3 DEF Daemon
  <1>8. CASE UNCHANGED vars
    BY <1>8 DEF vars, callVars, tableVars, daemonVars
  <1> QED
    BY <1>1, <1>2, <1>3, <1>4, <1>5, <1>7, <1>8 DEF Next

\* Every reachable state of the client is well typed.
THEOREM ClientTypeCorrect == Spec => []TypeOK
  BY InitTyped, StepTyped, PTL DEF Spec

-----------------------------------------------------------------------------
(* The table the read loop looks in. *)

\* The future of a call that waits stays in the table: a call takes away its
\* own entry when it ends, the read loop an entry it resolves.
LEMMA StepKeepsTable ==
  TypeOK /\ WaitingCallIsInTable /\ [Next]_vars => WaitingCallIsInTable'
  <1> SUFFICES ASSUME TypeOK, WaitingCallIsInTable, [Next]_vars, NEW k \in Calls,
                      task'[k] = "waiting", future'[k] = "unresolved", reader' = "reading"
               PROVE  k \in pending'
    BY DEF WaitingCallIsInTable
  <1>1. ASSUME NEW c \in Calls, Call(c) PROVE k \in pending'
    BY <1>1 DEF Call, BreakSocket, TypeOK, WaitingCallIsInTable
  <1>2. ASSUME NEW c \in Calls, Return(c) \/ Cancel(c) PROVE k \in pending'
    BY <1>2 DEF Return, Cancel, Forget, BreakSocket, TypeOK, WaitingCallIsInTable
  <1>3. CASE Close
    BY <1>3 DEF Close, CloseTransport, BreakSocket
  <1>4. CASE ReadLoop
    <2>1. CASE ReadAnswer
      BY <2>1 DEF ReadAnswer, Resolve, TypeOK, WaitingCallIsInTable
    <2> QED
      BY <1>4, <2>1 DEF ReadLoop, ReadEof, ReadRaises
  <1>5. CASE Daemon \/ UNCHANGED vars
    <2>1. UNCHANGED <<task, future, pending, reader>>
      BY <1>5 DEF Daemon, DaemonReads, DaemonDisconnects, AskSettled, vars, callVars, tableVars
    <2> QED
      BY <2>1 DEF WaitingCallIsInTable
  <1> QED
    BY <1>1, <1>2, <1>3, <1>4, <1>5 DEF Next

\* Whoever waits on a live read loop can still be answered.
THEOREM NoCallForgotten == Spec => []WaitingCallIsInTable
  <1>1. Init => WaitingCallIsInTable
    BY DEF Init, WaitingCallIsInTable
  <1> QED
    BY <1>1, ClientTypeCorrect, StepKeepsTable, PTL DEF Spec

-----------------------------------------------------------------------------
(* What the steps do to the lines in flight. *)

\* Two requests are the same when their type and their call are.
LEMMA RequestsDiffer ==
  /\ \A j, k \in Calls : (Begin(j) = Begin(k) => j = k) /\ (AskCancel(j) = AskCancel(k) => j = k)
  /\ \A j, k \in Calls : Begin(j) # AskCancel(k)
  /\ \A k \in Calls : Begin(k) # Bye /\ AskCancel(k) # Bye
  <1>1. /\ \A k \in Calls : Begin(k).type = "Begin" /\ Begin(k).call = k
        /\ \A k \in Calls : AskCancel(k).type = "AskCancel" /\ AskCancel(k).call = k
        /\ Bye.type = "Bye"
    BY DEF Begin, AskCancel, Bye
  <1> QED
    BY <1>1

\* A written line is in flight, after the others.
LEMMA WriteInFlight ==
  ASSUME TypeOK, NEW line \in Request, requests' = Append(requests, line)
  PROVE  /\ \A x \in Request : InFlight(x)' <=> InFlight(x) \/ x = line
         /\ Len(requests) \in Nat
         /\ DOMAIN requests = 1..Len(requests)
         /\ DOMAIN requests' = 1..(Len(requests) + 1)
         /\ \A i \in 1..Len(requests) : requests'[i] = requests[i]
         /\ requests'[Len(requests) + 1] = line
  <1>1. /\ Len(requests) \in Nat
        /\ DOMAIN requests = 1..Len(requests)
        /\ DOMAIN requests' = 1..(Len(requests) + 1)
        /\ \A i \in 1..Len(requests) : requests'[i] = requests[i]
        /\ requests'[Len(requests) + 1] = line
    BY AppendProperties, LenProperties DEF TypeOK
  <1>2. ASSUME NEW x \in Request PROVE InFlight(x)' <=> InFlight(x) \/ x = line
    BY <1>1 DEF InFlight
  <1> QED
    BY <1>1, <1>2

\* A line the daemon takes moves the others up by one.
LEMMA TakeInFlight ==
  ASSUME TypeOK, requests # <<>>, requests' = Tail(requests)
  PROVE  /\ \A x \in Request : InFlight(x)' => InFlight(x)
         /\ \A x \in Request : InFlight(x) => InFlight(x)' \/ x = Head(requests)
         /\ InFlight(Head(requests)) /\ Head(requests) \in Request
         /\ Len(requests) \in Nat /\ Len(requests) > 0
         /\ DOMAIN requests = 1..Len(requests)
         /\ DOMAIN requests' = 1..(Len(requests) - 1)
         /\ \A i \in 1..(Len(requests) - 1) : requests'[i] = requests[i + 1]
         /\ requests[1] = Head(requests)
  <1>1. /\ Len(requests) \in Nat /\ Len(requests) > 0
        /\ DOMAIN requests = 1..Len(requests)
        /\ DOMAIN requests' = 1..(Len(requests) - 1)
        /\ \A i \in 1..(Len(requests) - 1) : requests'[i] = requests[i + 1]
        /\ requests[1] = Head(requests)
        /\ Head(requests) \in Request
    BY HeadTailProperties, LenProperties, EmptySeq DEF TypeOK
  <1>2. InFlight(Head(requests))
    BY <1>1 DEF InFlight
  <1>3. ASSUME NEW x \in Request, InFlight(x)' PROVE InFlight(x)
    <2>1. PICK i \in 1..(Len(requests) - 1) : requests[i + 1] = x
      BY <1>1, <1>3 DEF InFlight
    <2> QED
      BY <1>1, <2>1 DEF InFlight
  <1>4. ASSUME NEW x \in Request, InFlight(x), x # Head(requests) PROVE InFlight(x)'
    <2>1. PICK i \in 1..Len(requests) : requests[i] = x
      BY <1>1, <1>4 DEF InFlight
    <2>2. i # 1 /\ i - 1 \in 1..(Len(requests) - 1) /\ (i - 1) + 1 = i
      BY <1>1, <1>4, <2>1
    <2>3. requests'[i - 1] = x
      BY <1>1, <2>1, <2>2
    <2> QED
      BY <1>1, <2>2, <2>3 DEF InFlight
  <1> QED
    BY <1>1, <1>2, <1>3, <1>4

\* The order of the lines survives when the first is taken.
LEMMA TakeKeepsOrder ==
  ASSUME TypeOK, LinesAreInOrder, requests # <<>>, requests' = Tail(requests), UNCHANGED phase
  PROVE  LinesAreInOrder'
  <1> SUFFICES ASSUME NEW i \in DOMAIN requests', NEW j \in DOMAIN requests'
               PROVE  /\ \A a \in Asks : requests'[i] = Begin(a) =>
                           /\ requests'[j] = AskCancel(a) => i < j
                           /\ requests'[j] = Begin(a) => i = j
                      /\ requests'[i] = Bye => j <= i /\ phase' = "closed"
    BY DEF LinesAreInOrder
  <1>1. /\ i \in Nat /\ j \in Nat
        /\ i + 1 \in DOMAIN requests /\ j + 1 \in DOMAIN requests
        /\ requests'[i] = requests[i + 1] /\ requests'[j] = requests[j + 1]
    BY TakeInFlight
  <1>2. /\ \A a \in Asks : requests[i + 1] = Begin(a) =>
             /\ requests[j + 1] = AskCancel(a) => i + 1 < j + 1
             /\ requests[j + 1] = Begin(a) => i + 1 = j + 1
        /\ requests[i + 1] = Bye => j + 1 <= i + 1 /\ phase = "closed"
    BY <1>1 DEF LinesAreInOrder
  <1> QED
    BY <1>1, <1>2

\* It survives a written line that withdraws an ask, or begins one of which no
\* line is in flight, as long as Bye is not written.
LEMMA WriteKeepsOrder ==
  ASSUME TypeOK, LinesAreInOrder, phase # "closed", UNCHANGED phase, NEW line \in Request,
         requests' = Append(requests, line), line # Bye,
         \A a \in Asks : line = Begin(a) => ~InFlight(Begin(a)) /\ ~InFlight(AskCancel(a))
  PROVE  LinesAreInOrder'
  <1> DEFINE n == Len(requests)
  <1>1. /\ n \in Nat
        /\ DOMAIN requests = 1..n /\ DOMAIN requests' = 1..(n + 1)
        /\ \A i \in 1..n : requests'[i] = requests[i]
        /\ requests'[n + 1] = line
    BY WriteInFlight
  <1> SUFFICES ASSUME NEW i \in 1..(n + 1), NEW j \in 1..(n + 1)
               PROVE  /\ \A a \in Asks : requests'[i] = Begin(a) =>
                           /\ requests'[j] = AskCancel(a) => i < j
                           /\ requests'[j] = Begin(a) => i = j
                      /\ requests'[i] = Bye => j <= i /\ phase' = "closed"
    BY <1>1 DEF LinesAreInOrder
  <1>2. requests'[i] # Bye
    BY <1>1 DEF LinesAreInOrder
  <1>3. ASSUME NEW a \in Asks, requests'[i] = Begin(a), requests'[j] = AskCancel(a) PROVE i < j
    <2>0. Begin(a) # AskCancel(a)
      BY RequestsDiffer DEF Calls, Tools
    <2>1. CASE i = n + 1
      BY <1>1, <1>3, <2>0, <2>1 DEF InFlight
    <2>2. CASE i # n + 1 /\ j = n + 1
      BY <1>1, <2>2
    <2>3. CASE i # n + 1 /\ j # n + 1
      BY <1>1, <1>3, <2>3 DEF LinesAreInOrder
    <2> QED
      BY <2>1, <2>2, <2>3
  <1>4. ASSUME NEW a \in Asks, requests'[i] = Begin(a), requests'[j] = Begin(a) PROVE i = j
    <2>1. CASE i # n + 1 /\ j # n + 1
      BY <1>1, <1>4, <2>1 DEF LinesAreInOrder
    <2>2. CASE (i = n + 1 /\ j # n + 1) \/ (i # n + 1 /\ j = n + 1)
      BY <1>1, <1>4, <2>2 DEF InFlight
    <2> QED
      BY <2>1, <2>2
  <1> QED
    BY <1>2, <1>3, <1>4

\* Two sequences and a last element, one after the other.
LEMMA ConcatWithLast ==
  ASSUME NEW S, NEW s \in Seq(S), NEW t \in Seq(S), NEW x \in S,
         NEW m \in Nat, m = Len(s), NEW n \in Nat, n = Len(t)
  PROVE  /\ DOMAIN (s \o t \o <<x>>) = 1..(m + n + 1)
         /\ \A i \in 1..m : (s \o t \o <<x>>)[i] = s[i]
         /\ \A i \in 1..n : (s \o t \o <<x>>)[m + i] = t[i]
         /\ (s \o t \o <<x>>)[m + n + 1] = x
  <1> DEFINE u == s \o t
             r == u \o <<x>>
  <1>1. /\ u \in Seq(S) /\ Len(u) = m + n
        /\ \A i \in 1..(m + n) : u[i] = IF i <= m THEN s[i] ELSE t[i - m]
    BY ConcatProperties
  <1>2. <<x>> \in Seq(S) /\ Len(<<x>>) = 1 /\ <<x>>[1] = x
    OBVIOUS
  <1> HIDE DEF u
  <1>3. /\ r \in Seq(S) /\ Len(r) = m + n + 1
        /\ \A i \in 1..(m + n + 1) : r[i] = IF i <= m + n THEN u[i] ELSE <<x>>[i - (m + n)]
    BY <1>1, <1>2, ConcatProperties
  <1> HIDE DEF r
  <1>4. DOMAIN r = 1..(m + n + 1)
    BY <1>3, LenProperties
  <1>5. \A i \in 1..m : r[i] = s[i]
    BY <1>1, <1>3
  <1>6. ASSUME NEW i \in 1..n PROVE r[m + i] = t[i]
    <2>1. m + i \in 1..(m + n) /\ ~(m + i <= m) /\ (m + i) - m = i /\ m + i \in 1..(m + n + 1)
      OBVIOUS
    <2> QED
      BY <2>1, <1>1, <1>3
  <1>7. r[m + n + 1] = x
    <2>1. m + n + 1 \in 1..(m + n + 1) /\ ~(m + n + 1 <= m + n) /\ (m + n + 1) - (m + n) = 1
      OBVIOUS
    <2> QED
      BY <2>1, <1>2, <1>3
  <1> QED
    BY <1>4, <1>5, <1>6, <1>7 DEF r, u

\* A shutdown writes the withdrawals of the asks in flight, and Bye as the last
\* line.
LEMMA CloseInFlight ==
  ASSUME TypeOK, NEW order \in WithdrawalOrders,
         requests' = requests \o [i \in DOMAIN order |-> AskCancel(order[i])] \o <<Bye>>
  PROVE  \E m, n \in Nat :
           /\ DOMAIN requests = 1..m /\ DOMAIN requests' = 1..(m + n + 1)
           /\ \A i \in 1..m : requests'[i] = requests[i]
           /\ \A i \in 1..n : \E a \in asking : requests'[m + i] = AskCancel(a)
           /\ requests'[m + n + 1] = Bye
           /\ \A a \in asking : InFlight(AskCancel(a))'
  <1> DEFINE W == [i \in DOMAIN order |-> AskCancel(order[i])]
             m == Len(requests)
             n == Len(W)
  <1>1. /\ W \in Seq(Request) /\ n \in Nat
        /\ \A i \in 1..n : order[i] \in asking /\ W[i] = AskCancel(order[i])
        /\ \A a \in asking : \E i \in 1..n : W[i] = AskCancel(a)
    BY WithdrawalsTyped
  <1>2. requests \in Seq(Request) /\ m \in Nat /\ DOMAIN requests = 1..m
    BY LenProperties DEF TypeOK
  <1>3. /\ DOMAIN requests' = 1..(m + n + 1)
        /\ \A i \in 1..m : requests'[i] = requests[i]
        /\ \A i \in 1..n : requests'[m + i] = W[i]
        /\ requests'[m + n + 1] = Bye
    <2>1. requests' = requests \o W \o <<Bye>>
      OBVIOUS
    <2> HIDE DEF W, m, n
    <2>2. m = Len(requests) /\ n = Len(W)
      BY DEF m, n
    <2>3. Bye \in Request
      BY RequestShapes
    <2> DEFINE r == requests \o W \o <<Bye>>
    <2>4. /\ DOMAIN r = 1..(m + n + 1)
          /\ \A i \in 1..m : r[i] = requests[i]
          /\ \A i \in 1..n : r[m + i] = W[i]
          /\ r[m + n + 1] = Bye
      BY <2>2, <2>3, <1>1, <1>2, ConcatWithLast
    <2> QED
      BY <2>1, <2>4
  <1> HIDE DEF W, m, n
  <1>4. ASSUME NEW a \in asking PROVE InFlight(AskCancel(a))'
    <2>1. PICK i \in 1..n : W[i] = AskCancel(a)
      BY <1>1
    <2>2. m + i \in 1..(m + n + 1)
      BY <1>1, <1>2
    <2> QED
      BY <2>1, <2>2, <1>3 DEF InFlight
  <1>5. \A i \in 1..n : \E a \in asking : requests'[m + i] = AskCancel(a)
    BY <1>1, <1>3
  <1> QED
    BY <1>1, <1>2, <1>3, <1>4, <1>5

-----------------------------------------------------------------------------
(* The invariant, action by action. *)

\* In the first state nothing has happened.
LEMMA InitHasClientInvariant == Init => ClientInvariant
  <1> SUFFICES ASSUME Init PROVE ClientInvariant
    OBVIOUS
  <1>1. DOMAIN requests = {} /\ DOMAIN answers = {}
    BY DEF Init
  <1>2. \A k \in Calls : task[k] = "idle"
    BY DEF Init
  <1>3. HandshakeComesFirst /\ AskingAreWaiting /\ OpenAskHasCaller
    BY <1>2 DEF Init, HandshakeComesFirst, AskingAreWaiting, OpenAskHasCaller, Calls, Tools
  <1>4. AskIsInOnePlace /\ LinesAreInOrder
    BY <1>1 DEF Init, AskIsInOnePlace, LinesAreInOrder, InFlight, Answered
  <1> QED
    BY <1>3, <1>4 DEF ClientInvariant

\* An ask is a call, and its lines are requests.
LEMMA AskFacts ==
  ASSUME NEW a \in Asks
  PROVE  a \in Calls /\ a # Hello /\ Begin(a) \in Request /\ AskCancel(a) \in Request
  BY RequestShapes, CallsAreDistinct DEF Calls, Tools

\* A call that begins: its request is new to the daemon, or was not written.
LEMMA CallKeepsInvariant ==
  ASSUME TypeOK, ClientInvariant, NEW k \in Calls, Call(k)
  PROVE  ClientInvariant'
  <1> USE DEF ClientInvariant
  <1>1. k = Hello \/ k \in Asks \/ k \in Tools \ Asks
    BY DEF Calls
  <1>2. phase # "closed" /\ task[k] = "idle" /\ (k # Hello => phase = "serving")
    BY DEF Call
  <1>3. HandshakeComesFirst'
    <2>1. CASE k = Hello
      BY <2>1 DEF Call, HandshakeComesFirst, TypeOK
    <2>2. CASE k # Hello
      <3>1. task'[Hello] = task[Hello] /\ UNCHANGED phase
        BY <2>2 DEF Call, TypeOK, Calls
      <3> QED
        BY <3>1 DEF HandshakeComesFirst
    <2> QED
      BY <2>1, <2>2
  <1>4. AskingAreWaiting'
    BY AskFacts DEF Call, AskingAreWaiting, Remembered, TypeOK
  <1>5. CASE socket # "up"
    <2>1. /\ UNCHANGED <<requests, answers, open>> /\ socket' = "broken"
          /\ open = {}
          /\ k # Hello => UNCHANGED phase
          /\ phase' # "closed"
      BY <1>2, <1>5 DEF Call, BreakSocket, AskIsInOnePlace
    <2>2. \A a \in Asks : task'[a] = "idle" => task[a] = "idle"
      BY <1>5, AskFacts DEF Call, TypeOK
    <2>3. AskIsInOnePlace' /\ OpenAskHasCaller'
      BY <2>1, <2>2 DEF AskIsInOnePlace, OpenAskHasCaller, InFlight, Answered
    <2>4. LinesAreInOrder'
      BY <1>2, <2>1 DEF LinesAreInOrder
    <2> QED
      BY <1>3, <1>4, <2>3, <2>4
  <1>6. CASE socket = "up"
    <2>1. /\ requests' = Append(requests, Begin(k)) /\ Begin(k) \in Request
          /\ UNCHANGED <<phase, socket, answers, open>>
          /\ task' = [task EXCEPT ![k] = "waiting"]
          /\ future' = [future EXCEPT ![k] = "unresolved"]
      BY <1>6, RequestShapes DEF Call
    <2>2. ASSUME NEW a \in Asks
          PROVE  /\ InFlight(Begin(a))' => InFlight(Begin(a)) \/ a = k
                 /\ InFlight(AskCancel(a))' <=> InFlight(AskCancel(a))
                 /\ Answered(a)' <=> Answered(a)
      BY <2>1, AskFacts, WriteInFlight, RequestsDiffer DEF Answered
    <2>3. ASSUME k \in Asks
          PROVE  /\ k \notin open /\ ~Answered(k) /\ ~InFlight(Begin(k)) /\ ~InFlight(AskCancel(k))
                 /\ task'[k] = "waiting" /\ phase' = "serving" /\ future'[k] = "unresolved"
      BY <1>2, <2>1, <2>3, AskFacts DEF AskIsInOnePlace, TypeOK
    <2>4. ASSUME NEW a \in Asks, a # k
          PROVE  task'[a] = task[a] /\ future'[a] = future[a]
      BY <2>1, <2>4, AskFacts DEF TypeOK
    <2>5. ASSUME NEW a \in Asks, HasCaller(a) PROVE HasCaller(a)'
      BY <2>1, <2>2, <2>3, <2>4, <2>5 DEF HasCaller
    <2>6. OpenAskHasCaller'
      BY <2>1, <2>5 DEF OpenAskHasCaller, TypeOK
    <2>7. ASSUME NEW a \in open PROVE Undecided(a)'
      BY <2>1, <2>2, <2>3, <2>4 DEF AskIsInOnePlace, Undecided, TypeOK
    <2>8. ASSUME NEW a \in Asks, InFlight(Begin(a))'
          PROVE  a \notin open /\ Undecided(a)' /\ HasCaller(a)'
      <3>1. CASE a = k
        BY <2>2, <2>3, <3>1 DEF Undecided, HasCaller
      <3>2. CASE a # k
        BY <1>6, <2>1, <2>2, <2>4, <2>5, <2>8, <3>2 DEF AskIsInOnePlace, Undecided
      <3> QED
        BY <3>1, <3>2
    <2>9. AskIsInOnePlace'
      BY <1>6, <2>1, <2>2, <2>3, <2>4, <2>7, <2>8 DEF AskIsInOnePlace
    <2>10. LinesAreInOrder'
      <3>1. Begin(k) # Bye
        BY RequestsDiffer
      <3>2. \A a \in Asks : Begin(k) = Begin(a) => ~InFlight(Begin(a)) /\ ~InFlight(AskCancel(a))
        BY <2>3, RequestsDiffer, AskFacts
      <3> QED
        BY <1>2, <2>1, <3>1, <3>2, WriteKeepsOrder
    <2> QED
      BY <1>3, <1>4, <2>6, <2>9, <2>10
  <1> QED
    BY <1>5, <1>6

\* A call that returns: an ask with its result is with the daemon no more.
LEMMA ReturnKeepsInvariant ==
  ASSUME TypeOK, ClientInvariant, NEW k \in Calls, Return(k)
  PROVE  ClientInvariant'
  <1> USE DEF ClientInvariant
  <1>1. /\ UNCHANGED <<future, socket, requests, answers, open>>
        /\ task' = [task EXCEPT ![k] = "done"]
        /\ asking' = asking \ {k}
        /\ future[k] \in {"result", "refusal", "error"}
        /\ task[k] = "waiting"
    BY DEF Return, daemonVars, Forget
  <1>2. /\ k # Hello => UNCHANGED phase
        /\ k = Hello => phase = "connecting" /\ phase' \in {"serving", "failed"}
    <2>1. CASE k # Hello
      BY <2>1 DEF Return
    <2>2. CASE k = Hello
      <3>1. phase = "connecting"
        BY <1>1, <2>2 DEF HandshakeComesFirst
      <3>2. CASE future[k] = "result"
        BY <2>2, <3>1, <3>2 DEF Return
      <3>3. CASE future[k] # "result"
        BY <2>2, <3>1, <3>3 DEF Return
      <3> QED
        BY <3>1, <3>2, <3>3, <2>2
    <2> QED
      BY <2>1, <2>2
  <1>3. HandshakeComesFirst'
    BY <1>1, <1>2 DEF HandshakeComesFirst, TypeOK, Calls
  <1>4. AskingAreWaiting'
    BY <1>1, AskFacts DEF AskingAreWaiting, TypeOK
  <1>5. ASSUME NEW a \in Asks, Undecided(a), HasCaller(a) PROVE HasCaller(a)'
    <2>1. CASE InFlight(AskCancel(a))
      BY <1>1, <2>1 DEF HasCaller, InFlight
    <2>2. CASE task[a] = "waiting" /\ phase = "serving"
      <3>1. a # k
        BY <1>1, <1>5, <2>2 DEF Undecided
      <3> QED
        BY <1>1, <1>2, <2>2, <3>1, AskFacts DEF HasCaller, TypeOK
    <2> QED
      BY <1>5, <2>1, <2>2 DEF HasCaller
  <1>6. OpenAskHasCaller'
    BY <1>1, <1>5 DEF OpenAskHasCaller, AskIsInOnePlace, TypeOK
  <1>7. \A a \in Asks : task'[a] = "idle" => task[a] = "idle"
    BY <1>1, AskFacts DEF TypeOK
  <1>8. AskIsInOnePlace'
    <2>1. \A a \in Asks : Undecided(a) => Undecided(a)'
      BY <1>1, <1>2 DEF Undecided, Answered
    <2> QED
      BY <1>1, <1>5, <1>7, <2>1 DEF AskIsInOnePlace, InFlight, Answered, TypeOK
  <1>9. LinesAreInOrder'
    BY <1>1, <1>2 DEF LinesAreInOrder
  <1> QED
    BY <1>3, <1>4, <1>6, <1>8, <1>9

\* A call that is given up: the daemon hears of an ask it may hold.
LEMMA CancelKeepsInvariant ==
  ASSUME TypeOK, ClientInvariant, NEW k \in Calls, Cancel(k)
  PROVE  ClientInvariant'
  <1> USE DEF ClientInvariant
  <1>1. /\ UNCHANGED <<phase, answers, open>> /\ phase = "serving"
        /\ task' = [task EXCEPT ![k] = "done"]
        /\ asking' = asking \ {k}
        /\ future' = [future EXCEPT ![k] = IF @ = "unresolved" THEN "cancelled" ELSE @]
        /\ k # Hello /\ task[k] = "waiting"
    BY CallsAreDistinct DEF Cancel, Forget
  <1>2. HandshakeComesFirst'
    BY <1>1 DEF HandshakeComesFirst, TypeOK, Calls
  <1>3. AskingAreWaiting'
    BY <1>1, AskFacts DEF AskingAreWaiting, TypeOK
  <1>4. ASSUME NEW a \in Asks
        PROVE  /\ task'[a] = "idle" => task[a] = "idle" /\ a # k
               /\ Answered(a)' <=> Answered(a)
               /\ Undecided(a) => Undecided(a)'
               /\ a # k => task'[a] = task[a]
    BY <1>1, AskFacts DEF Answered, Undecided, TypeOK
  <1>5. CASE k \in Asks /\ socket = "up"
    <2>1. requests' = Append(requests, AskCancel(k)) /\ UNCHANGED socket
      BY <1>5 DEF Cancel
    <2>2. ASSUME NEW a \in Asks
          PROVE  /\ InFlight(Begin(a))' <=> InFlight(Begin(a))
                 /\ InFlight(AskCancel(a))' <=> InFlight(AskCancel(a)) \/ a = k
      BY <1>5, <2>1, AskFacts, WriteInFlight, RequestsDiffer
    <2>3. ASSUME NEW a \in Asks, HasCaller(a) PROVE HasCaller(a)'
      BY <1>1, <1>4, <2>2, <2>3 DEF HasCaller
    <2>4. OpenAskHasCaller'
      BY <1>1, <2>3 DEF OpenAskHasCaller, TypeOK
    <2>5. AskIsInOnePlace'
      BY <1>1, <1>4, <2>1, <2>2, <2>3 DEF AskIsInOnePlace, TypeOK
    <2>6. LinesAreInOrder'
      <3>1. AskCancel(k) # Bye /\ \A a \in Asks : AskCancel(k) # Begin(a)
        BY RequestsDiffer, AskFacts
      <3> QED
        BY <1>1, <1>5, <2>1, <3>1, AskFacts, WriteKeepsOrder
    <2> QED
      BY <1>2, <1>3, <2>4, <2>5, <2>6
  <1>6. CASE k \notin Asks
    <2>1. UNCHANGED <<requests, socket>>
      BY <1>6 DEF Cancel
    <2>2. ASSUME NEW a \in Asks, HasCaller(a) PROVE HasCaller(a)'
      BY <1>1, <1>4, <1>6, <2>1, <2>2 DEF HasCaller, InFlight
    <2>3. OpenAskHasCaller'
      BY <1>1, <2>2 DEF OpenAskHasCaller, TypeOK
    <2>4. \A a \in Asks : /\ InFlight(Begin(a))' <=> InFlight(Begin(a))
                          /\ InFlight(AskCancel(a))' <=> InFlight(AskCancel(a))
      BY <2>1 DEF InFlight
    <2>5. AskIsInOnePlace'
      BY <1>1, <1>4, <2>1, <2>2, <2>4 DEF AskIsInOnePlace, TypeOK
    <2>6. LinesAreInOrder'
      BY <1>1, <2>1 DEF LinesAreInOrder
    <2> QED
      BY <1>2, <1>3, <2>3, <2>5, <2>6
  <1>7. CASE k \in Asks /\ socket # "up"
    <2>1. socket' = "broken" /\ UNCHANGED requests /\ open = {}
      BY <1>7 DEF Cancel, BreakSocket, AskIsInOnePlace
    <2>2. OpenAskHasCaller' /\ AskIsInOnePlace'
      BY <1>1, <1>4, <2>1 DEF OpenAskHasCaller, AskIsInOnePlace, InFlight
    <2>3. LinesAreInOrder'
      BY <1>1, <2>1 DEF LinesAreInOrder
    <2> QED
      BY <1>2, <1>3, <2>2, <2>3
  <1> QED
    BY <1>5, <1>6, <1>7

\* A shutdown: the withdrawals stand behind every ask, and Bye behind them.
LEMMA CloseKeepsInvariant ==
  ASSUME TypeOK, ClientInvariant, Close
  PROVE  ClientInvariant'
  <1> USE DEF ClientInvariant
  <1>1. /\ phase = "serving" /\ phase' = "closed"
        /\ UNCHANGED <<task, asking, answers, open>>
        /\ socket = "up" <=> socket' = "up"
        /\ \A a \in Asks : future'[a] \in {future[a], "error"}
        /\ \A a \in Asks : future'[a] # future[a] => future[a] = "unresolved"
    <2>1. CASE socket = "up"
      BY <2>1, AskFacts DEF Close, CloseTransport, FailPending, TypeOK
    <2>2. CASE socket # "up"
      BY <2>2 DEF Close, BreakSocket
    <2> QED
      BY <2>1, <2>2 DEF Close
  <1>2. HandshakeComesFirst' /\ AskingAreWaiting'
    BY <1>1 DEF HandshakeComesFirst, AskingAreWaiting
  <1>3. \A i \in DOMAIN requests : requests[i] # Bye
    BY <1>1 DEF LinesAreInOrder
  <1>4. CASE socket # "up"
    <2>1. UNCHANGED requests /\ open = {}
      BY <1>4 DEF Close, AskIsInOnePlace
    <2>2. OpenAskHasCaller' /\ AskIsInOnePlace'
      BY <1>1, <1>4, <2>1 DEF OpenAskHasCaller, AskIsInOnePlace, InFlight, Answered
    <2>3. LinesAreInOrder'
      BY <1>3, <2>1 DEF LinesAreInOrder
    <2> QED
      BY <1>2, <2>2, <2>3
  <1>5. CASE socket = "up"
    <2>1. PICK order \in WithdrawalOrders :
            requests' = requests \o [i \in DOMAIN order |-> AskCancel(order[i])] \o <<Bye>>
      BY <1>5 DEF Close
    <2>2. PICK m \in Nat, n \in Nat :
            /\ DOMAIN requests = 1..m /\ DOMAIN requests' = 1..(m + n + 1)
            /\ \A i \in 1..m : requests'[i] = requests[i]
            /\ \A i \in 1..n : \E a \in asking : requests'[m + i] = AskCancel(a)
            /\ requests'[m + n + 1] = Bye
            /\ \A a \in asking : InFlight(AskCancel(a))'
      BY <2>1, CloseInFlight
    <2>3. \A i \in 1..(m + n + 1) :
            \/ i \in 1..m /\ requests'[i] = requests[i]
            \/ i > m /\ i # m + n + 1 /\ \E a \in asking : requests'[i] = AskCancel(a)
            \/ i = m + n + 1 /\ requests'[i] = Bye
      <3> SUFFICES ASSUME NEW i \in 1..(m + n + 1), i > m, i # m + n + 1
                   PROVE  \E a \in asking : requests'[i] = AskCancel(a)
        BY <2>2
      <3>1. i - m \in 1..n /\ m + (i - m) = i
        OBVIOUS
      <3> QED
        BY <2>2, <3>1
    <2>4. asking \subseteq Asks
      BY DEF TypeOK
    <2>5. ASSUME NEW a \in Asks
          PROVE  /\ InFlight(Begin(a))' <=> InFlight(Begin(a))
                 /\ InFlight(AskCancel(a)) => InFlight(AskCancel(a))'
                 /\ InFlight(AskCancel(a))' => InFlight(AskCancel(a)) \/ a \in asking
      <3>1. \A i \in 1..(m + n + 1) : requests'[i] = Begin(a) => i \in 1..m /\ requests[i] = Begin(a)
        BY <2>3, <2>4, AskFacts, RequestsDiffer
      <3>2. \A i \in 1..(m + n + 1) : requests'[i] = AskCancel(a) =>
              (i \in 1..m /\ requests[i] = AskCancel(a)) \/ a \in asking
        BY <2>3, <2>4, AskFacts, RequestsDiffer
      <3>3. 1..m \subseteq 1..(m + n + 1)
        OBVIOUS
      <3> QED
        BY <2>2, <3>1, <3>2, <3>3 DEF InFlight
    <2>6. ASSUME NEW a \in Asks, HasCaller(a) PROVE HasCaller(a)'
      <3>1. CASE InFlight(AskCancel(a))
        BY <2>5, <3>1 DEF HasCaller
      <3>2. CASE task[a] = "waiting"
        BY <2>2, <3>2 DEF HasCaller, AskingAreWaiting
      <3> QED
        BY <2>6, <3>1, <3>2 DEF HasCaller
    <2>7. OpenAskHasCaller'
      BY <1>1, <2>6 DEF OpenAskHasCaller, TypeOK
    <2>8. \A a \in Asks : task[a] = "idle" => a \notin asking
      BY DEF AskingAreWaiting
    <2>9. AskIsInOnePlace'
      <3>1. \A a \in Asks : Undecided(a) => Undecided(a)'
        BY <1>1 DEF Undecided, Answered
      <3> QED
        BY <1>1, <2>5, <2>6, <2>8, <3>1 DEF AskIsInOnePlace, Answered, TypeOK
    <2>10. LinesAreInOrder'
      <3> SUFFICES ASSUME NEW i \in 1..(m + n + 1), NEW j \in 1..(m + n + 1)
                   PROVE  /\ \A a \in Asks : requests'[i] = Begin(a) =>
                               /\ requests'[j] = AskCancel(a) => i < j
                               /\ requests'[j] = Begin(a) => i = j
                          /\ requests'[i] = Bye => j <= i /\ phase' = "closed"
        BY <2>2 DEF LinesAreInOrder
      <3>1. ASSUME requests'[i] = Bye PROVE j <= i
        <4>1. ~(i \in 1..m /\ requests'[i] = requests[i])
          BY <1>3, <2>2, <3>1
        <4>2. \A a \in asking : requests'[i] # AskCancel(a)
          BY <3>1, <2>4, AskFacts, RequestsDiffer
        <4> QED
          BY <2>3, <4>1, <4>2
      <3>2. ASSUME NEW a \in Asks, requests'[i] = Begin(a)
            PROVE  i \in 1..m /\ requests[i] = Begin(a)
        BY <2>3, <2>4, <3>2, AskFacts, RequestsDiffer
      <3>3. ASSUME NEW a \in Asks, requests'[i] = Begin(a), requests'[j] = AskCancel(a)
            PROVE  i < j
        <4>1. i \in 1..m /\ requests[i] = Begin(a)
          BY <3>2, <3>3
        <4>2. CASE j \in 1..m
          BY <2>2, <3>3, <4>1, <4>2 DEF LinesAreInOrder
        <4> QED
          BY <4>1, <4>2
      <3>4. ASSUME NEW a \in Asks, requests'[i] = Begin(a), requests'[j] = Begin(a)
            PROVE  i = j
        <4>1. i \in 1..m /\ requests[i] = Begin(a)
          BY <3>2, <3>4
        <4>2. j \in 1..m /\ requests[j] = Begin(a)
          BY <2>3, <2>4, <3>4, AskFacts, RequestsDiffer
        <4> QED
          BY <2>2, <4>1, <4>2 DEF LinesAreInOrder
      <3> QED
        BY <1>1, <3>1, <3>3, <3>4
    <2> QED
      BY <1>2, <2>7, <2>9, <2>10
  <1> QED
    BY <1>4, <1>5

\* The read loop decides the futures of asks the daemon holds no more.
LEMMA ReadLoopKeepsInvariant ==
  ASSUME TypeOK, ClientInvariant, ReadLoop
  PROVE  ClientInvariant'
  <1> USE DEF ClientInvariant
  <1>1. UNCHANGED <<phase, task, asking, socket, requests, open>>
    BY DEF ReadLoop, ReadAnswer, ReadEof, ReadRaises, callVars, tableVars, daemonVars
  <1>2. HandshakeComesFirst' /\ AskingAreWaiting' /\ LinesAreInOrder' /\ OpenAskHasCaller'
    BY <1>1 DEF HandshakeComesFirst, AskingAreWaiting, LinesAreInOrder, OpenAskHasCaller,
                HasCaller, InFlight
  <1>3. CASE ReadAnswer
    <2>1. /\ Len(answers) \in Nat /\ Len(answers) > 0 /\ DOMAIN answers = 1..Len(answers)
          /\ DOMAIN answers' = 1..(Len(answers) - 1)
          /\ \A i \in 1..(Len(answers) - 1) : answers'[i] = answers[i + 1]
          /\ answers[1] = Head(answers)
      BY <1>3, HeadTailProperties, LenProperties, EmptySeq DEF ReadAnswer, TypeOK
    <2>2. Answered(Head(answers).call)
      BY <2>1 DEF Answered
    <2>3. ASSUME NEW a \in Asks, Answered(a)' PROVE Answered(a)
      <3>1. PICK i \in 1..(Len(answers) - 1) : answers[i + 1].call = a
        BY <2>1, <2>3 DEF Answered
      <3>2. i + 1 \in 1..Len(answers)
        BY <2>1
      <3> QED
        BY <2>1, <3>1, <3>2 DEF Answered
    <2>4. ASSUME NEW a \in Asks, ~Answered(a) PROVE future'[a] = future[a]
      BY <1>3, <2>2, <2>4, AskFacts DEF ReadAnswer, Resolve, TypeOK
    <2>5. \A a \in Asks : Undecided(a) => Undecided(a)'
      BY <1>1, <2>3, <2>4 DEF Undecided
    <2>6. AskIsInOnePlace'
      BY <1>1, <2>3, <2>5 DEF AskIsInOnePlace, HasCaller, InFlight, TypeOK
    <2> QED
      BY <1>2, <2>6
  <1>4. CASE ReadEof
    <2>1. socket = "ended" /\ open = {} /\ UNCHANGED answers
      BY <1>4 DEF ReadEof, AskIsInOnePlace, daemonVars
    <2>2. AskIsInOnePlace'
      BY <1>1, <2>1 DEF AskIsInOnePlace, InFlight, Answered
    <2> QED
      BY <1>2, <2>2
  <1>5. CASE ReadRaises
    <2>1. UNCHANGED <<future, answers>>
      BY <1>5 DEF ReadRaises, callVars, daemonVars
    <2>2. AskIsInOnePlace'
      BY <1>1, <2>1 DEF AskIsInOnePlace, InFlight, Answered, Undecided, HasCaller
    <2> QED
      BY <1>2, <2>2
  <1> QED
    BY <1>3, <1>4, <1>5 DEF ReadLoop

\* An answer the daemon writes is of its call only.
LEMMA AnswerInFlight ==
  ASSUME TypeOK, NEW type \in {"Answer", "TooLong", "HelloErr"}, NEW k \in Calls,
         answers' = Answers(type, k)
  PROVE  \A a \in Asks : Answered(a)' => Answered(a) \/ a = k
  <1> DEFINE line == [type |-> type, call |-> k]
  <1>1. line \in Answer /\ line.call = k
    BY DEF Answer
  <1>2. /\ Len(answers) \in Nat
        /\ DOMAIN answers = 1..Len(answers)
        /\ DOMAIN answers' = 1..(Len(answers) + 1)
        /\ \A i \in 1..Len(answers) : answers'[i] = answers[i]
        /\ answers'[Len(answers) + 1] = line
    BY <1>1, AppendProperties, LenProperties DEF TypeOK, Answers
  <1> QED
    BY <1>1, <1>2 DEF Answered

\* The daemon takes a line.  An ask it takes is not decided and has its caller,
\* whose withdrawal can only come later; Bye leaves it none.
LEMMA DaemonReadsKeepsInvariant ==
  ASSUME TypeOK, ClientInvariant, DaemonReads
  PROVE  ClientInvariant'
  <1> USE DEF ClientInvariant
  <1> DEFINE line == Head(requests)
  <1>1. /\ UNCHANGED <<phase, task, future, asking>> /\ socket = "up"
        /\ requests # <<>> /\ requests' = Tail(requests)
        /\ line \in Request /\ InFlight(line)
    BY TakeInFlight DEF DaemonReads, callVars, tableVars
  <1>2. HandshakeComesFirst' /\ AskingAreWaiting'
    BY <1>1 DEF HandshakeComesFirst, AskingAreWaiting
  <1>3. LinesAreInOrder'
    BY <1>1, TakeKeepsOrder
  <1>4. \A a \in Asks : /\ InFlight(Begin(a))' => InFlight(Begin(a))
                        /\ InFlight(AskCancel(a))' => InFlight(AskCancel(a))
    BY <1>1, AskFacts, TakeInFlight
  <1>5. ASSUME NEW a \in Asks, HasCaller(a), line # AskCancel(a) PROVE HasCaller(a)'
    BY <1>1, <1>5, AskFacts, TakeInFlight DEF HasCaller
  <1>6. ASSUME NEW b \in Asks, line = Begin(b), open' = open \cup {b}, UNCHANGED <<answers, socket>>
        PROVE  ClientInvariant'
    <2>1. \A a \in Asks : line # AskCancel(a)
      BY <1>6, AskFacts, RequestsDiffer
    <2>2. ~InFlight(Begin(b))'
      <3> SUFFICES ASSUME NEW i \in DOMAIN requests', requests'[i] = Begin(b) PROVE FALSE
        BY DEF InFlight
      <3>1. /\ i \in Nat /\ i + 1 \in DOMAIN requests /\ 1 \in DOMAIN requests /\ i # 0
            /\ requests[i + 1] = Begin(b) /\ requests[1] = Begin(b)
        BY <1>1, <1>6, TakeInFlight
      <3>2. i + 1 = 1
        BY <3>1 DEF LinesAreInOrder
      <3> QED
        BY <3>1, <3>2
    <2>3. b \notin open /\ Undecided(b) /\ HasCaller(b)
      BY <1>1, <1>6 DEF AskIsInOnePlace
    <2>4. \A a \in Asks : /\ HasCaller(a) => HasCaller(a)'
                          /\ Answered(a)' <=> Answered(a)
                          /\ Undecided(a)' <=> Undecided(a)
      BY <1>1, <1>5, <1>6, <2>1 DEF Answered, Undecided
    <2>5. OpenAskHasCaller'
      BY <1>6, <2>3, <2>4 DEF OpenAskHasCaller, TypeOK
    <2>6. task[b] # "idle"
      BY <1>1, <1>6 DEF AskIsInOnePlace
    <2>7. AskIsInOnePlace'
      BY <1>1, <1>4, <1>6, <2>2, <2>3, <2>4, <2>6 DEF AskIsInOnePlace, TypeOK
    <2> QED
      BY <1>2, <1>3, <2>5, <2>7
  <1>7. ASSUME NEW k \in Calls \ Asks, NEW type \in {"Answer", "TooLong", "HelloErr"},
               line = Begin(k), answers' = Answers(type, k), UNCHANGED <<open, socket>>
        PROVE  ClientInvariant'
    <2>1. \A a \in Asks : line # AskCancel(a)
      BY <1>7, AskFacts, RequestsDiffer
    <2>2. \A a \in Asks : /\ HasCaller(a) => HasCaller(a)'
                          /\ Answered(a)' => Answered(a)
                          /\ Undecided(a) => Undecided(a)'
      BY <1>1, <1>5, <1>7, <2>1, AnswerInFlight DEF Undecided
    <2>3. OpenAskHasCaller'
      BY <1>7, <2>2 DEF OpenAskHasCaller, TypeOK
    <2>4. AskIsInOnePlace'
      BY <1>1, <1>4, <1>7, <2>2 DEF AskIsInOnePlace, TypeOK
    <2> QED
      BY <1>2, <1>3, <2>3, <2>4
  <1>8. ASSUME NEW k \in Calls, line = AskCancel(k), open' = open \ {k},
               UNCHANGED <<answers, socket>>
        PROVE  ClientInvariant'
    <2>1. \A a \in Asks : a # k => line # AskCancel(a)
      BY <1>8, AskFacts, RequestsDiffer
    <2>2. \A a \in Asks : /\ a # k /\ HasCaller(a) => HasCaller(a)'
                          /\ Answered(a)' <=> Answered(a)
                          /\ Undecided(a)' <=> Undecided(a)
      BY <1>1, <1>5, <1>8, <2>1 DEF Answered, Undecided
    <2>3. OpenAskHasCaller'
      BY <1>8, <2>2 DEF OpenAskHasCaller, TypeOK
    <2>4. k \in Asks => ~InFlight(Begin(k))
      <3> SUFFICES ASSUME k \in Asks, NEW i \in DOMAIN requests, requests[i] = Begin(k)
                   PROVE  FALSE
        BY DEF InFlight
      <3>1. 1 \in DOMAIN requests /\ requests[1] = AskCancel(k) /\ i \in Nat /\ i >= 1
        BY <1>1, <1>8, TakeInFlight
      <3>2. i < 1
        BY <3>1 DEF LinesAreInOrder
      <3> QED
        BY <3>1, <3>2
    <2>5. AskIsInOnePlace'
      BY <1>1, <1>4, <1>8, <2>2, <2>4 DEF AskIsInOnePlace, TypeOK
    <2> QED
      BY <1>2, <1>3, <2>3, <2>5
  <1>9. ASSUME socket' = "ended", open' = {}, UNCHANGED answers
        PROVE  ClientInvariant'
    <2>1. OpenAskHasCaller' /\ AskIsInOnePlace'
      BY <1>1, <1>4, <1>9 DEF OpenAskHasCaller, AskIsInOnePlace, Answered
    <2> QED
      BY <1>2, <1>3, <2>1
  <1>10. /\ line.type = "Begin" => line = Begin(line.call) /\ line.call \in Calls
         /\ line.type = "AskCancel" => line = AskCancel(line.call) /\ line.call \in Calls
    BY <1>1, RequestShapes
  <1> QED
    BY <1>6, <1>7, <1>8, <1>9, <1>10 DEF DaemonReads

\* An ask is settled, or all are dropped with their connection.
LEMMA DaemonKeepsInvariant ==
  ASSUME TypeOK, ClientInvariant, Daemon
  PROVE  ClientInvariant'
  <1> USE DEF ClientInvariant
  <1>1. CASE DaemonReads
    BY <1>1, DaemonReadsKeepsInvariant
  <1>2. CASE DaemonDisconnects
    <2>1. /\ UNCHANGED <<phase, task, future, asking, requests, answers>>
          /\ open' = {} /\ socket' # "up"
      BY <1>2 DEF DaemonDisconnects, callVars, tableVars
    <2>2. HandshakeComesFirst' /\ AskingAreWaiting' /\ LinesAreInOrder' /\ OpenAskHasCaller'
      BY <2>1 DEF HandshakeComesFirst, AskingAreWaiting, LinesAreInOrder, OpenAskHasCaller
    <2>3. AskIsInOnePlace'
      BY <2>1 DEF AskIsInOnePlace, InFlight, Answered
    <2> QED
      BY <2>2, <2>3
  <1>3. ASSUME NEW b \in Asks, AskSettled(b) PROVE ClientInvariant'
    <2>1. /\ UNCHANGED <<phase, task, future, asking, requests, socket>>
          /\ socket = "up" /\ b \in open /\ open' = open \ {b} /\ answers' = Answers("Answer", b)
      BY <1>3 DEF AskSettled, callVars, tableVars
    <2>2. HandshakeComesFirst' /\ AskingAreWaiting' /\ LinesAreInOrder'
      BY <2>1 DEF HandshakeComesFirst, AskingAreWaiting, LinesAreInOrder
    <2>3. \A a \in Asks : /\ HasCaller(a) <=> HasCaller(a)'
                          /\ InFlight(Begin(a)) <=> InFlight(Begin(a))'
                          /\ InFlight(AskCancel(a)) <=> InFlight(AskCancel(a))'
                          /\ a # b /\ Answered(a)' => Answered(a)
                          /\ a # b /\ Undecided(a) => Undecided(a)'
      BY <2>1, AskFacts, AnswerInFlight DEF HasCaller, InFlight, Undecided
    <2>4. OpenAskHasCaller'
      BY <2>1, <2>3 DEF OpenAskHasCaller, TypeOK
    <2>5. ~InFlight(Begin(b)) /\ task[b] # "idle"
      BY <2>1 DEF AskIsInOnePlace
    <2>6. AskIsInOnePlace'
      BY <2>1, <2>3, <2>5 DEF AskIsInOnePlace, TypeOK
    <2> QED
      BY <2>2, <2>4, <2>6
  <1> QED
    BY <1>1, <1>2, <1>3 DEF Daemon

\* Every step keeps the invariant.
LEMMA StepKeepsClientInvariant ==
  TypeOK /\ ClientInvariant /\ [Next]_vars => ClientInvariant'
  <1> SUFFICES ASSUME TypeOK, ClientInvariant, [Next]_vars PROVE ClientInvariant'
    OBVIOUS
  <1>1. ASSUME NEW k \in Calls, Call(k) PROVE ClientInvariant'
    BY <1>1, CallKeepsInvariant
  <1>2. ASSUME NEW k \in Calls, Return(k) PROVE ClientInvariant'
    BY <1>2, ReturnKeepsInvariant
  <1>3. ASSUME NEW k \in Calls, Cancel(k) PROVE ClientInvariant'
    BY <1>3, CancelKeepsInvariant
  <1>4. CASE Close
    BY <1>4, CloseKeepsInvariant
  <1>5. CASE ReadLoop
    BY <1>5, ReadLoopKeepsInvariant
  <1>6. CASE Daemon
    BY <1>6, DaemonKeepsInvariant
  <1>7. CASE UNCHANGED vars
    BY <1>7 DEF vars, callVars, tableVars, daemonVars, ClientInvariant, HandshakeComesFirst,
                AskingAreWaiting, AskIsInOnePlace, LinesAreInOrder, OpenAskHasCaller,
                HasCaller, InFlight, Answered, Undecided
  <1> QED
    BY <1>1, <1>2, <1>3, <1>4, <1>5, <1>6, <1>7 DEF Next

\* The lines, the asks the daemon holds and the calls that wait agree in every
\* reachable state.
THEOREM ClientInvariantHolds == Spec => []ClientInvariant
  BY InitHasClientInvariant, ClientTypeCorrect, StepKeepsClientInvariant, PTL DEF Spec

-----------------------------------------------------------------------------
(* What follows from it. *)

\* The daemon never holds an ask nobody waits for.
THEOREM NoAskWithoutCaller == Spec => []OpenAskHasCaller
  <1>1. ClientInvariant => OpenAskHasCaller
    BY DEF ClientInvariant
  <1> QED
    BY <1>1, ClientInvariantHolds, PTL

\* Bye is the last line: when it is next, every withdrawal was taken, so no ask
\* is left for the daemon to report as lost.
LEMMA LastLineIsBye == TypeOK /\ ClientInvariant => ByeLeavesNoAsk
  <1> SUFFICES ASSUME TypeOK, ClientInvariant, requests # <<>>, Head(requests) = Bye,
                      NEW a \in open
               PROVE  FALSE
    BY DEF ByeLeavesNoAsk
  <1> USE DEF ClientInvariant
  <1>1. /\ Len(requests) \in Nat /\ DOMAIN requests = 1..Len(requests)
        /\ 1 \in DOMAIN requests /\ requests[1] = Bye
    BY HeadTailProperties, LenProperties, EmptySeq DEF TypeOK
  <1>2. phase = "closed" /\ \A j \in DOMAIN requests : j = 1
    BY <1>1 DEF LinesAreInOrder
  <1>3. a \in Asks /\ HasCaller(a)
    BY DEF OpenAskHasCaller, TypeOK
  <1>4. requests[1] = AskCancel(a)
    BY <1>2, <1>3 DEF HasCaller, InFlight
  <1> QED
    BY <1>1, <1>3, <1>4, AskFacts, RequestsDiffer

\* A graceful shutdown leaves the daemon no ask to report as lost.
THEOREM ShutdownWithdraws == Spec => []ByeLeavesNoAsk
  BY LastLineIsBye, ClientTypeCorrect, ClientInvariantHolds, PTL
-----------------------------------------------------------------------------
(* What a tool call is told of the connection. *)

\* What the daemon adds to its answers refuses nobody but the handshake.
LEMMA StepRefusesHelloOnly ==
  TypeOK /\ RefusalsAreOfHello /\ [Next]_vars => RefusalsAreOfHello'
  <1> SUFFICES ASSUME TypeOK, RefusalsAreOfHello, [Next]_vars PROVE RefusalsAreOfHello'
    OBVIOUS
  <1>1. CASE ReadAnswer
    <2>1. /\ Tail(answers) \in Seq(Answer)
          /\ DOMAIN Tail(answers) = 1..(Len(answers) - 1)
          /\ \A i \in 1..(Len(answers) - 1) : Tail(answers)[i] = answers[i + 1]
      BY <1>1, HeadTailProperties, LenProperties DEF ReadAnswer, TypeOK
    <2>2. Len(answers) \in Nat /\ DOMAIN answers = 1..Len(answers)
      BY LenProperties DEF TypeOK
    <2> QED
      BY <1>1, <2>1, <2>2 DEF ReadAnswer, RefusalsAreOfHello
  <1>2. ASSUME NEW k \in Calls, NEW type \in {"Answer", "TooLong", "HelloErr"},
               answers' = Answers(type, k), type = "HelloErr" => k = Hello
        PROVE  RefusalsAreOfHello'
    <2> DEFINE line == [type |-> type, call |-> k]
    <2>1. line \in Answer /\ answers' = Append(answers, line)
      BY <1>2 DEF Answer, Answers
    <2>2. /\ Len(answers) \in Nat /\ DOMAIN answers = 1..Len(answers)
          /\ DOMAIN answers' = 1..(Len(answers) + 1)
          /\ \A i \in 1..Len(answers) : answers'[i] = answers[i]
          /\ answers'[Len(answers) + 1] = line
      BY <2>1, AppendProperties, LenProperties DEF TypeOK
    <2> QED
      BY <1>2, <2>2 DEF RefusalsAreOfHello
  <1>3. CASE DaemonReads
    <2>1. CASE UNCHANGED answers
      BY <2>1 DEF RefusalsAreOfHello
    <2>2. CASE answers' # answers
      <3>1. Head(requests) \in Request
        BY <1>3, HeadTailProperties DEF DaemonReads, TypeOK
      <3>2. Head(requests).type = "Begin" /\ Head(requests).call \in Calls
        BY <1>3, <2>2, <3>1, RequestShapes DEF DaemonReads
      <3> QED
        BY <1>2, <1>3, <2>2, <3>2 DEF DaemonReads
    <2> QED
      BY <2>1, <2>2
  <1>4. ASSUME NEW a \in Asks, AskSettled(a) PROVE RefusalsAreOfHello'
    BY <1>2, <1>4 DEF AskSettled, Calls, Tools
  <1>5. CASE UNCHANGED answers
    BY <1>5 DEF RefusalsAreOfHello
  <1>6. CASE UNCHANGED vars \/ Close \/ DaemonDisconnects \/ ReadEof \/ ReadRaises
             \/ \E k \in Calls : Call(k) \/ Return(k) \/ Cancel(k)
    BY <1>5, <1>6 DEF vars, daemonVars, Close, DaemonDisconnects, ReadEof, ReadRaises,
                      Call, Return, Cancel
  <1> QED
    BY <1>1, <1>3, <1>4, <1>6 DEF Next, ReadLoop, Daemon

\* A tool call fails, or raises, when the daemon is gone and not before; it
\* does not come back.
LEMMA StepFailsByLossOnly ==
  /\ TypeOK /\ HandshakeComesFirst /\ RefusalsAreOfHello
  /\ FailedByLoss /\ DisconnectIsReal /\ [Next]_vars
  => FailedByLoss' /\ DisconnectIsReal'
  <1> SUFFICES ASSUME TypeOK, HandshakeComesFirst, RefusalsAreOfHello, FailedByLoss,
                      DisconnectIsReal, [Next]_vars
               PROVE  FailedByLoss' /\ DisconnectIsReal'
    OBVIOUS
  <1> USE DEF FailedByLoss, DisconnectIsReal
  <1>1. ASSUME NEW c \in Calls, Call(c) PROVE FailedByLoss' /\ DisconnectIsReal'
    BY <1>1 DEF Call, BreakSocket, TypeOK, Calls
  <1>2. ASSUME NEW c \in Calls, Return(c) PROVE FailedByLoss' /\ DisconnectIsReal'
    <2>1. /\ UNCHANGED <<future, socket>>
          /\ future[c] \in {"result", "refusal", "error"}
          /\ outcome' = [outcome EXCEPT ![c] = OutcomeOf(c)]
          /\ phase = "closed" => phase' = "closed"
      BY <1>2 DEF Return, HandshakeComesFirst, daemonVars
    <2>2. OutcomeOf(c) \in {"directive", "raised"} => future[c] # "result"
      <3>1. CASE future[c] = "result"
        BY <3>1 DEF OutcomeOf
      <3> QED
        BY <3>1
    <2> QED
      BY <2>1, <2>2 DEF TypeOK, Calls
  <1>3. ASSUME NEW c \in Calls, Cancel(c) PROVE FailedByLoss' /\ DisconnectIsReal'
    BY <1>3 DEF Cancel, BreakSocket, TypeOK, Calls
  <1>4. CASE ReadAnswer
    <2>1. answers \in Seq(Answer) /\ answers # <<>>
      BY <1>4 DEF ReadAnswer, TypeOK
    <2>2. Head(answers) = answers[1] /\ Head(answers) \in Answer
      BY <2>1, HeadTailProperties
    <2>3. 1 \in DOMAIN answers
      BY <2>1, LenProperties, EmptySeq
    <2>4. Head(answers).call \in Calls
      BY <2>2 DEF Answer
    <2>5. Head(answers).type = "HelloErr" => Head(answers).call \notin Tools
      BY <2>2, <2>3, CallsAreDistinct DEF RefusalsAreOfHello
    <2> QED
      BY <1>4, <2>4, <2>5 DEF ReadAnswer, Resolve, TypeOK, Calls
  <1>5. CASE ReadEof
    BY <1>5 DEF ReadEof
  <1>6. CASE Close
    BY <1>6 DEF Close
  <1>7. CASE ReadRaises \/ Daemon \/ UNCHANGED vars
    BY <1>7 DEF ReadRaises, Daemon, DaemonReads, DaemonDisconnects, AskSettled,
                vars, callVars, tableVars, daemonVars
  <1> QED
    BY <1>1, <1>2, <1>3, <1>4, <1>5, <1>6, <1>7 DEF Next, ReadLoop

\* While the session lasts, no tool call is told of a lost daemon while the
\* daemon is there.
THEOREM NoFalseAlarm == Spec => []DisconnectIsReal
  <1>1. Init => RefusalsAreOfHello /\ FailedByLoss /\ DisconnectIsReal
    BY DEF Init, RefusalsAreOfHello, FailedByLoss, DisconnectIsReal, Calls
  <1>2. ClientInvariant => HandshakeComesFirst
    BY DEF ClientInvariant
  <1> QED
    BY <1>1, <1>2, ClientTypeCorrect, ClientInvariantHolds, StepRefusesHelloOnly,
       StepFailsByLossOnly, PTL DEF Spec
=============================================================================
