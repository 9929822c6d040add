----------------------- MODULE DaemonLifecycleProofs -----------------------
(***************************************************************************)
(* For any number of daemons, MCP servers and stop commands: as long as no *)
(* daemon is started beside one that starts or stops, one holds the        *)
(* Gateway and the socket, whatever crashed before.                        *)
(***************************************************************************)
EXTENDS DaemonLifecycle, FiniteSetTheorems, TLAPS

USE NoDaemonIsNone

\* The process of a stop command's target is a daemon whenever it is signalled.
SignalsDaemon == \A s \in Stops : stop[s] = "signalling" => target[s] \in Daemons

-----------------------------------------------------------------------------
(* Types. *)

\* The first state is well typed.
LEMMA InitTyped == Init => TypeOK /\ SignalsDaemon
  BY DEF Init, TypeOK, SignalsDaemon, Phase, Starting, Stopping, MaybeDaemon

\* A daemon's death leaves the state well typed.
LEMMA DeathTyped ==
  ASSUME TypeOK, NEW d \in Daemons, Dies(d)
  PROVE  /\ phase' \in [Daemons -> Phase]
         /\ listening' \subseteq Daemons /\ gateways' \subseteq Daemons
         /\ client' \in [Clients -> {"idle", "spawning", "polling", "connected",
                                     "failed", "closed", "lost"}]
         /\ conn' \in [Clients -> MaybeDaemon]
         /\ \A c \in Clients : client'[c] = "connected" <=> conn'[c] # NoDaemon
  BY DEF TypeOK, Dies, Goes, Phase, MaybeDaemon

\* Every step keeps the types.
LEMMA StepTyped ==
  TypeOK /\ SignalsDaemon /\ [Next]_vars => TypeOK' /\ SignalsDaemon'
  <1> SUFFICES ASSUME TypeOK, SignalsDaemon, [Next]_vars PROVE TypeOK' /\ SignalsDaemon'
    OBVIOUS
  <1> USE DEF TypeOK, SignalsDaemon
  <1>1. ASSUME NEW d \in Daemons, StartUp(d) PROVE TypeOK' /\ SignalsDaemon'
    <2>1. CASE Announce(d)
      <3>1. CASE socketFile = NoDaemon
        BY <2>1, <3>1, DeathTyped DEF Announce, stopVars
      <3>2. CASE socketFile # NoDaemon
        BY <2>1, <3>2 DEF Announce, Goes, Phase, MaybeDaemon, stopVars, clientVars
      <3> QED
        BY <3>1, <3>2
    <2>2. CASE Probe(d) \/ UnlinkStale(d) \/ ConnectGateway(d) \/ RemoveBeforeBind(d) \/ Bind(d)
      <3>1. UNCHANGED <<clientVars, stopVars, calm>>
        BY <2>2 DEF Probe, UnlinkStale, ConnectGateway, RemoveBeforeBind, Bind
      <3>2. phase' \in [Daemons -> Phase]
        BY <2>2 DEF Probe, UnlinkStale, ConnectGateway, RemoveBeforeBind, Bind, Goes, Phase,
                    Starting
      <3>3. listening' \subseteq Daemons /\ gateways' \subseteq Daemons
        BY <2>2 DEF Probe, UnlinkStale, ConnectGateway, RemoveBeforeBind, Bind
      <3>4. socketFile' \in MaybeDaemon /\ pidFile' \in MaybeDaemon
        BY <2>2 DEF Probe, UnlinkStale, ConnectGateway, RemoveBeforeBind, Bind, fileVars,
                    MaybeDaemon
      <3> QED
        BY <3>1, <3>2, <3>3, <3>4 DEF clientVars, stopVars
    <2> QED
      BY <1>1, <2>1, <2>2 DEF StartUp
  <1>2. ASSUME NEW d \in Daemons, ShutDown(d) PROVE TypeOK' /\ SignalsDaemon'
    <2>1. UNCHANGED <<clientVars, stopVars, calm>>
      BY <1>2 DEF ShutDown, CloseServer, CloseTransport, UnlinkSocket, UnlinkPid
    <2>2. phase' \in [Daemons -> Phase]
      BY <1>2 DEF ShutDown, CloseServer, CloseTransport, UnlinkSocket, UnlinkPid,
                  Goes, Phase, Stopping
    <2>3. listening' \subseteq Daemons /\ gateways' \subseteq Daemons
      BY <1>2 DEF ShutDown, CloseServer, CloseTransport, UnlinkSocket, UnlinkPid
    <2>4. socketFile' \in MaybeDaemon /\ pidFile' \in MaybeDaemon
      BY <1>2 DEF ShutDown, CloseServer, CloseTransport, UnlinkSocket, UnlinkPid,
                  fileVars, MaybeDaemon
    <2> QED
      BY <2>1, <2>2, <2>3, <2>4 DEF clientVars, stopVars
  <1>3. ASSUME NEW d \in Daemons, Crash(d) PROVE TypeOK' /\ SignalsDaemon'
    BY <1>3, DeathTyped DEF Crash, fileVars, stopVars
  <1>4. ASSUME NEW c \in Clients, Connect(c) \/ Poll(c) PROVE TypeOK' /\ SignalsDaemon'
    BY <1>4 DEF Connect, Poll, Connected, Reachable, daemonVars, fileVars, stopVars, MaybeDaemon
  <1>5. ASSUME NEW c \in Clients, NEW d \in Daemons, Spawn(c, d) PROVE TypeOK' /\ SignalsDaemon'
    BY <1>5 DEF Spawn, NoteOverlap, Goes, Phase, Starting, fileVars, stopVars
  <1>6. ASSUME NEW c \in Clients, Leave(c) PROVE TypeOK' /\ SignalsDaemon'
    BY <1>6 DEF Leave, daemonVars, fileVars, stopVars, MaybeDaemon
  <1>7. ASSUME NEW s \in Stops, ReadPid(s) \/ RemoveStalePid(s) \/ AwaitExit(s)
        PROVE  TypeOK' /\ SignalsDaemon'
    BY <1>7 DEF ReadPid, RemoveStalePid, AwaitExit, daemonVars, fileVars, clientVars, MaybeDaemon
  <1>8. ASSUME NEW s \in Stops, Signal(s) PROVE TypeOK' /\ SignalsDaemon'
    <2>1. target[s] \in Daemons
      BY <1>8 DEF Signal
    <2>2. CASE Alive(target[s]) /\ ~In(target[s], "serving")
      BY <1>8, <2>1, <2>2, DeathTyped DEF Signal, fileVars, In
    <2>3. CASE ~Alive(target[s])
      BY <1>8, <2>3 DEF Signal, Alive, In, fileVars, daemonVars, clientVars
    <2>4. CASE In(target[s], "serving")
      BY <1>8, <2>1, <2>4 DEF Signal, Alive, In, fileVars, clientVars, Goes, Phase, Stopping,
                              NoteOverlap
    <2> QED
      BY <2>2, <2>3, <2>4
  <1>9. CASE UNCHANGED vars
    BY <1>9 DEF vars, daemonVars, fileVars, clientVars, stopVars
  <1> QED
    BY <1>1, <1>2, <1>3, <1>4, <1>5, <1>6, <1>7, <1>8, <1>9 DEF Next

\* Types, and what signalling needs of them, hold in every reachable state.
LEMMA TypedAlways == Spec => [](TypeOK /\ SignalsDaemon)
  BY InitTyped, StepTyped, PTL DEF Spec

\* Every reachable state of the processes and their files is well typed.
THEOREM LifecycleTypeCorrect == Spec => []TypeOK
  BY TypedAlways, PTL

-----------------------------------------------------------------------------
(* The invariant. *)

\* In the first state no daemon runs.
LEMMA InitHasLifecycleInvariant == Init => LifecycleInvariant
  BY DEF Init, LifecycleInvariant, Overlap, Past, Alive, In, Starting, Stopping

\* A step that starts no daemon and stops none brings no overlap, and none that
\* is not past its probe gets there by standing still.
LEMMA MoveAlone ==
  ASSUME TypeOK, NEW d \in Daemons, NEW there \in Phase, Goes(d, there), ~Overlap,
         there \in Starting => phase[d] \in Starting,
         there \in Stopping => phase[d] \in Stopping
  PROVE  /\ ~Overlap'
         /\ phase'[d] = there
         /\ \A e \in Daemons : e # d => phase'[e] = phase[e]
  <1>1. /\ phase'[d] = there
        /\ \A e \in Daemons : e # d => phase'[e] = phase[e]
    BY DEF Goes, TypeOK
  <1>2. \A e \in Daemons : /\ phase'[e] \in Starting => phase[e] \in Starting
                           /\ phase'[e] \in Stopping => phase[e] \in Stopping
    BY <1>1
  <1> QED
    BY <1>1, <1>2 DEF Overlap

\* Death: the others are as they were.
LEMMA DeathKeepsInvariant ==
  ASSUME TypeOK, LifecycleInvariant, NEW d \in Daemons, Dies(d), UNCHANGED <<fileVars, calm>>
  PROVE  LifecycleInvariant'
  <1> USE DEF LifecycleInvariant
  <1>1. /\ Goes(d, "gone") /\ listening' = listening \ {d} /\ gateways' = gateways \ {d}
        /\ UNCHANGED <<socketFile, calm>>
    BY DEF Dies, fileVars
  <1>2. phase'[d] = "gone" /\ \A e \in Daemons : e # d => phase'[e] = phase[e]
    BY <1>1 DEF Goes, TypeOK
  <1>3. calm => ~Overlap'
    BY <1>1, MoveAlone DEF Phase, Starting, Stopping
  <1> QED
    BY <1>1, <1>2, <1>3 DEF TypeOK, Past, Alive, In

\* Start-up: only a daemon nobody is past its probe with touches the socket.
LEMMA StartUpKeepsInvariant ==
  ASSUME TypeOK, LifecycleInvariant, NEW d \in Daemons, StartUp(d)
  PROVE  LifecycleInvariant'
  <1> USE DEF LifecycleInvariant
  <1>0. UNCHANGED calm
    BY DEF StartUp, Probe, UnlinkStale, ConnectGateway, RemoveBeforeBind, Bind, Announce
  <1>1. CASE Probe(d)
    <2> DEFINE there == IF Reachable THEN "gone" ELSE "unlinking"
    <2>1. In(d, "probing") /\ Goes(d, there) /\ UNCHANGED <<listening, gateways, socketFile>>
      BY <1>1 DEF Probe, fileVars
    <2>2. phase'[d] = there /\ \A e \in Daemons : e # d => phase'[e] = phase[e]
      BY <2>1 DEF Goes, TypeOK
    <2>3. d \notin listening /\ d \notin gateways
      BY <2>1 DEF In
    <2>4. ASSUME calm
          PROVE  /\ ~Overlap'
                 /\ \A e, f \in Daemons : Past(e)' /\ Past(f)' => e = f
                 /\ \A e \in Daemons : phase'[e] \in {"announcing", "serving"} =>
                                         socketFile' = e /\ e \in listening'
      <3>1. ~Overlap'
        BY <2>1, <2>4, MoveAlone DEF In, Phase, Starting, Stopping
      <3>2. CASE Reachable
        BY <2>1, <2>2, <2>4, <3>1, <3>2 DEF Past, Alive, In
      <3>3. CASE ~Reachable
        <4>1. \A e \in Daemons : e # d => phase[e] \notin Starting \cup Stopping
          BY <2>1, <2>4 DEF Overlap, In, Starting
        <4>2. \A e \in Daemons : phase[e] # "serving"
          BY <2>1, <2>4, <3>3 DEF Reachable, In
        <4>3. \A e \in Daemons : e # d => ~Past(e)
          BY <4>1, <4>2 DEF Past, Alive, TypeOK, Phase
        <4> QED
          BY <2>1, <2>2, <2>4, <3>1, <3>3, <4>3 DEF Past, Alive, In
      <3> QED
        BY <3>2, <3>3
    <2> QED
      BY <1>0, <2>1, <2>2, <2>3, <2>4 DEF TypeOK
  <1>2. CASE UnlinkStale(d) \/ RemoveBeforeBind(d)
    <2>1. PICK there \in {"connecting", "binding"} :
            /\ Goes(d, there) /\ UNCHANGED <<listening, gateways>>
            /\ \/ In(d, "unlinking") /\ there = "connecting"
               \/ In(d, "removing") /\ there = "binding"
      BY <1>2 DEF UnlinkStale, RemoveBeforeBind
    <2>2. phase'[d] = there /\ \A e \in Daemons : e # d => phase'[e] = phase[e]
      BY <2>1 DEF Goes, TypeOK
    <2>3. ASSUME calm
          PROVE  /\ ~Overlap'
                 /\ \A e, f \in Daemons : Past(e)' /\ Past(f)' => e = f
                 /\ \A e \in Daemons : phase'[e] \notin {"announcing", "serving"}
      <3>1. ~Overlap'
        BY <2>1, <2>3, MoveAlone DEF In, Phase, Starting, Stopping
      <3>2. \A e \in Daemons : e # d => ~Past(e)
        BY <2>1, <2>3 DEF Past, Alive, In
      <3> QED
        BY <2>1, <2>2, <3>1, <3>2 DEF Past, Alive, In
    <2> QED
      BY <1>0, <2>1, <2>2, <2>3 DEF TypeOK, In
  <1>3. CASE ConnectGateway(d) \/ Bind(d) \/ (Announce(d) /\ socketFile # NoDaemon)
    <2>1. PICK there \in {"removing", "announcing", "serving", "gone"} :
            /\ Goes(d, there)
            /\ phase[d] \in {"connecting", "binding", "announcing"}
            /\ there = "removing" => /\ phase[d] = "connecting" /\ gateways' = gateways \cup {d}
                                     /\ UNCHANGED <<listening, socketFile>>
            /\ there = "announcing" => /\ phase[d] = "binding" /\ UNCHANGED gateways
                                       /\ listening' = listening \cup {d} /\ socketFile' = d
            /\ there = "serving" => /\ phase[d] = "announcing"
                                    /\ UNCHANGED <<listening, gateways, socketFile>>
            /\ there = "gone" => /\ phase[d] \in {"connecting", "binding"}
                                 /\ gateways' \subseteq gateways /\ d \notin gateways'
                                 /\ UNCHANGED <<listening, socketFile>>
      BY <1>3 DEF ConnectGateway, Bind, Announce, In, fileVars
    <2>2. phase'[d] = there /\ \A e \in Daemons : e # d => phase'[e] = phase[e]
      BY <2>1 DEF Goes, TypeOK
    <2>3. ASSUME calm
          PROVE  /\ ~Overlap'
                 /\ \A e, f \in Daemons : Past(e)' /\ Past(f)' => e = f
                 /\ \A e \in Daemons : phase'[e] \in {"announcing", "serving"} =>
                                         socketFile' = e /\ e \in listening'
      <3>1. ~Overlap'
        BY <2>1, <2>3, MoveAlone DEF In, Phase, Starting, Stopping
      <3>2. \A e \in Daemons : e # d => ~Past(e)
        BY <2>1, <2>3 DEF Past, Alive, In
      <3>3. \A e \in Daemons : e # d => phase'[e] \notin {"announcing", "serving"}
        BY <2>2, <3>2 DEF Past, Alive, In
      <3>4. there \in {"announcing", "serving"} => socketFile' = d /\ d \in listening'
        BY <2>1, <2>3
      <3> QED
        BY <2>1, <2>2, <3>1, <3>2, <3>3, <3>4 DEF Past, Alive, In
    <2> QED
      BY <1>0, <2>1, <2>2, <2>3 DEF TypeOK
  <1>4. CASE Announce(d) /\ socketFile = NoDaemon
    BY <1>4, DeathKeepsInvariant DEF Announce, fileVars
  <1> QED
    BY <1>1, <1>2, <1>3, <1>4 DEF StartUp

\* Shutdown: who stops is the only one past its probe.
LEMMA ShutDownKeepsInvariant ==
  ASSUME TypeOK, LifecycleInvariant, NEW d \in Daemons, ShutDown(d)
  PROVE  LifecycleInvariant'
  <1> USE DEF LifecycleInvariant
  <1>1. PICK there \in {"draining", "unlinkingSocket", "unlinkingPid", "gone"} :
          /\ Goes(d, there) /\ phase[d] \in Stopping /\ UNCHANGED calm
          /\ there = "draining" => listening' = listening \ {d} /\ UNCHANGED gateways
          /\ there = "unlinkingSocket" => /\ phase[d] = "draining"
                                          /\ gateways' = gateways \ {d} /\ UNCHANGED listening
          /\ there \in {"unlinkingPid", "gone"} =>
               phase[d] \in {"unlinkingSocket", "unlinkingPid"} /\ UNCHANGED <<gateways, listening>>
    BY DEF ShutDown, CloseServer, CloseTransport, UnlinkSocket, UnlinkPid, In, Stopping
  <1>2. phase'[d] = there /\ \A e \in Daemons : e # d => phase'[e] = phase[e]
    BY <1>1 DEF Goes, TypeOK
  <1>3. ASSUME calm
        PROVE  /\ ~Overlap'
               /\ \A e, f \in Daemons : Past(e)' /\ Past(f)' => e = f
               /\ \A e \in Daemons : phase'[e] \notin {"announcing", "serving"}
    <2>1. ~Overlap'
      BY <1>1, <1>3, MoveAlone DEF Phase, Starting, Stopping
    <2>2. \A e \in Daemons : e # d => ~Past(e)
      BY <1>1, <1>3 DEF Past, Alive, In, Stopping
    <2> QED
      BY <1>1, <1>2, <2>1, <2>2 DEF Past, Alive, In
  <1> QED
    BY <1>1, <1>2, <1>3 DEF TypeOK

\* Every step keeps the invariant.
LEMMA StepKeepsLifecycleInvariant ==
  TypeOK /\ SignalsDaemon /\ LifecycleInvariant /\ [Next]_vars => LifecycleInvariant'
  <1> SUFFICES ASSUME TypeOK, SignalsDaemon, LifecycleInvariant, [Next]_vars
               PROVE  LifecycleInvariant'
    OBVIOUS
  <1>1. ASSUME NEW d \in Daemons, StartUp(d) \/ ShutDown(d) \/ Crash(d)
        PROVE  LifecycleInvariant'
    BY <1>1, StartUpKeepsInvariant, ShutDownKeepsInvariant, DeathKeepsInvariant DEF Crash
  <1>2. ASSUME UNCHANGED <<daemonVars, socketFile, calm>> PROVE LifecycleInvariant'
    BY <1>2 DEF LifecycleInvariant, daemonVars, Overlap, Past, Alive, In
  <1>3. ASSUME NEW c \in Clients, Connect(c) \/ Poll(c) \/ Leave(c) PROVE LifecycleInvariant'
    BY <1>2, <1>3 DEF Connect, Poll, Leave, fileVars
  <1>4. ASSUME NEW c \in Clients, NEW d \in Daemons, Spawn(c, d) PROVE LifecycleInvariant'
    <2> USE DEF LifecycleInvariant
    <2>1. /\ Goes(d, "probing") /\ NoteOverlap /\ In(d, "absent")
          /\ UNCHANGED <<listening, gateways, socketFile>>
      BY <1>4 DEF Spawn, fileVars
    <2>2. phase'[d] = "probing" /\ \A e \in Daemons : e # d => phase'[e] = phase[e]
      BY <2>1 DEF Goes, TypeOK
    <2>3. calm' => calm /\ ~Overlap'
      BY <2>1 DEF NoteOverlap
    <2> QED
      BY <2>1, <2>2, <2>3 DEF TypeOK, Past, Alive, In
  <1>5. ASSUME NEW s \in Stops, ReadPid(s) \/ RemoveStalePid(s) \/ AwaitExit(s)
        PROVE  LifecycleInvariant'
    BY <1>2, <1>5 DEF ReadPid, RemoveStalePid, AwaitExit, fileVars
  <1>6. ASSUME NEW s \in Stops, Signal(s) PROVE LifecycleInvariant'
    <2> DEFINE d == target[s]
    <2>1. d \in Daemons /\ UNCHANGED fileVars
      BY <1>6 DEF Signal, SignalsDaemon
    <2>2. CASE ~Alive(d)
      <3>1. UNCHANGED <<daemonVars, calm>>
        BY <1>6, <2>2 DEF Signal, Alive, In
      <3> QED
        BY <1>2, <2>1, <3>1 DEF fileVars
    <2>3. CASE Alive(d) /\ ~In(d, "serving")
      <3>1. Dies(d) /\ UNCHANGED calm
        BY <1>6, <2>3 DEF Signal
      <3> QED
        BY <2>1, <3>1, DeathKeepsInvariant
    <2>4. CASE In(d, "serving")
      <3> USE DEF LifecycleInvariant
      <3>1. Goes(d, "stopping") /\ NoteOverlap /\ UNCHANGED <<listening, gateways, socketFile>>
        BY <1>6, <2>1, <2>4 DEF Signal, Alive, In, fileVars
      <3>2. phase'[d] = "stopping" /\ \A e \in Daemons : e # d => phase'[e] = phase[e]
        BY <2>1, <3>1 DEF Goes, TypeOK
      <3>3. calm' => calm /\ ~Overlap'
        BY <3>1 DEF NoteOverlap
      <3> QED
        BY <2>1, <2>4, <3>1, <3>2, <3>3 DEF TypeOK, Past, Alive, In
    <2> QED
      BY <2>2, <2>3, <2>4
  <1>7. CASE UNCHANGED vars
    BY <1>2, <1>7 DEF vars, fileVars
  <1> QED
    BY <1>1, <1>3, <1>4, <1>5, <1>6, <1>7 DEF Next

\* The invariant holds in every reachable state.
THEOREM LifecycleInvariantHolds == Spec => []LifecycleInvariant
  BY InitHasLifecycleInvariant, TypedAlways, StepKeepsLifecycleInvariant, PTL DEF Spec

-----------------------------------------------------------------------------
(* What follows from it. *)

\* Of daemons that do not overlap, one holds the Gateway.
LEMMA InvariantIsSingle == TypeOK /\ LifecycleInvariant => CalmIsSingle
  <1> SUFFICES ASSUME TypeOK, LifecycleInvariant, calm PROVE Cardinality(gateways) <= 1
    BY DEF CalmIsSingle
  <1>1. \A d, e \in gateways : d = e
    BY DEF TypeOK, LifecycleInvariant, Past, Alive, In
  <1>2. CASE gateways = {}
    BY <1>2, FS_EmptySet
  <1>3. CASE gateways # {}
    <2>1. PICK d \in gateways : TRUE
      BY <1>3
    <2>2. gateways = {d}
      BY <1>1, <2>1
    <2> QED
      BY <2>2, FS_Singleton
  <1> QED
    BY <1>2, <1>3

\* Binding the socket as a lock keeps the Gateway to one process, as long as no
\* daemon is started beside one that starts or stops.
THEOREM CalmStartsAreSingle == Spec => []CalmIsSingle
  BY InvariantIsSingle, LifecycleTypeCorrect, LifecycleInvariantHolds, PTL

\* Under the same condition a serving daemon keeps its socket, whatever crashed
\* before, whoever yields and whoever runs stop.
THEOREM ServersAreReachable == Spec => []ServerIsReachable
  <1>1. LifecycleInvariant => ServerIsReachable
    BY DEF LifecycleInvariant, ServerIsReachable, In
  <1> QED
    BY <1>1, LifecycleInvariantHolds, PTL

-----------------------------------------------------------------------------
(* What `confer-daemon stop` says.  Its target holds the pid file for as long *)
(* as it lives, so the pid file goes away only with it.                      *)

Running    == {"stale", "signalling", "waiting"}
EverServed == {"serving", "gone"} \cup Stopping

StopInvariant ==
  /\ \A r, s \in Stops : stop[r] \in Running /\ stop[s] \in Running => r = s
  /\ pidFile # NoDaemon => phase[pidFile] \in EverServed
  /\ \A s \in Stops : stop[s] \in {"signalling", "waiting", "stopped"} =>
       target[s] \in Daemons /\ phase[target[s]] # "absent"
  /\ calm => \A s \in Stops : stop[s] \in {"signalling", "waiting"} /\ Alive(target[s]) =>
               pidFile = target[s]
  /\ StopTellsTruth

\* No process returns to a phase it has left for good, and what was not calm
\* never is again.
Onward ==
  /\ \A d \in Daemons : /\ phase[d] # "absent" => phase'[d] # "absent"
                        /\ phase[d] = "gone" => phase'[d] = "gone"
                        /\ phase[d] \in EverServed => phase'[d] \in EverServed
  /\ calm' => calm

\* A process that goes somewhere from a phase of its life goes on.
LEMMA GoingOn ==
  ASSUME TypeOK, NEW d \in Daemons, NEW there \in Phase, Goes(d, there), calm' => calm,
         phase[d] # "gone", there # "absent",
         phase[d] \in EverServed => there \in EverServed
  PROVE  Onward
  <1>1. phase'[d] = there /\ \A e \in Daemons : e # d => phase'[e] = phase[e]
    BY DEF Goes, TypeOK
  <1> QED
    BY <1>1 DEF Onward

\* A process that dies goes on, too.
LEMMA DyingGoesOn ==
  ASSUME TypeOK, NEW d \in Daemons, Dies(d), UNCHANGED calm
  PROVE  Onward
  <1>1. \A e \in Daemons : phase'[e] = IF e = d THEN "gone" ELSE phase[e]
    BY DEF Dies, Goes, TypeOK
  <1> QED
    BY <1>1 DEF Onward, EverServed

\* Every step takes the processes onward.
LEMMA StepGoesOn ==
  ASSUME TypeOK, SignalsDaemon, [Next]_vars
  PROVE  Onward
  <1>1. ASSUME NEW d \in Daemons, StartUp(d) PROVE Onward
    <2>1. CASE Announce(d) /\ socketFile = NoDaemon
      BY <2>1, DyingGoesOn DEF Announce
    <2>2. CASE ~(Announce(d) /\ socketFile = NoDaemon)
      <3>1. PICK there \in {"gone", "unlinking", "connecting", "removing", "binding",
                            "announcing", "serving"} :
              Goes(d, there) /\ phase[d] \in Starting /\ UNCHANGED calm
        BY <1>1, <2>2 DEF StartUp, Probe, UnlinkStale, ConnectGateway, RemoveBeforeBind, Bind,
           Announce, In, Starting
      <3> QED
        BY <3>1, GoingOn DEF Phase, Starting, Stopping, EverServed
    <2> QED
      BY <2>1, <2>2
  <1>2. ASSUME NEW d \in Daemons, ShutDown(d) PROVE Onward
    <2>1. PICK there \in {"draining", "unlinkingSocket", "unlinkingPid", "gone"} :
            Goes(d, there) /\ phase[d] \in Stopping /\ UNCHANGED calm
      BY <1>2 DEF ShutDown, CloseServer, CloseTransport, UnlinkSocket, UnlinkPid, In, Stopping
    <2> QED
      BY <2>1, GoingOn DEF Phase, Stopping, EverServed
  <1>3. ASSUME NEW d \in Daemons, Crash(d) PROVE Onward
    BY <1>3, DyingGoesOn DEF Crash
  <1>4. ASSUME UNCHANGED <<phase, calm>> PROVE Onward
    BY <1>4 DEF Onward
  <1>5. ASSUME NEW c \in Clients, Connect(c) \/ Poll(c) \/ Leave(c) PROVE Onward
    BY <1>4, <1>5 DEF Connect, Poll, Leave, daemonVars
  <1>6. ASSUME NEW c \in Clients, NEW d \in Daemons, Spawn(c, d) PROVE Onward
    BY <1>6, GoingOn DEF Spawn, NoteOverlap, In, Phase, Starting, Stopping, EverServed
  <1>7. ASSUME NEW s \in Stops, ReadPid(s) \/ RemoveStalePid(s) \/ AwaitExit(s) PROVE Onward
    BY <1>4, <1>7 DEF ReadPid, RemoveStalePid, AwaitExit, daemonVars
  <1>8. ASSUME NEW s \in Stops, Signal(s) PROVE Onward
    <2> DEFINE d == target[s]
    <2>1. d \in Daemons
      BY <1>8 DEF Signal, SignalsDaemon
    <2>2. CASE ~Alive(d)
      <3>1. UNCHANGED <<phase, calm>>
        BY <1>8, <2>2 DEF Signal, Alive, In, daemonVars
      <3> QED
        BY <1>4, <3>1
    <2>3. CASE Alive(d) /\ ~In(d, "serving")
      <3>1. Dies(d) /\ UNCHANGED calm
        BY <1>8, <2>3 DEF Signal
      <3> QED
        BY <2>1, <3>1, DyingGoesOn
    <2>4. CASE In(d, "serving")
      <3>1. Goes(d, "stopping") /\ NoteOverlap
        BY <1>8, <2>4 DEF Signal, Alive, In
      <3> QED
        BY <2>1, <2>4, <3>1, GoingOn DEF NoteOverlap, In, Phase, Stopping, EverServed
    <2> QED
      BY <2>2, <2>3, <2>4
  <1>9. CASE UNCHANGED vars
    BY <1>4, <1>9 DEF vars, daemonVars
  <1> QED
    BY <1>1, <1>2, <1>3, <1>5, <1>6, <1>7, <1>8, <1>9 DEF Next

\* A step onward that touches neither the pid file nor a stop command.
LEMMA OnwardKeepsStop ==
  ASSUME TypeOK, StopInvariant, Onward, UNCHANGED <<pidFile, stopVars>>
  PROVE  StopInvariant'
  BY DEF TypeOK, StopInvariant, Onward, StopTellsTruth, Alive, stopVars, MaybeDaemon

\* A live target is past its probe, and in calm nobody else is.
LEMMA TargetIsAlone ==
  ASSUME TypeOK, LifecycleInvariant, StopInvariant, calm, NEW s \in Stops,
         stop[s] \in {"signalling", "waiting"}, Alive(target[s]),
         NEW d \in Daemons, Past(d)
  PROVE  d = target[s] /\ phase[d] \in EverServed
  <1>1. target[s] \in Daemons /\ pidFile = target[s]
    BY DEF StopInvariant
  <1>2. phase[target[s]] \in EverServed
    BY <1>1 DEF StopInvariant
  <1>3. Past(target[s])
    BY <1>2 DEF Past, Alive, In, EverServed, Stopping
  <1> QED
    BY <1>1, <1>2, <1>3 DEF LifecycleInvariant

\* The pid file changes hands, or goes, only when no live target holds it.
LEMMA PidFileKeepsStop ==
  ASSUME TypeOK, LifecycleInvariant, StopInvariant, Onward, UNCHANGED stopVars,
         NEW d \in Daemons, Past(d), phase[d] \notin EverServed \/ phase'[d] = "gone",
         pidFile' = NoDaemon \/ (pidFile' = d /\ phase'[d] \in EverServed)
  PROVE  StopInvariant'
  <1>1. UNCHANGED <<stop, target>>
    BY DEF stopVars
  <1>2. ASSUME calm', NEW s \in Stops, stop[s] \in {"signalling", "waiting"},
               Alive(target[s])'
        PROVE  FALSE
    <2>1. calm /\ target[s] \in Daemons /\ Alive(target[s])
      BY <1>1, <1>2 DEF Onward, StopInvariant, Alive
    <2>2. d = target[s] /\ phase[d] \in EverServed
      BY <1>2, <2>1, TargetIsAlone
    <2> QED
      BY <1>1, <1>2, <2>2 DEF Alive
  <1>3. \A s \in Stops : stop[s] \in {"signalling", "waiting", "stopped"} =>
          target[s] \in Daemons /\ phase'[target[s]] # "absent"
    BY DEF StopInvariant, Onward
  <1>4. StopTellsTruth'
    BY <1>1, <1>3 DEF StopInvariant, Onward, StopTellsTruth, Alive
  <1> QED
    BY <1>1, <1>2, <1>3, <1>4 DEF StopInvariant

\* Every step keeps the invariant.
LEMMA StepKeepsStopInvariant ==
  TypeOK /\ SignalsDaemon /\ LifecycleInvariant /\ StopInvariant /\ [Next]_vars => StopInvariant'
  <1> SUFFICES ASSUME TypeOK, SignalsDaemon, LifecycleInvariant, StopInvariant, [Next]_vars
               PROVE  StopInvariant'
    OBVIOUS
  <1>0. Onward
    BY StepGoesOn
  <1>1. ASSUME NEW d \in Daemons, StartUp(d) PROVE StopInvariant'
    <2>1. CASE Announce(d) /\ socketFile # NoDaemon
      <3>1. /\ phase[d] = "announcing" /\ phase'[d] = "serving"
            /\ pidFile' = d /\ UNCHANGED stopVars
        BY <2>1 DEF Announce, In, Goes, TypeOK
      <3> QED
        BY <1>0, <3>1, PidFileKeepsStop DEF Past, Alive, In, EverServed, Stopping
    <2>2. CASE ~(Announce(d) /\ socketFile # NoDaemon)
      <3>1. UNCHANGED <<pidFile, stopVars>>
        BY <1>1, <2>2 DEF StartUp, Probe, UnlinkStale, ConnectGateway, RemoveBeforeBind, Bind,
           Announce, fileVars
      <3> QED
        BY <1>0, <3>1, OnwardKeepsStop
    <2> QED
      BY <2>1, <2>2
  <1>2. ASSUME NEW d \in Daemons, ShutDown(d) PROVE StopInvariant'
    <2>1. CASE UnlinkPid(d)
      <3>1. /\ phase[d] = "unlinkingPid" /\ phase'[d] = "gone"
            /\ pidFile' = NoDaemon /\ UNCHANGED stopVars
        BY <2>1 DEF UnlinkPid, In, Goes, TypeOK
      <3> QED
        BY <1>0, <3>1, PidFileKeepsStop DEF Past, Alive, In
    <2>2. CASE ~UnlinkPid(d)
      <3>1. UNCHANGED <<pidFile, stopVars>>
        BY <1>2, <2>2 DEF ShutDown, CloseServer, CloseTransport, UnlinkSocket, fileVars
      <3> QED
        BY <1>0, <3>1, OnwardKeepsStop
    <2> QED
      BY <2>1, <2>2
  <1>3. ASSUME NEW d \in Daemons, Crash(d) PROVE StopInvariant'
    BY <1>0, <1>3, OnwardKeepsStop DEF Crash, fileVars
  <1>4. ASSUME NEW c \in Clients, Connect(c) \/ Poll(c) \/ Leave(c) PROVE StopInvariant'
    BY <1>0, <1>4, OnwardKeepsStop DEF Connect, Poll, Leave, fileVars
  <1>5. ASSUME NEW c \in Clients, NEW d \in Daemons, Spawn(c, d) PROVE StopInvariant'
    BY <1>0, <1>5, OnwardKeepsStop DEF Spawn, fileVars
  <1>6. ASSUME NEW s \in Stops, ReadPid(s) PROVE StopInvariant'
    <2>1. /\ stop'[s] \in {"signalling", "stale"} /\ target'[s] = pidFile
          /\ stop'[s] = "signalling" => pidFile # NoDaemon /\ Alive(pidFile)
          /\ \A r \in Stops : stop[r] \notin Running
          /\ \A r \in Stops : r # s => stop'[r] = stop[r] /\ target'[r] = target[r]
          /\ UNCHANGED <<phase, pidFile, calm>>
      BY <1>6 DEF ReadPid, Running, TypeOK, daemonVars, fileVars
    <2>2. pidFile # NoDaemon => pidFile \in Daemons
      BY DEF TypeOK, MaybeDaemon
    <2> QED
      BY <2>1, <2>2 DEF StopInvariant, StopTellsTruth, Alive, Running
  <1>7. ASSUME NEW s \in Stops, RemoveStalePid(s) PROVE StopInvariant'
    <2>1. /\ stop[s] = "stale" /\ stop'[s] \in {"nothing", "removed"} /\ pidFile' = NoDaemon
          /\ \A r \in Stops : r # s => stop'[r] = stop[r]
          /\ UNCHANGED <<phase, target, calm>>
      BY <1>7 DEF RemoveStalePid, TypeOK, daemonVars
    <2>2. \A r \in Stops : stop'[r] \notin Running
      BY <2>1 DEF StopInvariant, Running
    <2> QED
      BY <2>1, <2>2 DEF StopInvariant, StopTellsTruth, Alive, Running
  <1>8. ASSUME NEW s \in Stops, Signal(s) PROVE StopInvariant'
    <2>1. /\ stop[s] = "signalling" /\ stop'[s] \in {"stale", "waiting"}
          /\ \A r \in Stops : r # s => stop'[r] = stop[r]
          /\ UNCHANGED <<target, pidFile>>
      BY <1>8 DEF Signal, TypeOK, fileVars
    <2>2. \A r \in Stops : stop'[r] \in Running => stop[r] \in Running
      BY <2>1 DEF Running
    <2>3. \A r \in Stops : stop[r] \in {"signalling", "waiting", "stopped"} =>
            /\ target[r] \in Daemons /\ phase'[target[r]] # "absent"
            /\ Alive(target[r])' => Alive(target[r])
      BY <1>0, <2>1 DEF StopInvariant, Onward, Alive
    <2>4. pidFile # NoDaemon => phase'[pidFile] \in EverServed
      BY <1>0 DEF TypeOK, MaybeDaemon, StopInvariant, Onward
    <2>5. calm' => \A r \in Stops : stop'[r] \in {"signalling", "waiting"} /\ Alive(target[r])' =>
                     pidFile = target[r]
      BY <1>0, <2>1, <2>3 DEF StopInvariant, Onward
    <2>6. StopTellsTruth'
      BY <1>0, <2>1, <2>3 DEF StopInvariant, StopTellsTruth, Onward
    <2> QED
      BY <2>1, <2>2, <2>3, <2>4, <2>5, <2>6 DEF StopInvariant
  <1>9. ASSUME NEW s \in Stops, AwaitExit(s) PROVE StopInvariant'
    <2>1. /\ stop[s] = "waiting" /\ stop'[s] \in {"stopped", "failed"}
          /\ stop'[s] = "stopped" => pidFile = NoDaemon
          /\ \A r \in Stops : r # s => stop'[r] = stop[r]
          /\ UNCHANGED <<phase, target, pidFile, calm>>
      BY <1>9 DEF AwaitExit, TypeOK, daemonVars, fileVars
    <2>2. calm /\ Alive(target[s]) => pidFile = target[s] /\ target[s] \in Daemons
      BY <2>1 DEF StopInvariant
    <2> QED
      BY <2>1, <2>2 DEF StopInvariant, StopTellsTruth, Alive, Running
  <1>10. CASE UNCHANGED vars
    BY <1>0, <1>10, OnwardKeepsStop DEF vars, fileVars
  <1> QED
    BY <1>1, <1>2, <1>3, <1>4, <1>5, <1>6, <1>7, <1>8, <1>9, <1>10 DEF Next

\* At first no stop command runs.
LEMMA InitHasStopInvariant == Init => StopInvariant
  BY DEF Init, StopInvariant, StopTellsTruth, Running

\* `confer-daemon stop` reports a daemon stopped only if it has ended, however
\* stops, crashes and start-ups interleave, as long as daemons do not overlap.
THEOREM StopsAreTrue == Spec => []StopTellsTruth
  <1>1. Spec => []StopInvariant
    BY InitHasStopInvariant, StepKeepsStopInvariant, TypedAlways, LifecycleInvariantHolds, PTL
      DEF Spec
  <1> QED
    BY <1>1, PTL DEF StopInvariant
=============================================================================
