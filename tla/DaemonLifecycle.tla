-------------------------- MODULE DaemonLifecycle --------------------------
(***************************************************************************)
(* The processes of confer-daemon: how MCP servers start them (client.py), *)
(* how one of them takes the socket and leaves it again (serve in core.py) *)
(* and how `confer-daemon stop` ends it (__main__.py).                     *)
(*                                                                         *)
(* They share two files and nothing else, so an action is what lies        *)
(* between two system calls on these files, or between two awaits.         *)
(***************************************************************************)
EXTENDS Naturals, FiniteSets

CONSTANTS Daemons,    \* daemon processes that may be started
          Clients,    \* MCP servers
          Stops,      \* runs of `confer-daemon stop`
          NoDaemon    \* in place of a daemon: no file, no connection

ASSUME NoDaemonIsNone == NoDaemon \notin Daemons

VARIABLES
  phase,        \* where each daemon process is in serve()
  listening,    \* the daemons whose server socket accepts
  gateways,     \* the daemons with a Discord Gateway connection
  socketFile,   \* the daemon that bound the file at socket_path()
  pidFile,      \* the daemon whose pid pid_file() holds
  client,       \* of each MCP server: where its connect() is
  conn,         \* the daemon it is connected to
  stop,         \* of each stop command: where _cmd_stop is
  target,       \* the daemon whose pid it read
  calm          \* history: no daemon was started beside one that starts or stops

daemonVars == <<phase, listening, gateways>>
fileVars   == <<socketFile, pidFile>>
clientVars == <<client, conn>>
stopVars   == <<stop, target>>
vars == <<daemonVars, fileVars, clientVars, stopVars, calm>>

Starting == {"probing", "unlinking", "connecting", "removing", "binding", "announcing"}
Stopping == {"stopping", "draining", "unlinkingSocket", "unlinkingPid"}
Phase    == {"absent", "serving", "gone"} \cup Starting \cup Stopping

MaybeDaemon == Daemons \cup {NoDaemon}

TypeOK ==
  /\ phase \in [Daemons -> Phase]
  /\ listening \subseteq Daemons /\ gateways \subseteq Daemons
  /\ socketFile \in MaybeDaemon /\ pidFile \in MaybeDaemon
  /\ client \in [Clients -> {"idle", "spawning", "polling", "connected",
                           "failed", "closed", "lost"}]
  /\ conn \in [Clients -> MaybeDaemon]
  /\ \A c \in Clients : client[c] = "connected" <=> conn[c] # NoDaemon
  /\ stop \in [Stops -> {"idle", "stale", "signalling", "waiting",
                         "nothing", "removed", "stopped", "failed"}]
  /\ target \in [Stops -> MaybeDaemon]
  /\ calm \in BOOLEAN

Init ==
  /\ phase = [d \in Daemons |-> "absent"]
  /\ listening = {} /\ gateways = {}
  /\ socketFile = NoDaemon /\ pidFile = NoDaemon
  /\ client = [c \in Clients |-> "idle"]
  /\ conn = [c \in Clients |-> NoDaemon]
  /\ stop = [s \in Stops |-> "idle"]
  /\ target = [s \in Stops |-> NoDaemon]
  /\ calm = TRUE

Alive(d) == phase[d] \notin {"absent", "gone"}
In(d, here) == phase[d] = here
Goes(d, there) == phase' = [phase EXCEPT ![d] = there]

\* A daemon starts beside another that starts or stops.
Overlap == \E d, e \in Daemons : d # e /\ phase[d] \in Starting
                                      /\ phase[e] \in Starting \cup Stopping
NoteOverlap == calm' = (calm /\ ~Overlap')

\* Connecting to the path reaches whoever bound the file, if it still listens.
Reachable == socketFile \in listening

\* Mutant: its clients do not notice.
DiesUnnoticed(d) ==
  /\ Goes(d, "gone")
  /\ listening' = listening \ {d}
  /\ gateways' = gateways \ {d}
  /\ conn' = [c \in Clients |-> IF conn[c] = d THEN NoDaemon ELSE conn[c]]
  /\ UNCHANGED client

\* The process ends where it is: an exception, a crash, a signal nobody handles.
Dies(d) ==
  /\ Goes(d, "gone")
  /\ listening' = listening \ {d}
  /\ gateways' = gateways \ {d}
  /\ client' = [c \in Clients |-> IF conn[c] = d THEN "lost" ELSE client[c]]
  /\ conn' = [c \in Clients |-> IF conn[c] = d THEN NoDaemon ELSE conn[c]]

-----------------------------------------------------------------------------
(* serve(): start-up. *)

\* Mutant: whatever the path leads to, the daemon starts.
ProbeBlindly(d) ==
  /\ In(d, "probing")
  /\ Goes(d, "unlinking")
  /\ UNCHANGED <<listening, gateways, fileVars, clientVars, stopVars, calm>>

\* Mutant: a daemon that yields cleans up as one that served.
ProbeTidily(d) ==
  /\ In(d, "probing")
  /\ Goes(d, IF Reachable THEN "gone" ELSE "unlinking")
  /\ socketFile' = NoDaemon
  /\ UNCHANGED <<listening, gateways, pidFile, clientVars, stopVars, calm>>

\* A daemon that finds another one at the socket leaves at once.
Probe(d) ==
  /\ In(d, "probing")
  /\ Goes(d, IF Reachable THEN "gone" ELSE "unlinking")
  /\ UNCHANGED <<listening, gateways, fileVars, clientVars, stopVars, calm>>

UnlinkStale(d) ==
  /\ In(d, "unlinking")
  /\ Goes(d, "connecting")
  /\ socketFile' = NoDaemon
  /\ UNCHANGED <<listening, gateways, pidFile, clientVars, stopVars, calm>>

\* The Gateway comes up, or the login or the wait for it raises and the process
\* ends.
ConnectGateway(d) ==
  /\ In(d, "connecting")
  /\ \/ Goes(d, "removing") /\ gateways' = gateways \cup {d}
     \/ Goes(d, "gone") /\ UNCHANGED gateways
  /\ UNCHANGED <<listening, fileVars, clientVars, stopVars, calm>>

\* start_unix_server removes a socket it finds at the path before it binds.
RemoveBeforeBind(d) ==
  /\ In(d, "removing")
  /\ Goes(d, "binding")
  /\ socketFile' = NoDaemon
  /\ UNCHANGED <<listening, gateways, pidFile, clientVars, stopVars, calm>>

\* The path is free, or was taken since: EADDRINUSE, and the daemon leaves.
Bind(d) ==
  /\ In(d, "binding")
  /\ IF socketFile = NoDaemon
       THEN /\ Goes(d, "announcing")
            /\ socketFile' = d
            /\ listening' = listening \cup {d}
            /\ UNCHANGED gateways
       ELSE /\ Goes(d, "gone")
            /\ gateways' = gateways \ {d}
            /\ UNCHANGED <<socketFile, listening>>
  /\ UNCHANGED <<pidFile, clientVars, stopVars, calm>>

\* The socket file gets its mode, which raises when somebody has removed it; then
\* the pid file is written and the signal handlers are set.
Announce(d) ==
  /\ In(d, "announcing")
  /\ IF socketFile = NoDaemon
       THEN /\ Dies(d)
            /\ UNCHANGED pidFile
       ELSE /\ Goes(d, "serving")
            /\ pidFile' = d
            /\ UNCHANGED <<listening, gateways, clientVars>>
  /\ UNCHANGED <<socketFile, stopVars, calm>>

-----------------------------------------------------------------------------
(* serve(): shutdown. *)

\* Mutant: the pid file goes first.
CloseServerAndPid(d) ==
  /\ In(d, "stopping")
  /\ Goes(d, "draining")
  /\ listening' = listening \ {d}
  /\ pidFile' = NoDaemon
  /\ UNCHANGED <<gateways, socketFile, clientVars, stopVars, calm>>

\* The listening socket closes.  Python 3.13 removes its file too, if the path
\* still leads to it; 3.12 leaves that to serve().
CloseServer(d) ==
  /\ In(d, "stopping")
  /\ Goes(d, "draining")
  /\ listening' = listening \ {d}
  /\ \/ UNCHANGED socketFile
     \/ socketFile = d /\ socketFile' = NoDaemon
  /\ UNCHANGED <<gateways, pidFile, clientVars, stopVars, calm>>

\* Mutant: the transport waits for its connection to end before it closes it.
CloseTransportLast(d) ==
  /\ In(d, "draining")
  /\ \A c \in Clients : conn[c] # d
  /\ d \notin gateways
  /\ Goes(d, "unlinkingSocket")
  /\ UNCHANGED <<listening, gateways, fileVars, clientVars, stopVars, calm>>

\* wait_closed() returns once every client has left; then the transport closes
\* the Gateway, and only then waits for its task.
CloseTransport(d) ==
  /\ In(d, "draining")
  /\ \A c \in Clients : conn[c] # d
  /\ Goes(d, "unlinkingSocket")
  /\ gateways' = gateways \ {d}
  /\ UNCHANGED <<listening, fileVars, clientVars, stopVars, calm>>

\* Whoever the path leads to by now.
UnlinkSocket(d) ==
  /\ In(d, "unlinkingSocket")
  /\ Goes(d, "unlinkingPid")
  /\ socketFile' = NoDaemon
  /\ UNCHANGED <<listening, gateways, pidFile, clientVars, stopVars, calm>>

UnlinkPid(d) ==
  /\ In(d, "unlinkingPid")
  /\ Goes(d, "gone")
  /\ pidFile' = NoDaemon
  /\ UNCHANGED <<listening, gateways, socketFile, clientVars, stopVars, calm>>

\* At any moment.
Crash(d) ==
  /\ Alive(d)
  /\ Dies(d)
  /\ UNCHANGED <<fileVars, stopVars, calm>>

-----------------------------------------------------------------------------
(* An MCP server connects, starting a daemon if it has to. *)

Connected(c) ==
  /\ client' = [client EXCEPT ![c] = "connected"]
  /\ conn' = [conn EXCEPT ![c] = socketFile]

\* Nobody at the socket: it will start a daemon.
Connect(c) ==
  /\ client[c] = "idle"
  /\ IF Reachable
       THEN Connected(c)
       ELSE client' = [client EXCEPT ![c] = "spawning"] /\ UNCHANGED conn
  /\ UNCHANGED <<daemonVars, fileVars, stopVars, calm>>

\* Whoever else may be starting one by now.
Spawn(c, d) ==
  /\ client[c] = "spawning" /\ In(d, "absent")
  /\ client' = [client EXCEPT ![c] = "polling"]
  /\ Goes(d, "probing")
  /\ NoteOverlap
  /\ UNCHANGED <<conn, listening, gateways, fileVars, stopVars>>

\* It tries again every 0.1 s, for 10 s.
Poll(c) ==
  /\ client[c] = "polling"
  /\ IF Reachable
       THEN Connected(c)
       ELSE client' = [client EXCEPT ![c] = "failed"] /\ UNCHANGED conn
  /\ UNCHANGED <<daemonVars, fileVars, stopVars, calm>>

\* The agent's session ends.
Leave(c) ==
  /\ client[c] = "connected"
  /\ client' = [client EXCEPT ![c] = "closed"]
  /\ conn' = [conn EXCEPT ![c] = NoDaemon]
  /\ UNCHANGED <<daemonVars, fileVars, stopVars, calm>>

-----------------------------------------------------------------------------
(* `confer-daemon stop`. *)

\* The pid file names a live daemon, or not.  The user runs one command after
\* the other.
ReadPid(s) ==
  /\ stop[s] = "idle"
  /\ \A r \in Stops : stop[r] \notin {"stale", "signalling", "waiting"}
  /\ stop' = [stop EXCEPT ![s] = IF pidFile # NoDaemon /\ Alive(pidFile)
                                  THEN "signalling" ELSE "stale"]
  /\ target' = [target EXCEPT ![s] = pidFile]
  /\ UNCHANGED <<daemonVars, fileVars, clientVars, calm>>

\* It looks again whether there is a pid file, and removes what is there by now.
RemoveStalePid(s) ==
  /\ stop[s] = "stale"
  /\ stop' = [stop EXCEPT ![s] = IF pidFile = NoDaemon THEN "nothing" ELSE "removed"]
  /\ pidFile' = NoDaemon
  /\ UNCHANGED <<daemonVars, socketFile, clientVars, target, calm>>

\* SIGTERM begins the shutdown of a serving daemon; during the shutdown, or
\* before the handlers are set, it kills.
Signal(s) ==
  /\ stop[s] = "signalling"
  /\ \/ /\ ~Alive(target[s])
        /\ stop' = [stop EXCEPT ![s] = "stale"]
        /\ UNCHANGED <<daemonVars, clientVars, calm>>
     \/ /\ In(target[s], "serving")
        /\ stop' = [stop EXCEPT ![s] = "waiting"]
        /\ Goes(target[s], "stopping")
        /\ NoteOverlap
        /\ UNCHANGED <<listening, gateways, clientVars>>
     \/ /\ Alive(target[s]) /\ ~In(target[s], "serving")
        /\ stop' = [stop EXCEPT ![s] = "waiting"]
        /\ Dies(target[s])
        /\ UNCHANGED calm
  /\ UNCHANGED <<fileVars, target>>

\* For 5 s it looks whether the pid file is gone.
AwaitExit(s) ==
  /\ stop[s] = "waiting"
  /\ stop' = [stop EXCEPT ![s] = IF pidFile = NoDaemon THEN "stopped" ELSE "failed"]
  /\ UNCHANGED <<daemonVars, fileVars, clientVars, target, calm>>

-----------------------------------------------------------------------------
StartUp(d) == \/ Probe(d) \/ UnlinkStale(d) \/ ConnectGateway(d)
              \/ RemoveBeforeBind(d) \/ Bind(d) \/ Announce(d)
ShutDown(d) == \/ CloseServer(d) \/ CloseTransport(d)
               \/ UnlinkSocket(d) \/ UnlinkPid(d)

Next ==
  \/ \E d \in Daemons : StartUp(d) \/ ShutDown(d) \/ Crash(d)
  \/ \E c \in Clients : Connect(c) \/ Poll(c) \/ Leave(c) \/ \E d \in Daemons : Spawn(c, d)
  \/ \E s \in Stops : ReadPid(s) \/ RemoveStalePid(s) \/ Signal(s) \/ AwaitExit(s)

Spec == Init /\ [][Next]_vars

\* A process that can go on does; Discord lets it in or refuses it.
Fairness == \A d \in Daemons : WF_vars(StartUp(d)) /\ WF_vars(ShutDown(d))
FairSpec == Spec /\ Fairness

-----------------------------------------------------------------------------
(* What makes the daemon a singleton. *)

\* "Race protection across concurrent auto-spawns is free": one daemon serves.
Singleton == \A d, e \in Daemons : In(d, "serving") /\ In(e, "serving") => d = e

\* Binding the socket as a lock keeps even the Gateway to one process, whatever
\* crashes leave behind, as long as no daemon starts beside one that starts or
\* stops.  Two would read, and answer, each of the user's messages twice.
CalmIsSingle == calm => Cardinality(gateways) <= 1

\* A serving daemon can be reached at the socket: neither a daemon that yields to
\* it nor what a crash left behind takes the path from it.  The late unlink of a
\* predecessor that is still stopping is outside: `calm` is false by then.
ServerIsReachable == calm => \A d \in Daemons : In(d, "serving") => socketFile = d

\* `confer-daemon stop` says a daemon stopped only if it has.
StopTellsTruth ==
  \A s \in Stops : calm /\ stop[s] = "stopped" => ~Alive(target[s])

\* A daemon that was told to stop ends once its clients have left.
DrainedDaemonEnds ==
  \A d \in Daemons :
    phase[d] \in Stopping \ {"stopping"} /\ (\A c \in Clients : conn[c] # d) ~> In(d, "gone")

\* Past its probe a daemon takes the path for its own.
Past(d) == Alive(d) /\ ~In(d, "probing")

\* What carries CalmIsSingle from one step to the next: of the daemons past
\* their probe there is one, and a probe that is still to be made will find it.
LifecycleInvariant ==
  /\ \A d \in listening : phase[d] \in {"announcing", "serving", "stopping"}
  /\ \A d \in gateways : phase[d] \in {"removing", "binding", "announcing", "serving",
                                       "stopping", "draining"}
  /\ calm =>
       /\ ~Overlap
       /\ \A d, e \in Daemons : Past(d) /\ Past(e) => d = e
       /\ \A d \in Daemons : phase[d] \in {"announcing", "serving"} =>
                               socketFile = d /\ d \in listening
=============================================================================
