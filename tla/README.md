# confer: a TLA+ model

confer lets AI coding agents reach their user over Discord DMs. This directory
holds TLA+ modules that model its concurrent core, TLC configurations that
check them on small instances, and TLAPS proofs of what matters most for every
value of the constants. `PROJECT.json` maps every definition to the lines it
models; this file explains the whole.

Paths are those of the repository (`src/confer/...`, `this.i`, `README.md`).

## 1. The system

| Component | State it keeps | Operations | Talks to |
|---|---|---|---|
| Daemon core (`daemon/core.py`) | `_clients` (label to connection), `_pending_asks`, `_notify_threads`, `_queues`, two tasks per ask | HELLO, notify, ask, AskCancel, check_messages, Bye, disconnect; reply, timeout, re-ping; laptop answers | MCP servers and the CLI over a Unix socket, Discord through the transport |
| Routing ladder (`daemon/routing.py`) | none | decides where a user's message goes | called by the core |
| Transport (`daemon/transport.py`) | the Gateway connection, a DM channel cache | send a DM, receive one | Discord |
| Client and MCP server (`client.py`, `server.py`) | `_pending`, `_pending_ask_request_ids`, the read task | ask, notify, check_messages; connect, close; ESC | the daemon, its agent |
| Process lifecycle (`core.serve`, `daemon/__main__.py`, `client.connect`) | the socket file, the pid file, the running processes | start, serve, shut down, stop, status | each other, by the two files only |
| Presence (`presence.py`, `awaytime.py`, `hooks.py`, the watcher in `core.py`) | the presence file; what the daemon announced | away, back, prompt hook, Stop hook, activation watch | each other, by the file only |
| User CLI (`cli.py`) | none | answer, away, back, list, status, setup, install-hooks | the daemon, the presence file, the files below |
| Integrations (`integrations.py`, called by setup and install-hooks) | `config.toml`, `~/.claude/settings.json`, two slash commands | install | Claude Code and the user, who edit the same settings |
| Release (`scripts/release.py`) | a checkout: `pyproject.toml`, main, tags | cut a release | the remote, other checkouts |
| Wire protocol, config, lint scripts | none at run time | encoding, TOML, filters over files | |

### What is hard about it, and what makes each part correct

* **Daemon core.** One asyncio thread, so it has no data races, but every
  `await` of a Discord call lets replies, timeouts, withdrawals and disconnects
  in. The four race for one entry of `_pending_asks`. Correct means: an ask is
  answered at most once, can always time out, does not outlive its agent, never
  hangs; tags and labels are unique; what belongs to one agent never reaches
  another.
* **Routing.** A pure function with prefix rules; correct means it never guesses
  among several threads.
* **Client.** The read loop, the calls and their `finally` blocks edit the same
  table; ESC and shutdown race with answers; the daemon may vanish between any
  two lines. Correct means: every call ends, and the daemon never holds an ask
  nobody waits for.
* **Lifecycle.** Processes that share nothing but two files; correct means one
  daemon, reachable, and a `stop` that tells the truth about it.
* **Presence.** Short processes rewrite one file without a lock, and each write
  empties it first; correct means nothing scheduled is lost, nothing cancelled
  comes back, no false notice, no wedged session.
* **The two ends of the socket.** Daemon and client each rely on what lines the
  other writes, and neither checks it. Correct means: each end is what the other
  assumes, what agent and user hear of an ask agrees, what is handed over arrives, and
  an agent that is gone is forgotten.
* **Installation.** Read-modify-write of files that belong to others, interrupted
  and repeated. Correct means "idempotent and non-clobbering" (`integrations.py`).
* **Release.** Seven commands, any of which may fail, over a checkout and a remote
  that others move. Correct means that what is tagged was tested, is on main, has
  its version, and is no downgrade.

`PROJECT.json` lists each hazard at its line with the properties that would catch it
going wrong, or the reason why none does: several happen in the model and are
excluded by a premise (`calm`, at rest, not closed) of the property nearest to them.

## 2. The modules

| Module | Models | Checked by |
|---|---|---|
| `ReplyRouting` | `routing.py`, as operators | `MCReplyRouting` |
| `ConferDaemon` (EXTENDS `ReplyRouting`) | the serving daemon, and the agents and the user as its environment | `MCConferDaemon` |
| `AskLifecycle` | abstract: what the daemon promises about one ask | refined by `ConferDaemon` |
| `DaemonClient` | one MCP server process and its daemon's end of the socket | itself |
| `DaemonLifecycle` | daemon processes, MCP servers that start them, stop commands | itself |
| `Presence` | the presence file, its writers and readers | itself |
| `AgentSession` (EXTENDS `DaemonClient`, INSTANCEs `ConferDaemon`) | the two ends of one socket composed | `MCAgentSession` |
| `Installation` | `confer setup` and `confer install-hooks` over their files | `MCTools` |
| `Release` | `release.py` in several checkouts of one remote | `MCTools` |
| `ConferDaemonProofs`, `ConferRegistryProofs`, `DaemonClientProofs`, `DaemonLifecycleProofs`, `PresenceProofs`, `ReplyRoutingProofs`, `ToolsProofs`, `AgentSessionProofs` | theorems | TLAPS |

Conventions. An operator commented `Mutant:` stands before the definition it
spoils. It is a plausible bug of that line; no action uses it. Substituted for
the real one it makes a property fail, which shows that the property depends
on the code. Variables called *history* record what
happened for the properties; no guard reads them, with one exception noted for
`cancelled` below. Bounds are constants marked `bound:`.

### 2.1 ReplyRouting and MCReplyRouting

A message is what the two regular expressions of `routing.py` extract: the
sigil `.`, the marker `re`, the tags its first token is a prefix of, and the
tag it spells in full. `MCReplyRouting` builds those from real letter sequences,
so that prefix means prefix. `ConferDaemon` routes every user message through
the same operators.

### 2.2 ConferDaemon

An action is the code between two awaits that wait for something outside the
daemon: a line, a sleep, a Discord call. Awaits that never suspend (a write to a
socket with room, a lock nobody holds) do not split an action.

| Code | Model |
|---|---|
| `_clients` | `clients`, label to connection or `NoConn` |
| `_handle_client`'s local `client_label` | `label` |
| position of a connection's handler | `pc`, with the asks it still touches in `work` |
| `_pending_asks` membership | `status[a] = "open"` |
| the tag, the timeout task, the re-ping task of an entry | `tag`, `timer`, `reping` |
| `_notify_threads`, `_queues` | `threads`, `queues` |
| the socket's two directions | `inbox`; `peer` ("open", "closed", "reset") |

What to know when reading it:

* A write to a peer that has closed breaks the socket; the handler's next read
  raises even if lines are buffered. That is `AfterWriteTo` and `Receive`.
* `Teardown` and `DropNext` are the `finally` block: registry entry, then one
  awaited DM per orphaned ask, then the notify-threads. The code walks the
  snapshot in the table's order; the model in any order.
* A DM counts as sent when its call is made. Whether Discord takes it makes no
  difference to the daemon's state, except in `notify`, which reports it.
* `_cancel_ask_tasks` awaits the cancelled tasks. Neither task runs again
  before the await returns, so it is one step.
* `Candidates` are the labels `preferred#xxxx` that a handshake may draw; the
  tag pool stands for the code's random draws that avoid the tags in use.
* `cancelled` says what the agent sent; the agent's own actions read it, the
  daemon's do not.
* `Close` is one step of the agent's end: `close()` writes the withdrawals of
  its asks in flight, Bye, and closes (`Farewell`); the writes do not suspend.
  The agent may withdraw an ask whose answer is still on its way to it, so the
  asks it withdraws are all that are in flight, and any of those.
* A re-ping happens only while the timeout task sleeps: both compare with one
  deadline.
* Not in the model: status and list (read-only), decisions that change nothing
  but a DM (bounce, ambiguous, concierge), a second HELLO, malformed lines, a
  client that stops reading its socket. The `late_reply` branch
  (`core.py:605-610`) cannot be reached: nothing is awaited between the routing
  decision and the pop.

`AskLifecycle` is the promise: idle, open, settled once and for good; answered
at most once and only by a reply or a timeout; never open for ever. `ConferDaemon`
implements it under `phase <- Phase(a)`, `answers <- told`.

### 2.3 DaemonClient

A call (`ask`, `notify`, `check_messages`, or the handshake) registers a future
in `_pending`, writes its line and waits; the read loop resolves futures; the
daemon's end reads lines in order and may disconnect at any moment. `socket` is
"ended" (orderly), "reset" (it left lines unread, and whatever the client had not read
is lost with them) or "broken" (the client wrote to it afterwards). `Forget` is the
`finally` block of `ask`; the other calls leave their entry to the read loop. A
line may exceed the 64 KiB limit of the stream only in the answer to
`check_messages`. `Close` is the end of the lifespan: withdrawals, Bye, the close of
the transport. Closing the transport feeds the read loop an end of file before
`wait_closed()` returns (`client.py:200-202`), so the loop fails whatever is in flight
(`CloseTransport`, `FailPending`) before its task is cancelled: at a graceful close the
calls in flight are told that the daemon is gone. `DisconnectIsReal` is therefore about
a session that was not closed. The daemon of this module is what `ConferDaemon` does as its
client sees it, which `AgentSession` checks.

### 2.4 DaemonLifecycle

An action is what lies between two system calls on the socket and pid files, or
two awaits. Start: probe, unlink a stale socket, connect the Gateway, bind
(`start_unix_server` first removes a socket it finds, a separate step), write
the pid file. Shutdown: close the server, wait for the clients, close the Gateway,
unlink both files. Python 3.12's `wait_closed` waits for every connection, 3.13
also unlinks its own socket: the model allows both. A crash is possible
everywhere and leaves the files. `calm` records that no daemon was started
beside one that starts or stops. Stop commands run one after another (one user).
Not modelled: a binary missing from PATH, reuse of a pid by another program.

### 2.5 Presence

A writer reads the file and decides (one step), opens it, which empties it (one
step), writes it (one step); removing it is one step. `attached` tells whether
the file a writer holds open is still the one at the path, so a write into a
removed file is lost and a short text over a longer one leaves it corrupt. An
empty or corrupt file reads as away, as `read_presence` says. The pending list is
a bag of moments: the same one may be scheduled twice. `meant` is what the user's
commands ask for, computed without looking at the file.

Time counts in moments. Some of them are full minutes (`Clock`): `at <HHMM>` and
`back at <HHMM>` name these (`ToCome`), while `in <min>` names the others, for it
counts from the second it is typed in (`FromNow`). `Minute` holds the moments that
the status shows with one HH:MM. A user who types `back at` means all of them;
`cancel_pending` compares exactly, so it removes the entries of the full minute and
leaves those of `away in`. `overlooked` records the latter, and `AsMeant` lets the file
have more entries than the user means there and nowhere else. Notes, and how a
number of minutes or an HHMM is read, are left out.

### 2.6 AgentSession

The process of `DaemonClient` and the daemon of `ConferDaemon`, both whole, at the
two ends of one socket. The client's `requests` are the daemon's `inbox`, read
through `LineOf`; a line the daemon has in its hands but not answered (`held`) is
still unread to the client's module and already read to the daemon's. Each step
is a step of one end, by name, with what it does to the socket: `GreetingRead` is
`Server!HandleHello` with the answer appended to the client's `answers`, and so on.
`HangUp` is the close of the daemon's end: an end of file, or a reset when it leaves
lines unread. `Killed` is the death of the process, of which `DaemonClient` knows
nothing. When the client's end closes or dies with answers it has not read, the kernel
resets the connection and the lines still on their way to the daemon may never be seen
(`LinesAreLost`).

`ImplementsDaemon` and `ImplementsClient` are refinements: the composed behaviour,
seen from either end, is a behaviour of that end's own module. What each module
assumes of its environment is so checked against the other's code, including the
fairness that `DaemonClient` assumes of the daemon. `ConferDaemon` rests on the order
and freshness of an agent's lines, which `ImplementsDaemon` shows of the real client.
Apart from the fairness both refinements are proved (section 4).

### 2.7 Installation and Release

`Installation`: a command is a process; opening a file empties it and is one step,
writing it is the next, as in `Presence`. Setup looks for a configuration, prompts,
writes it, registers and perhaps installs; install-hooks is the last part alone.
Claude Code or its user add settings and break and repair the file at any time. A
hook belongs to the path of the binary (`Bins`) that installed it; the tokens are
the setups that wrote them. The histories `calm` and `torn` record whether anybody
wrote beside a command and whether one was killed with the settings open, since
nothing can be promised then.

`Release`: each action is one git command or one function of the script with its
early exits; `Stops` is any failure. A history is a sequence of commits, which also
serves as its hash. Maintainers work, restore, pull, rebase and push between runs and
while a run waits for a message or its tests; `touched` records the latter. `tested`
is a ghost in a commit: whether the tests passed on what it was made of.

The two share nothing, so `MCTools` chooses one of them at the start and one run
explores both; their states add up.

## 3. The runs

| Run | Instance | States (depth) | Shows |
|---|---|---|---|
| `routing` | 4 two-letter tags, every set of open threads, every token of 0-3 letters | 9,720 (2) | the ladder never guesses and never broadcasts to nobody |
| `asks` | 1 agent, 2 asks, 2 tags, 2 lines in flight | 211,312 (21) | every race over an ask settles it once, tells the user, never hangs, refines `AskLifecycle` |
| `agents` | 2 agents of one checkout, 1 ask, notifies, 3 tags, queues of 1 | 704,449 (24), tag symmetry | unique tags and labels; the registry names who is served; nothing of one agent held under another's label |
| `client` | 2 asks, 1 check_messages, the handshake | 66,797 (23) | no ask without caller, clean shutdown, no false alarm while the session lasts, every call ends |
| `session` | 1 process, 1 daemon; any 2 of 2 asks, a notify, a check_messages; 2 tags, untagged replies | 127,849 (24) | each end implements what the other assumes; what agent and user hear agrees; what is handed over arrives; an agent that is gone is forgotten |
| `tools` | 2 commands, 2 binaries, 1 setting of the user's; or 2 checkouts, 3 versions | 843,890 (42), symmetry | installing is idempotent and non-clobbering; releases are true, tested and in order |
| `lifecycle` | 2 daemons, 2 MCP servers, 2 stops | 157,956 (35) | started one at a time, daemons are single and reachable; stop tells the truth |
| `presence` | 2 commands, 1 session, 1 daemon, a full minute and a moment in it | 157,432 (22) | the file is as meant but for what `back at` cannot name, notices are true, none is missed, no session is wedged |

Each of the remaining four runs looks for one disagreement with what the
repository says of itself, and finds it (section 6).

Why the bounds are enough. Two asks are what a race between an ask and the
cleanup of its neighbour needs; two agents are what competition for a label
needs, with a third tag so that an ask and two notify-threads hold different
ones at once. Queues and thread lists of length one are at their limit after one
entry, so eviction happens at once. Two lines in flight let a withdrawal or Bye
stand behind the line before it. For the client one call of each behaviour is
enough, as calls interact through the table and the order of lines only; the
stranded run uses a notify as well. Two daemons
are a daemon and its successor or rival; two stops are a stop and a stop that
finds other files. In `session` two calls at a time
(`MaxCalls`) give every pair of behaviours that meet on the socket; with one agent
an untagged message reaches the ask that is alone or is a broadcast, so tagged ones
add nothing, and `FirstTagFirst` draws the second tag only beside the first, since the
two are alike, `FirstAskFirst` makes the second ask only after the first; the notify
of this run has the thread that `DepartedAgentIsForgotten` needs, and its raising
Discord call. For `tools` two commands are a run and its rerun or rival, two
checkouts a release and what is pushed beside it; three versions are two releases
or a downgrade; `MaxWork` lets one commit of work stand beside the release.
For presence two commands and a hook are three writers, and
a full minute and a moment in it are an `at` and an `in`
entry of one HH:MM, and an earlier and a later one.
`TagSymmetry` is sound in `agents` because its configuration, its invariants and
`UserMessages` treat all tags alike, and in `tools` because commands and checkouts are
interchangeable and only invariants are checked; the runs with liveness use no
symmetry.

`CHECK_DEADLOCK FALSE` stands where the environment may finish: all calls made, all
connections closed, all processes gone. `routing`, `presence` and `lost_schedule`
never stop and keep the check.

### Fairness

* `ConferDaemon`: weak fairness of each handler and of each timeout task. The
  event loop runs what can run, `asyncio.sleep` ends, discord.py's calls return
  or raise. The user and the agents promise nothing, so `EveryAskReturns` holds
  for a user who never replies and an agent that never goes away.
* `DaemonClient`: the read loop, the returns of the calls, the daemon's reading, and
  its settling of each open ask. The last is `EveryAskReturns` of `ConferDaemon`.
* `AgentSession`: the client's read loop and returning calls, the daemon's handler and
  the deadlines of its asks. From these TLC concludes `DaemonClient`'s own fairness, for
  as long as the process lives. `MCFairness` states it for TLC of all calls, and of all
  deadlines, at once: each of these happens once, so it comes to the same.
* `DaemonLifecycle`: the steps of start-up and shutdown. Discord lets the daemon
  in or refuses it; clients need not leave.
* `Presence`: the writers, the Stop hook and the watcher. The clock and the user
  promise nothing; `MomentsAreAnnounced` releases a moment that the user
  cancels by coming back, and a daemon that stops.

## 4. The proofs

All for every value of the constants, from the named ASSUMEs of the modules.

**ConferDaemonProofs.** `TypeCorrect`. Then `AskInvariantHolds`: of the four parts
of `AskInvariant` only `AskLinesAreFresh` is not a property of interest in
itself. Without it the others are not inductive: a second AskBegin for an ask
already open or settled would reopen it. With it: an ask that is `open` was
answered by nobody, so the handler that pops it is the only one to answer
(`AnsweredOnce`); its tasks are there or its handler is about to create them
(`NoAskWithoutTimeout`); and its handler is serving or has it in its snapshot
(`NoOrphanAsk`), because a disconnect takes all open asks of the connection in
one step. The one action that writes many lines at once, `Close`, has lemmas of its
own: `FarewellTyped` (an order of finitely many asks exists and its lines are typed)
and `ConcatKeepsFresh` (withdrawals behind the buffered lines leave each AskBegin the
only one of its ask).

`StepsImplementLifecycle`: initial states of the daemon are
initial states of `AskLifecycle` and each step is one of its steps or none, from the
types and `AskInvariant` (an ask that begins was never begun; one that is answered was
not answered). `ClosingDmIsTrue` needs that a snapshot of orphans holds only asks that
were open when it was taken (`OrphansWereAsked`): then a lost-contact DM is about
an ask that is settled, by this handler or before it.

**ConferRegistryProofs.** `RegistryInvariantHolds` joins the five properties of the
`agents` run with two more. `LabelsAreHeld` says which handlers have a label at all;
`MessagesAreForKnown` that a message is for an agent that has shaken hands. Without
the second, a message could wait for an agent whose handshake then gives it another
label, and `MessagesWaitForTheirAgent` would break without anybody having done wrong.
The properties follow: `ServedIsRegistered`, `OnlyServedAreRegistered`,
`NoOrphanThread`, `NoMisdelivery`, `NoSharedTag`.

**ReplyRoutingProofs.** For tags of any one length over any letters, any open threads
and any message. `LadderInvariantHolds` ties the decision to the ladder and the
message to its token; `FullTagIsExact` is the fact about words it rests on: a tag
that is a prefix of a tag is that tag. `FullTagsReach`, `LadderDoesNotGuess`,
`BroadcastsAreHeard` and `NotifiesDoNotInterfere` follow by the cases of the ladder.

**DaemonClientProofs.** `ClientTypeCorrect`, `NoCallForgotten`. Then
`ClientInvariantHolds`, whose parts need each other: `OpenAskHasCaller` is broken
by an AskCancel that overtakes its ask, or by a second Begin; so `LinesAreInOrder`
(an ask precedes its withdrawal, is sent once, Bye is last) and `AskIsInOnePlace`
(on its way, held, or settled) are carried along, with `HandshakeComesFirst` and
`AskingAreWaiting`. `NoAskWithoutCaller` and `ShutdownWithdraws` follow.
`NoFalseAlarm` has an invariant of its own: only the handshake is refused, and
a future fails only after the socket went down, which never comes up again, or the
client closed (`FailedByLoss`).

**DaemonLifecycleProofs.** `LifecycleTypeCorrect`, and `LifecycleInvariantHolds`:
while `calm`, at most one daemon is past its probe, and from its bind until it stops
the socket at the path is its own. A Gateway needs a daemon past its probe, so
`CalmStartsAreSingle` and `ServersAreReachable` follow. `StopsAreTrue` adds
`StopInvariant`: one stop command is at work at a time, so between its reading of
the pid file and its report only the target, if it lives, can take the file away.

**PresenceProofs.** `PresenceInvariantHolds` has two parts beside the types.
`NothingIsInvented`: every copy of the schedule (the file, each writer's plan, the
watcher's list with the notices sent) holds a moment at most as often as it was
scheduled; every torn, emptied or lost write keeps it, so `NoFalseNotice` holds
even where writers overlap or are killed. `WriterCarriesMeaning`: if they do
not, the writer under way carries what is `meant`, and the file it emptied is its own;
`FileKeepsMeaning` and `NudgesHold` follow. Both have the exception of `AsMeant`: the
invariant says that a rewrite of a file with too many entries of an `overlooked` moment
leaves too many there and nowhere else, whatever command makes it.

**ToolsProofs.** `InstallingKeepsFaith`. The invariant follows what is on its
way to each file: a plan is as free of duplicates as what it was made from, holds
what the user has saved until it is written, and an installation in progress has
done what its stage says. Setting `latest` back when the next one loads the
settings is what makes `IsWhole` inductive. The counts of `NeverDuplicates` hold even
where commands overlap.

`ReleaseInvariantHolds` and, from it, `ReleasesStayOrderly`. `TagsNameReleases` is
not inductive alone: a tag is pushed from a checkout, so `TagsName` says of tags there
too that they have their version and are a prefix of main, and `RunIsReal` that what a
run is about to tag was pushed. The rest holds while no one works in a checkout under
the script (`~touched`): `RunIsAlone` says that the run still has the version and the
history it checked, `HistoriesGrow` that no history falls in version, `TagsAreTested`
that what has a tag was tested. `OneRoot` is what a pull needs: it goes back to the
longest common prefix of two histories and adds to it, and the lemmas about prefixes
(`PrefixMeans` and those after it) say what that keeps. `ToolsStayOrderly` joins both
for the specification of the `tools` run.

**AgentSessionProofs.** `SessionInvariantHolds`, from the invariant of `DaemonClient`'s
proofs and the actions of `ConferDaemon`. The parts of `SessionInvariant` pair what one
end believes with what the other does: the socket lasts as long as the handler and is
silent before the greeting (`SocketsMeet`); the line in the handler's hands is the
first request (`HandsMeet`); the daemon's table is within `open`, and a handler that
drops asks has them in its snapshot (`TablesMeet`); a line on its way is of an ask the
daemon has yet to see, or withdrawn, and none is there twice (`LinesMeet`); a call not
made is an ask unasked, one that waits was sent, one given up is withdrawn
(`CallsMeet`); a reply or a timeout is an answer under way or received, and nothing
else is (`NewsMeet`); contact is lost for a cause, a process that died, a reset, a line
in the handler's hands or lines that never came through (`LossesMeet`). `BothEndsAgree` speaks
of the last three; they rest on the others: that a directive means an unanswered ask, for
one, on where that ask's line and its answer are when the socket goes. `EndsAgree` follows.

`SessionImplementsClient`: each step of the daemon's end is one that `DaemonClient`
gives its daemon. `SessionImplementsDaemon`: each step of the client's end is one that
`ConferDaemon` gives its agent. The lemmas about `LinesOf` say how the lines that the
daemon reads follow the client's requests (`LinesOfConcat`, `LinesOfAppend`,
`LineTaken`), and `FewLines` that they stay below the bound of the daemon's module: the
requests of a session that has not closed are distinct, and there are two kinds for
each call, one for the handshake.

`SessionKeepsPromises` closes the circle: the theorems of `ConferDaemonProofs` (by an
instance, whose formulas `SameSpec` and `SamePromises` show to be those of
`AgentSession`'s own) and of `DaemonClientProofs` hold of the two ends together, without
what either assumed of the other. `DisconnectIsReal` among them is about a session that
was not closed.

*Assumptions.* Beside the distinctness of calls, connections and labels: an agent
makes finitely many calls (`CallsAreFinite`), any number of them, since the bound on
lines in flight is a number. `DaemonConstants` repeats what `ConferDaemon` assumes.

**Only model-checked.** All liveness (`EveryAskReturns`, `DepartedAgentIsForgotten`,
`EveryCallEnds`, `DrainedDaemonEnds`, `MomentsAreAnnounced`, `TurnsEnd`,
`WhatIsSentArrives`), which rests on fairness and ENABLED, out of the proof system's
reach, and with it the fairness that `ImplementsLifecycle` and `ImplementsClient`
assert. Every invariant that a passing run checks is proved.

## 5. Not modelled

* Discord itself, the login and the DM channel cache: I/O. Their failures are the
  outcomes of `NotifyRaises`, `QuestionSent`, `ConnectGateway`.
* JSON, the reading of the configuration, `check_unicode.py`, `stamp-integration.py`:
  sequential, no state that outlives a call.
* In `AgentSession`: reminders and answers from the laptop, which write to neither end of
  the socket more than a Discord reply does; a second agent.
* In `Release`: merge commits, conflicts, a hook of the remote.
* Wording and layout of messages; the reading of `HHMM` and of a number of minutes,
  and with it daylight saving time.
* Backpressure: a client that stops reading makes the daemon's drain wait.
* What a successor inherits: the queue of a label survives its agent and is read
  by the next one of that label. `README.md:35` and `this.i:1566-1572` document it,
  so `MessagesWaitForTheirAgent` speaks of live agents only.

## 6. Where code and documents disagree

| Run | The shortest way there |
|---|---|
| `singleton` | Two MCP servers start a daemon each; both probe before either binds. The second removes the socket of the first instead of failing with EADDRINUSE (17 states). `this.i:420-432` expects EADDRINUSE. |
| `stranded` | A call is written, the daemon dies with the line unread, the connection is reset, `readline()` raises and the read task ends without `_fail_pending` (4 states). `client.py:118-121` promises a directive. |
| `lost_schedule` | `away at` has opened, and so emptied, the presence file; a prompt hook reads that; the command writes its entry; the hook, with nothing to say, removes the file (6 states). `presence.py:161-164` says that prompts leave future entries. |
| `silence` | The answer arrives while the question's DM is awaited; the re-ping task is created afterwards, nobody cancels it, and it reminds the user of the answered ask (8 states). `this.i:1122`, `this.i:838-840`. The same property fails another way: two asks, a crash; while the first lost-contact DM is awaited the second ask is answered, and then reported lost (`core.py:721`). |

Met while modelling, without a run of their own:

* A call made after the daemon is gone raises a `ConnectionError`, while `ask` and
  `check_messages` catch `RuntimeError` only (`server.py:168-169` says ask never
  raises). It is in the model as outcome "raised".
* `confer-daemon stop` hangs while clients are connected (Python 3.12 and later),
  against `this.i:536-537`; a second SIGTERM in that time kills and leaves the
  files; a draining daemon later unlinks the socket and pid file of its
  successor. All are behaviours of the model; the properties of `lifecycle` say
  under which condition (`calm`) they do no harm.
* A moment scheduled twice is announced twice (`core.py:797-798`, against the comment
  at line 219). `NoticesAreTrue` bounds it by how often it was scheduled.
* An empty file, which a killed writer leaves, reads as away. `read_presence` speaks
  of a file that is "corrupt but non-empty".
* `away in <min>` entries carry seconds (`awaytime.py:33`); `back at <HHMM>` compares
  exactly with a full minute (`presence.py:178`), so it cannot cancel the entry that the
  status shows with that time, against `this.i:2043-2045` ("cancel the one PENDING entry
  matching that time"). `FileIsAsMeant` and `NudgesAreTrue` name this as their
  exception: without it TLC finds both violated.
* An agent that dies before its HELLO_OK is written stays in the registry
  (`core.py:362` registers first, and the handler learns the label only when the write
  returned), although `tests/test_daemon_core.py:248` expects a disconnect to remove
  it. A broadcast then goes to nobody where `this.i:910-912` has a bounce.
  `RegisteredIsServed` says that this is the only way a dead agent stays registered.
* Calls in flight at a graceful shutdown return the disconnect directive, or raise,
  while the daemon is there and the ask is being withdrawn: the read loop meets the end
  of file of its own transport (`client.py:200-202`, `236-238`). `client.py:118-121`
  gives the directive for a daemon that "goes away".
* A graceful shutdown can still end in "Lost contact": if the client closes with
  answers unread, or the daemon writes to the closed socket before it has read the
  withdrawals (the status of a notify, a reply or a timeout of another ask), the
  daemon's next read raises and they are never seen. The
  comment at `client.py:187-189` promises "Question withdrawn". `BothEndsAgree` allows
  contact to be lost only so, or with a process that died.
* A reply for an agent whose socket is broken is popped and counted as delivered;
  `WhatIsSentArrives` speaks of what was written to a live one.
* `release.py` reads the version before it prompts and runs the tests. A `git pull` in
  another terminal meanwhile makes the version stale, and main may be downgraded;
  work committed while the tests run is released untested (`README.md:72`: "only tags if
  that passes"). Both need a checkout that changes under the script (`touched`).
* A setup that was interrupted while it wrote leaves an empty `config.toml`, which the
  next setup refuses to replace without `--force`. `setup --integrations` does not catch
  the JSON error that `install-hooks` reports.
* `README.md:35` says open asks survive a restart of the MCP server; `this.i` and
  the code drop them.

## 7. Plan

Done, in this order: routing, daemon core, ask refinement, client, lifecycle,
presence, the session of both ends, installation, release; the theorems of
section 4.

Next, modelling:

1. An inbox module: at-most-once delivery of a user's message through broadcast,
   queue and `check_messages`, abstract and refined by `ConferDaemon`'s queues.
2. The transport's reconnection of the Gateway, as far as the code handles it.
3. Backpressure: drain that waits.
4. The reading of times (`awaytime.py`) as functions over the minutes of a day,
   against a reference definition.

Next, proofs:

1. The ladder inside the daemon: `ConferDaemon` routes by tags that are model values,
   `ReplyRoutingProofs` by words; what `TagsAreUnique` and `NeverGuesses` say together.
2. The registry's theorems of a session of several agents, as `SessionKeepsPromises`
   does for the asks of one.
3. The safety part of presence's liveness: a moment neither announced nor cancelled
   stays in the file or in a writer's plan.
