------------------------------ MODULE Presence ------------------------------
(***************************************************************************)
(* Away mode: the presence file (presence.py) that the CLI's away and back *)
(* commands and every session's prompt hook rewrite, and its readers, the  *)
(* Stop hook of the sessions (hooks.py) and the daemon's activation watch. *)
(*                                                                         *)
(* No lock guards the file.  Its writers are short processes, so an action *)
(* of theirs is what they do to the file at once: read it, open it (which  *)
(* empties it), write it, remove it.  A reader reads it in one step.       *)
(***************************************************************************)
EXTENDS Naturals

CONSTANTS Commands,    \* runs of `confer away` and `confer back`
          Sessions,    \* agent sessions with the two hooks installed
          Horizon,     \* bound: the last moment of the clock
          Times,       \* bound: the moments the user may schedule
          Clock,       \* of these, the full minutes: what HHMM can name
          Verbs        \* the forms of the commands the user uses

ASSUME TimesAreMoments == /\ Horizon \in Nat /\ Times \subseteq 1..Horizon
                          /\ Clock \subseteq Times
ASSUME VerbsAreForms == Verbs \subseteq {"now", "in", "at", "back", "backAt", "all"}
ASSUME CommandsAreNoSessions == Commands \cap Sessions = {}

VARIABLES
  now,         \* the clock
  file,        \* what is at presence_file()
  pc,          \* of each process: a command, or the prompt hook of a session
  plan,        \* the presence it will save
  attached,    \* the writers whose open file is still the one at the path
  session,     \* of each session: where its turn is
  reached,     \* the sessions whose agent used confer in this turn
  up,          \* the daemon serves
  announced,   \* _announced_activations
  batch,       \* what is left of the watcher's list of fired entries
  notices,     \* history: activation DMs of this daemon, for each moment
  scheduled,   \* history: how often each moment was scheduled
  meant,       \* history: the presence the user's commands ask for
  overlooked,  \* history: moments with an entry that `back at` did not cancel
  calm,        \* history: no writer began while another was under way
  killed       \* history: some writer was killed

fileVars    == <<file, pc, plan, attached>>
sessionVars == <<session, reached>>
watchVars   == <<up, announced, batch, notices>>
history     == <<scheduled, meant, overlooked, calm, killed>>
vars == <<now, fileVars, sessionVars, watchVars, history>>

Processes == Commands \cup Sessions

\* The pending list is a bag: the same moment may be scheduled twice.
Pending == [Times -> Nat]
PresenceRecord == [away : BOOLEAN, pending : Pending]

NonePending == [t \in Times |-> 0]
Present == [away |-> FALSE, pending |-> NonePending]
Marker  == [away |-> TRUE,  pending |-> NonePending]

File == [kind : {"whole"}, holds : PresenceRecord]
        \cup [kind : {"absent", "empty", "corrupt"}, holds : {Present}]
Unreadable(kind) == [kind |-> kind, holds |-> Present]
Whole(presence)  == [kind |-> "whole", holds |-> presence]

TypeOK ==
  /\ now \in 0..Horizon
  /\ file \in File
  /\ pc \in [Processes -> {"ready", "saving", "writing", "over"}]
  /\ plan \in [Processes -> PresenceRecord]
  /\ attached \subseteq {p \in Processes : pc[p] = "writing"}
  /\ session \in [Sessions -> {"idle", "prompting", "working", "nudged"}]
  /\ \A s \in Sessions : pc[s] \in {"saving", "writing"} => session[s] = "prompting"
  /\ reached \subseteq Sessions
  /\ up \in BOOLEAN
  /\ announced \subseteq Times
  /\ batch \in Pending /\ notices \in Pending /\ scheduled \in Pending
  /\ meant \in PresenceRecord /\ overlooked \subseteq Times \ Clock
  /\ calm \in BOOLEAN /\ killed \in BOOLEAN

Init ==
  /\ now = 0
  /\ file = Unreadable("absent")
  /\ pc = [p \in Processes |-> "ready"]
  /\ plan = [p \in Processes |-> Present]
  /\ attached = {}
  /\ session = [s \in Sessions |-> "idle"]
  /\ reached = {}
  /\ up = FALSE
  /\ announced = {}
  /\ batch = NonePending /\ notices = NonePending /\ scheduled = NonePending
  /\ meant = Present /\ overlooked = {}
  /\ calm = TRUE /\ killed = FALSE

-----------------------------------------------------------------------------
(* presence.py: reading, and what each command makes of what it read. *)

\* No file is present; one that is no JSON, even an empty one, is away.
Read == CASE file.kind = "whole"  -> file.holds
          [] file.kind = "absent" -> Present
          [] OTHER                -> Marker

Fired(presence) == {t \in Times : presence.pending[t] > 0 /\ t <= now}
EffectiveAway(presence) == presence.away \/ Fired(presence) # {}

SetAway(current) == [away |-> TRUE, pending |-> current.pending]
ScheduleAway(current, at) == [current EXCEPT !.pending[at] = @ + 1]
CancelPending(current, at) == [current EXCEPT !.pending[at] = 0]

\* Mutant: becoming present forgets the schedule.
ForgetSchedule(current) == Present

\* Mutant: only the sticky flag is cleared.
ClearFlag(current) == [current EXCEPT !.away = FALSE]

\* Future entries stay, fired ones go.
SetPresent(current) ==
  [away    |-> FALSE,
   pending |-> [t \in Times |-> IF t > now THEN current.pending[t] ELSE 0]]

\* "in <min>" counts from the command, 0 included, with its seconds; "at <HHMM>"
\* is a full minute: today, or else tomorrow.
FromNow == {t \in Times \ Clock : t >= now}
ToCome  == {t \in Clock : t > now}

\* The moments that the status shows with the time of a full minute.
Minute(at) == {t \in Times : at <= t /\ \A u \in Clock : u <= t => u <= at}

-----------------------------------------------------------------------------
(* The processes that rewrite the file. *)

Busy(p) == pc[p] \in {"saving", "writing"}
Goes(p, there) == pc' = [pc EXCEPT ![p] = there]

\* A command ends for good; a prompt hook lets its session go on.
Ends(p) ==
  /\ Goes(p, IF p \in Commands THEN "over" ELSE "ready")
  /\ plan' = [plan EXCEPT ![p] = Present]
  /\ session' = [s \in Sessions |-> IF s = p THEN "working" ELSE session[s]]

NoteOverlap(p) == calm' = (calm /\ \A q \in Processes \ {p} : ~Busy(q))
Means(presence) == meant' = presence

\* It has read the file and will save what it made of it.
WillSave(p, presence) ==
  /\ plan' = [plan EXCEPT ![p] = presence]
  /\ Goes(p, "saving")
  /\ UNCHANGED <<file, attached>>

\* The file, and with it every open copy of it, is no longer at the path.
Unlink == file' = Unreadable("absent") /\ attached' = {}

AwayNow(c) ==
  /\ WillSave(c, SetAway(Read))
  /\ Means([away |-> TRUE, pending |-> meant.pending])
  /\ UNCHANGED <<sessionVars, scheduled, overlooked>>

Schedule(c, at) ==
  /\ WillSave(c, ScheduleAway(Read, at))
  /\ Means([meant EXCEPT !.pending[at] = @ + 1])
  /\ scheduled' = [scheduled EXCEPT ![at] = @ + 1]
  /\ UNCHANGED <<sessionVars, overlooked>>

AwayIn(c) == \E at \in FromNow : Schedule(c, at)
AwayAt(c) == \E at \in ToCome : Schedule(c, at)

MeansPresent ==
  /\ Means([away    |-> FALSE,
            pending |-> [t \in Times |-> IF t > now THEN meant.pending[t] ELSE 0]])
  /\ overlooked' = {t \in overlooked : t > now}

Back(c) ==
  /\ WillSave(c, SetPresent(Read))
  /\ MeansPresent
  /\ UNCHANGED <<sessionVars, scheduled>>

\* `back at` means what is shown with that time.  It cancels what is pending at
\* the very moment, so nothing of `away in`; a miss is reported and saves nothing.
BackAt(c, at) ==
  /\ Means([meant EXCEPT !.pending =
              [t \in Times |-> IF t \in Minute(at) THEN 0 ELSE meant.pending[t]]])
  /\ overlooked' = overlooked \cup {t \in Minute(at) \ {at} : meant.pending[t] > 0}
  /\ \/ /\ Read.pending[at] > 0
        /\ WillSave(c, CancelPending(Read, at))
        /\ UNCHANGED session
     \/ /\ Read.pending[at] = 0
        /\ Ends(c)
        /\ UNCHANGED <<file, attached>>
  /\ UNCHANGED <<reached, scheduled>>

BackAll(c) ==
  /\ Unlink
  /\ Ends(c)
  /\ Means(Present) /\ overlooked' = {}
  /\ UNCHANGED <<reached, scheduled>>

RunCommand(c) ==
  /\ pc[c] = "ready"
  /\ NoteOverlap(c)
  /\ \/ "now" \in Verbs /\ AwayNow(c)
     \/ "in" \in Verbs /\ AwayIn(c)
     \/ "at" \in Verbs /\ AwayAt(c)
     \/ "back" \in Verbs /\ Back(c)
     \/ "backAt" \in Verbs /\ \E at \in ToCome : BackAt(c, at)
     \/ "all" \in Verbs /\ BackAll(c)
  /\ UNCHANGED <<now, watchVars, killed>>

\* Mutant: the turn begins while the prompt hook still runs.
PromptAtOnce(s) ==
  /\ session[s] # "prompting" /\ pc[s] = "ready"
  /\ session' = [session EXCEPT ![s] = "working"]
  /\ reached' = reached \ {s}
  /\ NoteOverlap(s)
  /\ WillSave(s, SetPresent(Read))
  /\ MeansPresent
  /\ UNCHANGED <<now, watchVars, scheduled, killed>>

\* The user types a prompt into a session, which waits for its prompt hook.
Prompt(s) ==
  /\ session[s] # "prompting"
  /\ session' = [session EXCEPT ![s] = "prompting"]
  /\ reached' = reached \ {s}
  /\ NoteOverlap(s)
  /\ WillSave(s, SetPresent(Read))
  /\ MeansPresent
  /\ UNCHANGED <<now, watchVars, scheduled, killed>>

\* save_presence: nothing to say removes the file, everything else opens it,
\* which leaves it empty.
OpenFile(p) ==
  /\ pc[p] = "saving"
  /\ IF plan[p] = Present
       THEN /\ Unlink
            /\ Ends(p)
       ELSE /\ file' = Unreadable("empty")
            /\ attached' = attached \cup {p}
            /\ Goes(p, "writing")
            /\ UNCHANGED <<plan, session>>
  /\ UNCHANGED <<now, reached, watchVars, history>>

\* Over what another process has written since, a shorter text leaves the end
\* of the longer one.
WriteFile(p) ==
  /\ pc[p] = "writing"
  /\ \/ p \in attached /\ file' = Whole(plan[p])
     \/ p \in attached /\ file.kind # "empty" /\ file' = Unreadable("corrupt")
     \/ p \notin attached /\ UNCHANGED file
  /\ attached' = attached \ {p}
  /\ Ends(p)
  /\ UNCHANGED <<now, reached, watchVars, history>>

\* A process is killed before it is done: a hook that took too long, a ^C.
Killed(p) ==
  /\ Busy(p)
  /\ Ends(p)
  /\ attached' = attached \ {p}
  /\ killed' = TRUE
  /\ UNCHANGED <<now, file, reached, watchVars, scheduled, meant, overlooked, calm>>

-----------------------------------------------------------------------------
(* A session and its Stop hook. *)

UseConfer(s) ==
  /\ session[s] \in {"working", "nudged"}
  /\ reached' = reached \cup {s}
  /\ UNCHANGED <<now, fileVars, session, watchVars, history>>

\* Mutant: a session that was nudged in this turn is nudged again.
NudgeAgain(s) ==
  /\ session[s] \in {"working", "nudged"}
  /\ session' = [session EXCEPT ![s] =
       IF EffectiveAway(Read) /\ s \notin reached THEN "nudged" ELSE "idle"]
  /\ UNCHANGED <<now, fileVars, reached, watchVars, history>>

\* The agent ends its turn: while the user is away, one that has not reached
\* out is sent back once.  A transcript the hook cannot read lets it stop.
StopHook(s) ==
  /\ \/ /\ session[s] = "working"
        /\ \/ /\ EffectiveAway(Read) /\ s \notin reached
              /\ session' = [session EXCEPT ![s] = "nudged"]
           \/ session' = [session EXCEPT ![s] = "idle"]
     \/ /\ session[s] = "nudged"
        /\ session' = [session EXCEPT ![s] = "idle"]
  /\ UNCHANGED <<now, fileVars, reached, watchVars, history>>

-----------------------------------------------------------------------------
(* The daemon's activation watch. *)

\* Mutant: what was announced is not looked at.
WatchForgetfully ==
  /\ up /\ batch = NonePending
  /\ batch' = [t \in Times |-> IF t \in Fired(Read) THEN Read.pending[t] ELSE 0]
  /\ UNCHANGED <<now, fileVars, sessionVars, up, announced, notices, history>>

\* A pass lists the fired entries that were not announced in this life.
WatchPass ==
  /\ up /\ batch = NonePending
  /\ batch' = [t \in Times |->
       IF t \in Fired(Read) \ announced THEN Read.pending[t] ELSE 0]
  /\ UNCHANGED <<now, fileVars, sessionVars, up, announced, notices, history>>

\* Mutant: of the moments in the list only the last one is announced.
AnnounceLast ==
  /\ \E t \in Times :
     /\ batch[t] > 0
     /\ \A u \in Times : batch[u] > 0 => u <= t
     /\ batch' = NonePending
     /\ announced' = announced \cup {u \in Times : batch[u] > 0}
     /\ notices' = [notices EXCEPT ![t] = @ + 1]
  /\ UNCHANGED <<now, fileVars, sessionVars, up, history>>

\* One DM after the other, the earliest moment first.
Announce ==
  /\ \E t \in Times :
     /\ batch[t] > 0
     /\ \A u \in Times : batch[u] > 0 => t <= u
     /\ batch' = [batch EXCEPT ![t] = @ - 1]
     /\ announced' = announced \cup {t}
     /\ notices' = [notices EXCEPT ![t] = @ + 1]
  /\ UNCHANGED <<now, fileVars, sessionVars, up, history>>

DaemonStarts ==
  /\ ~up /\ up' = TRUE
  /\ announced' = {} /\ notices' = NonePending
  /\ UNCHANGED <<now, fileVars, sessionVars, batch, history>>

DaemonStops ==
  /\ up /\ up' = FALSE
  /\ batch' = NonePending
  /\ UNCHANGED <<now, fileVars, sessionVars, announced, notices, history>>

Tick ==
  /\ now < Horizon
  /\ now' = now + 1
  /\ UNCHANGED <<fileVars, sessionVars, watchVars, history>>

-----------------------------------------------------------------------------
Save(p) == OpenFile(p) \/ WriteFile(p)
Next ==
  \/ \E c \in Commands : RunCommand(c)
  \/ \E p \in Processes : Save(p) \/ Killed(p)
  \/ \E s \in Sessions : Prompt(s) \/ UseConfer(s) \/ StopHook(s)
  \/ WatchPass \/ Announce \/ DaemonStarts \/ DaemonStops
  \/ Tick

Spec == Init /\ [][Next]_vars

\* Processes run, agents come to the end of their turns, and the watcher
\* polls for as long as its daemon is up.  The user, and time, promise nothing.
Fairness ==
  /\ \A p \in Processes : WF_vars(Save(p))
  /\ \A s \in Sessions : WF_vars(StopHook(s))
  /\ WF_vars(WatchPass) /\ WF_vars(Announce)

FairSpec == Spec /\ Fairness

-----------------------------------------------------------------------------
(* What makes away mode correct. *)

AtRest == \A p \in Processes : ~Busy(p)
Future(presence) == {t \in Times : presence.pending[t] > 0 /\ t > now}

AsMeant(presence) ==
  /\ presence.away = meant.away
  /\ \A t \in Times : \/ presence.pending[t] = meant.pending[t]
                      \/ t \in overlooked /\ presence.pending[t] > meant.pending[t]

\* Commands that run one after the other, prompts among them, leave the file
\* as the user meant it: through the emptied, the removed and the rewritten
\* file nothing scheduled is lost and nothing cancelled comes back, but for
\* the entries of `away in` that a `back at` should have cancelled.
FileIsAsMeant == calm /\ ~killed /\ AtRest => AsMeant(Read)

\* An agent is told that the user is away only if he is, except by a reader
\* that meets the file while a process is rewriting it, or for an entry that
\* `back at` did not cancel.
NudgesAreTrue ==
  [][\A s \in Sessions :
       /\ session'[s] = "nudged" /\ session[s] # "nudged"
       /\ calm /\ ~killed /\ AtRest
       => EffectiveAway(meant) \/ \E t \in overlooked : t <= now]_vars

\* However the file is torn and rewritten, the user is not told of a moment
\* that has not come, nor in one life of the daemon more often than it was
\* scheduled.
NoticesAreTrue ==
  \A t \in Times : notices[t] > 0 => t <= now /\ notices[t] <= scheduled[t]

\* A moment that came is announced, unless the user is back or the daemon stops.
MomentsAreAnnounced ==
  \A t \in Times :
    calm /\ ~killed /\ up /\ t \in Fired(meant) ~>
      notices[t] > 0 \/ t \notin Fired(meant) \/ ~up \/ ~calm \/ killed

\* The Stop hook never wedges a session: its turn ends, or the user types on.
TurnsEnd ==
  \A s \in Sessions : session[s] \in {"working", "nudged"} ~>
                        session[s] \in {"idle", "prompting"}

\* "An 11:00 entry still fires": what is scheduled for later survives the
\* prompts and the other commands.
ScheduleSurvives == ~killed /\ AtRest => Future(meant) \subseteq Future(Read)
=============================================================================
