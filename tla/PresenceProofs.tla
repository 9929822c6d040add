--------------------------- MODULE PresenceProofs ---------------------------
(***************************************************************************)
(* Proofs about away mode, for any commands, sessions, forms of the        *)
(* commands and moments of the clock.                                      *)
(***************************************************************************)
EXTENDS Presence, TLAPS

(* Reading and rewriting. *)

\* What Read makes of each kind of file.
LEMMA ReadByKind ==
  /\ file.kind = "whole" => Read = file.holds
  /\ file.kind = "absent" => Read = Present
  /\ file.kind \notin {"whole", "absent"} => Read = Marker
  BY Zenon DEF Read

\* What is read is a presence, whatever the file holds.
LEMMA ReadIsPresence ==
  ASSUME TypeOK PROVE Read \in PresenceRecord
  <1>1. Present \in PresenceRecord /\ Marker \in PresenceRecord
    BY DEF Present, Marker, NonePending, PresenceRecord, Pending
  <1>2. file \in File
    BY DEF TypeOK
  <1> QED
    BY <1>1, <1>2, ReadByKind DEF File

\* The commands make presences of presences.
LEMMA ChangesArePresences ==
  ASSUME NEW r \in PresenceRecord
  PROVE  SetAway(r) \in PresenceRecord /\ SetPresent(r) \in PresenceRecord
  <1>1. r.away \in BOOLEAN /\ r.pending \in [Times -> Nat]
    BY DEF PresenceRecord, Pending
  <1>2. \A away \in BOOLEAN, pending \in [Times -> Nat] :
          [away |-> away, pending |-> pending] \in PresenceRecord
    BY DEF PresenceRecord, Pending
  <1>3. [t \in Times |-> IF t > now THEN r.pending[t] ELSE 0] \in [Times -> Nat]
    BY <1>1
  <1> QED
    BY <1>1, <1>2, <1>3 DEF SetAway, SetPresent

\* Scheduling adds one entry.
LEMMA ScheduleAdds ==
  ASSUME NEW r \in PresenceRecord, NEW at \in Times
  PROVE  /\ ScheduleAway(r, at) \in PresenceRecord
         /\ ScheduleAway(r, at).away = r.away
         /\ \A t \in Times : ScheduleAway(r, at).pending[t]
                               = IF t = at THEN r.pending[t] + 1 ELSE r.pending[t]
  <1>1. PICK a \in BOOLEAN, q \in [Times -> Nat] : r = [away |-> a, pending |-> q]
    BY DEF PresenceRecord, Pending
  <1>2. ScheduleAway(r, at) = [away |-> a, pending |-> [q EXCEPT ![at] = @ + 1]]
    BY <1>1 DEF ScheduleAway
  <1>3. [q EXCEPT ![at] = @ + 1] \in [Times -> Nat]
    OBVIOUS
  <1> QED
    BY <1>1, <1>2, <1>3 DEF PresenceRecord, Pending

\* Cancelling adds none, and changes nothing when there is nothing to cancel.
LEMMA CancelRemoves ==
  ASSUME NEW r \in PresenceRecord, NEW at \in Times
  PROVE  /\ CancelPending(r, at) \in PresenceRecord
         /\ CancelPending(r, at).away = r.away
         /\ \A t \in Times : /\ CancelPending(r, at).pending[t] <= r.pending[t]
                             /\ CancelPending(r, at).pending[t]
                                  = IF t = at THEN 0 ELSE r.pending[t]
         /\ r.pending[at] = 0 => CancelPending(r, at) = r
  <1>1. PICK a \in BOOLEAN, q \in [Times -> Nat] : r = [away |-> a, pending |-> q]
    BY DEF PresenceRecord, Pending
  <1>2. CancelPending(r, at) = [away |-> a, pending |-> [q EXCEPT ![at] = 0]]
    BY <1>1 DEF CancelPending
  <1>3. [q EXCEPT ![at] = 0] \in [Times -> Nat]
    OBVIOUS
  <1>4. q[at] = 0 => [q EXCEPT ![at] = 0] = q
    OBVIOUS
  <1> QED
    BY <1>1, <1>2, <1>3, <1>4 DEF PresenceRecord, Pending

\* What is written, and what is left of it, are files.
LEMMA FilesAreFiles ==
  /\ \A r \in PresenceRecord : Whole(r) \in File /\ Whole(r).kind = "whole"
                               /\ Whole(r).holds = r
  /\ \A kind \in {"absent", "empty", "corrupt"} :
       Unreadable(kind) \in File /\ Unreadable(kind).kind = kind
  BY DEF File, Whole, Unreadable

\* Nothing pending is pending in the records that schedule nothing.
LEMMA TheNothings ==
  /\ NonePending \in Pending /\ \A t \in Times : NonePending[t] = 0
  /\ Present \in PresenceRecord /\ Present.pending = NonePending
  /\ Marker \in PresenceRecord /\ Marker.pending = NonePending
  BY DEF NonePending, Pending, Present, Marker, PresenceRecord

\* A full minute shows itself, and no other.
LEMMA MinutesAreApart ==
  ASSUME NEW at \in Clock
  PROVE  /\ at \in Times /\ at \in Minute(at) /\ Minute(at) \subseteq Times
         /\ Minute(at) \cap Clock = {at}
  <1>1. \A t \in Times : t \in Nat
    BY TimesAreMoments
  <1>2. at \in Times /\ Clock \subseteq Times
    BY TimesAreMoments
  <1>3. at \in Minute(at)
    BY <1>1, <1>2 DEF Minute
  <1>4. ASSUME NEW t \in Minute(at), t \in Clock PROVE t = at
    BY <1>1, <1>2, <1>4 DEF Minute
  <1> QED
    BY <1>2, <1>3, <1>4 DEF Minute
-----------------------------------------------------------------------------
(* The invariants. *)

\* Nothing is invented: no copy of the schedule holds a moment more often than
\* it was scheduled, and what is announced, or about to be, has come.
NothingIsInvented ==
  /\ \A t \in Times : file.holds.pending[t] <= scheduled[t]
  /\ \A p \in Processes, t \in Times : plan[p].pending[t] <= scheduled[t]
  /\ \A t \in Times : batch[t] + notices[t] <= scheduled[t]
  /\ \A t \in Times : batch[t] > 0 \/ notices[t] > 0 => t <= now
  /\ \A t \in Times : notices[t] > 0 => t \in announced
  /\ ~up => batch = NonePending

\* While writers do not overlap and none is killed, the one under way carries
\* what the user meant, and the file it has emptied is its own.
WriterCarriesMeaning ==
  calm /\ ~killed =>
    /\ \A p, q \in Processes : Busy(p) /\ Busy(q) => p = q
    /\ \A p \in Processes : Busy(p) => AsMeant(plan[p])
    /\ \A p \in Processes : pc[p] = "writing" => p \in attached /\ file.kind = "empty"
    /\ AtRest => AsMeant(Read)
-----------------------------------------------------------------------------
(* What the rewriters do. *)

\* The presence is what the user means after the step.
WillBeMeant(presence) ==
  /\ presence.away = meant'.away
  /\ \A t \in Times : \/ presence.pending[t] = meant'.pending[t]
                      \/ t \in overlooked' /\ presence.pending[t] > meant'.pending[t]

\* A rewrite begins with a presence that invents nothing and, if what was read
\* is what the user meant, with what he means now.
Rewrites(p) ==
  \E r \in PresenceRecord :
    /\ WillSave(p, r)
    /\ \A t \in Times : r.pending[t] <= scheduled'[t]
    /\ AsMeant(Read) => WillBeMeant(r)

\* A command that saves nothing leaves the file alone or removes it.
SavesNothing(p) ==
  /\ Ends(p)
  /\ \/ Unlink /\ AsMeant(Present)'
     \/ UNCHANGED <<file, attached>> /\ (AsMeant(Read) => AsMeant(Read)')

\* What was read invents nothing.
LEMMA ReadInventsNothing ==
  ASSUME TypeOK, NothingIsInvented
  PROVE  \A t \in Times : Read.pending[t] <= scheduled[t]
  BY ReadByKind, TheNothings DEF TypeOK, NothingIsInvented, Pending

\* The change that `back` and a prompt make.
LEMMA BackRewrites ==
  ASSUME TypeOK, NothingIsInvented, NEW p \in Processes, WillSave(p, SetPresent(Read)),
         MeansPresent, UNCHANGED scheduled
  PROVE  Rewrites(p) /\ meant' \in PresenceRecord /\ overlooked' \subseteq Times \ Clock
  <1>1. SetPresent(Read) \in PresenceRecord
    BY ReadIsPresence, ChangesArePresences
  <1>2. SetPresent(Read).pending
          = [t \in Times |-> IF t > now THEN Read.pending[t] ELSE 0]
    BY DEF SetPresent
  <1>3. \A t \in Times : SetPresent(Read).pending[t] <= scheduled'[t]
    BY <1>2, ReadInventsNothing, ReadIsPresence DEF TypeOK, Pending, PresenceRecord
  <1>4. AsMeant(Read) => WillBeMeant(SetPresent(Read))
    <2>1. /\ SetPresent(Read).away = FALSE /\ meant'.away = FALSE
          /\ \A t \in Times : /\ SetPresent(Read).pending[t] = IF t > now THEN Read.pending[t] ELSE 0
                              /\ meant'.pending[t] = IF t > now THEN meant.pending[t] ELSE 0
          /\ overlooked' = {t \in overlooked : t > now}
      BY <1>2 DEF SetPresent, MeansPresent, Means
    <2> QED
      BY <2>1 DEF AsMeant, WillBeMeant
  <1>6. overlooked' \subseteq Times \ Clock
    BY DEF MeansPresent, TypeOK
  <1>5. meant' \in PresenceRecord
    <2>1. SetPresent(meant) \in PresenceRecord
      BY ChangesArePresences DEF TypeOK
    <2> QED
      BY <2>1 DEF SetPresent, MeansPresent, Means
  <1> QED
    BY <1>1, <1>3, <1>4, <1>5, <1>6 DEF Rewrites

\* Every run of a command rewrites or saves nothing.
LEMMA CommandEffects ==
  ASSUME TypeOK, NothingIsInvented, NEW c \in Commands, RunCommand(c)
  PROVE  /\ scheduled' \in Pending /\ \A t \in Times : scheduled[t] <= scheduled'[t]
         /\ meant' \in PresenceRecord /\ overlooked' \subseteq Times \ Clock
         /\ \/ Rewrites(c) /\ UNCHANGED session
            \/ SavesNothing(c)
  <1> DEFINE Goal == /\ scheduled' \in Pending /\ \A t \in Times : scheduled[t] <= scheduled'[t]
                     /\ meant' \in PresenceRecord /\ overlooked' \subseteq Times \ Clock
                     /\ \/ Rewrites(c) /\ UNCHANGED session
                        \/ SavesNothing(c)
  <1>1. /\ scheduled \in [Times -> Nat] /\ scheduled \in Pending
        /\ meant \in PresenceRecord /\ Read \in PresenceRecord
        /\ Read.pending \in [Times -> Nat]
        /\ \A t \in Times : scheduled[t] <= scheduled[t]
        /\ meant.pending \in [Times -> Nat] /\ overlooked \subseteq Times \ Clock
    BY ReadIsPresence DEF TypeOK, Pending, PresenceRecord
  <1>2. \A t \in Times : Read.pending[t] <= scheduled[t]
    BY ReadInventsNothing
  <1>3. CASE AwayNow(c)
    <2>1. SetAway(Read) \in PresenceRecord /\ SetAway(meant) \in PresenceRecord
      BY <1>1, ChangesArePresences
    <2>2. UNCHANGED <<session, scheduled, overlooked>> /\ WillSave(c, SetAway(Read))
          /\ meant' = SetAway(meant) /\ SetAway(Read).pending = Read.pending
          /\ SetAway(meant).pending = meant.pending /\ SetAway(Read).away = SetAway(meant).away
      BY <1>3 DEF AwayNow, Means, SetAway, sessionVars
    <2>3. AsMeant(Read) => WillBeMeant(SetAway(Read))
      BY <2>2 DEF AsMeant, WillBeMeant
    <2> QED
      BY <1>1, <1>2, <2>1, <2>2, <2>3 DEF Rewrites
  <1>4. ASSUME NEW at \in Times, Schedule(c, at) PROVE Goal
    <2>1. /\ ScheduleAway(Read, at) \in PresenceRecord
          /\ ScheduleAway(meant, at) \in PresenceRecord
          /\ \A t \in Times : ScheduleAway(Read, at).pending[t]
                                = IF t = at THEN Read.pending[t] + 1 ELSE Read.pending[t]
          /\ \A t \in Times : ScheduleAway(meant, at).pending[t]
                                = IF t = at THEN meant.pending[t] + 1 ELSE meant.pending[t]
          /\ ScheduleAway(Read, at).away = Read.away /\ ScheduleAway(meant, at).away = meant.away
      BY <1>1, ScheduleAdds
    <2>2. /\ UNCHANGED <<session, overlooked>> /\ WillSave(c, ScheduleAway(Read, at))
          /\ scheduled' = [scheduled EXCEPT ![at] = @ + 1]
          /\ meant' = ScheduleAway(meant, at)
      BY <1>4 DEF Schedule, Means, ScheduleAway, sessionVars
    <2>3. scheduled' \in Pending /\ \A t \in Times : scheduled[t] <= scheduled'[t]
      BY <1>1, <2>2 DEF Pending
    <2>4. \A t \in Times : ScheduleAway(Read, at).pending[t] <= scheduled'[t]
      BY <1>1, <1>2, <2>1, <2>2
    <2>5. AsMeant(Read) => WillBeMeant(ScheduleAway(Read, at))
      BY <1>1, <2>1, <2>2 DEF AsMeant, WillBeMeant
    <2> QED
      BY <1>1, <2>1, <2>2, <2>3, <2>4, <2>5 DEF Rewrites
  <1>5. CASE Back(c)
    <2>1. Rewrites(c) /\ meant' \in PresenceRecord /\ overlooked' \subseteq Times \ Clock
      BY <1>5, BackRewrites DEF Back, Processes
    <2> QED
      BY <1>1, <1>5, <2>1 DEF Back, sessionVars
  <1>6. ASSUME NEW at \in Clock, BackAt(c, at) PROVE Goal
    <2> DEFINE left == [t \in Times |-> IF t \in Minute(at) THEN 0 ELSE meant.pending[t]]
               missed == {t \in Minute(at) \ {at} : meant.pending[t] > 0}
    <2>0. /\ at \in Times /\ at \in Minute(at) /\ Minute(at) \subseteq Times
          /\ missed \subseteq Times \ Clock
      BY MinutesAreApart
    <2>1. /\ CancelPending(Read, at) \in PresenceRecord
          /\ CancelPending(Read, at).away = Read.away
          /\ \A t \in Times : /\ CancelPending(Read, at).pending[t] <= Read.pending[t]
                              /\ CancelPending(Read, at).pending[t]
                                   = IF t = at THEN 0 ELSE Read.pending[t]
          /\ Read.pending[at] = 0 => CancelPending(Read, at) = Read
      BY <1>1, <2>0, CancelRemoves
    <2>2. /\ UNCHANGED scheduled /\ overlooked' = overlooked \cup missed
          /\ meant' = [meant EXCEPT !.pending = left]
      BY <1>6 DEF BackAt, Means
    <2>3. meant' \in PresenceRecord /\ meant'.away = meant.away /\ meant'.pending = left
      BY <1>1, <2>2 DEF PresenceRecord, Pending
    <2>4. AsMeant(Read) => WillBeMeant(CancelPending(Read, at))
      <3> SUFFICES ASSUME AsMeant(Read) PROVE WillBeMeant(CancelPending(Read, at))
        OBVIOUS
      <3>1. ASSUME NEW t \in Times
            PROVE  \/ CancelPending(Read, at).pending[t] = left[t]
                   \/ /\ t \in overlooked \cup missed
                      /\ CancelPending(Read, at).pending[t] > left[t]
        <4>1. /\ Read.pending[t] \in Nat /\ meant.pending[t] \in Nat
              /\ \/ Read.pending[t] = meant.pending[t]
                 \/ t \in overlooked /\ Read.pending[t] > meant.pending[t]
          BY <1>1 DEF AsMeant
        <4>2. CASE t = at
          BY <2>0, <2>1, <4>2
        <4>3. CASE t # at /\ t \in Minute(at)
          BY <2>1, <4>1, <4>3
        <4>4. CASE t \notin Minute(at)
          BY <2>0, <2>1, <4>1, <4>4
        <4> QED
          BY <4>2, <4>3, <4>4
      <3>2. CancelPending(Read, at).away = meant'.away
        BY <2>1, <2>3 DEF AsMeant
      <3> HIDE DEF left, missed
      <3> QED
        BY <2>2, <2>3, <3>1, <3>2 DEF WillBeMeant
    <2> HIDE DEF left, missed
    <2>5. CASE WillSave(c, CancelPending(Read, at)) /\ UNCHANGED session
      <3>1. \A t \in Times : CancelPending(Read, at).pending[t] <= scheduled'[t]
        BY <1>1, <1>2, <2>1, <2>2 DEF PresenceRecord, Pending
      <3> QED
        BY <1>1, <2>0, <2>1, <2>2, <2>3, <2>4, <2>5, <3>1 DEF Rewrites
    <2>6. CASE Read.pending[at] = 0 /\ Ends(c) /\ UNCHANGED <<file, attached>>
      <3>1. Read' = Read
        BY <2>6 DEF Read
      <3>2. AsMeant(Read) => AsMeant(Read)'
        BY <2>1, <2>4, <2>6, <3>1 DEF AsMeant, WillBeMeant
      <3> QED
        BY <1>1, <2>0, <2>2, <2>3, <2>6, <3>2 DEF SavesNothing
    <2> QED
      BY <1>6, <2>5, <2>6 DEF BackAt
  <1>7. CASE BackAll(c)
    <2>1. meant' = Present /\ overlooked' = {} /\ Unlink /\ Ends(c) /\ UNCHANGED scheduled
      BY <1>7 DEF BackAll, Means
    <2>2. AsMeant(Present)'
      BY <2>1 DEF AsMeant
    <2> QED
      BY <1>1, <2>1, <2>2, TheNothings DEF SavesNothing
  <1> QED
    BY <1>3, <1>4, <1>5, <1>6, <1>7, TimesAreMoments
       DEF RunCommand, AwayIn, AwayAt, FromNow, ToCome
-----------------------------------------------------------------------------
(* Types. *)

\* What the processes leave of their state.
ProcessTypes ==
  /\ file \in File
  /\ pc \in [Processes -> {"ready", "saving", "writing", "over"}]
  /\ plan \in [Processes -> PresenceRecord]
  /\ attached \subseteq {p \in Processes : pc[p] = "writing"}
  /\ session \in [Sessions -> {"idle", "prompting", "working", "nudged"}]
  /\ \A s \in Sessions : pc[s] \in {"saving", "writing"} => session[s] = "prompting"

\* A process ends.
LEMMA EndsTypes ==
  ASSUME TypeOK, NEW p \in Processes, Ends(p), file' \in File,
         attached' \subseteq attached \ {p}
  PROVE  ProcessTypes'
  <1>1. /\ pc' = [pc EXCEPT ![p] = IF p \in Commands THEN "over" ELSE "ready"]
        /\ plan' = [plan EXCEPT ![p] = Present]
        /\ session' = [s \in Sessions |-> IF s = p THEN "working" ELSE session[s]]
    BY DEF Ends, Goes
  <1>2. plan' \in [Processes -> PresenceRecord]
    BY <1>1, TheNothings DEF TypeOK
  <1>3. /\ pc' \in [Processes -> {"ready", "saving", "writing", "over"}]
        /\ \A q \in Processes \ {p} : pc'[q] = pc[q]
        /\ pc'[p] \in {"over", "ready"}
    BY <1>1 DEF TypeOK
  <1>4. \A s \in Sessions : s \in Processes
    BY DEF Processes
  <1> QED
    BY <1>1, <1>2, <1>3, <1>4 DEF ProcessTypes, TypeOK

\* A rewrite begins.
LEMMA RewritesTypes ==
  ASSUME TypeOK, NEW p \in Processes, Rewrites(p),
         session' \in [Sessions -> {"idle", "prompting", "working", "nudged"}],
         \A s \in Sessions : IF s = p THEN session'[s] = "prompting"
                                      ELSE session'[s] = session[s],
         ~Busy(p)
  PROVE  ProcessTypes'
  <1>1. PICK r \in PresenceRecord : WillSave(p, r)
    BY DEF Rewrites
  <1>2. /\ pc' = [pc EXCEPT ![p] = "saving"]
        /\ plan' = [plan EXCEPT ![p] = r]
        /\ UNCHANGED <<file, attached>>
    BY <1>1 DEF WillSave, Goes
  <1>3. /\ pc' \in [Processes -> {"ready", "saving", "writing", "over"}]
        /\ \A q \in Processes \ {p} : pc'[q] = pc[q]
    BY <1>2 DEF TypeOK
  <1>4. \A s \in Sessions : s \in Processes
    BY DEF Processes
  <1>5. plan' \in [Processes -> PresenceRecord]
    BY <1>2 DEF TypeOK
  <1> QED
    BY <1>2, <1>3, <1>4, <1>5 DEF ProcessTypes, TypeOK, Busy

\* Sessions and the clock, the daemon and its watch keep the types.
LEMMA OthersKeepTypes ==
  ASSUME TypeOK,
         \/ \E s \in Sessions : UseConfer(s) \/ StopHook(s)
         \/ WatchPass \/ Announce \/ DaemonStarts \/ DaemonStops \/ Tick
  PROVE  TypeOK'
  <1>1. ASSUME NEW s \in Sessions, UseConfer(s) PROVE TypeOK'
    BY <1>1 DEF UseConfer, TypeOK, fileVars, watchVars, history
  <1>2. ASSUME NEW s \in Sessions, StopHook(s) PROVE TypeOK'
    <2>1. /\ session[s] \in {"working", "nudged"} /\ s \in Processes
          /\ \/ session' = [session EXCEPT ![s] = "nudged"]
             \/ session' = [session EXCEPT ![s] = "idle"]
      BY <1>2 DEF StopHook, Processes
    <2>2. pc[s] \notin {"saving", "writing"}
      BY <2>1 DEF TypeOK
    <2>3. /\ session' \in [Sessions -> {"idle", "prompting", "working", "nudged"}]
          /\ \A q \in Sessions \ {s} : session'[q] = session[q]
      BY <2>1 DEF TypeOK
    <2>4. UNCHANGED <<now, file, pc, plan, attached, reached, up, announced, batch,
                      notices, scheduled, meant, overlooked, calm, killed>>
      BY <1>2 DEF StopHook, fileVars, watchVars, history
    <2> QED
      BY <2>2, <2>3, <2>4 DEF TypeOK
  <1>3. CASE WatchPass
    <2>1. Read.pending \in [Times -> Nat]
      BY ReadIsPresence DEF PresenceRecord, Pending
    <2>2. [t \in Times |-> IF t \in Fired(Read) \ announced THEN Read.pending[t] ELSE 0]
            \in Pending
      BY <2>1 DEF Pending
    <2> QED
      BY <1>3, <2>2 DEF WatchPass, TypeOK, fileVars, sessionVars, history
  <1>4. CASE Announce
    <2>1. PICK t \in Times : /\ batch[t] > 0
                             /\ batch' = [batch EXCEPT ![t] = @ - 1]
                             /\ announced' = announced \cup {t}
                             /\ notices' = [notices EXCEPT ![t] = @ + 1]
      BY <1>4 DEF Announce
    <2>2. batch' \in Pending /\ notices' \in Pending
      BY <2>1 DEF TypeOK, Pending
    <2> QED
      BY <1>4, <2>1, <2>2 DEF Announce, TypeOK, fileVars, sessionVars, history
  <1>5. CASE DaemonStarts \/ DaemonStops
    BY <1>5, TheNothings DEF DaemonStarts, DaemonStops, TypeOK, fileVars, sessionVars, history
  <1>6. CASE Tick
    BY <1>6, TimesAreMoments DEF Tick, TypeOK, fileVars, sessionVars, watchVars, history
  <1> QED
    BY <1>1, <1>2, <1>3, <1>4, <1>5, <1>6

\* Every step keeps the types.
LEMMA StepTypes ==
  TypeOK /\ NothingIsInvented /\ [Next]_vars => TypeOK'
  <1> SUFFICES ASSUME TypeOK, NothingIsInvented, [Next]_vars PROVE TypeOK'
    OBVIOUS
  <1>1. ASSUME NEW c \in Commands, RunCommand(c) PROVE TypeOK'
    <2>1. UNCHANGED <<now, up, announced, batch, notices, killed, reached>>
          /\ calm' \in BOOLEAN /\ ~Busy(c) /\ c \in Processes
      BY <1>1 DEF RunCommand, NoteOverlap, watchVars, AwayNow, AwayIn, AwayAt, Schedule, Back,
                  BackAt, BackAll, sessionVars, TypeOK, Processes, Busy
    <2>2. scheduled' \in Pending /\ meant' \in PresenceRecord /\ overlooked' \subseteq Times \ Clock
      BY <1>1, CommandEffects
    <2>3. ProcessTypes'
      <3>1. CASE Rewrites(c) /\ UNCHANGED session
        BY <2>1, <3>1, RewritesTypes, CommandsAreNoSessions DEF TypeOK
      <3>2. CASE SavesNothing(c)
        <4>1. file' \in File /\ attached' \subseteq attached \ {c}
          BY <2>1, <3>2, FilesAreFiles DEF SavesNothing, Unlink, TypeOK, Busy
        <4> QED
          BY <2>1, <3>2, <4>1, EndsTypes DEF SavesNothing
      <3> QED
        BY <1>1, <3>1, <3>2, CommandEffects
    <2> QED
      BY <2>1, <2>2, <2>3 DEF ProcessTypes, TypeOK
  <1>2. ASSUME NEW s \in Sessions, Prompt(s) PROVE TypeOK'
    <2>1. /\ UNCHANGED <<now, up, announced, batch, notices, killed, scheduled>>
          /\ calm' \in BOOLEAN /\ reached' \subseteq Sessions /\ s \in Processes
          /\ session[s] # "prompting" /\ session' = [session EXCEPT ![s] = "prompting"]
      BY <1>2 DEF Prompt, NoteOverlap, watchVars, TypeOK, Processes
    <2>2. Rewrites(s) /\ meant' \in PresenceRecord /\ overlooked' \subseteq Times \ Clock
      BY <1>2, <2>1, BackRewrites DEF Prompt
    <2>3. session' \in [Sessions -> {"idle", "prompting", "working", "nudged"}]
          /\ \A q \in Sessions : IF q = s THEN session'[q] = "prompting"
                                          ELSE session'[q] = session[q]
      BY <2>1 DEF TypeOK
    <2>4. ~Busy(s)
      BY <2>1 DEF TypeOK, Busy
    <2>5. ProcessTypes'
      BY <2>1, <2>2, <2>3, <2>4, RewritesTypes
    <2> QED
      BY <2>1, <2>2, <2>5 DEF ProcessTypes, TypeOK
  <1>3. ASSUME NEW p \in Processes, OpenFile(p) PROVE TypeOK'
    <2>1. UNCHANGED <<now, reached, up, announced, batch, notices, scheduled, meant, overlooked,
                      calm, killed>>
      BY <1>3 DEF OpenFile, watchVars, history
    <2>2. CASE plan[p] = Present
      <3>1. Ends(p) /\ file' \in File /\ attached' \subseteq attached \ {p}
        BY <1>3, <2>2, FilesAreFiles DEF OpenFile, Unlink
      <3>2. ProcessTypes'
        BY <3>1, EndsTypes
      <3> QED
        BY <2>1, <3>2 DEF ProcessTypes, TypeOK
    <2>3. CASE plan[p] # Present
      <3>1. /\ file' \in File /\ attached' = attached \cup {p}
            /\ pc' = [pc EXCEPT ![p] = "writing"] /\ pc[p] = "saving"
            /\ UNCHANGED <<plan, session>>
        BY <1>3, <2>3, FilesAreFiles DEF OpenFile, Goes
      <3>2. /\ pc' \in [Processes -> {"ready", "saving", "writing", "over"}]
            /\ \A q \in Processes \ {p} : pc'[q] = pc[q]
            /\ pc'[p] = "writing"
        BY <3>1 DEF TypeOK
      <3>3. \A s \in Sessions : s \in Processes
        BY DEF Processes
      <3> QED
        BY <2>1, <3>1, <3>2, <3>3 DEF TypeOK
    <2> QED
      BY <2>2, <2>3
  <1>4. ASSUME NEW p \in Processes, WriteFile(p) \/ Killed(p) PROVE TypeOK'
    <2>1. UNCHANGED <<now, reached, up, announced, batch, notices, scheduled, meant, overlooked,
                      calm>>
          /\ killed' \in BOOLEAN
      BY <1>4 DEF WriteFile, Killed, watchVars, history, TypeOK
    <2>2. Ends(p) /\ file' \in File /\ attached' \subseteq attached \ {p}
      <3>1. Whole(plan[p]) \in File /\ Unreadable("corrupt") \in File /\ file \in File
        BY FilesAreFiles DEF TypeOK
      <3> QED
        BY <1>4, <3>1 DEF WriteFile, Killed
    <2>3. ProcessTypes'
      BY <2>2, EndsTypes
    <2> QED
      BY <2>1, <2>3 DEF ProcessTypes, TypeOK
  <1>5. CASE UNCHANGED vars
    BY <1>5 DEF vars, TypeOK, fileVars, sessionVars, watchVars, history
  <1> QED
    BY <1>1, <1>2, <1>3, <1>4, <1>5, OthersKeepTypes DEF Next, Save
-----------------------------------------------------------------------------
(* Nothing is invented. *)

\* Every step keeps NothingIsInvented.
LEMMA StepInventsNothing ==
  TypeOK /\ NothingIsInvented /\ [Next]_vars => NothingIsInvented'
  <1> SUFFICES ASSUME TypeOK, NothingIsInvented, [Next]_vars PROVE NothingIsInvented'
    OBVIOUS
  <1>t. /\ \A t \in Times : /\ scheduled[t] \in Nat /\ batch[t] \in Nat /\ notices[t] \in Nat
                            /\ t \in Nat
        /\ now \in Nat
    BY TimesAreMoments DEF TypeOK, Pending
  <1>f. /\ Present.pending = NonePending
        /\ \A t \in Times : NonePending[t] = 0 /\ NonePending[t] <= scheduled[t]
        /\ \A kind \in {"absent", "empty", "corrupt"} :
             Unreadable(kind).holds.pending = NonePending
    BY <1>t, TheNothings DEF Unreadable
  <1> DEFINE Rewritten == /\ file'.holds = file.holds \/ file'.holds.pending = NonePending
                             \/ \E p \in Processes : file'.holds = plan[p]
                          /\ \A p \in Processes :
                               \/ plan'[p] = plan[p] \/ plan'[p] = Present
                               \/ \A t \in Times : plan'[p].pending[t] <= scheduled'[t]
                          /\ scheduled' \in Pending
                          /\ \A t \in Times : scheduled[t] <= scheduled'[t]
                          /\ UNCHANGED <<now, watchVars>>
  <1>1. ASSUME Rewritten PROVE NothingIsInvented'
    <2>1. /\ \A t \in Times : scheduled'[t] \in Nat /\ scheduled[t] <= scheduled'[t]
          /\ UNCHANGED <<now, up, announced, batch, notices>>
      BY <1>1 DEF Pending, watchVars
    <2>2. /\ \A p \in Processes, t \in Times : plan[p].pending[t] \in Nat
          /\ \A t \in Times : file.holds.pending[t] \in Nat
      BY TheNothings DEF TypeOK, PresenceRecord, Pending, File
    <2>3. \A t \in Times : file'.holds.pending[t] <= scheduled'[t]
      BY <1>1, <1>t, <1>f, <2>1, <2>2 DEF NothingIsInvented
    <2>4. \A p \in Processes, t \in Times : plan'[p].pending[t] <= scheduled'[t]
      BY <1>1, <1>t, <1>f, <2>1, <2>2 DEF NothingIsInvented
    <2>5. \A t \in Times : batch[t] + notices[t] <= scheduled'[t]
      BY <1>t, <2>1 DEF NothingIsInvented
    <2> QED
      BY <2>1, <2>3, <2>4, <2>5 DEF NothingIsInvented
  <1>2. ASSUME NEW p \in Processes, Rewrites(p), scheduled' \in Pending,
               \A t \in Times : scheduled[t] <= scheduled'[t], UNCHANGED <<now, watchVars>>
        PROVE  Rewritten
    <2>1. PICK r \in PresenceRecord : WillSave(p, r) /\ \A t \in Times : r.pending[t] <= scheduled'[t]
      BY <1>2 DEF Rewrites
    <2>2. \A q \in Processes : plan'[q] = IF q = p THEN r ELSE plan[q]
      BY <2>1 DEF WillSave, TypeOK
    <2> QED
      BY <1>2, <2>1, <2>2 DEF WillSave
  <1>3. ASSUME NEW p \in Processes, Ends(p)
        PROVE  \A q \in Processes : plan'[q] = plan[q] \/ plan'[q] = Present
    BY <1>3 DEF Ends, TypeOK
  <1>4. ASSUME NEW c \in Commands, RunCommand(c) PROVE Rewritten
    <2>1. /\ UNCHANGED <<now, watchVars>> /\ c \in Processes
          /\ scheduled' \in Pending /\ \A t \in Times : scheduled[t] <= scheduled'[t]
      BY <1>4, CommandEffects DEF RunCommand, Processes
    <2>2. CASE Rewrites(c)
      BY <1>2, <2>1, <2>2
    <2>3. CASE SavesNothing(c)
      <3>1. file' = file \/ file'.holds.pending = NonePending
        BY <1>f, <2>3 DEF SavesNothing, Unlink
      <3> QED
        BY <1>3, <2>1, <2>3, <3>1 DEF SavesNothing
    <2> QED
      BY <1>4, <2>2, <2>3, CommandEffects
  <1>5. ASSUME NEW s \in Sessions, Prompt(s) PROVE Rewritten
    <2>1. UNCHANGED <<now, watchVars, scheduled>> /\ s \in Processes /\ scheduled' \in Pending
      BY <1>5 DEF Prompt, Processes, TypeOK
    <2>2. \A t \in Times : scheduled[t] <= scheduled'[t]
      BY <1>t, <2>1
    <2>3. Rewrites(s)
      BY <1>5, <2>1, BackRewrites DEF Prompt
    <2> QED
      BY <1>2, <2>1, <2>2, <2>3
  <1>6. ASSUME NEW p \in Processes, Save(p) \/ Killed(p) PROVE Rewritten
    <2>1. UNCHANGED <<now, watchVars, scheduled>> /\ scheduled' \in Pending
      BY <1>6 DEF Save, OpenFile, WriteFile, Killed, history, TypeOK
    <2>2. \A t \in Times : scheduled[t] <= scheduled'[t]
      BY <1>t, <2>1
    <2>3. Ends(p) \/ UNCHANGED plan
      BY <1>6 DEF Save, OpenFile, WriteFile, Killed
    <2>4. file' = file \/ file'.holds.pending = NonePending \/ file'.holds = plan[p]
      BY <1>6, <1>f DEF Save, OpenFile, WriteFile, Killed, Unlink, Whole
    <2> QED
      BY <1>3, <2>1, <2>2, <2>3, <2>4
  <1>7. CASE WatchPass
    <2>1. /\ \A t \in Times : batch'[t] = IF t \in Fired(Read) \ announced
                                            THEN Read.pending[t] ELSE 0
          /\ up /\ UNCHANGED <<now, file, plan, up, announced, notices, scheduled>>
      BY <1>7 DEF WatchPass, fileVars, history
    <2>2. \A t \in Times : /\ Read.pending[t] \in Nat /\ Read.pending[t] <= scheduled[t]
                           /\ t \in Fired(Read) => t <= now
      BY ReadIsPresence, ReadInventsNothing DEF PresenceRecord, Pending, Fired
    <2>3. \A t \in Times : batch'[t] # 0 => notices[t] = 0
      BY <1>t, <2>1 DEF NothingIsInvented
    <2>4. \A t \in Times : batch'[t] + notices[t] <= scheduled[t]
      BY <1>t, <2>1, <2>2, <2>3 DEF NothingIsInvented
    <2>5. \A t \in Times : batch'[t] > 0 => t <= now
      BY <1>t, <2>1, <2>2
    <2> QED
      BY <2>1, <2>4, <2>5 DEF NothingIsInvented
  <1>8. CASE Announce
    <2>1. PICK t \in Times : /\ batch[t] > 0
                             /\ batch' = [batch EXCEPT ![t] = @ - 1]
                             /\ announced' = announced \cup {t}
                             /\ notices' = [notices EXCEPT ![t] = @ + 1]
      BY <1>8 DEF Announce
    <2>2. UNCHANGED <<now, file, plan, up, scheduled>>
      BY <1>8 DEF Announce, fileVars, history
    <2>3. \A u \in Times : /\ batch'[u] = IF u = t THEN batch[u] - 1 ELSE batch[u]
                           /\ notices'[u] = IF u = t THEN notices[u] + 1 ELSE notices[u]
      BY <2>1 DEF TypeOK, Pending
    <2>4. up
      BY <1>t, <2>1, TheNothings DEF NothingIsInvented
    <2> QED
      BY <1>t, <2>1, <2>2, <2>3, <2>4 DEF NothingIsInvented
  <1>9. CASE DaemonStarts \/ DaemonStops
    <2>1. UNCHANGED <<now, file, plan, scheduled>>
      BY <1>9 DEF DaemonStarts, DaemonStops, fileVars, history
    <2>2. CASE DaemonStarts
      BY <1>t, <2>1, <2>2, TheNothings DEF DaemonStarts, NothingIsInvented
    <2>3. CASE DaemonStops
      BY <1>t, <2>1, <2>3, TheNothings DEF DaemonStops, NothingIsInvented
    <2> QED
      BY <1>9, <2>2, <2>3
  <1>10. CASE Tick
    <2>1. now <= now'
      BY <1>t, <1>10 DEF Tick
    <2>2. now' \in Nat
      BY <1>t, <1>10 DEF Tick
    <2> QED
      BY <1>t, <1>10, <2>1, <2>2 DEF Tick, NothingIsInvented, fileVars, watchVars, history
  <1>11. CASE UNCHANGED <<fileVars, watchVars, history, now>>
    BY <1>11 DEF NothingIsInvented, fileVars, watchVars, history
  <1>12. CASE UNCHANGED vars \/ \E s \in Sessions : UseConfer(s) \/ StopHook(s)
    BY <1>11, <1>12 DEF vars, UseConfer, StopHook
  <1> QED
    BY <1>1, <1>4, <1>5, <1>6, <1>7, <1>8, <1>9, <1>10, <1>12 DEF Next
-----------------------------------------------------------------------------
(* The file is what the user meant. *)

\* What a reader finds after a step.
LEMMA ReadNextByKind ==
  /\ file'.kind = "whole" => Read' = file'.holds
  /\ file'.kind = "absent" => Read' = Present
  BY Zenon DEF Read

\* Who ends is no longer busy; nobody else is touched.
LEMMA EndsLeaves ==
  ASSUME TypeOK, NEW p \in Processes, Ends(p)
  PROVE  /\ ~Busy(p)'
         /\ \A q \in Processes \ {p} : /\ Busy(q)' <=> Busy(q)
                                       /\ pc'[q] = pc[q]
  BY DEF Ends, Goes, Busy, TypeOK

\* A rewrite that begins alone carries what the user means now.
LEMMA RewritesCarry ==
  ASSUME TypeOK, WriterCarriesMeaning, NEW p \in Processes, ~Busy(p), NoteOverlap(p),
         Rewrites(p), UNCHANGED killed
  PROVE  WriterCarriesMeaning'
  <1> SUFFICES ASSUME calm', ~killed' PROVE WriterCarriesMeaning'
    BY DEF WriterCarriesMeaning
  <1>1. calm /\ ~killed /\ AtRest
    BY DEF NoteOverlap, AtRest
  <1>2. AsMeant(Read)
    BY <1>1 DEF WriterCarriesMeaning
  <1>3. PICK r \in PresenceRecord : WillSave(p, r) /\ WillBeMeant(r)
    BY <1>2 DEF Rewrites
  <1>4. /\ pc' = [pc EXCEPT ![p] = "saving"] /\ plan' = [plan EXCEPT ![p] = r]
    BY <1>3 DEF WillSave, Goes
  <1>5. /\ \A q \in Processes \ {p} : ~Busy(q)' /\ pc'[q] # "writing"
        /\ pc'[p] = "saving" /\ plan'[p] = r /\ Busy(p)'
    BY <1>1, <1>3, <1>4 DEF AtRest, Busy, TypeOK
  <1>6. AsMeant(plan[p])'
    BY <1>3, <1>5 DEF AsMeant, WillBeMeant
  <1> QED
    BY <1>5, <1>6 DEF WriterCarriesMeaning, AtRest

\* Every step keeps WriterCarriesMeaning.
LEMMA StepCarriesMeaning ==
  TypeOK /\ NothingIsInvented /\ WriterCarriesMeaning /\ [Next]_vars => WriterCarriesMeaning'
  <1> SUFFICES ASSUME TypeOK, NothingIsInvented, WriterCarriesMeaning, [Next]_vars
               PROVE  WriterCarriesMeaning'
    OBVIOUS
  <1>1. ASSUME NEW c \in Commands, RunCommand(c) PROVE WriterCarriesMeaning'
    <2>1. c \in Processes /\ ~Busy(c) /\ NoteOverlap(c) /\ UNCHANGED killed
      BY <1>1 DEF RunCommand, Processes, Busy
    <2>2. CASE Rewrites(c)
      BY <2>1, <2>2, RewritesCarry
    <2>3. CASE SavesNothing(c)
      <3> SUFFICES ASSUME calm', ~killed' PROVE WriterCarriesMeaning'
        BY DEF WriterCarriesMeaning
      <3>1. calm /\ ~killed /\ AtRest
        BY <2>1 DEF NoteOverlap, AtRest
      <3>2. \A q \in Processes : ~Busy(q)'
        BY <2>1, <2>3, <3>1, EndsLeaves DEF AtRest, SavesNothing
      <3>3. AsMeant(Read)
        BY <3>1 DEF WriterCarriesMeaning
      <3>4. AsMeant(Read)'
        <4>1. CASE Unlink /\ AsMeant(Present)'
          <5>1. Read' = Present
            BY <4>1, FilesAreFiles, ReadNextByKind DEF Unlink
          <5> QED
            BY <4>1, <5>1, Zenon DEF AsMeant, Present, NonePending
        <4> QED
          BY <2>3, <3>3, <4>1 DEF SavesNothing
      <3> QED
        BY <3>2, <3>4 DEF WriterCarriesMeaning, Busy
    <2> QED
      BY <1>1, <2>2, <2>3, CommandEffects
  <1>2. ASSUME NEW s \in Sessions, Prompt(s) PROVE WriterCarriesMeaning'
    <2>1. s \in Processes /\ ~Busy(s) /\ NoteOverlap(s) /\ UNCHANGED <<killed, scheduled>>
      BY <1>2 DEF Prompt, Processes, Busy, TypeOK
    <2>2. Rewrites(s)
      BY <1>2, <2>1, BackRewrites DEF Prompt
    <2> QED
      BY <2>1, <2>2, RewritesCarry
  <1>3. ASSUME NEW p \in Processes, OpenFile(p) PROVE WriterCarriesMeaning'
    <2> SUFFICES ASSUME calm', ~killed' PROVE WriterCarriesMeaning'
      BY DEF WriterCarriesMeaning
    <2>1. calm /\ ~killed /\ UNCHANGED <<meant, overlooked>> /\ pc[p] = "saving"
      BY <1>3 DEF OpenFile, history
    <2>2. AsMeant(plan[p]) /\ \A q \in Processes \ {p} : ~Busy(q)
      BY <2>1 DEF WriterCarriesMeaning, Busy
    <2>3. CASE plan[p] = Present
      <3>1. Unlink /\ Ends(p)
        BY <1>3, <2>3 DEF OpenFile
      <3>2. \A q \in Processes : ~Busy(q)'
        BY <2>2, <3>1, EndsLeaves
      <3>3. AsMeant(Read)'
        <4>1. Read' = plan[p]
          BY <2>3, <3>1, FilesAreFiles, ReadNextByKind DEF Unlink
        <4> QED
          BY <2>1, <2>2, <4>1 DEF AsMeant
      <3> QED
        BY <3>2, <3>3 DEF WriterCarriesMeaning, Busy
    <2>4. CASE plan[p] # Present
      <3>1. /\ file' = Unreadable("empty") /\ attached' = attached \cup {p}
            /\ pc' = [pc EXCEPT ![p] = "writing"] /\ UNCHANGED plan
        BY <1>3, <2>4 DEF OpenFile, Goes
      <3>2. /\ file'.kind = "empty" /\ p \in attached' /\ pc'[p] = "writing" /\ Busy(p)'
            /\ \A q \in Processes \ {p} : ~Busy(q)' /\ pc'[q] # "writing"
        BY <2>2, <3>1, FilesAreFiles DEF Busy, TypeOK
      <3>3. AsMeant(plan[p])'
        BY <2>1, <2>2, <3>1 DEF AsMeant
      <3> QED
        BY <2>1, <3>1, <3>2, <3>3 DEF WriterCarriesMeaning, AtRest
    <2> QED
      BY <2>3, <2>4
  <1>4. ASSUME NEW p \in Processes, WriteFile(p) PROVE WriterCarriesMeaning'
    <2> SUFFICES ASSUME calm', ~killed' PROVE WriterCarriesMeaning'
      BY DEF WriterCarriesMeaning
    <2>1. calm /\ ~killed /\ UNCHANGED <<meant, overlooked>> /\ pc[p] = "writing" /\ Ends(p)
      BY <1>4 DEF WriteFile, history
    <2>2. /\ AsMeant(plan[p]) /\ p \in attached /\ file.kind = "empty"
          /\ \A q \in Processes \ {p} : ~Busy(q)
      BY <2>1 DEF WriterCarriesMeaning, Busy
    <2>3. file' = Whole(plan[p]) /\ plan[p] \in PresenceRecord
      BY <1>4, <2>2 DEF WriteFile, TypeOK
    <2>4. AsMeant(Read)'
      <3>1. Read' = plan[p]
        BY <2>3, FilesAreFiles, ReadNextByKind
      <3> QED
        BY <2>1, <2>2, <3>1 DEF AsMeant
    <2>5. \A q \in Processes : ~Busy(q)'
      BY <2>1, <2>2, EndsLeaves
    <2> QED
      BY <2>4, <2>5 DEF WriterCarriesMeaning, Busy
  <1>5. ASSUME NEW p \in Processes, Killed(p) PROVE WriterCarriesMeaning'
    BY <1>5 DEF Killed, WriterCarriesMeaning
  <1>6. CASE UNCHANGED <<fileVars, history>>
    <2>1. UNCHANGED <<file, pc, plan, attached, meant, overlooked, calm, killed, Read>>
      BY <1>6 DEF fileVars, history, Read
    <2> QED
      BY <2>1 DEF WriterCarriesMeaning, AsMeant, AtRest, Busy
  <1>7. CASE \/ UNCHANGED vars
             \/ \E s \in Sessions : UseConfer(s) \/ StopHook(s)
             \/ WatchPass \/ Announce \/ DaemonStarts \/ DaemonStops \/ Tick
    BY <1>6, <1>7 DEF vars, UseConfer, StopHook, WatchPass, Announce, DaemonStarts,
                      DaemonStops, Tick
  <1> QED
    BY <1>1, <1>2, <1>3, <1>4, <1>5, <1>7 DEF Next, Save
-----------------------------------------------------------------------------
(* The theorems. *)

PresenceInvariant == TypeOK /\ NothingIsInvented /\ WriterCarriesMeaning

\* Every reachable state is well typed, invents nothing and, without an
\* overlap, carries the user's meaning.
THEOREM PresenceInvariantHolds == Spec => []PresenceInvariant
  <1>1. Init => PresenceInvariant
    <2> SUFFICES ASSUME Init PROVE PresenceInvariant
      OBVIOUS
    <2>1. /\ \A p \in Processes : pc[p] = "ready" /\ plan[p] = Present
          /\ file = Unreadable("absent") /\ Read = Present
      BY FilesAreFiles, ReadByKind DEF Init
    <2>2. TypeOK
      <3>1. file \in File /\ now \in 0..Horizon
        BY <2>1, FilesAreFiles, TimesAreMoments DEF Init
      <3>2. batch \in Pending /\ notices \in Pending /\ scheduled \in Pending
            /\ meant \in PresenceRecord /\ plan \in [Processes -> PresenceRecord]
        BY TheNothings DEF Init
      <3>3. /\ session \in [Sessions -> {"idle", "prompting", "working", "nudged"}]
            /\ pc \in [Processes -> {"ready", "saving", "writing", "over"}]
            /\ \A s \in Sessions : pc[s] = "ready"
        BY DEF Init, Processes
      <3> QED
        BY <3>1, <3>2, <3>3 DEF Init, TypeOK
    <2>3. NothingIsInvented
      BY <2>1, TheNothings DEF Init, NothingIsInvented, Unreadable
    <2>4. WriterCarriesMeaning
      BY <2>1 DEF Init, WriterCarriesMeaning, AsMeant, Busy
    <2> QED
      BY <2>2, <2>3, <2>4 DEF PresenceInvariant
  <1>2. PresenceInvariant /\ [Next]_vars => PresenceInvariant'
    BY StepTypes, StepInventsNothing, StepCarriesMeaning DEF PresenceInvariant
  <1> QED
    BY <1>1, <1>2, PTL DEF Spec

\* Types are correct.
THEOREM PresenceTypeCorrect == Spec => []TypeOK
  BY PresenceInvariantHolds, PTL DEF PresenceInvariant

\* The user is told of no moment that has not come, and of none more often
\* than it was scheduled, whatever happens to the file.
THEOREM NoFalseNotice == Spec => []NoticesAreTrue
  <1>1. PresenceInvariant => NoticesAreTrue
    BY TimesAreMoments DEF PresenceInvariant, TypeOK, NothingIsInvented, NoticesAreTrue, Pending
  <1> QED
    BY <1>1, PresenceInvariantHolds, PTL

\* Writers that run one after the other leave the file as the user meant it, but
\* for the entries of `away in` that `back at` does not cancel.
THEOREM FileKeepsMeaning == Spec => []FileIsAsMeant
  <1>1. PresenceInvariant => FileIsAsMeant
    BY DEF PresenceInvariant, WriterCarriesMeaning, FileIsAsMeant
  <1> QED
    BY <1>1, PresenceInvariantHolds, PTL

\* Under the same condition an agent is sent back to confer only while the
\* user is away, or one of those entries has come.
THEOREM NudgesHold == Spec => NudgesAreTrue
  <1> DEFINE Nudge == \A s \in Sessions :
                        /\ session'[s] = "nudged" /\ session[s] # "nudged"
                        /\ calm /\ ~killed /\ AtRest
                        => EffectiveAway(meant) \/ \E t \in overlooked : t <= now
  <1>1. PresenceInvariant /\ [Next]_vars => Nudge \/ UNCHANGED vars
    <2> SUFFICES ASSUME PresenceInvariant, Next,
                        NEW s \in Sessions,
                        session'[s] = "nudged", session[s] # "nudged",
                        calm, ~killed, AtRest
                 PROVE  EffectiveAway(meant) \/ \E t \in overlooked : t <= now
      OBVIOUS
    <2>1. TypeOK /\ AsMeant(Read)
      BY DEF PresenceInvariant, WriterCarriesMeaning
    <2>2. ASSUME NEW p \in Processes, Ends(p) PROVE FALSE
      BY <2>2 DEF Ends
    <2>3. CASE \E c \in Commands : RunCommand(c)
      <3>1. PICK c \in Commands : RunCommand(c)
        BY <2>3
      <3>2. Ends(c) \/ UNCHANGED session
        BY <3>1 DEF RunCommand, AwayNow, AwayIn, AwayAt, Schedule, Back, BackAt, BackAll,
                    sessionVars
      <3> QED
        BY <2>2, <3>2 DEF Processes
    <2>4. CASE \E p \in Processes : Save(p) \/ Killed(p)
      BY <2>2, <2>4 DEF Save, OpenFile, WriteFile, Killed
    <2>5. ASSUME NEW q \in Sessions, Prompt(q) PROVE FALSE
      BY <2>1, <2>5 DEF Prompt, TypeOK
    <2>6. ASSUME NEW q \in Sessions, StopHook(q)
          PROVE  EffectiveAway(meant) \/ \E t \in overlooked : t <= now
      <3>1. EffectiveAway(Read)
        BY <2>1, <2>6 DEF StopHook, TypeOK
      <3> QED
        BY <2>1, <3>1 DEF EffectiveAway, Fired, AsMeant
    <2>7. CASE \/ \E q \in Sessions : UseConfer(q)
               \/ WatchPass \/ Announce \/ DaemonStarts \/ DaemonStops \/ Tick
      BY <2>7 DEF UseConfer, WatchPass, Announce, DaemonStarts, DaemonStops, Tick, sessionVars
    <2> QED
      BY <2>3, <2>4, <2>5, <2>6, <2>7 DEF Next
  <1> QED
    BY <1>1, PresenceInvariantHolds, PTL DEF Spec, NudgesAreTrue
=============================================================================
