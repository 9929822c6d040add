---------------------------- MODULE AskLifecycle ----------------------------
(***************************************************************************)
(* What the daemon promises about one ask, whatever the user, the agent    *)
(* and Discord do: once open it is settled exactly once and for good, the  *)
(* agent is answered at most once and only by a reply or a timeout, and no *)
(* ask stays open for ever.                                                *)
(***************************************************************************)
EXTENDS Naturals

CONSTANT Asks

VARIABLES phase, answers
vars == <<phase, answers>>

Init ==
  /\ phase = [a \in Asks |-> "idle"]
  /\ answers = [a \in Asks |-> 0]

Open(a) ==
  /\ phase[a] = "idle"
  /\ phase' = [phase EXCEPT ![a] = "open"]
  /\ UNCHANGED answers

\* The agent may be gone when its answer comes: then it gets none.
Answer(a, how) ==
  /\ phase[a] = "open"
  /\ phase' = [phase EXCEPT ![a] = how]
  /\ \E reached \in 0..1 : answers' = [answers EXCEPT ![a] = reached]

Drop(a, how) ==
  /\ phase[a] = "open"
  /\ phase' = [phase EXCEPT ![a] = how]
  /\ UNCHANGED answers

Settle(a) ==
  \/ \E how \in {"replied", "timed_out"} : Answer(a, how)
  \/ \E how \in {"withdrawn", "lost"} : Drop(a, how)

Next == \E a \in Asks : Open(a) \/ Settle(a)

Spec == Init /\ [][Next]_vars /\ \A a \in Asks : WF_vars(Settle(a))
=============================================================================
