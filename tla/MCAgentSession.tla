--------------------------- MODULE MCAgentSession ---------------------------
(***************************************************************************)
(* An instance of AgentSession for TLC.                                    *)
(***************************************************************************)
EXTENDS AgentSession

CONSTANTS t1, t2, a1, a2,
          MaxCalls      \* bound: tool calls made

Untagged == [sigil |-> FALSE, marker |-> FALSE, hits |-> {}, exact |-> NoTag]
OnlyUntagged == {Untagged}

\* The tags are alike: the second is drawn only while the first is in use.
FirstTagFirst ==
  t2 \in Server!ActiveTags' => {t1, t2} \cap Server!ActiveTags # {}

\* So are the asks: the second is made only after the first.
FirstAskFirst == task'[a2] # "idle" => task'[a1] # "idle"

FewCalls == Cardinality({k \in Tools : task'[k] # "idle"}) <= MaxCalls

MCNext == SessionNext /\ FirstTagFirst /\ FirstAskFirst /\ FewCalls

\* SessionFairness for TLC: each call returns once and each deadline passes once,
\* so what can run for ever runs, whether calls are told apart or not.
MCFairness ==
  /\ WF_sessionVars(ClientReads)
  /\ WF_sessionVars(\E k \in Calls : CallReturns(k))
  /\ WF_sessionVars(HandlerEnd)
  /\ WF_sessionVars(\E a \in Asks : Deadline(a))

MCSpec == SessionInit /\ [][MCNext]_sessionVars /\ MCFairness
=============================================================================
