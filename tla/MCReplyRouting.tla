--------------------------- MODULE MCReplyRouting ---------------------------
(***************************************************************************)
(* The routing ladder against what it promises, over every set of open     *)
(* threads and every message.  Tags are words of one length, so that "is a *)
(* prefix of" is the real relation; a token is any word up to one letter   *)
(* longer than a tag.                                                      *)
(***************************************************************************)
EXTENDS ReplyRouting, Naturals, Sequences, SequencesExt

CONSTANTS
  Letters,   \* of which tags are made
  TagLen     \* how many make a tag

\* The tags a configuration without a reason for fewer gives to Tags.
Words == [1..TagLen -> Letters]

ASSUME TagsAreWords == TagLen \in Nat \ {0} /\ Tags \subseteq Words

Tokens == UNION {[1..n -> Letters] : n \in 0..(TagLen + 1)}

\* What the patterns of _parse_marker_and_token leave of a message.
MessageOf(sigil, marker, token) ==
  [sigil  |-> sigil,
   marker |-> marker,
   hits   |-> {t \in Tags : token # <<>> /\ IsPrefix(token, t)},
   exact  |-> IF token \in Tags THEN token ELSE NoTag]

VARIABLES
  open,        \* the kind of the open thread of each tag, or "none"
  connected,   \* the labels of the connected agents
  token,       \* the first token of the last message
  msg,         \* that message
  decision     \* what the ladder made of it
vars == <<open, connected, token, msg, decision>>

Agent == CHOOSE l \in Labels : TRUE
AskSet == {AskThread(t, Agent) : t \in {u \in Tags : open[u] = "ask"}}
NotifySet == {NotifyThread(t, Agent) : t \in {u \in Tags : open[u] = "notify"}}

Init ==
  /\ open \in [Tags -> {"none", "ask", "notify"}]
  /\ connected \in SUBSET Labels
  /\ token = <<>>
  /\ msg = MessageOf(TRUE, FALSE, <<>>)
  /\ decision = RouteUserMessage(msg, AskSet, NotifySet, connected)

Dispatch(sigil, marker, tok) ==
  /\ token' = tok
  /\ msg' = MessageOf(sigil, marker, tok)
  /\ decision' = RouteUserMessage(msg', AskSet, NotifySet, connected)
  /\ UNCHANGED <<open, connected>>

Next == \E sigil, marker \in BOOLEAN, tok \in Tokens : Dispatch(sigil, marker, tok)

Spec == Init /\ [][Next]_vars

-----------------------------------------------------------------------------
OpenTags == {t \in Tags : open[t] # "none"}
Targeted == decision.kind \in {"deliver", "enqueue"}

\* A message that spells out the tag of an open thread, with or without "re",
\* reaches that thread and no other whenever any agent is there at all.
FullTagReachesItsThread ==
  (~msg.sigil /\ token \in OpenTags /\ (AskSet # {} \/ connected # {}))
    => /\ decision.tag = token
       /\ decision.kind = (IF open[token] = "ask" THEN "deliver" ELSE "enqueue")
       /\ decision.text = "rest"

\* A thread gets a message only if the message can mean no other: its token
\* is the full tag, or after "re" a prefix of no other open tag, or there is
\* exactly one awaiting ask and no open tag was named.
NeverGuesses ==
  Targeted =>
    \/ token = decision.tag
    \/ msg.marker /\ {t \in OpenTags : IsPrefix(token, t)} = {decision.tag}
    \/ /\ decision.kind = "deliver" /\ decision.text = "whole"
       /\ AskSet = {AskThread(decision.tag, Agent)}
       /\ token \notin OpenTags

\* A broadcast is never made to nobody: the user would not hear of it.
BroadcastHasAudience == decision.kind = "broadcast" => connected # {}

\* Notify-threads are reached by their tag only: a message that names none of
\* them is routed as if there were none.
NotifiesStayAside ==
  (\A t \in msg.hits \cup {msg.exact} : t \in OpenTags => open[t] # "notify")
    => decision = RouteUserMessage(msg, AskSet, {}, connected)
=============================================================================
