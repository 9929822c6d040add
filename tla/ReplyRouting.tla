---------------------------- MODULE ReplyRouting ----------------------------
(***************************************************************************)
(* The reply-routing ladder of daemon/routing.py: a pure function from one *)
(* user message and the open threads to what the daemon does with it.      *)
(*                                                                         *)
(* A message is what the two regular expressions make of it:               *)
(*   sigil   it starts with "."                                            *)
(*   marker  it starts with "re" and a separator                           *)
(*   hits    the tags its first token is a prefix of (no token: none)      *)
(*   exact   the tag its first token spells in full, or NoTag              *)
(* A thread is [kind, tag, label]; a decision is [kind, tag, label, text], *)
(* where text says whether the agent gets the whole message or what        *)
(* follows the tag.                                                        *)
(***************************************************************************)
CONSTANTS Tags, NoTag, Labels, NoLabel

ASSUME RoutingNone == NoTag \notin Tags /\ NoLabel \notin Labels

Message == [sigil : BOOLEAN, marker : BOOLEAN,
            hits : SUBSET Tags, exact : Tags \cup {NoTag}]

AskThread(tag, label)    == [kind |-> "ask",    tag |-> tag, label |-> label]
NotifyThread(tag, label) == [kind |-> "notify", tag |-> tag, label |-> label]
Thread == [kind : {"ask", "notify"}, tag : Tags, label : Labels]

-----------------------------------------------------------------------------
DeliverAsk(thread, text) ==
  [kind |-> "deliver", tag |-> thread.tag, label |-> thread.label, text |-> text]

EnqueueNotifyReply(thread) ==
  [kind |-> "enqueue", tag |-> thread.tag, label |-> thread.label, text |-> "rest"]

\* Broadcast, Bounce, Ambiguous and Concierge name no thread.
Untargeted(kind) ==
  [kind |-> kind, tag |-> NoTag, label |-> NoLabel, text |-> "whole"]

\* A targeted decision names a thread and its agent; the others name neither.
Decision ==
  [kind : {"deliver", "enqueue"}, tag : Tags, label : Labels, text : {"whole", "rest"}]
  \cup {Untargeted(kind) : kind \in {"broadcast", "bounce", "ambiguous", "concierge"}}

RouteToThread(thread) ==
  IF thread.kind = "ask" THEN DeliverAsk(thread, "rest")
                         ELSE EnqueueNotifyReply(thread)

\* Mutant: only the tags of asks are looked up.
AskPrefixMatches(m, threads) == {t \in threads : t.tag \in m.hits /\ t.kind = "ask"}

PrefixMatches(m, threads) == {t \in threads : t.tag \in m.hits}

ExactMatches(m, threads) == {t \in threads : t.tag = m.exact}

\* Mutant: the first of several will do.
AnyOf(S) == S # {}

Single(S) == \E t \in S : S = {t}
TheOne(S) == CHOOSE t \in S : TRUE

\* No tag settled it: one awaiting ask takes the message, several make it
\* ambiguous, none broadcasts it.
RouteUntagged(asks) ==
  CASE asks = {}    -> Untargeted("broadcast")
    [] Single(asks) -> DeliverAsk(TheOne(asks), "whole")
    [] OTHER        -> Untargeted("ambiguous")

\* After the "re" marker a prefix counts, if it picks out one thread, and one
\* that matches nothing is dropped; without the marker only a full tag counts.
RouteTagged(m, asks, threads) ==
  LET named == IF m.marker THEN PrefixMatches(m, threads)
                           ELSE ExactMatches(m, threads)
      vague == m.marker /\ named # {} /\ ~Single(named)
  IN CASE named = {} -> RouteUntagged(asks)
       [] vague      -> Untargeted("bounce")
       [] OTHER      -> RouteToThread(TheOne(named))

\* Mutant: nobody looks whether an agent is there.
RouteToNobody(m, asks, notifies, connected) ==
  IF m.sigil THEN Untargeted("concierge") ELSE RouteTagged(m, asks, asks \cup notifies)

\* Mutant: open notify-threads take part in the untagged rules.
RouteAmongAll(m, asks, notifies, connected) ==
  IF m.sigil THEN Untargeted("concierge")
             ELSE RouteTagged(m, asks \cup notifies, asks \cup notifies)

RouteUserMessage(m, asks, notifies, connected) ==
  CASE m.sigil                                -> Untargeted("concierge")
    [] ~m.sigil /\ asks = {} /\ connected = {} -> Untargeted("bounce")
    [] OTHER                                  -> RouteTagged(m, asks, asks \cup notifies)
=============================================================================
