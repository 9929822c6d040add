------------------------- MODULE ReplyRoutingProofs -------------------------
(***************************************************************************)
(* What the routing ladder promises, for any alphabet and length of tags,  *)
(* any open threads, any agents and any message.                           *)
(***************************************************************************)
EXTENDS MCReplyRouting, SequenceTheorems, TLAPS

\* The decision is the ladder's, about a message whose token the patterns found.
LadderInvariant ==
  /\ open \in [Tags -> {"none", "ask", "notify"}]
  /\ token \in Tokens /\ msg.sigil \in BOOLEAN
  /\ msg = MessageOf(msg.sigil, msg.marker, token)
  /\ decision = RouteUserMessage(msg, AskSet, NotifySet, connected)

\* The ladder is asked about every message, and only about the open threads.
LEMMA LadderInvariantHolds == Spec => []LadderInvariant
  <1>1. Init => LadderInvariant
    <2> SUFFICES ASSUME Init PROVE LadderInvariant
      OBVIOUS
    <2>1. token \in [1..0 -> Letters]
      BY DEF Init
    <2>2. 0 \in 0..(TagLen + 1)
      BY TagsAreWords
    <2>3. token \in Tokens
      BY <2>1, <2>2 DEF Tokens
    <2> QED
      BY <2>3 DEF Init, LadderInvariant, MessageOf
  <1>2. LadderInvariant /\ [Next]_vars => LadderInvariant'
    <2> SUFFICES ASSUME LadderInvariant, [Next]_vars PROVE LadderInvariant'
      OBVIOUS
    <2>1. ASSUME NEW sigil \in BOOLEAN, NEW marker \in BOOLEAN, NEW tok \in Tokens,
                 Dispatch(sigil, marker, tok)
          PROVE  LadderInvariant'
      <3>1. /\ msg' = MessageOf(sigil, marker, tok) /\ token' = tok
            /\ UNCHANGED <<open, connected>>
        BY <2>1 DEF Dispatch
      <3>2. msg'.sigil = sigil /\ msg'.marker = marker
        BY <3>1 DEF MessageOf
      <3>3. AskSet' = AskSet /\ NotifySet' = NotifySet
        BY <3>1 DEF AskSet, NotifySet
      <3> QED
        BY <2>1, <3>1, <3>2, <3>3 DEF Dispatch, LadderInvariant
    <2>2. CASE UNCHANGED vars
      BY <2>2 DEF vars, LadderInvariant, AskSet, NotifySet
    <2> QED
      BY <2>1, <2>2 DEF Next
  <1> QED
    BY <1>1, <1>2, PTL DEF Spec

-----------------------------------------------------------------------------
(* Tokens and tags. *)

\* A token is a sequence of letters.
LEMMA TokensAreSequences ==
  ASSUME NEW s \in Tokens
  PROVE  s \in Seq(Letters) /\ Len(s) \in Nat /\ DOMAIN s = 1..Len(s)
  <1>1. PICK n \in 0..(TagLen + 1) : s \in [1..n -> Letters]
    BY DEF Tokens
  <1>2. n \in Nat
    BY TagsAreWords
  <1>3. s \in Seq(Letters)
    BY <1>1, <1>2
  <1> QED
    BY <1>3, LenProperties

\* A tag is one of TagLen letters, so it is never empty.
LEMMA TagsAreSequences ==
  ASSUME NEW t \in Tags
  PROVE  t \in Seq(Letters) /\ Len(t) = TagLen /\ t # <<>>
  <1>1. t \in [1..TagLen -> Letters] /\ TagLen \in Nat /\ TagLen # 0
    BY TagsAreWords DEF Words
  <1>2. t \in Seq(Letters) /\ Len(t) = TagLen
    BY <1>1
  <1> QED
    BY <1>1, <1>2, EmptySeq

\* A tag that is a prefix of a tag is that tag: they have one length.
LEMMA FullTagIsExact ==
  ASSUME NEW s \in Tags, NEW t \in Tags
  PROVE  IsPrefix(s, t) <=> s = t
  <1>1. s \in Seq(Letters) /\ t \in Seq(Letters) /\ Len(s) = TagLen /\ Len(t) = TagLen
        /\ TagLen \in Nat
    BY TagsAreSequences, TagsAreWords
  <1>2. ASSUME NEW u \in Seq(Letters), Len(u) = TagLen
        PROVE  SubSeq(u, 1, TagLen) = u
    <2>1. \A i \in 1..TagLen : u[i] \in Letters
      BY <1>2, ElementOfSeq
    <2>2. /\ SubSeq(u, 1, TagLen) \in Seq(Letters)
          /\ Len(SubSeq(u, 1, TagLen)) = TagLen
          /\ \A i \in 1..TagLen : SubSeq(u, 1, TagLen)[i] = u[i]
      BY <1>1, <2>1, SubSeqProperties
    <2> QED
      BY <1>2, <2>2, SeqEqual
  <1> QED
    BY <1>1, <1>2 DEF IsPrefix

\* The tags a token hits, and the one it spells.
LEMMA TokenHits ==
  ASSUME LadderInvariant
  PROVE  /\ msg.hits = {t \in Tags : token # <<>> /\ IsPrefix(token, t)}
         /\ msg.exact = IF token \in Tags THEN token ELSE NoTag
         /\ token \in Tags => msg.hits = {token}
  <1>1. /\ msg.hits = {t \in Tags : token # <<>> /\ IsPrefix(token, t)}
        /\ msg.exact = IF token \in Tags THEN token ELSE NoTag
    BY DEF LadderInvariant, MessageOf
  <1> QED
    BY <1>1, FullTagIsExact, TagsAreSequences

\* Each open tag has one thread, of the kind it was opened as.
LEMMA ThreadsOfTags ==
  ASSUME LadderInvariant
  PROVE  /\ \A t \in AskSet : /\ t = AskThread(t.tag, Agent) /\ t.kind = "ask"
                              /\ t.tag \in Tags /\ open[t.tag] = "ask"
         /\ \A t \in NotifySet : /\ t = NotifyThread(t.tag, Agent) /\ t.kind = "notify"
                                 /\ t.tag \in Tags /\ open[t.tag] = "notify"
         /\ \A tag \in OpenTags : \E t \in AskSet \cup NotifySet : t.tag = tag
         /\ \A t \in AskSet \cup NotifySet : t.tag \in OpenTags
         /\ \A t, u \in AskSet \cup NotifySet : t.tag = u.tag => t = u
  <1>1. \A t \in AskSet : /\ t = AskThread(t.tag, Agent) /\ t.kind = "ask"
                          /\ t.tag \in Tags /\ open[t.tag] = "ask"
    <2> SUFFICES ASSUME NEW t \in AskSet
                 PROVE  /\ t = AskThread(t.tag, Agent) /\ t.kind = "ask"
                        /\ t.tag \in Tags /\ open[t.tag] = "ask"
      OBVIOUS
    <2>1. PICK u \in Tags : open[u] = "ask" /\ t = AskThread(u, Agent)
      BY DEF AskSet
    <2>2. t.tag = u /\ t.kind = "ask"
      BY <2>1 DEF AskThread
    <2> QED
      BY <2>1, <2>2
  <1>2. \A t \in NotifySet : /\ t = NotifyThread(t.tag, Agent) /\ t.kind = "notify"
                             /\ t.tag \in Tags /\ open[t.tag] = "notify"
    <2> SUFFICES ASSUME NEW t \in NotifySet
                 PROVE  /\ t = NotifyThread(t.tag, Agent) /\ t.kind = "notify"
                        /\ t.tag \in Tags /\ open[t.tag] = "notify"
      OBVIOUS
    <2>1. PICK u \in Tags : open[u] = "notify" /\ t = NotifyThread(u, Agent)
      BY DEF NotifySet
    <2>2. t.tag = u /\ t.kind = "notify"
      BY <2>1 DEF NotifyThread
    <2> QED
      BY <2>1, <2>2
  <1>3. \A tag \in OpenTags : \E t \in AskSet \cup NotifySet : t.tag = tag
    <2> SUFFICES ASSUME NEW tag \in OpenTags
                 PROVE  \E t \in AskSet \cup NotifySet : t.tag = tag
      OBVIOUS
    <2>1. tag \in Tags /\ open[tag] \in {"ask", "notify"}
      BY DEF OpenTags, LadderInvariant
    <2>2. CASE open[tag] = "ask"
      <3>1. AskThread(tag, Agent) \in AskSet
        BY <2>1, <2>2 DEF AskSet
      <3>2. AskThread(tag, Agent).tag = tag
        BY DEF AskThread
      <3> QED
        BY <3>1, <3>2
    <2>3. CASE open[tag] = "notify"
      <3>1. NotifyThread(tag, Agent) \in NotifySet
        BY <2>1, <2>3 DEF NotifySet
      <3>2. NotifyThread(tag, Agent).tag = tag
        BY DEF NotifyThread
      <3> QED
        BY <3>1, <3>2
    <2> QED
      BY <2>1, <2>2, <2>3
  <1>4. \A t \in AskSet \cup NotifySet : t.tag \in OpenTags
    BY <1>1, <1>2 DEF OpenTags
  <1>5. \A t, u \in AskSet \cup NotifySet : t.tag = u.tag => t = u
    BY <1>1, <1>2
  <1> QED
    BY <1>1, <1>2, <1>3, <1>4, <1>5

-----------------------------------------------------------------------------
(* The promises. *)

Named == IF msg.marker THEN PrefixMatches(msg, AskSet \cup NotifySet)
                       ELSE ExactMatches(msg, AskSet \cup NotifySet)

\* Nothing is to be routed, nobody is there, or the token names several threads.
Undecided == \/ msg.sigil
             \/ AskSet = {} /\ connected = {}
             \/ Named # {} /\ ~Single(Named)

\* The outcomes of the ladder below the sigil and the empty house.
LEMMA LadderCases ==
  ASSUME LadderInvariant
  PROVE  \/ decision.kind \in {"concierge", "bounce"} /\ Undecided
         \/ /\ ~msg.sigil /\ (AskSet # {} \/ connected # {})
            /\ Named = {} /\ decision = RouteUntagged(AskSet)
         \/ /\ ~msg.sigil /\ (AskSet # {} \/ connected # {})
            /\ Named # {} /\ (msg.marker => Single(Named))
            /\ decision = RouteToThread(TheOne(Named))
  <1>0. \A kind : Untargeted(kind).kind = kind
    BY DEF Untargeted
  <1>d. /\ decision = RouteUserMessage(msg, AskSet, NotifySet, connected)
        /\ msg.sigil \in BOOLEAN
    BY DEF LadderInvariant
  <1>1. CASE msg.sigil
    <2>1. decision = Untargeted("concierge")
      BY <1>d, <1>1 DEF RouteUserMessage
    <2>2. decision.kind = "concierge"
      BY <1>0, <2>1
    <2> QED
      BY <1>1, <2>2 DEF Undecided
  <1>2. CASE ~msg.sigil /\ AskSet = {} /\ connected = {}
    <2>1. decision = Untargeted("bounce")
      BY <1>d, <1>2 DEF RouteUserMessage
    <2>2. decision.kind = "bounce"
      BY <1>0, <2>1
    <2> QED
      BY <1>2, <2>2 DEF Undecided
  <1>3. CASE ~msg.sigil /\ (AskSet # {} \/ connected # {})
    <2>1. decision = RouteTagged(msg, AskSet, AskSet \cup NotifySet)
      BY <1>d, <1>3 DEF RouteUserMessage
    <2>2. CASE Named = {}
      BY <1>3, <2>1, <2>2 DEF RouteTagged, Named
    <2>3. CASE Named # {} /\ msg.marker /\ ~Single(Named)
      <3>1. decision = Untargeted("bounce")
        BY <2>1, <2>3 DEF RouteTagged, Named
      <3> QED
        BY <1>0, <2>3, <3>1 DEF Undecided
    <2>4. CASE Named # {} /\ (msg.marker => Single(Named))
      BY <1>3, <2>1, <2>4 DEF RouteTagged, Named
    <2> QED
      BY <2>2, <2>3, <2>4
  <1> QED
    BY <1>1, <1>2, <1>3

\* Whichever thread the tag names, it is one of those the token hits or spells.
LEMMA NamedThread ==
  ASSUME LadderInvariant, Named # {}, msg.marker => Single(Named)
  PROVE  /\ TheOne(Named) \in AskSet \cup NotifySet
         /\ Named = {TheOne(Named)}
         /\ msg.marker => Named = PrefixMatches(msg, AskSet \cup NotifySet)
         /\ ~msg.marker => TheOne(Named).tag = token
  <1> DEFINE t == TheOne(Named)
  <1>1. t \in Named
    BY DEF TheOne
  <1>2. Named \subseteq AskSet \cup NotifySet
    BY DEF Named, PrefixMatches, ExactMatches
  <1>3. CASE msg.marker
    <2>1. Named = {t}
      BY <1>1, <1>3 DEF Single
    <2> QED
      BY <1>1, <1>2, <1>3, <2>1 DEF Named
  <1>4. CASE ~msg.marker
    <2>1. \A u \in Named : u \in AskSet \cup NotifySet /\ u.tag = msg.exact
      BY <1>4 DEF Named, ExactMatches
    <2>2. t.tag = msg.exact /\ t.tag \in Tags
      BY <1>1, <1>2, <2>1, ThreadsOfTags
    <2>3. Named = {t}
      BY <1>1, <2>1, ThreadsOfTags
    <2>4. t.tag = token
      BY <2>2, TokenHits, RoutingNone
    <2> QED
      BY <1>1, <1>2, <1>4, <2>3, <2>4
  <1> QED
    BY <1>3, <1>4

\* What the ladder tells the agent of a thread.
LEMMA RoutedThread ==
  ASSUME LadderInvariant, NEW t \in AskSet \cup NotifySet
  PROVE  /\ RouteToThread(t).tag = t.tag /\ RouteToThread(t).text = "rest"
         /\ RouteToThread(t).kind = IF open[t.tag] = "ask" THEN "deliver" ELSE "enqueue"
  <1>1. t.kind = "ask" <=> open[t.tag] = "ask"
    BY ThreadsOfTags
  <1> QED
    BY <1>1 DEF RouteToThread, DeliverAsk, EnqueueNotifyReply

\* What becomes of a message that names no thread.
LEMMA UntaggedCases ==
  ASSUME LadderInvariant
  PROVE  \/ AskSet = {} /\ RouteUntagged(AskSet).kind = "broadcast"
         \/ RouteUntagged(AskSet).kind = "ambiguous"
         \/ /\ AskSet = {AskThread(RouteUntagged(AskSet).tag, Agent)}
            /\ RouteUntagged(AskSet).kind = "deliver"
            /\ RouteUntagged(AskSet).text = "whole"
  <1>0. \A kind : Untargeted(kind).kind = kind
    BY DEF Untargeted
  <1>1. CASE AskSet = {}
    <2>0. ~Single(AskSet)
      BY <1>1 DEF Single
    <2>1. RouteUntagged(AskSet) = Untargeted("broadcast")
      BY <1>1, <2>0 DEF RouteUntagged
    <2>2. RouteUntagged(AskSet).kind = "broadcast"
      BY <1>0, <2>1
    <2> QED
      BY <1>1, <2>2
  <1>2. CASE AskSet # {} /\ Single(AskSet)
    <2> DEFINE t == TheOne(AskSet)
    <2>1. RouteUntagged(AskSet) = DeliverAsk(t, "whole")
      BY <1>2 DEF RouteUntagged
    <2>2. AskSet = {t}
      BY <1>2 DEF Single, TheOne
    <2>3. t = AskThread(t.tag, Agent)
      BY <2>2, ThreadsOfTags
    <2>4. /\ DeliverAsk(t, "whole").tag = t.tag /\ DeliverAsk(t, "whole").kind = "deliver"
          /\ DeliverAsk(t, "whole").text = "whole"
      BY DEF DeliverAsk
    <2> HIDE DEF t
    <2> QED
      BY <2>1, <2>2, <2>3, <2>4
  <1>3. CASE AskSet # {} /\ ~Single(AskSet)
    <2>1. RouteUntagged(AskSet) = Untargeted("ambiguous")
      BY <1>3 DEF RouteUntagged
    <2>2. RouteUntagged(AskSet).kind = "ambiguous"
      BY <1>0, <2>1
    <2> QED
      BY <2>2
  <1> QED
    BY <1>1, <1>2, <1>3

\* A token that spells an open tag names its thread alone, "re" or not.
LEMMA OpenTagIsNamed ==
  ASSUME LadderInvariant, token \in OpenTags
  PROVE  /\ Named # {} /\ Single(Named)
         /\ \A t \in Named : t.tag = token
  <1>1. token \in Tags
    BY DEF OpenTags
  <1>2. msg.exact = token /\ msg.hits = {token}
    BY <1>1, TokenHits
  <1>3. PICK t \in AskSet \cup NotifySet : t.tag = token
    BY ThreadsOfTags
  <1>4. Named = {u \in AskSet \cup NotifySet : u.tag = token}
    BY <1>2 DEF Named, PrefixMatches, ExactMatches
  <1>5. Named = {t}
    BY <1>3, <1>4, ThreadsOfTags
  <1> QED
    BY <1>3, <1>5 DEF Single

\* A message that spells out the tag of an open thread reaches that thread.
LEMMA LadderReachesTag == LadderInvariant => FullTagReachesItsThread
  <1> SUFFICES ASSUME LadderInvariant, ~msg.sigil, token \in OpenTags,
                      AskSet # {} \/ connected # {}
               PROVE  /\ decision.tag = token
                      /\ decision.kind = (IF open[token] = "ask" THEN "deliver" ELSE "enqueue")
                      /\ decision.text = "rest"
    BY DEF FullTagReachesItsThread
  <1>1. Named # {} /\ Single(Named) /\ \A t \in Named : t.tag = token
    BY OpenTagIsNamed
  <1>2. decision = RouteToThread(TheOne(Named))
    BY <1>1, LadderCases DEF Undecided
  <1>3. TheOne(Named) \in AskSet \cup NotifySet /\ TheOne(Named).tag = token
    BY <1>1, NamedThread
  <1> QED
    BY <1>2, <1>3, RoutedThread

\* The ladder targets a thread only if the message can mean no other.
LEMMA LadderNeverGuesses == LadderInvariant => NeverGuesses
  <1> SUFFICES ASSUME LadderInvariant, Targeted PROVE NeverGuesses
    BY DEF NeverGuesses
  <1>1. CASE Named = {} /\ decision = RouteUntagged(AskSet)
    <2>1. token \notin OpenTags
      BY <1>1, OpenTagIsNamed
    <2>2. /\ AskSet = {AskThread(decision.tag, Agent)}
          /\ decision.kind = "deliver" /\ decision.text = "whole"
      BY <1>1, UntaggedCases DEF Targeted
    <2> QED
      BY <2>1, <2>2 DEF NeverGuesses
  <1>2. CASE Named # {} /\ (msg.marker => Single(Named)) /\ decision = RouteToThread(TheOne(Named))
    <2> DEFINE t == TheOne(Named)
    <2>1. /\ t \in AskSet \cup NotifySet /\ Named = {t}
          /\ msg.marker => Named = PrefixMatches(msg, AskSet \cup NotifySet)
          /\ ~msg.marker => t.tag = token
      BY <1>2, NamedThread
    <2>2. decision.tag = t.tag
      BY <1>2, <2>1, RoutedThread
    <2>3. CASE ~msg.marker
      BY <2>1, <2>2, <2>3 DEF NeverGuesses
    <2>4. CASE msg.marker
      <3> HIDE DEF t
      <3>1. \A u \in AskSet \cup NotifySet : u.tag \in msg.hits <=> u = t
        BY <2>1, <2>4 DEF PrefixMatches
      <3>2. token # <<>> /\ t.tag \in OpenTags /\ IsPrefix(token, t.tag)
        BY <2>1, <3>1, TokenHits, ThreadsOfTags
      <3>3. ASSUME NEW u \in OpenTags, IsPrefix(token, u) PROVE u = t.tag
        <4>1. u \in msg.hits
          BY <3>2, <3>3, TokenHits DEF OpenTags
        <4>2. PICK v \in AskSet \cup NotifySet : v.tag = u
          BY ThreadsOfTags
        <4> QED
          BY <3>1, <4>1, <4>2
      <3>4. {u \in OpenTags : IsPrefix(token, u)} = {t.tag}
        BY <3>2, <3>3
      <3> QED
        BY <2>2, <2>4, <3>4 DEF NeverGuesses
    <2> QED
      BY <2>3, <2>4
  <1> QED
    BY <1>1, <1>2, LadderCases DEF Targeted

\* A broadcast finds an agent.
LEMMA LadderFindsAudience == LadderInvariant => BroadcastHasAudience
  <1> SUFFICES ASSUME LadderInvariant, decision.kind = "broadcast" PROVE connected # {}
    BY DEF BroadcastHasAudience
  <1>1. CASE decision = RouteUntagged(AskSet) /\ (AskSet # {} \/ connected # {})
    BY <1>1, UntaggedCases
  <1>2. CASE Named # {} /\ (msg.marker => Single(Named)) /\ decision = RouteToThread(TheOne(Named))
    BY <1>2, NamedThread, RoutedThread
  <1> QED
    BY <1>1, <1>2, LadderCases

\* Notify-threads the message does not name make no difference.
LEMMA LadderSetsNotifiesAside == LadderInvariant => NotifiesStayAside
  <1> SUFFICES ASSUME LadderInvariant,
                      \A t \in msg.hits \cup {msg.exact} : t \in OpenTags => open[t] # "notify"
               PROVE  decision = RouteUserMessage(msg, AskSet, {}, connected)
    BY DEF NotifiesStayAside
  <1>1. \A t \in NotifySet : t.tag \notin msg.hits /\ t.tag # msg.exact
    BY ThreadsOfTags
  <1>2. PrefixMatches(msg, AskSet \cup NotifySet) = PrefixMatches(msg, AskSet \cup {})
    BY <1>1 DEF PrefixMatches
  <1>3. ExactMatches(msg, AskSet \cup NotifySet) = ExactMatches(msg, AskSet \cup {})
    BY <1>1 DEF ExactMatches
  <1>4. RouteTagged(msg, AskSet, AskSet \cup NotifySet) = RouteTagged(msg, AskSet, AskSet \cup {})
    BY <1>2, <1>3 DEF RouteTagged
  <1>5. RouteUserMessage(msg, AskSet, NotifySet, connected)
          = RouteUserMessage(msg, AskSet, {}, connected)
    BY <1>4 DEF RouteUserMessage
  <1> QED
    BY <1>5 DEF LadderInvariant

\* Whatever threads are open, a full tag reaches its thread, with "re" or
\* without it.
THEOREM FullTagsReach == Spec => []FullTagReachesItsThread
  BY LadderInvariantHolds, LadderReachesTag, PTL

\* No message is handed to a thread it might not mean, whatever prefix of whatever
\* tags it starts with.
THEOREM LadderDoesNotGuess == Spec => []NeverGuesses
  BY LadderInvariantHolds, LadderNeverGuesses, PTL

\* A message goes to everybody only when there is somebody.
THEOREM BroadcastsAreHeard == Spec => []BroadcastHasAudience
  BY LadderInvariantHolds, LadderFindsAudience, PTL

\* Open notify-threads never change what happens to a message that names none.
THEOREM NotifiesDoNotInterfere == Spec => []NotifiesStayAside
  BY LadderInvariantHolds, LadderSetsNotifiesAside, PTL
=============================================================================
