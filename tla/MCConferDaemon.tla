--------------------------- MODULE MCConferDaemon ---------------------------
(***************************************************************************)
(* Instances of ConferDaemon for TLC: connections whose agents work in the *)
(* same checkout, so they compete for one preferred label.                 *)
(***************************************************************************)
EXTENDS ConferDaemon, TLC

CONSTANTS c1, c2, a1, a2, l1, l2

\* Every ask is of the first agent.
OneAgentAsks == [a \in Asks |-> c1]

SamePreferred  == [c \in Conns |-> l1]
OtherCandidate == [c \in Conns |-> {l2}]

Untagged == [sigil |-> FALSE, marker |-> FALSE, hits |-> {}, exact |-> NoTag]
TaggedRe(t) == [sigil |-> FALSE, marker |-> TRUE, hits |-> {t}, exact |-> t]

TagSymmetry == Permutations(Tags)

UntaggedAndTagged == {Untagged} \cup {TaggedRe(t) : t \in Tags}
=============================================================================
