------------------------------ MODULE Release ------------------------------
(***************************************************************************)
(* scripts/release.py: how a maintainer's checkout of main becomes a tagged *)
(* release, while other checkouts are released, worked in and pushed too.  *)
(*                                                                         *)
(* Any command of the script may fail or be interrupted, and nothing is     *)
(* undone.  A history is the sequence of its commits; it stands for their   *)
(* hashes.  Git and the maintainer's own commands are modelled as the      *)
(* script uses or meets them; merge commits are left out.                  *)
(***************************************************************************)
EXTENDS Naturals, SequencesExt

CONSTANTS Clones,      \* checkouts, each with its maintainer
          MaxVersion,  \* bound: versions, in their order
          MaxWork      \* bound: commits on main when work is added to it

VARIABLES
  origin,     \* main of the remote
  tags,       \* its tags: the history each version names
  local,      \* main of each clone
  localTags,  \* its tags
  tree,       \* the version in its pyproject.toml
  step,       \* where the script that runs in it is
  new,        \* the version it is about to release
  checked,    \* history: what it has checked and runs the tests on
  touched     \* history: a checkout changed under a script that runs in it

remote  == <<origin, tags>>
clone   == <<local, localTags, tree>>
script  == <<step, new, checked>>
releaseVars == <<remote, clone, script, touched>>

Versions == 1..MaxVersion
NoTags   == [v \in Versions |-> <<>>]
\* "tested" is a ghost: the tests have passed on what the commit is made of.
Commit(version, by, tested) == [version |-> version, by |-> by, tested |-> tested]
VersionOf(h) == Last(h).version

ReleaseInit ==
  /\ \E c \in Clones : origin = <<Commit(1, c, FALSE)>>
  /\ tags = NoTags
  /\ local = [c \in Clones |-> origin]
  /\ localTags = [c \in Clones |-> NoTags]
  /\ tree = [c \in Clones |-> 1]
  /\ step = [c \in Clones |-> "idle"]
  /\ new = [c \in Clones |-> 1]
  /\ checked = [c \in Clones |-> <<>>]
  /\ touched = FALSE

Goes(c, there) == step' = [step EXCEPT ![c] = there] /\ UNCHANGED <<new, checked>>
Ends(c) ==
  /\ step' = [step EXCEPT ![c] = "idle"]
  /\ new' = [new EXCEPT ![c] = 1]
  /\ checked' = [checked EXCEPT ![c] = <<>>]
Clean(c) == tree[c] = VersionOf(local[c])
WithTagsOf(t, u) == [v \in Versions |-> IF t[v] = <<>> THEN u[v] ELSE t[v]]

-----------------------------------------------------------------------------
(* The script. *)

\* The new version is greater than the one in pyproject.toml; a commit message
\* may have to be typed.
ReadVersion(c) ==
  /\ step[c] = "idle"
  /\ \E v \in Versions : v > tree[c] /\ new' = [new EXCEPT ![c] = v]
  /\ step' = [step EXCEPT ![c] = "asking"]
  /\ UNCHANGED <<remote, clone, checked, touched>>

\* check_branch, check_clean and check_in_sync, which fetches.
Check(c) ==
  /\ step[c] = "asking"
  /\ localTags' = [localTags EXCEPT ![c] = WithTagsOf(@, tags)]
  /\ IF Clean(c) /\ local[c] = origin
       THEN /\ step' = [step EXCEPT ![c] = "testing"]
            /\ checked' = [checked EXCEPT ![c] = local[c]]
            /\ UNCHANGED new
       ELSE Ends(c)
  /\ UNCHANGED <<remote, local, tree, touched>>

\* A substitution that changes nothing ends the script.
SetVersion(c) ==
  /\ step[c] = "testing"
  /\ tree' = [tree EXCEPT ![c] = new[c]]
  /\ IF tree[c] = new[c] THEN Ends(c) ELSE Goes(c, "set")
  /\ UNCHANGED <<remote, local, localTags, touched>>

CommitVersion(c) ==
  /\ step[c] = "set"
  /\ local' = [local EXCEPT ![c] = Append(@, Commit(tree[c], c, checked[c] = @))]
  /\ Goes(c, "committed")
  /\ UNCHANGED <<remote, localTags, tree, touched>>

\* Mutant: the script goes on after a push that was rejected.
PushMainOrNot(c) ==
  /\ step[c] = "committed"
  /\ origin' = IF IsPrefix(origin, local[c]) THEN local[c] ELSE origin
  /\ Goes(c, "pushed")
  /\ UNCHANGED <<tags, clone, touched>>

\* A push that is no fast-forward is rejected, which ends the script.
PushMain(c) ==
  /\ step[c] = "committed"
  /\ IF IsPrefix(origin, local[c])
       THEN origin' = local[c] /\ Goes(c, "pushed")
       ELSE Ends(c) /\ UNCHANGED origin
  /\ UNCHANGED <<tags, clone, touched>>

Tag(c) ==
  /\ step[c] = "pushed"
  /\ IF localTags[c][new[c]] = <<>>
       THEN localTags' = [localTags EXCEPT ![c][new[c]] = local[c]] /\ Goes(c, "tagged")
       ELSE Ends(c) /\ UNCHANGED localTags
  /\ UNCHANGED <<remote, local, tree, touched>>

\* A tag that the remote has for another commit is rejected.
PushTag(c) ==
  /\ step[c] = "tagged"
  /\ tags' = WithTagsOf(tags, [NoTags EXCEPT ![new[c]] = localTags[c][new[c]]])
  /\ Ends(c)
  /\ UNCHANGED <<origin, clone, touched>>

\* A command fails, a test fails, nobody types a message, or ^C.
Stops(c) ==
  /\ step[c] # "idle"
  /\ Ends(c)
  /\ UNCHANGED <<remote, clone, touched>>

-----------------------------------------------------------------------------
(* What else happens to a checkout, and to main: between runs of the script, *)
(* or while one waits for a message or for the tests.                       *)

AtHand(c) == step[c] \in {"idle", "asking", "testing"}
Moves(c, history, version) ==
  /\ AtHand(c)
  /\ local' = [local EXCEPT ![c] = history]
  /\ tree' = [tree EXCEPT ![c] = version]
  /\ touched' = (touched \/ step[c] # "idle")

\* A change is committed.
Work(c) ==
  /\ Clean(c)
  /\ Len(local[c]) < MaxWork
  /\ Moves(c, Append(local[c], Commit(tree[c], c, FALSE)), tree[c])
  /\ UNCHANGED <<remote, localTags, script>>

\* What a release that failed left in pyproject.toml is put back.
Restore(c) ==
  /\ ~Clean(c)
  /\ Moves(c, local[c], VersionOf(local[c]))
  /\ UNCHANGED <<remote, localTags, script>>

\* git pull, git pull --rebase of commits that do not conflict, or the local
\* commits are given up.
Pull(c) ==
  /\ Clean(c)
  /\ local[c] # origin
  /\ \/ Moves(c, origin, VersionOf(origin))
     \/ LET base == LongestCommonPrefix({local[c], origin})
            mine == SubSeq(local[c], Len(base) + 1, Len(local[c]))
        IN /\ mine # <<>> /\ VersionOf(base) = VersionOf(origin)
           /\ Moves(c, origin \o mine, tree[c])
  /\ localTags' = [localTags EXCEPT ![c] = WithTagsOf(@, tags)]
  /\ UNCHANGED <<remote, script>>

\* git push, of work or of a release that was not pushed.
Push(c) ==
  /\ AtHand(c)
  /\ local[c] # origin /\ IsPrefix(origin, local[c])
  /\ origin' = local[c]
  /\ UNCHANGED <<tags, clone, script, touched>>

-----------------------------------------------------------------------------
ReleaseNext ==
  \E c \in Clones :
    \/ ReadVersion(c) \/ Check(c) \/ SetVersion(c) \/ CommitVersion(c)
    \/ PushMain(c) \/ Tag(c) \/ PushTag(c) \/ Stops(c)
    \/ Work(c) \/ Restore(c) \/ Pull(c) \/ Push(c)

ReleaseSpec == ReleaseInit /\ [][ReleaseNext]_releaseVars

-----------------------------------------------------------------------------
Released == {v \in Versions : tags[v] # <<>>}

\* A tag names a commit of main that has its version.
TagsNameReleases ==
  \A v \in Released : VersionOf(tags[v]) = v /\ IsPrefix(tags[v], origin)

\* It "only tags if that passes" (README.md:72): the tests have passed on what
\* it names, but for the version.
ReleasesAreTested == \A v \in Released : Last(tags[v]).tested

\* The version of main never falls.
VersionsGrow == \A i \in 1..(Len(origin) - 1) : origin[i].version <= origin[i + 1].version

\* Whatever fails on the way and whoever pushes meanwhile, a tag is true; and as
\* long as a checkout is left alone while the script runs in it, what is tagged
\* was tested and no release is a downgrade.
ReleasesAreOrderly ==
  TagsNameReleases /\ (~touched => ReleasesAreTested /\ VersionsGrow)
=============================================================================
