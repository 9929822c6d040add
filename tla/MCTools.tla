------------------------------ MODULE MCTools ------------------------------
(***************************************************************************)
(* Instances for TLC of the two command-line tools outside the running     *)
(* system.  They share no state, so each behaviour is of one of them: the  *)
(* states to explore add up and do not multiply.                           *)
(***************************************************************************)
EXTENDS Installation, TLC

CONSTANTS Clones, MaxVersion, MaxWork

VARIABLES tool,
          origin, tags, local, localTags, tree, step, new, checked, touched

R == INSTANCE Release

releaseVars == <<origin, tags, local, localTags, tree, step, new, checked, touched>>

ToolsInit ==
  /\ InstallInit
  /\ R!ReleaseInit
  /\ tool \in {"confer", "release"}
  /\ tool = "release" => settings.kind = "absent"

ToolsNext ==
  \/ tool = "confer"  /\ InstallNext   /\ UNCHANGED <<tool, releaseVars>>
  \/ tool = "release" /\ R!ReleaseNext /\ UNCHANGED <<tool, installVars>>

ToolsSpec == ToolsInit /\ [][ToolsNext]_<<tool, installVars, releaseVars>>

\* Releases of several maintainers are true, tested and in order (Release).
ReleasesAreOrderly == R!ReleasesAreOrderly

ProcessSymmetry == Permutations(Commands) \cup Permutations(Clones)
=============================================================================
