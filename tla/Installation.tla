---------------------------- MODULE Installation ----------------------------
(***************************************************************************)
(* `confer setup` and `confer install-hooks` (cli.py, integrations.py): the *)
(* files they write, which others also write, and what is left of them when *)
(* a command is interrupted, repeated, or runs beside another.             *)
(*                                                                         *)
(* A command is a process; write_text empties its file, then writes it, and *)
(* each is a step.  File modes, directories and `--print`, which writes     *)
(* nothing, are left out.                                                  *)
(***************************************************************************)
EXTENDS Naturals

CONSTANTS Commands,    \* runs of the two commands; a setup's token is its own
          Bins,        \* paths `confer` resolves to: a checkout, a uv tool
          Own,         \* what the user has in settings.json besides
          NoCommand

\* `confer` resolves to some path; a setup is known from what config.toml lacks.
ASSUME InstallConstants ==
  Bins # {} /\ {"absent", "empty", "corrupt"} \cap Commands = {}

VARIABLES
  config,       \* config.toml
  registered,   \* `claude mcp add` has succeeded
  settings,     \* ~/.claude/settings.json
  slash,        \* the slash commands, away.md and back.md
  stage,        \* of each command
  options,      \* its options: "force", "integrations"
  bin,          \* the path it resolved
  plan,         \* the settings it will write
  saved,        \* history: what the user has saved in settings.json
  latest,       \* history: the command that installed last
  discarded,    \* history: tokens that went without --force
  calm,         \* history: nobody wrote beside a command
  torn          \* history: a command was killed with settings.json open

files   == <<config, registered, settings, slash>>
process == <<stage, options, bin, plan>>
past    == <<saved, latest, discarded, calm, torn>>
installVars == <<files, process, past>>

Hook    == {"Stop", "UserPromptSubmit"} \X Bins
NoHooks == [h \in Hook |-> 0]
Content == [own : SUBSET Own, hooks : [Hook -> Nat]]
Nothing == [own |-> {}, hooks |-> NoHooks]

\* A corrupt file still holds what the user can repair.
File(kind, content) == [kind |-> kind, holds |-> content]

InstallInit ==
  /\ config = "absent" /\ registered = FALSE
  /\ settings \in {File("absent", Nothing), File("whole", [Nothing EXCEPT !.own = Own])}
  /\ slash = [f \in {"away", "back"} |-> "absent"]
  /\ stage = [p \in Commands |-> "ready"]
  /\ options = [p \in Commands |-> {}]
  /\ bin = [p \in Commands |-> CHOOSE b \in Bins : TRUE]
  /\ plan = [p \in Commands |-> Nothing]
  /\ saved = settings.holds.own
  /\ latest = NoCommand
  /\ discarded = {} /\ calm = TRUE /\ torn = FALSE

Goes(p, there) == stage' = [stage EXCEPT ![p] = there]
Busy(p) == stage[p] \notin {"ready", "done", "failed", "killed"}
NoteOverlap(p) == calm' = (calm /\ \A q \in Commands \ {p} : ~Busy(q))

-----------------------------------------------------------------------------
(* confer setup. *)

\* It refuses to replace a configuration without --force, else asks for the
\* token and the user id.
Setup(p) ==
  /\ stage[p] = "ready"
  /\ \E chosen \in SUBSET {"force", "integrations"} :
     /\ options' = [options EXCEPT ![p] = chosen]
     /\ Goes(p, IF config # "absent" /\ "force" \notin chosen THEN "failed" ELSE "asking")
  /\ NoteOverlap(p)
  /\ UNCHANGED <<files, bin, plan, saved, latest, discarded, torn>>

\* Input that is no token or no user id ends it.
RejectInput(p) ==
  /\ stage[p] = "asking"
  /\ Goes(p, "failed")
  /\ UNCHANGED <<files, options, bin, plan, past>>

OpenConfig(p) ==
  /\ stage[p] = "asking"
  /\ config' = "empty"
  /\ discarded' = discarded \cup
       (IF "force" \in options[p] THEN {} ELSE {config} \cap Commands)
  /\ Goes(p, "configuring")
  /\ UNCHANGED <<registered, settings, slash, options, bin, plan, saved, latest, calm, torn>>

WriteConfig(p) ==
  /\ stage[p] = "configuring"
  /\ \/ config' = p
     \/ config # "empty" /\ config' = "corrupt"
  /\ Goes(p, "registering")
  /\ UNCHANGED <<registered, settings, slash, options, bin, plan, past>>

\* `claude mcp add`, unless --no-register; its failure is only reported.
Register(p) ==
  /\ stage[p] = "registering"
  /\ registered' \in {registered, TRUE}
  /\ Goes(p, IF "integrations" \in options[p] THEN "installing" ELSE "done")
  /\ UNCHANGED <<config, settings, slash, options, bin, plan, past>>

-----------------------------------------------------------------------------
(* integrations.install, for setup --integrations and for install-hooks. *)

\* _ensure_hook for both events: a command that is registered is not added.
Merged(content, b) ==
  [content EXCEPT !.hooks =
     [h \in Hook |-> IF h[2] = b /\ @[h] = 0 THEN 1 ELSE @[h]]]

\* Mutant: settings that do not parse count as none.
LoadAnything(p) ==
  /\ stage[p] \in {"ready", "installing"}
  /\ \E b \in Bins :
     /\ bin' = [bin EXCEPT ![p] = b]
     /\ plan' = [plan EXCEPT ![p] =
          Merged(IF settings.kind = "whole" THEN settings.holds ELSE Nothing, b)]
     /\ Goes(p, IF plan'[p] = settings.holds THEN "away" ELSE "saving")
  /\ NoteOverlap(p)
  /\ latest' = NoCommand
  /\ UNCHANGED <<files, options, saved, discarded, torn>>

\* No file, or an empty one, is empty settings; one that is no JSON is refused
\* (setup lets the exception end it).
LoadSettings(p) ==
  /\ stage[p] \in {"ready", "installing"}
  /\ \/ /\ settings.kind = "corrupt"
        /\ Goes(p, "failed")
        /\ UNCHANGED <<bin, plan, latest>>
     \/ /\ settings.kind # "corrupt"
        /\ \E b \in Bins :
           /\ bin' = [bin EXCEPT ![p] = b]
           /\ plan' = [plan EXCEPT ![p] = Merged(settings.holds, b)]
           /\ Goes(p, IF plan'[p] = settings.holds THEN "away" ELSE "saving")
        /\ latest' = NoCommand
  /\ NoteOverlap(p)
  /\ UNCHANGED <<files, options, saved, discarded, torn>>

OpenSettings(p) ==
  /\ stage[p] = "saving"
  /\ settings' = File("empty", Nothing)
  /\ Goes(p, "writing")
  /\ UNCHANGED <<config, registered, slash, options, bin, plan, past>>

\* Over what another process has written since, a shorter text leaves the end
\* of the longer one.
WriteSettings(p) ==
  /\ stage[p] = "writing"
  /\ \/ settings' = File("whole", plan[p])
     \/ settings.kind # "empty" /\ settings' = File("corrupt", plan[p])
  /\ Goes(p, "away")
  /\ UNCHANGED <<config, registered, slash, options, bin, plan, past>>

\* The slash commands are written whatever is there.
OpenSlash(p, file, opened, next) ==
  /\ stage[p] = file
  /\ slash' = [slash EXCEPT ![file] = "empty"]
  /\ Goes(p, opened)
  /\ UNCHANGED <<config, registered, settings, options, bin, plan, past>>

WriteSlash(p, file, opened, next) ==
  /\ stage[p] = opened
  /\ slash' = [slash EXCEPT ![file] = bin[p]]
  /\ Goes(p, next)
  /\ latest' = IF next = "done" THEN p ELSE latest
  /\ UNCHANGED <<config, registered, settings, options, bin, plan, saved, discarded, calm, torn>>

\* A command is interrupted; with settings.json open, its content is gone.
Killed(p) ==
  /\ Busy(p)
  /\ Goes(p, "killed")
  /\ torn' = (torn \/ stage[p] = "writing")
  /\ UNCHANGED <<files, options, bin, plan, saved, latest, discarded, calm>>

-----------------------------------------------------------------------------
(* settings.json is the user's, and Claude Code's. *)

NoteOthers == calm' = (calm /\ \A p \in Commands : stage[p] \notin {"saving", "writing"})

OtherSaves ==
  /\ settings.kind # "corrupt"
  /\ \E more \in SUBSET (Own \ settings.holds.own) :
     /\ more # {}
     /\ settings' = File("whole", [settings.holds EXCEPT !.own = @ \cup more])
     /\ saved' = saved \cup more
  /\ NoteOthers
  /\ UNCHANGED <<config, registered, slash, process, latest, discarded, torn>>

\* A slip of the editor, and its repair.
UserEdits ==
  /\ \/ settings.kind = "whole"   /\ settings' = [settings EXCEPT !.kind = "corrupt"]
     \/ settings.kind = "corrupt" /\ settings' = [settings EXCEPT !.kind = "whole"]
  /\ NoteOthers
  /\ UNCHANGED <<config, registered, slash, process, saved, latest, discarded, torn>>

-----------------------------------------------------------------------------
InstallNext ==
  \/ \E p \in Commands :
       \/ Setup(p) \/ RejectInput(p) \/ OpenConfig(p) \/ WriteConfig(p) \/ Register(p)
       \/ LoadSettings(p) \/ OpenSettings(p) \/ WriteSettings(p)
       \/ OpenSlash(p, "away", "writingAway", "back")
       \/ WriteSlash(p, "away", "writingAway", "back")
       \/ OpenSlash(p, "back", "writingBack", "done")
       \/ WriteSlash(p, "back", "writingBack", "done")
       \/ Killed(p)
  \/ OtherSaves \/ UserEdits

InstallSpec == InstallInit /\ [][InstallNext]_installVars

-----------------------------------------------------------------------------
\* "never duplicates an entry": whatever overlaps and whatever dies.
NeverDuplicates == \A h \in Hook : settings.holds.hooks[h] <= 1

\* "non-clobbering": the user's settings outlive every installation that was
\* not killed while it wrote them.
Merges ==
  calm /\ ~torn /\ (\A p \in Commands : stage[p] # "writing") => settings.holds.own = saved

\* An installation that ended is whole, and of one binary: whatever earlier
\* ones left, both hooks are registered and both slash commands call it.
IsWhole ==
  calm /\ latest # NoCommand =>
    \A h \in Hook : h[2] = bin[latest] =>
      settings.holds.hooks[h] = 1 /\ \A f \in {"away", "back"} : slash[f] = h[2]

\* A token is discarded only by --force.
TokenIsKept == calm => discarded = {}

\* Installing is "idempotent and non-clobbering" (integrations.py) over any
\* sequence of runs, interruptions and edits by others.
InstallKeepsFaith == NeverDuplicates /\ Merges /\ IsWhole /\ TokenIsKept
=============================================================================
