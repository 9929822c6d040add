---------------------------- MODULE ToolsProofs ----------------------------
(***************************************************************************)
(* Installing keeps faith, for any number of commands, binaries and        *)
(* settings of the user; and releases are orderly, for any number of       *)
(* checkouts, versions and commits.                                        *)
(***************************************************************************)
EXTENDS MCTools, SequenceTheorems, FiniteSetTheorems, TLAPS

Saving     == {"saving", "writing"}
Slashing   == {"away", "writingAway", "back", "writingBack"}
Installing == Saving \cup Slashing
Stages     == Installing \cup {"ready", "asking", "configuring", "registering",
                               "installing", "done", "failed", "killed"}

InstallTyped ==
  /\ config \in {"absent", "empty", "corrupt"} \cup Commands
  /\ settings \in [kind : {"absent", "empty", "whole", "corrupt"}, holds : Content]
  /\ slash \in [{"away", "back"} -> {"absent", "empty"} \cup Bins]
  /\ stage \in [Commands -> Stages]
  /\ options \in [Commands -> SUBSET {"force", "integrations"}]
  /\ bin \in [Commands -> Bins]
  /\ plan \in [Commands -> Content]
  /\ saved \in SUBSET Own
  /\ latest \in Commands \cup {NoCommand}
  /\ calm \in BOOLEAN /\ torn \in BOOLEAN

\* Both events call binary b, once.
Calls(content, b) == \A h \in Hook : h[2] = b => content.hooks[h] = 1
AtMostOnce(content) == \A h \in Hook : content.hooks[h] <= 1

\* What is on its way to the file is as free of duplicates as the file.
PlansAreSingle == AtMostOnce(settings.holds) /\ \A p \in Commands : AtMostOnce(plan[p])

\* In calm one command runs at a time.
OneRuns == calm => \A p, q \in Commands : Busy(p) /\ Busy(q) => p = q

\* What the user has saved is in the file, or in the hands of its writer.
OwnIsSafe ==
  calm /\ ~torn =>
    /\ \A p \in Commands : stage[p] \in Saving => plan[p].own = saved
    /\ (\A p \in Commands : stage[p] # "writing") => settings.holds.own = saved

\* How far an installation has come.
ProgressIsReal ==
  calm => \A p \in Commands :
    /\ stage[p] \in Saving => Calls(plan[p], bin[p])
    /\ stage[p] \in Slashing => Calls(settings.holds, bin[p])
    /\ stage[p] \in {"back", "writingBack"} => slash["away"] = bin[p]

\* The last one that ended is whole, and none is under way since.
LatestIsWhole ==
  calm /\ latest # NoCommand =>
    /\ Calls(settings.holds, bin[latest])
    /\ slash["away"] = bin[latest] /\ slash["back"] = bin[latest]
    /\ \A p \in Commands : stage[p] \notin Installing

\* A setup without --force that got past its check writes where nothing was.
TokenIsSafe ==
  calm => /\ discarded = {}
          /\ \A p \in Commands : stage[p] = "asking" /\ "force" \notin options[p] =>
                                   config = "absent"

InstallInvariant ==
  /\ InstallTyped /\ PlansAreSingle /\ OneRuns
  /\ OwnIsSafe /\ ProgressIsReal /\ LatestIsWhole /\ TokenIsSafe

-----------------------------------------------------------------------------
\* Nothing is installed, and nothing runs.
LEMMA InitInstalls == InstallInit => InstallInvariant
  <1> SUFFICES ASSUME InstallInit PROVE InstallInvariant
    OBVIOUS
  <1>1. /\ Nothing \in Content /\ [Nothing EXCEPT !.own = Own] \in Content
        /\ AtMostOnce(Nothing) /\ AtMostOnce([Nothing EXCEPT !.own = Own])
        /\ Nothing.own = {} /\ [Nothing EXCEPT !.own = Own].own = Own
    BY DEF Nothing, NoHooks, Content, AtMostOnce
  <1>2. /\ settings \in [kind : {"absent", "empty", "whole", "corrupt"}, holds : Content]
        /\ AtMostOnce(settings.holds)
        /\ saved = settings.holds.own /\ saved \in SUBSET Own
    <2>1. PICK kind \in {"absent", "whole"}, content \in {Nothing, [Nothing EXCEPT !.own = Own]} :
            settings = File(kind, content)
      BY DEF InstallInit
    <2>2. settings = [kind |-> kind, holds |-> content]
      BY <2>1 DEF File
    <2>3. content \in Content /\ AtMostOnce(content) /\ content.own \in SUBSET Own
      BY <1>1
    <2>4. saved = settings.holds.own
      BY DEF InstallInit
    <2> QED
      BY <2>2, <2>3, <2>4
  <1>3. (CHOOSE b \in Bins : TRUE) \in Bins
    BY InstallConstants
  <1>4. InstallTyped
    BY <1>1, <1>2, <1>3 DEF InstallInit, InstallTyped, Stages
  <1>5. PlansAreSingle /\ OneRuns /\ OwnIsSafe
    BY <1>1, <1>2 DEF InstallInit, PlansAreSingle, OneRuns, OwnIsSafe, Busy, Saving
  <1>6. ProgressIsReal /\ LatestIsWhole /\ TokenIsSafe
    BY DEF InstallInit, ProgressIsReal, LatestIsWhole, TokenIsSafe, Saving, Slashing
  <1> QED
    BY <1>4, <1>5, <1>6 DEF InstallInvariant

\* Merging adds each hook that is missing, and nothing else.
LEMMA MergedCalls ==
  ASSUME NEW content \in Content, AtMostOnce(content), NEW b \in Bins
  PROVE  /\ Merged(content, b) \in Content
         /\ Merged(content, b).own = content.own
         /\ AtMostOnce(Merged(content, b)) /\ Calls(Merged(content, b), b)
  <1> DEFINE hooks == [h \in Hook |-> IF h[2] = b /\ content.hooks[h] = 0
                                        THEN 1 ELSE content.hooks[h]]
  <1>1. /\ Merged(content, b) = [content EXCEPT !.hooks = hooks]
        /\ content.hooks \in [Hook -> Nat] /\ content.own \in SUBSET Own
    BY DEF Merged, Content
  <1>2. hooks \in [Hook -> Nat]
    BY <1>1
  <1>3. /\ Merged(content, b) \in Content
        /\ Merged(content, b).own = content.own /\ Merged(content, b).hooks = hooks
    BY <1>1, <1>2 DEF Content
  <1>4. \A h \in Hook : hooks[h] <= 1 /\ (h[2] = b => hooks[h] = 1)
    BY <1>1 DEF AtMostOnce
  <1> QED
    BY <1>3, <1>4 DEF AtMostOnce, Calls

\* A command that goes somewhere leaves the others where they are.
LEMMA GoesThere ==
  ASSUME InstallTyped, NEW p \in Commands, NEW there \in Stages, Goes(p, there)
  PROVE  /\ stage' \in [Commands -> Stages]
         /\ stage'[p] = there
         /\ \A q \in Commands : q # p => stage'[q] = stage[q]
  BY DEF InstallTyped, Goes

\* A step of a command that runs alone keeps it the only one.
LEMMA AloneStays ==
  ASSUME InstallInvariant, NEW p \in Commands, NEW there \in Stages, Goes(p, there),
         calm' => calm /\ (Busy(p) \/ \A q \in Commands \ {p} : ~Busy(q))
  PROVE  /\ OneRuns'
         /\ calm' => \A q \in Commands \ {p} : ~Busy(q) /\ stage'[q] \notin Installing
                                             /\ stage'[q] # "asking"
  <1>1. /\ stage'[p] = there
        /\ \A q \in Commands : q # p => stage'[q] = stage[q]
    BY GoesThere DEF InstallInvariant
  <1>2. calm' => \A q \in Commands \ {p} : ~Busy(q)
    BY DEF InstallInvariant, OneRuns
  <1>3. \A q \in Commands : ~Busy(q) => stage[q] \notin Installing /\ stage[q] # "asking"
    BY DEF Busy, Installing, Saving, Slashing
  <1> QED
    BY <1>1, <1>2, <1>3 DEF OneRuns, Busy

\* Steps that neither begin to install nor touch what an installation writes.
LEMMA AsideKeeps ==
  ASSUME InstallInvariant, NEW p \in Commands, NEW there \in Stages \ Installing, Goes(p, there),
         calm' => calm /\ (Busy(p) \/ \A q \in Commands \ {p} : ~Busy(q)),
         calm' \in BOOLEAN, torn' \in BOOLEAN, torn => torn', stage[p] = "writing" => torn',
         UNCHANGED <<settings, slash, bin, plan, saved, latest>>,
         config' \in {"absent", "empty", "corrupt"} \cup Commands,
         options' \in [Commands -> SUBSET {"force", "integrations"}],
         TokenIsSafe'
  PROVE  InstallInvariant'
  <1>1. /\ stage' \in [Commands -> Stages] /\ stage'[p] = there
        /\ \A q \in Commands : q # p => stage'[q] = stage[q]
    BY GoesThere DEF InstallInvariant
  <1>2. OneRuns'
    BY AloneStays
  <1>3. InstallTyped' /\ PlansAreSingle'
    BY <1>1 DEF InstallInvariant, InstallTyped, PlansAreSingle, AtMostOnce
  <1>4. there \notin Saving /\ there \notin Slashing /\ "writing" \in Saving
        /\ {"back", "writingBack"} \subseteq Slashing
    BY DEF Installing, Saving, Slashing
  <1>5. OwnIsSafe'
    <2> SUFFICES ASSUME calm', ~torn'
                 PROVE  /\ \A q \in Commands : stage'[q] \in Saving => plan[q].own = saved
                        /\ (\A q \in Commands : stage'[q] # "writing") =>
                             settings.holds.own = saved
      BY DEF OwnIsSafe
    <2>1. calm /\ ~torn /\ stage[p] # "writing"
      OBVIOUS
    <2> QED
      BY <1>1, <1>4, <2>1 DEF InstallInvariant, OwnIsSafe
  <1>6. ProgressIsReal'
    BY <1>1, <1>4 DEF InstallInvariant, ProgressIsReal, Calls
  <1>7. LatestIsWhole'
    BY <1>1 DEF InstallInvariant, LatestIsWhole, Calls
  <1> QED
    BY <1>2, <1>3, <1>5, <1>6, <1>7 DEF InstallInvariant

\* The steps that leave the files of an installation alone.
LEMMA SetupKeeps ==
  ASSUME InstallInvariant, NEW p \in Commands,
         \/ Setup(p) \/ RejectInput(p) \/ OpenConfig(p) \/ WriteConfig(p) \/ Register(p)
         \/ Killed(p)
         \/ LoadSettings(p) /\ settings.kind = "corrupt"
  PROVE  InstallInvariant'
  <1> USE DEF files, process, past
  <1>0. InstallTyped /\ TokenIsSafe /\ OneRuns
    BY DEF InstallInvariant
  <1>1. CASE Setup(p)
    <2>1. PICK chosen \in SUBSET {"force", "integrations"} :
            /\ options' = [options EXCEPT ![p] = chosen]
            /\ Goes(p, IF config # "absent" /\ "force" \notin chosen THEN "failed" ELSE "asking")
      BY <1>1 DEF Setup
    <2> DEFINE there == IF config # "absent" /\ "force" \notin chosen THEN "failed" ELSE "asking"
    <2>2. there \in Stages \ Installing
      BY DEF Stages, Installing, Saving, Slashing
    <2>3. options' \in [Commands -> SUBSET {"force", "integrations"}] /\ options'[p] = chosen
          /\ \A q \in Commands : q # p => options'[q] = options[q]
      BY <1>0, <2>1 DEF InstallTyped
    <2>4. /\ calm' \in BOOLEAN
          /\ calm' => calm /\ \A q \in Commands \ {p} : ~Busy(q)
          /\ UNCHANGED <<torn, discarded, config, settings, slash, bin, plan, saved, latest>>
      BY <1>0, <1>1 DEF Setup, NoteOverlap, InstallTyped
    <2>5. /\ stage'[p] = there
          /\ \A q \in Commands : q # p => stage'[q] = stage[q]
      BY <1>0, <2>1, <2>2, GoesThere
    <2>6. TokenIsSafe'
      BY <1>0, <2>3, <2>4, <2>5 DEF TokenIsSafe
    <2>7. stage[p] = "ready"
      BY <1>1 DEF Setup
    <2> QED
      BY <1>0, <2>1, <2>2, <2>3, <2>4, <2>6, <2>7, AsideKeeps DEF InstallTyped
  <1>2. CASE RejectInput(p) \/ Register(p) \/ Killed(p)
    <2>1. PICK there \in {"failed", "installing", "done", "killed"} : Goes(p, there)
      BY <1>2 DEF RejectInput, Register, Killed
    <2>2. there \in Stages \ Installing
      BY DEF Stages, Installing, Saving, Slashing
    <2>3. Busy(p) /\ UNCHANGED <<calm, discarded, config, options, settings, slash, bin, plan,
                                 saved, latest>>
      BY <1>2 DEF RejectInput, Register, Killed, Busy
    <2>4. torn' \in BOOLEAN /\ (torn => torn') /\ (stage[p] = "writing" => torn')
      BY <1>0, <1>2 DEF RejectInput, Register, Killed, InstallTyped
    <2>5. /\ stage'[p] = there
          /\ \A q \in Commands : q # p => stage'[q] = stage[q]
      BY <1>0, <2>1, <2>2, GoesThere
    <2>6. TokenIsSafe'
      BY <1>0, <2>3, <2>5 DEF TokenIsSafe
    <2> QED
      BY <1>0, <2>1, <2>2, <2>3, <2>4, <2>6, AsideKeeps DEF InstallTyped
  <1>3. CASE OpenConfig(p) \/ WriteConfig(p)
    <2>1. PICK there \in {"configuring", "registering"} : Goes(p, there)
      BY <1>3 DEF OpenConfig, WriteConfig
    <2>2. there \in Stages \ Installing /\ there # "asking"
      BY DEF Stages, Installing, Saving, Slashing
    <2>3. Busy(p) /\ stage[p] # "writing"
          /\ UNCHANGED <<calm, torn, options, settings, slash, bin, plan, saved, latest>>
      BY <1>3 DEF OpenConfig, WriteConfig, Busy
    <2>4. config' \in {"absent", "empty", "corrupt"} \cup Commands
      BY <1>3 DEF OpenConfig, WriteConfig
    <2>5. /\ stage'[p] = there
          /\ \A q \in Commands : q # p => stage'[q] = stage[q]
      BY <1>0, <2>1, <2>2, GoesThere
    <2>6. calm' => \A q \in Commands \ {p} : ~Busy(q)
      BY <1>0, <2>3 DEF OneRuns
    <2>7. calm' => \A q \in Commands : stage'[q] # "asking"
      BY <2>2, <2>5, <2>6 DEF Busy
    <2>8. calm => discarded' = {}
      <3>1. CASE OpenConfig(p)
        <4>1. calm /\ "force" \notin options[p] => {config} \cap Commands = {}
          BY <1>0, <3>1, InstallConstants DEF OpenConfig, TokenIsSafe
        <4> QED
          BY <1>0, <3>1, <4>1 DEF OpenConfig, TokenIsSafe
      <3>2. CASE WriteConfig(p)
        BY <1>0, <3>2 DEF WriteConfig, TokenIsSafe
      <3> QED
        BY <1>3, <3>1, <3>2
    <2>9. TokenIsSafe'
      BY <2>3, <2>7, <2>8 DEF TokenIsSafe
    <2> QED
      BY <1>0, <2>1, <2>2, <2>3, <2>4, <2>9, AsideKeeps DEF InstallTyped
  <1>4. CASE LoadSettings(p) /\ settings.kind = "corrupt"
    <2>1. /\ Goes(p, "failed") /\ stage[p] \in {"ready", "installing"}
          /\ UNCHANGED <<torn, discarded, config, options, settings, slash, bin, plan, saved, latest>>
          /\ calm' \in BOOLEAN
          /\ calm' => calm /\ \A q \in Commands \ {p} : ~Busy(q)
      BY <1>0, <1>4 DEF LoadSettings, NoteOverlap, InstallTyped
    <2>2. "failed" \in Stages \ Installing
      BY DEF Stages, Installing, Saving, Slashing
    <2>3. /\ stage'[p] = "failed"
          /\ \A q \in Commands : q # p => stage'[q] = stage[q]
      BY <1>0, <2>1, <2>2, GoesThere
    <2>4. TokenIsSafe'
      BY <1>0, <2>1, <2>3 DEF TokenIsSafe
    <2> QED
      BY <1>0, <2>1, <2>2, <2>4, AsideKeeps DEF InstallTyped
  <1> QED
    BY <1>1, <1>2, <1>3, <1>4

\* An installation begins: from here on it is the latest.
LEMMA LoadKeeps ==
  ASSUME InstallInvariant, NEW p \in Commands, LoadSettings(p), settings.kind # "corrupt"
  PROVE  InstallInvariant'
  <1> USE DEF files, process, past
  <1>0. InstallTyped /\ TokenIsSafe /\ PlansAreSingle
    BY DEF InstallInvariant
  <1>1. PICK b \in Bins :
          /\ bin' = [bin EXCEPT ![p] = b]
          /\ plan' = [plan EXCEPT ![p] = Merged(settings.holds, b)]
          /\ Goes(p, IF plan'[p] = settings.holds THEN "away" ELSE "saving")
    BY DEF LoadSettings
  <1>2. /\ stage[p] \in {"ready", "installing"} /\ latest' = NoCommand
        /\ UNCHANGED <<files, options, saved, discarded, torn>>
        /\ calm' \in BOOLEAN
        /\ calm' => calm /\ \A q \in Commands \ {p} : ~Busy(q)
    BY <1>0 DEF LoadSettings, NoteOverlap, InstallTyped
  <1> DEFINE merged == Merged(settings.holds, b)
  <1>3. /\ merged \in Content /\ merged.own = settings.holds.own
        /\ AtMostOnce(merged) /\ Calls(merged, b)
    BY <1>0, MergedCalls DEF InstallTyped, PlansAreSingle
  <1> HIDE DEF merged
  <1>4. /\ plan'[p] = merged /\ bin'[p] = b
        /\ \A q \in Commands : q # p => plan'[q] = plan[q] /\ bin'[q] = bin[q]
        /\ plan' \in [Commands -> Content] /\ bin' \in [Commands -> Bins]
    BY <1>0, <1>1, <1>3 DEF InstallTyped, merged
  <1>5. PICK there \in {"away", "saving"} :
          Goes(p, there) /\ (there = "away" => merged = settings.holds)
    BY <1>1, <1>4
  <1>6. there \in Stages
    BY DEF Stages, Installing, Saving, Slashing
  <1>7. /\ stage' \in [Commands -> Stages] /\ stage'[p] = there
        /\ \A q \in Commands : q # p => stage'[q] = stage[q]
    BY <1>0, <1>5, <1>6, GoesThere
  <1>8. /\ OneRuns'
        /\ calm' => \A q \in Commands \ {p} : ~Busy(q) /\ stage'[q] \notin Installing
                                            /\ stage'[q] # "asking"
    BY <1>2, <1>5, <1>6, AloneStays
  <1>9. InstallTyped'
    BY <1>0, <1>2, <1>4, <1>7 DEF InstallTyped
  <1>10. PlansAreSingle'
    BY <1>0, <1>2, <1>3, <1>4 DEF PlansAreSingle
  <1>11. OwnIsSafe'
    <2>1. calm' /\ ~torn' => settings.holds.own = saved
      <3>1. calm' => calm /\ \A q \in Commands : stage[q] # "writing"
        BY <1>2 DEF Busy
      <3> QED
        BY <1>2, <3>1 DEF InstallInvariant, OwnIsSafe
    <2> QED
      BY <1>2, <1>3, <1>4, <1>7, <1>8, <2>1 DEF OwnIsSafe, Installing
  <1>12. ProgressIsReal'
    <2>1. there \notin {"back", "writingBack"} /\ (there \in Slashing => there = "away")
      BY DEF Slashing
    <2>2. {"back", "writingBack"} \subseteq Slashing
      BY DEF Slashing
    <2>3. /\ stage'[p] \in Saving => Calls(plan'[p], bin'[p])
          /\ stage'[p] \in Slashing => Calls(settings'.holds, bin'[p])
          /\ stage'[p] \notin {"back", "writingBack"}
      BY <1>2, <1>3, <1>4, <1>5, <1>7, <2>1
    <2> QED
      BY <1>8, <2>2, <2>3 DEF ProgressIsReal, Installing, Calls
  <1>13. LatestIsWhole' /\ TokenIsSafe'
    BY <1>0, <1>2, <1>5, <1>7, <1>8 DEF LatestIsWhole, TokenIsSafe
  <1> QED
    BY <1>8, <1>9, <1>10, <1>11, <1>12, <1>13 DEF InstallInvariant

\* settings.json is emptied and written.
LEMMA SaveKeeps ==
  ASSUME InstallInvariant, NEW p \in Commands, OpenSettings(p) \/ WriteSettings(p)
  PROVE  InstallInvariant'
  <1> USE DEF files, process, past
  <1>0. InstallTyped /\ TokenIsSafe /\ PlansAreSingle /\ OwnIsSafe /\ ProgressIsReal
        /\ LatestIsWhole
    BY DEF InstallInvariant
  <1>1. /\ Busy(p) /\ stage[p] \in Saving /\ stage[p] \in Installing
        /\ UNCHANGED <<config, slash, options, bin, plan, saved, latest, discarded, calm, torn>>
    BY DEF OpenSettings, WriteSettings, Busy, Saving, Installing
  <1>2. PICK there \in {"writing", "away"}, kind \in {"empty", "whole", "corrupt"} :
          /\ Goes(p, there)
          /\ there = "writing" => settings' = File(kind, Nothing)
          /\ there = "away" => settings' = File(kind, plan[p])
    BY DEF OpenSettings, WriteSettings
  <1>3. there \in Stages /\ there # "asking"
    BY DEF Stages, Installing, Saving, Slashing
  <1>4. /\ stage' \in [Commands -> Stages] /\ stage'[p] = there
        /\ \A q \in Commands : q # p => stage'[q] = stage[q]
    BY <1>0, <1>2, <1>3, GoesThere
  <1>5. /\ OneRuns'
        /\ calm' => \A q \in Commands \ {p} : ~Busy(q) /\ stage'[q] \notin Installing
                                            /\ stage'[q] # "asking"
    BY <1>1, <1>2, <1>3, AloneStays
  <1>6. Nothing \in Content /\ AtMostOnce(Nothing)
    BY DEF Nothing, NoHooks, Content, AtMostOnce
  <1>7. /\ there = "writing" => settings'.holds = Nothing
        /\ there = "away" => settings'.holds = plan[p]
        /\ settings' \in [kind : {"absent", "empty", "whole", "corrupt"}, holds : Content]
    BY <1>0, <1>2, <1>6 DEF File, InstallTyped
  <1>8. InstallTyped'
    BY <1>0, <1>1, <1>4, <1>7 DEF InstallTyped
  <1>9. PlansAreSingle'
    BY <1>0, <1>1, <1>2, <1>6, <1>7 DEF PlansAreSingle
  <1>10. OwnIsSafe'
    <2>1. calm /\ ~torn => plan[p].own = saved
      BY <1>0, <1>1 DEF OwnIsSafe
    <2> QED
      BY <1>1, <1>2, <1>4, <1>5, <1>7, <2>1 DEF OwnIsSafe, Installing
  <1>11. ProgressIsReal'
    <2>1. calm => Calls(plan[p], bin[p])
      BY <1>0, <1>1 DEF ProgressIsReal
    <2>2. /\ there = "away" => there \notin Saving /\ there \notin {"back", "writingBack"}
          /\ there = "writing" => there \notin Slashing /\ there \notin {"back", "writingBack"}
          /\ {"back", "writingBack"} \subseteq Slashing
      BY DEF Saving, Slashing
    <2>3. calm' => /\ stage'[p] \in Saving => Calls(plan'[p], bin'[p])
                   /\ stage'[p] \in Slashing => Calls(settings'.holds, bin'[p])
                   /\ stage'[p] \notin {"back", "writingBack"}
      BY <1>1, <1>2, <1>4, <1>7, <2>1, <2>2
    <2> QED
      BY <1>5, <2>2, <2>3 DEF ProgressIsReal, Installing, Calls
  <1>12. LatestIsWhole'
    BY <1>0, <1>1 DEF LatestIsWhole
  <1>13. TokenIsSafe'
    BY <1>0, <1>1, <1>3, <1>4, <1>5 DEF TokenIsSafe
  <1> QED
    BY <1>5, <1>8, <1>9, <1>10, <1>11, <1>12, <1>13 DEF InstallInvariant

\* The slash commands are emptied and written, and the installation ends.
LEMMA SlashKeeps ==
  ASSUME InstallInvariant, NEW p \in Commands,
         \/ OpenSlash(p, "away", "writingAway", "back")
         \/ WriteSlash(p, "away", "writingAway", "back")
         \/ OpenSlash(p, "back", "writingBack", "done")
         \/ WriteSlash(p, "back", "writingBack", "done")
  PROVE  InstallInvariant'
  <1> USE DEF files, process, past
  <1>0. InstallTyped /\ TokenIsSafe /\ PlansAreSingle /\ OwnIsSafe /\ ProgressIsReal
        /\ LatestIsWhole
    BY DEF InstallInvariant
  <1>1. /\ stage[p] \in Slashing
        /\ UNCHANGED <<config, settings, options, bin, plan, saved, discarded, calm, torn>>
    BY DEF OpenSlash, WriteSlash, Slashing
  <1>2. PICK there \in {"writingAway", "back", "writingBack", "done"} :
          /\ Goes(p, there)
          /\ slash' \in [{"away", "back"} -> {"absent", "empty"} \cup Bins]
          /\ there = "back" => slash'["away"] = bin[p]
          /\ there \in {"writingBack", "done"} =>
               stage[p] \in {"back", "writingBack"} /\ slash'["away"] = slash["away"]
          /\ there = "done" => slash'["back"] = bin[p]
          /\ latest' = IF there = "done" THEN p ELSE latest
    BY <1>0 DEF OpenSlash, WriteSlash, InstallTyped
  <1>3. /\ there \in Stages /\ there # "asking" /\ there \notin Saving
        /\ Busy(p) /\ stage[p] \in Installing /\ stage[p] # "writing"
        /\ {"back", "writingBack"} \subseteq Slashing /\ "done" \notin Installing
        /\ "writing" \in Installing
    BY <1>1 DEF Stages, Installing, Saving, Slashing, Busy
  <1>4. /\ stage' \in [Commands -> Stages] /\ stage'[p] = there
        /\ \A q \in Commands : q # p => stage'[q] = stage[q]
    BY <1>0, <1>2, <1>3, GoesThere
  <1>5. /\ OneRuns'
        /\ calm' => \A q \in Commands \ {p} : ~Busy(q) /\ stage'[q] \notin Installing
                                            /\ stage'[q] # "asking"
    BY <1>1, <1>2, <1>3, AloneStays
  <1>6. InstallTyped'
    BY <1>0, <1>1, <1>2, <1>4 DEF InstallTyped
  <1>7. PlansAreSingle'
    BY <1>0, <1>1 DEF PlansAreSingle
  <1>8. OwnIsSafe'
    <2>1. calm' => \A q \in Commands \ {p} : stage[q] # "writing"
      BY <1>5 DEF Busy
    <2>2. calm' /\ ~torn' => settings.holds.own = saved
      BY <1>0, <1>1, <1>3, <2>1 DEF OwnIsSafe
    <2> QED
      BY <1>1, <1>3, <1>4, <1>5, <2>2 DEF OwnIsSafe, Installing
  <1>9. ProgressIsReal'
    <2>1. calm => /\ Calls(settings.holds, bin[p])
                  /\ stage[p] \in {"back", "writingBack"} => slash["away"] = bin[p]
      BY <1>0, <1>1 DEF ProgressIsReal
    <2>2. calm' => /\ stage'[p] \notin Saving
                   /\ Calls(settings'.holds, bin'[p])
                   /\ stage'[p] \in {"back", "writingBack"} => slash'["away"] = bin'[p]
      BY <1>1, <1>2, <1>3, <1>4, <2>1
    <2> QED
      BY <1>3, <1>5, <2>2 DEF ProgressIsReal, Installing, Calls
  <1>10. LatestIsWhole'
    <2>1. CASE there # "done"
      BY <1>0, <1>1, <1>2, <1>3, <2>1 DEF LatestIsWhole
    <2>2. CASE there = "done"
      <3>1. calm => /\ Calls(settings.holds, bin[p]) /\ slash["away"] = bin[p]
        BY <1>0, <1>1, <1>2, <2>2 DEF ProgressIsReal
      <3>2. calm' => \A q \in Commands : stage'[q] \notin Installing
        BY <1>3, <1>4, <1>5, <2>2
      <3> QED
        BY <1>1, <1>2, <2>2, <3>1, <3>2 DEF LatestIsWhole, Calls
    <2> QED
      BY <2>1, <2>2
  <1>11. TokenIsSafe'
    BY <1>0, <1>1, <1>3, <1>4, <1>5 DEF TokenIsSafe
  <1> QED
    BY <1>5, <1>6, <1>7, <1>8, <1>9, <1>10, <1>11 DEF InstallInvariant

\* The user and Claude Code write the file between commands, and keep its hooks.
LEMMA OthersKeep ==
  ASSUME InstallInvariant, OtherSaves \/ UserEdits
  PROVE  InstallInvariant'
  <1> USE DEF files, process, past
  <1>0. InstallTyped /\ TokenIsSafe /\ PlansAreSingle /\ OwnIsSafe /\ ProgressIsReal
        /\ LatestIsWhole /\ OneRuns
    BY DEF InstallInvariant
  <1>1. UNCHANGED <<config, slash, stage, options, bin, plan, latest, discarded, torn>>
    BY DEF OtherSaves, UserEdits
  <1>2. /\ calm' \in BOOLEAN
        /\ calm' => calm /\ \A p \in Commands : stage[p] \notin Saving
    BY <1>0 DEF OtherSaves, UserEdits, NoteOthers, Saving, InstallTyped
  <1>3. /\ settings' \in [kind : {"absent", "empty", "whole", "corrupt"}, holds : Content]
        /\ settings'.holds.hooks = settings.holds.hooks
        /\ saved' \in SUBSET Own
        /\ settings.holds.own = saved => settings'.holds.own = saved'
    <2>1. settings.holds \in Content
      BY <1>0 DEF InstallTyped
    <2>2. CASE UserEdits
      <3>1. settings' = [settings EXCEPT !.kind = "corrupt"]
            \/ settings' = [settings EXCEPT !.kind = "whole"]
        BY <2>2 DEF UserEdits
      <3> QED
        BY <1>0, <2>2, <3>1 DEF UserEdits, InstallTyped
    <2>3. CASE OtherSaves
      <3>1. PICK more \in SUBSET (Own \ settings.holds.own) :
              /\ settings' = File("whole", [settings.holds EXCEPT !.own = @ \cup more])
              /\ saved' = saved \cup more
        BY <2>3 DEF OtherSaves
      <3> DEFINE content == [settings.holds EXCEPT !.own = @ \cup more]
      <3>2. /\ content \in Content /\ content.hooks = settings.holds.hooks
            /\ content.own = settings.holds.own \cup more
        BY <2>1 DEF Content
      <3> HIDE DEF content
      <3>3. settings' = [kind |-> "whole", holds |-> content]
        BY <3>1 DEF File, content
      <3> QED
        <4>1. /\ settings' \in [kind : {"absent", "empty", "whole", "corrupt"}, holds : Content]
              /\ settings'.holds = content
          BY <3>2, <3>3
        <4>2. saved' \in SUBSET Own
          BY <1>0, <3>1 DEF InstallTyped
        <4> QED
          BY <3>1, <3>2, <4>1, <4>2
    <2> QED
      BY <2>2, <2>3
  <1>4. InstallTyped'
    BY <1>0, <1>1, <1>2, <1>3 DEF InstallTyped
  <1>5. PlansAreSingle' /\ OneRuns'
    BY <1>0, <1>1, <1>2, <1>3 DEF PlansAreSingle, AtMostOnce, OneRuns, Busy
  <1>6. OwnIsSafe'
    <2>1. "writing" \in Saving
      BY DEF Saving
    <2> QED
      BY <1>0, <1>1, <1>2, <1>3, <2>1 DEF OwnIsSafe
  <1>7. ProgressIsReal' /\ LatestIsWhole' /\ TokenIsSafe'
    BY <1>0, <1>1, <1>2, <1>3 DEF ProgressIsReal, LatestIsWhole, TokenIsSafe, Calls
  <1> QED
    BY <1>4, <1>5, <1>6, <1>7 DEF InstallInvariant

\* Every step keeps the invariant.
LEMMA StepInstalls == InstallInvariant /\ [InstallNext]_installVars => InstallInvariant'
  <1> SUFFICES ASSUME InstallInvariant, [InstallNext]_installVars PROVE InstallInvariant'
    OBVIOUS
  <1>1. CASE UNCHANGED installVars
    BY <1>1 DEF installVars, files, process, past, InstallInvariant, InstallTyped,
       PlansAreSingle, OneRuns, OwnIsSafe, ProgressIsReal, LatestIsWhole, TokenIsSafe,
       AtMostOnce, Calls, Busy
  <1>2. ASSUME NEW p \in Commands,
               \/ Setup(p) \/ RejectInput(p) \/ OpenConfig(p) \/ WriteConfig(p) \/ Register(p)
               \/ Killed(p) \/ LoadSettings(p)
        PROVE  InstallInvariant'
    BY <1>2, SetupKeeps, LoadKeeps
  <1>3. ASSUME NEW p \in Commands, OpenSettings(p) \/ WriteSettings(p)
        PROVE  InstallInvariant'
    BY <1>3, SaveKeeps
  <1> QED
    BY <1>1, <1>2, <1>3, SlashKeeps, OthersKeep DEF InstallNext

\* The invariant is what keeps faith.
LEMMA InvariantKeepsFaith == InstallInvariant => InstallKeepsFaith
  <1> SUFFICES ASSUME InstallInvariant PROVE InstallKeepsFaith
    OBVIOUS
  <1>1. NeverDuplicates
    BY DEF InstallInvariant, PlansAreSingle, AtMostOnce, NeverDuplicates
  <1>2. Merges /\ TokenIsKept
    BY DEF InstallInvariant, OwnIsSafe, TokenIsSafe, Merges, TokenIsKept
  <1>3. IsWhole
    BY DEF InstallInvariant, LatestIsWhole, IsWhole, Calls
  <1> QED
    BY <1>1, <1>2, <1>3 DEF InstallKeepsFaith

\* However often the two commands are run, killed, repeated and interleaved with the
\* user's own edits, no hook is registered twice; and where they do not overlap,
\* nothing of the user's is lost and an installation that ended is whole.
THEOREM InstallingKeepsFaith == InstallSpec => []InstallKeepsFaith
  <1>1. InstallSpec => []InstallInvariant
    BY InitInstalls, StepInstalls, PTL DEF InstallSpec
  <1> QED
    BY <1>1, InvariantKeepsFaith, PTL
-----------------------------------------------------------------------------
(* Releases.  R!IsPrefix, R!Last and R!LongestCommonPrefix are those of     *)
(* SequencesExt, which the release script's module extends.                *)

Commits   == [version : Nat, by : Clones, tested : BOOLEAN]
Histories == Seq(Commits)
Steps     == {"idle", "asking", "testing", "set", "committed", "pushed", "tagged"}

ReleaseTyped ==
  /\ origin \in Histories /\ tags \in [R!Versions -> Histories]
  /\ local \in [Clones -> Histories]
  /\ localTags \in [Clones -> [R!Versions -> Histories]]
  /\ tree \in [Clones -> Nat]
  /\ step \in [Clones -> Steps]
  /\ new \in [Clones -> Nat]
  /\ checked \in [Clones -> Histories]
  /\ touched \in BOOLEAN

\* Every history begins with the same commit.
OneRoot ==
  /\ origin # <<>>
  /\ \A c \in Clones : local[c] # <<>> /\ local[c][1] = origin[1]

\* What a tag, here or on the remote, may be.
Names(h, v) == h # <<>> => R!VersionOf(h) = v /\ R!IsPrefix(h, origin)
TagsName ==
  \A v \in R!Versions : Names(tags[v], v) /\ \A c \in Clones : Names(localTags[c][v], v)

\* How far a run of the script has come.
RunIsReal ==
  \A c \in Clones :
    /\ step[c] # "idle" => new[c] \in R!Versions
    /\ step[c] = "set" => tree[c] = new[c]
    /\ step[c] \in {"committed", "pushed"} => R!VersionOf(local[c]) = new[c]
    /\ step[c] = "pushed" => R!IsPrefix(local[c], origin)

Grows(h) == \A i \in 1..(Len(h) - 1) : h[i].version <= h[i + 1].version
Tested(h) == h # <<>> => R!Last(h).tested

\* What no one changed under the script: histories grow, tags were tested, ...
HistoriesGrow == ~touched => Grows(origin) /\ \A c \in Clones : Grows(local[c])
TagsAreTested ==
  ~touched => \A v \in R!Versions :
                Tested(tags[v]) /\ \A c \in Clones : Tested(localTags[c][v])
\* ... and the script releases what it checked, as something newer.
RunIsAlone ==
  ~touched =>
    \A c \in Clones :
      /\ step[c] \in {"asking", "testing"} => tree[c] < new[c]
      /\ step[c] = "testing" => R!Clean(c)
      /\ step[c] \in {"testing", "set"} => checked[c] = local[c]
      /\ step[c] = "set" => R!VersionOf(local[c]) <= new[c]
      /\ step[c] \in {"committed", "pushed"} => R!Last(local[c]).tested

ReleaseInvariant ==
  /\ ReleaseTyped /\ OneRoot /\ TagsName /\ RunIsReal
  /\ HistoriesGrow /\ TagsAreTested /\ RunIsAlone

-----------------------------------------------------------------------------
(* Prefixes of histories. *)

\* A prefix agrees wherever it goes.
LEMMA PrefixMeans ==
  ASSUME NEW S, NEW s \in Seq(S), NEW t \in Seq(S)
  PROVE  R!IsPrefix(s, t) <=> Len(s) <= Len(t) /\ \A i \in 1..Len(s) : s[i] = t[i]
  <1>1. SubSeq(s, 1, Len(s)) = s
    BY SubSeqFull
  <1>2. Len(s) \in Nat /\ Len(t) \in Nat
    BY LenProperties
  <1>3. ASSUME Len(s) <= Len(t)
        PROVE  /\ SubSeq(t, 1, Len(s)) \in Seq(S)
               /\ Len(SubSeq(t, 1, Len(s))) = Len(s)
               /\ \A i \in 1..Len(s) : SubSeq(t, 1, Len(s))[i] = t[i]
    <2>1. \A i \in 1..Len(s) : t[i] \in S
      BY <1>2, <1>3, ElementOfSeq
    <2> QED
      BY <1>2, <2>1, SubSeqProperties
  <1>4. ASSUME Len(s) <= Len(t), \A i \in 1..Len(s) : s[i] = t[i]
        PROVE  s = SubSeq(t, 1, Len(s))
    BY <1>3, <1>4, SeqEqual
  <1> QED
    BY <1>1, <1>3, <1>4 DEF R!IsPrefix

\* Being a prefix is an order, and an appended commit keeps what is before it.
LEMMA PrefixOrder ==
  ASSUME NEW S, NEW s \in Seq(S), NEW t \in Seq(S), NEW u \in Seq(S)
  PROVE  /\ R!IsPrefix(s, s)
         /\ R!IsPrefix(s, t) /\ R!IsPrefix(t, u) => R!IsPrefix(s, u)
  <1>1. Len(s) \in Nat /\ Len(t) \in Nat /\ Len(u) \in Nat
    BY LenProperties
  <1> QED
    BY <1>1, PrefixMeans

\* Histories with the same root have a longest common prefix, which is not empty.
LEMMA CommonPrefix ==
  ASSUME NEW S, NEW s \in Seq(S), NEW t \in Seq(S), s # <<>>, t # <<>>, s[1] = t[1]
  PROVE  LET base == R!LongestCommonPrefix({s, t})
         IN  /\ base \in Seq(S) /\ Len(base) \in 1..Len(s)
             /\ \A i \in 1..Len(base) : base[i] = s[i]
  <1> DEFINE CP == R!CommonPrefixes({s, t})
  <1>1. Len(s) \in Nat \ {0} /\ Len(t) \in Nat \ {0}
    BY EmptySeq
  <1>2. \A p \in CP : p \in Seq(S) /\ Len(p) \in Nat /\ Len(p) <= Len(s)
                     /\ R!IsPrefix(p, s) /\ R!IsPrefix(p, t)
    <2> SUFFICES ASSUME NEW p \in CP
                 PROVE  p \in Seq(S) /\ Len(p) \in Nat /\ Len(p) <= Len(s)
                        /\ R!IsPrefix(p, s) /\ R!IsPrefix(p, t)
      OBVIOUS
    <2>1. PICK q \in {s, t} : p \in R!Prefixes(q)
      BY DEF R!CommonPrefixes
    <2>2. p \in Seq(S)
      <3>1. PICK l \in 0..Len(q) : p = SubSeq(q, 1, l)
        BY <2>1 DEF R!Prefixes
      <3>2. \A i \in 1..l : q[i] \in S
        BY <1>1, ElementOfSeq
      <3> QED
        BY <3>1, <3>2, <1>1, SubSeqProperties
    <2>3. R!IsPrefix(p, s) /\ R!IsPrefix(p, t)
      BY DEF R!CommonPrefixes
    <2> QED
      BY <2>2, <2>3, LenProperties, PrefixMeans
  <1>3. \E p \in CP : Len(p) = 1
    <2> DEFINE p == SubSeq(s, 1, 1)
    <2>1. \A i \in 1..1 : s[i] \in S
      BY <1>1, ElementOfSeq
    <2>2. p \in Seq(S) /\ Len(p) = 1 /\ \A i \in 1..1 : p[i] = s[1 + i - 1]
      BY <2>1, SubSeqProperties
    <2>4. p \in R!Prefixes(s)
      BY <1>1 DEF R!Prefixes
    <2> HIDE DEF p
    <2>3. R!IsPrefix(p, s) /\ R!IsPrefix(p, t)
      BY <1>1, <2>2, PrefixMeans
    <2>5. p \in CP
      BY <2>3, <2>4 DEF R!CommonPrefixes
    <2> QED
      BY <2>2, <2>5
  <1>4. \E p \in CP : \A q \in CP : Len(q) <= Len(p)
    <2> DEFINE Shortfalls == {Len(s) - Len(p) : p \in CP}
    <2>1. Shortfalls \subseteq Nat /\ Shortfalls # {}
      <3>1. \A p \in CP : Len(s) - Len(p) \in Nat
        BY <1>1, <1>2
      <3> HIDE DEF CP
      <3> QED
        BY <1>3, <3>1
    <2> HIDE DEF Shortfalls
    <2>2. PICK x \in Shortfalls : \A y \in Shortfalls : ~(<<y, x>> \in OpToRel(<, Nat))
      BY <2>1, NatLessThanWellFounded, WFMin
    <2>3. PICK p \in CP : x = Len(s) - Len(p)
      BY DEF Shortfalls
    <2>4. ASSUME NEW q \in CP PROVE Len(q) <= Len(p)
      <3>1. Len(s) - Len(q) \in Shortfalls
        BY DEF Shortfalls
      <3>2. Len(s) - Len(q) \in Nat /\ x \in Nat
        BY <2>1, <3>1
      <3>3. ~(Len(s) - Len(q) < x)
        BY <2>2, <3>1, <3>2 DEF OpToRel
      <3> QED
        BY <1>1, <1>2, <2>3, <3>3
    <2> QED
      BY <2>4
  <1> DEFINE base == R!LongestCommonPrefix({s, t})
  <1>5. base \in CP /\ \A q \in CP : Len(q) <= Len(base)
    BY <1>4 DEF R!LongestCommonPrefix
  <1> HIDE DEF CP, base
  <1>6. /\ base \in Seq(S) /\ Len(base) \in Nat /\ Len(base) <= Len(s) /\ Len(base) >= 1
        /\ R!IsPrefix(base, s)
    BY <1>2, <1>3, <1>5
  <1>7. Len(base) \in 1..Len(s) /\ \A i \in 1..Len(base) : base[i] = s[i]
    BY <1>1, <1>6, PrefixMeans
  <1> QED
    BY <1>6, <1>7 DEF base

\* A commit on top of a history is its last, and keeps the rest in order.
LEMMA OneMoreCommit ==
  ASSUME NEW h \in Histories, h # <<>>, NEW k \in Commits
  PROVE  /\ Append(h, k) \in Histories /\ Append(h, k) # <<>>
         /\ Append(h, k)[1] = h[1] /\ R!Last(Append(h, k)) = k
         /\ R!IsPrefix(h, Append(h, k))
         /\ Grows(h) /\ R!VersionOf(h) <= k.version => Grows(Append(h, k))
  <1> DEFINE g == Append(h, k)
  <1>1. /\ g \in Histories /\ g # <<>> /\ Len(g) = Len(h) + 1
        /\ \A i \in 1..Len(h) : g[i] = h[i]
        /\ g[Len(h) + 1] = k
    BY AppendProperties DEF Histories
  <1>2. Len(h) \in Nat \ {0}
    BY EmptySeq DEF Histories
  <1> HIDE DEF g
  <1>3. R!IsPrefix(h, g)
    BY <1>1, <1>2, PrefixMeans DEF Histories
  <1>4. ASSUME Grows(h), R!VersionOf(h) <= k.version PROVE Grows(g)
    <2>1. h[Len(h)].version <= k.version
      BY <1>4 DEF R!VersionOf, R!Last
    <2>2. ASSUME NEW i \in 1..Len(h) PROVE g[i].version <= g[i + 1].version
      <3>1. CASE i = Len(h)
        BY <3>1, <2>1, <1>1, <1>2
      <3>2. CASE i # Len(h)
        BY <3>2, <1>4, <1>1, <1>2 DEF Grows
      <3> QED
        BY <3>1, <3>2
    <2> QED
      BY <2>2, <1>1, <1>2 DEF Grows
  <1> QED
    BY <1>1, <1>2, <1>3, <1>4 DEF g, R!Last

\* The version of a history that has commits is a number.
LEMMA VersionsAreNumbers ==
  ASSUME NEW h \in Histories, h # <<>>
  PROVE  R!Last(h) \in Commits /\ R!VersionOf(h) \in Nat
  <1>1. Len(h) \in Nat \ {0}
    BY EmptySeq DEF Histories
  <1>2. h[Len(h)] \in Commits
    BY <1>1, ElementOfSeq DEF Histories
  <1> QED
    BY <1>2 DEF R!VersionOf, R!Last, Commits

\* Tags that are fetched or pushed add to those that are there.
LEMMA TagsAdd ==
  ASSUME NEW t \in [R!Versions -> Histories], NEW u \in [R!Versions -> Histories]
  PROVE  /\ R!WithTagsOf(t, u) \in [R!Versions -> Histories]
         /\ \A v \in R!Versions : R!WithTagsOf(t, u)[v] \in {t[v], u[v]}
  BY DEF R!WithTagsOf

\* While main grows, a tag on it stays on it.
LEMMA TagsStay ==
  ASSUME ReleaseTyped, TagsName, origin' \in Histories, R!IsPrefix(origin, origin'),
         UNCHANGED <<tags, localTags>>
  PROVE  TagsName'
  <1>1. ASSUME NEW h \in Histories, NEW v \in R!Versions, Names(h, v)
        PROVE  h # <<>> => R!VersionOf(h) = v /\ R!IsPrefix(h, origin')
    BY <1>1, PrefixOrder DEF Names, ReleaseTyped, Histories
  <1> QED
    BY <1>1 DEF TagsName, Names, ReleaseTyped

-----------------------------------------------------------------------------
(* The script, step by step. *)

\* The first state is in order.
LEMMA ReleaseStarts == R!ReleaseInit => ReleaseInvariant
  <1> SUFFICES ASSUME R!ReleaseInit PROVE ReleaseInvariant
    OBVIOUS
  <1>1. PICK c \in Clones : origin = <<R!Commit(1, c, FALSE)>>
    BY DEF R!ReleaseInit
  <1>2. R!Commit(1, c, FALSE) \in Commits
    BY DEF R!Commit, Commits
  <1> DEFINE first == R!Commit(1, c, FALSE)
  <1> HIDE DEF first
  <1>3. origin \in Histories /\ origin # <<>> /\ Len(origin) = 1 /\ <<>> \in Histories
    <2>1. origin = <<first>> /\ first \in Commits
      BY <1>1, <1>2 DEF first
    <2> QED
      BY <2>1 DEF Histories
  <1>4. ReleaseTyped
    BY <1>3 DEF ReleaseTyped, Steps, R!ReleaseInit, R!NoTags
  <1>5. OneRoot /\ TagsName /\ RunIsReal /\ TagsAreTested /\ RunIsAlone
    BY <1>3 DEF R!ReleaseInit, R!NoTags, OneRoot, TagsName, Names, RunIsReal, TagsAreTested,
                Tested, RunIsAlone
  <1>6. HistoriesGrow
    BY <1>3 DEF R!ReleaseInit, HistoriesGrow, Grows
  <1> QED
    BY <1>4, <1>5, <1>6 DEF ReleaseInvariant

\* A run that begins, is interrupted or ends changes no history and no tag.
LEMMA RunsBeginAndEnd ==
  ASSUME ReleaseInvariant, NEW c \in Clones, R!ReadVersion(c) \/ R!Stops(c)
  PROVE  ReleaseInvariant'
  <1>1. UNCHANGED <<origin, tags, local, localTags, tree, touched>>
    BY DEF R!ReadVersion, R!Stops, R!remote, R!clone
  <1>2. ReleaseTyped'
    <2>1. ReleaseTyped
      BY DEF ReleaseInvariant
    <2>2. /\ step' \in [Clones -> Steps] /\ new' \in [Clones -> Nat]
          /\ checked' \in [Clones -> Histories]
      <3>1. CASE R!ReadVersion(c)
        <4>1. PICK v \in R!Versions : new' = [new EXCEPT ![c] = v]
          BY <3>1 DEF R!ReadVersion
        <4>2. v \in Nat
          BY DEF R!Versions
        <4> QED
          BY <2>1, <3>1, <4>1, <4>2 DEF R!ReadVersion, ReleaseTyped, Steps
      <3>2. CASE R!Stops(c)
        <4>1. <<>> \in Histories
          BY DEF Histories
        <4> QED
          BY <2>1, <3>2, <4>1 DEF R!Stops, R!Ends, ReleaseTyped, Steps
      <3> QED
        BY <3>1, <3>2
    <2> QED
      BY <2>1, <2>2, <1>1 DEF ReleaseTyped, R!Versions, Histories, Commits
  <1>3. OneRoot' /\ TagsName' /\ HistoriesGrow' /\ TagsAreTested'
    BY <1>1 DEF ReleaseInvariant, OneRoot, TagsName, Names, HistoriesGrow, TagsAreTested
  <1>4. RunIsReal'
    BY <1>1 DEF ReleaseInvariant, ReleaseTyped, RunIsReal, R!ReadVersion, R!Stops, R!Ends
  <1>5. RunIsAlone'
    BY <1>1 DEF ReleaseInvariant, ReleaseTyped, RunIsAlone, R!Clean, R!ReadVersion, R!Stops, R!Ends
  <1> QED
    BY <1>2, <1>3, <1>4, <1>5 DEF ReleaseInvariant

\* The check fetches tags, and pins what will be tested.
LEMMA CheckKeeps ==
  ASSUME ReleaseInvariant, NEW c \in Clones, R!Check(c)
  PROVE  ReleaseInvariant'
  <1>1. UNCHANGED <<origin, tags, local, tree, touched>>
    BY DEF R!Check, R!remote
  <1>2. ReleaseTyped /\ localTags' = [localTags EXCEPT ![c] = R!WithTagsOf(@, tags)]
    BY DEF R!Check, ReleaseInvariant
  <1>3. /\ R!WithTagsOf(localTags[c], tags) \in [R!Versions -> Histories]
        /\ \A v \in R!Versions : localTags'[c][v] \in {localTags[c][v], tags[v]}
    BY <1>2, TagsAdd DEF ReleaseTyped
  <1>4. ReleaseTyped'
    <2>1. /\ step' \in [Clones -> Steps] /\ new' \in [Clones -> Nat]
          /\ checked' \in [Clones -> Histories]
      <3>1. <<>> \in Histories
        BY DEF Histories
      <3>2. CASE R!Clean(c) /\ local[c] = origin
        BY <1>2, <3>2 DEF R!Check, ReleaseTyped, Steps
      <3>3. CASE ~(R!Clean(c) /\ local[c] = origin)
        <4>1. R!Ends(c)
          BY <3>3 DEF R!Check
        <4> QED
          BY <1>2, <3>1, <4>1 DEF R!Ends, ReleaseTyped, Steps
      <3> QED
        BY <3>2, <3>3
    <2>2. localTags' \in [Clones -> [R!Versions -> Histories]]
      BY <1>2, <1>3 DEF ReleaseTyped
    <2> QED
      BY <1>1, <1>2, <2>1, <2>2 DEF ReleaseTyped, R!Versions, Histories, Commits
  <1>5. OneRoot' /\ HistoriesGrow'
    BY <1>1 DEF ReleaseInvariant, OneRoot, HistoriesGrow
  <1>6. TagsName' /\ TagsAreTested'
    BY <1>1, <1>2, <1>3 DEF ReleaseInvariant, ReleaseTyped, TagsName, Names, TagsAreTested
  <1>7. RunIsReal'
    BY <1>1, <1>2 DEF ReleaseInvariant, ReleaseTyped, RunIsReal, R!Check, R!Ends
  <1>8. RunIsAlone'
    BY <1>1, <1>2 DEF ReleaseInvariant, ReleaseTyped, RunIsAlone, R!Clean, R!Check, R!Ends
  <1> QED
    BY <1>4, <1>5, <1>6, <1>7, <1>8 DEF ReleaseInvariant

\* The version is set in a file, and what was checked is still the branch.
LEMMA SetVersionKeeps ==
  ASSUME ReleaseInvariant, NEW c \in Clones, R!SetVersion(c)
  PROVE  ReleaseInvariant'
  <1>1. /\ UNCHANGED <<origin, tags, local, localTags, touched>>
        /\ tree' = [tree EXCEPT ![c] = new[c]] /\ step[c] = "testing"
        /\ R!Ends(c) \/ R!Goes(c, "set")
    BY DEF R!SetVersion, R!remote
  <1>2. ReleaseTyped /\ R!VersionOf(local[c]) \in Nat
    BY VersionsAreNumbers DEF ReleaseInvariant, ReleaseTyped, OneRoot
  <1>3. ReleaseTyped'
    <2>1. /\ step' \in [Clones -> Steps] /\ new' \in [Clones -> Nat]
          /\ checked' \in [Clones -> Histories]
      <3>1. CASE R!Goes(c, "set")
        BY <1>2, <3>1 DEF R!Goes, ReleaseTyped, Steps
      <3>2. CASE R!Ends(c)
        <4>1. <<>> \in Histories
          BY DEF Histories
        <4> QED
          BY <1>2, <3>2, <4>1 DEF R!Ends, ReleaseTyped, Steps
      <3> QED
        BY <1>1, <3>1, <3>2
    <2> QED
      BY <1>1, <1>2, <2>1 DEF ReleaseTyped, R!Versions, Histories, Commits
  <1>4. OneRoot' /\ TagsName' /\ HistoriesGrow' /\ TagsAreTested'
    BY <1>1 DEF ReleaseInvariant, OneRoot, TagsName, Names, HistoriesGrow, TagsAreTested
  <1>5. RunIsReal'
    BY <1>1, <1>2 DEF ReleaseInvariant, ReleaseTyped, RunIsReal, R!Goes, R!Ends
  <1>6. RunIsAlone'
    BY <1>1, <1>2 DEF ReleaseInvariant, ReleaseTyped, RunIsAlone, R!Clean, R!Goes, R!Ends
  <1> QED
    BY <1>3, <1>4, <1>5, <1>6 DEF ReleaseInvariant

\* The commit of a version is on the branch that was checked.
LEMMA CommitVersionKeeps ==
  ASSUME ReleaseInvariant, NEW c \in Clones, R!CommitVersion(c)
  PROVE  ReleaseInvariant'
  <1> DEFINE k == R!Commit(tree[c], c, checked[c] = local[c])
  <1>1. /\ UNCHANGED <<origin, tags, localTags, tree, touched, new, checked>>
        /\ local' = [local EXCEPT ![c] = Append(local[c], k)]
        /\ step[c] = "set" /\ step' = [step EXCEPT ![c] = "committed"]
    BY DEF R!CommitVersion, R!remote, R!Goes
  <1>2. ReleaseTyped /\ local[c] \in Histories /\ local[c] # <<>> /\ k \in Commits
    BY DEF ReleaseInvariant, ReleaseTyped, OneRoot, R!Commit, Commits
  <1>3. k.version = tree[c] /\ (k.tested <=> checked[c] = local[c])
    BY DEF R!Commit
  <1> HIDE DEF k
  <1>4. /\ local'[c] = Append(local[c], k)
        /\ \A d \in Clones : d # c => local'[d] = local[d]
    BY <1>1, <1>2 DEF ReleaseTyped
  <1>5. /\ local'[c] \in Histories /\ local'[c] # <<>> /\ local'[c][1] = local[c][1]
        /\ R!Last(local'[c]) = k /\ R!VersionOf(local'[c]) = tree[c]
        /\ Grows(local[c]) /\ R!VersionOf(local[c]) <= tree[c] => Grows(local'[c])
    BY <1>2, <1>3, <1>4, OneMoreCommit DEF R!VersionOf
  <1>6. ReleaseTyped'
    BY <1>1, <1>2, <1>4, <1>5 DEF ReleaseTyped, R!Versions, Histories, Commits, Steps
  <1>7. OneRoot' /\ TagsName' /\ TagsAreTested'
    BY <1>1, <1>4, <1>5 DEF ReleaseInvariant, OneRoot, TagsName, Names, TagsAreTested
  <1>8. HistoriesGrow'
    BY <1>1, <1>4, <1>5 DEF ReleaseInvariant, HistoriesGrow, RunIsReal, RunIsAlone
  <1>9. RunIsReal'
    BY <1>1, <1>2, <1>4, <1>5 DEF ReleaseInvariant, ReleaseTyped, RunIsReal
  <1>10. RunIsAlone'
    BY <1>1, <1>2, <1>3, <1>4, <1>5 DEF ReleaseInvariant, ReleaseTyped, RunIsAlone, R!Clean
  <1> QED
    BY <1>6, <1>7, <1>8, <1>9, <1>10 DEF ReleaseInvariant

\* Main goes from a history to a longer one of a checkout, by the script or by hand.
LEMMA MainGrows ==
  ASSUME ReleaseInvariant, NEW c \in Clones, origin' = local[c], R!IsPrefix(origin, local[c]),
         UNCHANGED <<tags, local, localTags, tree, touched>>
  PROVE  /\ OneRoot' /\ TagsName' /\ HistoriesGrow' /\ TagsAreTested'
         /\ R!IsPrefix(local[c], origin')
         /\ \A d \in Clones : R!IsPrefix(local[d], origin) => R!IsPrefix(local[d], origin')
  <1>1. ReleaseTyped /\ origin' \in Histories /\ R!IsPrefix(origin, origin')
    BY DEF ReleaseInvariant, ReleaseTyped
  <1>2. TagsName'
    BY <1>1, TagsStay DEF ReleaseInvariant
  <1>3. OneRoot' /\ HistoriesGrow' /\ TagsAreTested'
    BY DEF ReleaseInvariant, OneRoot, HistoriesGrow, TagsAreTested
  <1>4. /\ R!IsPrefix(local[c], origin')
        /\ \A d \in Clones : R!IsPrefix(local[d], origin) => R!IsPrefix(local[d], origin')
    BY <1>1, PrefixOrder DEF ReleaseTyped, Histories
  <1> QED
    BY <1>2, <1>3, <1>4

\* Main is pushed, or the script ends.
LEMMA PushMainKeeps ==
  ASSUME ReleaseInvariant, NEW c \in Clones, R!PushMain(c)
  PROVE  ReleaseInvariant'
  <1>1. UNCHANGED <<tags, local, localTags, tree, touched>> /\ step[c] = "committed"
    BY DEF R!PushMain, R!clone
  <1>2. ReleaseTyped
    BY DEF ReleaseInvariant
  <1>3. CASE R!IsPrefix(origin, local[c])
    <2>1. origin' = local[c] /\ R!Goes(c, "pushed")
      BY <1>3 DEF R!PushMain
    <2>2. ReleaseTyped'
      BY <1>1, <1>2, <2>1 DEF R!Goes, ReleaseTyped, R!Versions, Histories, Commits, Steps
    <2>3. RunIsReal'
      BY <1>1, <1>2, <1>3, <2>1, MainGrows DEF ReleaseInvariant, ReleaseTyped, RunIsReal, R!Goes
    <2>4. RunIsAlone'
      BY <1>1, <1>2, <2>1 DEF ReleaseInvariant, ReleaseTyped, RunIsAlone, R!Clean, R!Goes
    <2> QED
      BY <1>1, <1>3, <2>1, <2>2, <2>3, <2>4, MainGrows DEF ReleaseInvariant
  <1>4. CASE ~R!IsPrefix(origin, local[c])
    <2>1. UNCHANGED origin /\ R!Ends(c)
      BY <1>4 DEF R!PushMain
    <2>2. R!Stops(c)
      BY <1>1, <2>1 DEF R!Stops, R!remote, R!clone
    <2> QED
      BY <2>2, RunsBeginAndEnd
  <1> QED
    BY <1>3, <1>4

\* A tag is made of what was pushed, where there is none.
LEMMA TagKeeps ==
  ASSUME ReleaseInvariant, NEW c \in Clones, R!Tag(c)
  PROVE  ReleaseInvariant'
  <1>1. UNCHANGED <<origin, tags, local, tree, touched>> /\ step[c] = "pushed"
    BY DEF R!Tag, R!remote
  <1>2. ReleaseTyped /\ new[c] \in R!Versions /\ local[c] \in Histories
    BY <1>1 DEF ReleaseInvariant, ReleaseTyped, RunIsReal
  <1>3. CASE localTags[c][new[c]] = <<>>
    <2>1. /\ localTags' = [localTags EXCEPT ![c][new[c]] = local[c]]
          /\ R!Goes(c, "tagged")
      BY <1>3 DEF R!Tag
    <2>2. \A d \in Clones, v \in R!Versions :
            localTags'[d][v] = IF d = c /\ v = new[c] THEN local[c] ELSE localTags[d][v]
      BY <1>2, <2>1 DEF ReleaseTyped
    <2>3. ReleaseTyped'
      <3>1. localTags' \in [Clones -> [R!Versions -> Histories]]
        BY <1>2, <2>1 DEF ReleaseTyped
      <3>2. step' \in [Clones -> Steps] /\ UNCHANGED <<new, checked>>
        BY <1>2, <2>1 DEF R!Goes, ReleaseTyped, Steps
      <3> QED
        BY <1>1, <1>2, <3>1, <3>2 DEF ReleaseTyped, R!Versions, Histories, Commits
    <2>4. TagsName'
      <3>1. Names(local[c], new[c])
        BY <1>1 DEF Names, ReleaseInvariant, RunIsReal
      <3> QED
        BY <1>1, <1>2, <2>2, <3>1 DEF ReleaseInvariant, TagsName, Names
    <2>5. TagsAreTested'
      BY <1>1, <1>2, <2>2 DEF ReleaseInvariant, TagsAreTested, RunIsAlone, Tested
    <2>6. OneRoot' /\ HistoriesGrow'
      BY <1>1 DEF ReleaseInvariant, OneRoot, HistoriesGrow
    <2>7. RunIsReal' /\ RunIsAlone'
      BY <1>1, <1>2, <2>1 DEF ReleaseInvariant, ReleaseTyped, RunIsReal, RunIsAlone, R!Clean, R!Goes
    <2> QED
      BY <2>3, <2>4, <2>5, <2>6, <2>7 DEF ReleaseInvariant
  <1>4. CASE localTags[c][new[c]] # <<>>
    <2>1. R!Stops(c)
      BY <1>1, <1>4 DEF R!Tag, R!Stops, R!remote, R!clone
    <2> QED
      BY <2>1, RunsBeginAndEnd
  <1> QED
    BY <1>3, <1>4

\* A tag that is pushed names what the local one does.
LEMMA PushTagKeeps ==
  ASSUME ReleaseInvariant, NEW c \in Clones, R!PushTag(c)
  PROVE  ReleaseInvariant'
  <1> DEFINE u == [R!NoTags EXCEPT ![new[c]] = localTags[c][new[c]]]
  <1>1. /\ UNCHANGED <<origin, local, localTags, tree, touched>> /\ step[c] = "tagged"
        /\ tags' = R!WithTagsOf(tags, u) /\ R!Ends(c)
    BY DEF R!PushTag, R!clone
  <1>2. ReleaseTyped /\ new[c] \in R!Versions
    BY <1>1 DEF ReleaseInvariant, RunIsReal
  <1>3. <<>> \in Histories
    BY DEF Histories
  <1>4. /\ u \in [R!Versions -> Histories]
        /\ \A v \in R!Versions : u[v] \in {<<>>, localTags[c][v]}
    BY <1>2, <1>3 DEF R!NoTags, ReleaseTyped
  <1> HIDE DEF u
  <1>5. /\ tags' \in [R!Versions -> Histories]
        /\ \A v \in R!Versions : tags'[v] \in {tags[v], <<>>, localTags[c][v]}
    BY <1>1, <1>2, <1>4, TagsAdd DEF ReleaseTyped
  <1>6. ReleaseTyped'
    <2>1. /\ step' \in [Clones -> Steps] /\ new' \in [Clones -> Nat]
          /\ checked' \in [Clones -> Histories]
      BY <1>1, <1>2, <1>3 DEF R!Ends, ReleaseTyped, Steps
    <2> QED
      BY <1>1, <1>2, <1>5, <2>1 DEF ReleaseTyped, R!Versions, Histories, Commits
  <1>7. TagsName' /\ TagsAreTested'
    BY <1>1, <1>5 DEF ReleaseInvariant, TagsName, Names, TagsAreTested, Tested
  <1>8. OneRoot' /\ HistoriesGrow'
    BY <1>1 DEF ReleaseInvariant, OneRoot, HistoriesGrow
  <1>9. RunIsReal' /\ RunIsAlone'
    BY <1>1, <1>2 DEF ReleaseInvariant, ReleaseTyped, RunIsReal, RunIsAlone, R!Clean, R!Ends
  <1> QED
    BY <1>6, <1>7, <1>8, <1>9 DEF ReleaseInvariant

-----------------------------------------------------------------------------
(* What happens besides. *)

\* Main is pushed by hand.
LEMMA PushKeeps ==
  ASSUME ReleaseInvariant, NEW c \in Clones, R!Push(c)
  PROVE  ReleaseInvariant'
  <1>1. /\ UNCHANGED <<tags, local, localTags, tree, touched, step, new, checked>>
        /\ origin' = local[c] /\ R!IsPrefix(origin, local[c])
    BY DEF R!Push, R!clone, R!script
  <1>2. ReleaseTyped'
    BY <1>1 DEF ReleaseInvariant, ReleaseTyped, R!Versions, Histories, Commits, Steps
  <1>3. RunIsReal' /\ RunIsAlone'
    BY <1>1, MainGrows DEF ReleaseInvariant, RunIsReal, RunIsAlone, R!Clean
  <1> QED
    BY <1>1, <1>2, <1>3, MainGrows DEF ReleaseInvariant

\* A checkout that moves to a history in order, while the script is not past its tests.
LEMMA MovesKeep ==
  ASSUME ReleaseInvariant, NEW c \in Clones, NEW h \in Histories, NEW n \in Nat,
         R!Moves(c, h, n), h # <<>>, h[1] = origin[1],
         ~touched => Grows(h),
         UNCHANGED <<origin, tags, step, new, checked>>,
         localTags' = localTags \/ localTags' = [localTags EXCEPT ![c] = R!WithTagsOf(@, tags)]
  PROVE  ReleaseInvariant'
  <1>1. /\ step[c] \in {"idle", "asking", "testing"}
        /\ local' = [local EXCEPT ![c] = h] /\ tree' = [tree EXCEPT ![c] = n]
        /\ touched' = (touched \/ step[c] # "idle")
    BY DEF R!Moves, R!AtHand
  <1>2. ReleaseTyped
    BY DEF ReleaseInvariant
  <1>3. /\ localTags' \in [Clones -> [R!Versions -> Histories]]
        /\ \A d \in Clones, v \in R!Versions : localTags'[d][v] \in {localTags[d][v], tags[v]}
    <2>1. /\ R!WithTagsOf(localTags[c], tags) \in [R!Versions -> Histories]
          /\ \A v \in R!Versions :
               R!WithTagsOf(localTags[c], tags)[v] \in {localTags[c][v], tags[v]}
      BY <1>2, TagsAdd DEF ReleaseTyped
    <2> QED
      BY <1>2, <2>1 DEF ReleaseTyped
  <1>4. ReleaseTyped'
    BY <1>1, <1>2, <1>3 DEF ReleaseTyped, R!Versions, Histories, Commits, Steps
  <1>5. TagsName' /\ TagsAreTested'
    BY <1>1, <1>3 DEF ReleaseInvariant, TagsName, Names, TagsAreTested
  <1>6. OneRoot' /\ HistoriesGrow'
    BY <1>1, <1>2 DEF ReleaseInvariant, ReleaseTyped, OneRoot, HistoriesGrow
  <1>7. RunIsReal' /\ RunIsAlone'
    BY <1>1, <1>2 DEF ReleaseInvariant, ReleaseTyped, RunIsReal, RunIsAlone, R!Clean
  <1> QED
    BY <1>4, <1>5, <1>6, <1>7 DEF ReleaseInvariant

\* Work, and putting a version back, move a checkout.
LEMMA WorkKeeps ==
  ASSUME ReleaseInvariant, NEW c \in Clones, R!Work(c) \/ R!Restore(c)
  PROVE  ReleaseInvariant'
  <1>1. ReleaseTyped /\ local[c] \in Histories /\ local[c] # <<>> /\ local[c][1] = origin[1]
    BY DEF ReleaseInvariant, ReleaseTyped, OneRoot
  <1>2. R!VersionOf(local[c]) \in Nat /\ tree[c] \in Nat
    BY <1>1, VersionsAreNumbers DEF ReleaseTyped
  <1>3. UNCHANGED <<origin, tags, localTags, step, new, checked>>
    BY DEF R!Work, R!Restore, R!remote, R!script
  <1>4. CASE R!Work(c)
    <2> DEFINE k == R!Commit(tree[c], c, FALSE)
    <2>1. k \in Commits /\ k.version = tree[c]
      BY <1>2 DEF R!Commit, Commits
    <2>2. R!Moves(c, Append(local[c], k), tree[c]) /\ tree[c] = R!VersionOf(local[c])
      BY <1>4 DEF R!Work, R!Clean
    <2> HIDE DEF k
    <2> DEFINE h == Append(local[c], k)
    <2>3. /\ h \in Histories /\ h # <<>> /\ h[1] = origin[1]
          /\ Grows(local[c]) => Grows(h)
      BY <1>1, <1>2, <2>1, <2>2, OneMoreCommit
    <2> HIDE DEF h
    <2>4. ~touched => Grows(h)
      BY <2>3 DEF ReleaseInvariant, HistoriesGrow
    <2>5. R!Moves(c, h, tree[c])
      BY <2>2 DEF h
    <2> QED
      BY <1>2, <1>3, <2>3, <2>4, <2>5, MovesKeep
  <1>5. CASE R!Restore(c)
    <2>1. R!Moves(c, local[c], R!VersionOf(local[c]))
      BY <1>5 DEF R!Restore
    <2>2. ~touched => Grows(local[c])
      BY DEF ReleaseInvariant, HistoriesGrow
    <2> QED
      BY <1>1, <1>2, <1>3, <2>1, <2>2, MovesKeep
  <1> QED
    BY <1>4, <1>5

\* What is left of a sequence behind its first n elements.
LEMMA RestMeans ==
  ASSUME NEW S, NEW s \in Seq(S), NEW n \in 0..Len(s)
  PROVE  LET rest == SubSeq(s, n + 1, Len(s))
         IN  /\ rest \in Seq(S) /\ Len(rest) = Len(s) - n
             /\ \A i \in 1..(Len(s) - n) : rest[i] = s[n + i]
  <1>1. Len(s) \in Nat
    BY LenProperties
  <1>2. \A i \in (n + 1)..Len(s) : s[i] \in S
    BY <1>1, ElementOfSeq
  <1> DEFINE rest == SubSeq(s, n + 1, Len(s))
  <1>3. /\ rest \in Seq(S)
        /\ Len(rest) = IF n + 1 <= Len(s) THEN Len(s) - (n + 1) + 1 ELSE 0
        /\ \A i \in 1..(Len(s) - (n + 1) + 1) : rest[i] = s[n + 1 + i - 1]
    BY <1>1, <1>2, SubSeqProperties
  <1> HIDE DEF rest
  <1>4. /\ rest \in Seq(S) /\ Len(rest) = Len(s) - n
        /\ \A i \in 1..(Len(s) - n) : rest[i] = s[n + i]
    BY <1>1, <1>3
  <1> QED
    BY <1>4 DEF rest

\* Commits that are put on top of main, whose version is that of their base, are in order.
LEMMA RebaseInOrder ==
  ASSUME NEW h \in Histories, NEW o \in Histories, o # <<>>,
         NEW n \in 1..Len(h), h[n].version = R!VersionOf(o),
         NEW mine \in Histories, Len(mine) = Len(h) - n,
         \A i \in 1..(Len(h) - n) : mine[i] = h[n + i]
  PROVE  /\ o \o mine \in Histories /\ o \o mine # <<>> /\ (o \o mine)[1] = o[1]
         /\ Grows(h) /\ Grows(o) => Grows(o \o mine)
  <1>1. Len(h) \in Nat /\ Len(o) \in Nat \ {0} /\ o[Len(o)].version = h[n].version
    BY EmptySeq DEF Histories, R!VersionOf, R!Last
  <1> DEFINE g == o \o mine
  <1>4. /\ g \in Histories /\ Len(g) = Len(o) + Len(mine)
        /\ \A i \in 1..(Len(o) + Len(mine)) :
             g[i] = IF i <= Len(o) THEN o[i] ELSE mine[i - Len(o)]
    BY ConcatProperties DEF Histories
  <1> HIDE DEF g
  <1>5. g # <<>> /\ g[1] = o[1]
    BY <1>1, <1>4
  <1>6. ASSUME Grows(h), Grows(o), NEW i \in 1..(Len(g) - 1)
        PROVE  g[i].version <= g[i + 1].version
    <2>1. CASE i < Len(o)
      <3>1. /\ i \in 1..(Len(o) - 1) /\ i <= Len(o) /\ i + 1 <= Len(o)
            /\ i \in 1..(Len(o) + Len(mine)) /\ i + 1 \in 1..(Len(o) + Len(mine))
        BY <2>1, <1>1, <1>4
      <3>2. g[i] = o[i] /\ g[i + 1] = o[i + 1]
        BY <3>1, <1>4
      <3> QED
        BY <3>1, <3>2, <1>6 DEF Grows
    <2>2. CASE i = Len(o)
      <3>1. n \in 1..(Len(h) - 1) /\ g[i + 1] = h[n + 1] /\ g[i] = o[Len(o)]
        BY <2>2, <1>1, <1>4
      <3> QED
        BY <3>1, <1>1, <1>6 DEF Grows
    <2>3. CASE i > Len(o)
      <3> DEFINE j == n + (i - Len(o))
      <3>1. /\ i - Len(o) \in 1..(Len(h) - n) /\ (i + 1) - Len(o) \in 1..(Len(h) - n)
            /\ i \in 1..(Len(o) + Len(mine)) /\ i + 1 \in 1..(Len(o) + Len(mine))
            /\ ~(i <= Len(o)) /\ ~(i + 1 <= Len(o))
        BY <2>3, <1>1, <1>4
      <3>2. /\ g[i] = mine[i - Len(o)] /\ g[i + 1] = mine[(i + 1) - Len(o)]
        BY <3>1, <1>4
      <3>3. /\ mine[i - Len(o)] = h[n + (i - Len(o))]
            /\ mine[(i + 1) - Len(o)] = h[n + ((i + 1) - Len(o))]
        BY <3>1
      <3>4. j \in 1..(Len(h) - 1) /\ g[i] = h[j] /\ g[i + 1] = h[j + 1]
        BY <3>1, <3>2, <3>3, <1>1
      <3> QED
        BY <3>4, <1>6 DEF Grows
    <2> QED
      BY <2>1, <2>2, <2>3, <1>1
  <1>7. Grows(h) /\ Grows(o) => Grows(g)
    BY <1>6 DEF Grows
  <1> QED
    BY <1>4, <1>5, <1>7 DEF g

\* A pull takes main, or puts the checkout's commits on top of it.
LEMMA PullKeeps ==
  ASSUME ReleaseInvariant, NEW c \in Clones, R!Pull(c)
  PROVE  ReleaseInvariant'
  <1> DEFINE base == R!LongestCommonPrefix({local[c], origin})
             mine == SubSeq(local[c], Len(base) + 1, Len(local[c]))
  <1>1. ReleaseTyped /\ local[c] \in Histories /\ origin \in Histories
        /\ local[c] # <<>> /\ origin # <<>> /\ local[c][1] = origin[1]
    BY DEF ReleaseInvariant, ReleaseTyped, OneRoot
  <1>2. R!VersionOf(origin) \in Nat /\ tree[c] \in Nat
    BY <1>1, VersionsAreNumbers DEF ReleaseTyped
  <1>3. /\ UNCHANGED <<origin, tags, step, new, checked>>
        /\ localTags' = [localTags EXCEPT ![c] = R!WithTagsOf(@, tags)]
        /\ \/ R!Moves(c, origin, R!VersionOf(origin))
           \/ R!VersionOf(base) = R!VersionOf(origin) /\ R!Moves(c, origin \o mine, tree[c])
    BY DEF R!Pull, R!remote, R!script
  <1>4. CASE R!Moves(c, origin, R!VersionOf(origin))
    <2>1. ~touched => Grows(origin)
      BY DEF ReleaseInvariant, HistoriesGrow
    <2> QED
      BY <1>1, <1>2, <1>3, <1>4, <2>1, MovesKeep
  <1>5. CASE R!VersionOf(base) = R!VersionOf(origin) /\ R!Moves(c, origin \o mine, tree[c])
    <2> DEFINE h == origin \o mine
    <2>1. /\ base \in Histories /\ Len(base) \in 1..Len(local[c])
          /\ \A i \in 1..Len(base) : base[i] = local[c][i]
      BY <1>1, CommonPrefix DEF Histories
    <2> HIDE DEF base
    <2>2. local[c][Len(base)].version = R!VersionOf(origin)
      BY <1>5, <2>1 DEF R!VersionOf, R!Last
    <2>3. /\ mine \in Histories /\ Len(mine) = Len(local[c]) - Len(base)
          /\ \A i \in 1..(Len(local[c]) - Len(base)) : mine[i] = local[c][Len(base) + i]
      <3>1. Len(base) \in 0..Len(local[c]) /\ local[c] \in Seq(Commits)
        BY <1>1, <2>1 DEF Histories
      <3> QED
        BY <3>1, RestMeans DEF Histories
    <2> HIDE DEF mine
    <2>6. /\ h \in Histories /\ h # <<>> /\ h[1] = origin[1]
          /\ Grows(local[c]) /\ Grows(origin) => Grows(h)
      BY <1>1, <2>1, <2>2, <2>3, RebaseInOrder
    <2> HIDE DEF h
    <2>4. ~touched => Grows(h)
      BY <2>6 DEF ReleaseInvariant, HistoriesGrow
    <2>5. R!Moves(c, h, tree[c])
      BY <1>5 DEF h
    <2> QED
      BY <1>2, <1>3, <2>6, <2>4, <2>5, MovesKeep
  <1> QED
    BY <1>3, <1>4, <1>5

-----------------------------------------------------------------------------
\* No command of a maintainer, and no failure of the script, disturbs the invariant.
LEMMA ReleaseStepKeeps ==
  ReleaseInvariant /\ [R!ReleaseNext]_R!releaseVars => ReleaseInvariant'
  <1> SUFFICES ASSUME ReleaseInvariant, [R!ReleaseNext]_R!releaseVars PROVE ReleaseInvariant'
    OBVIOUS
  <1>1. CASE UNCHANGED R!releaseVars
    BY <1>1
       DEF R!releaseVars, R!remote, R!clone, R!script, ReleaseInvariant, ReleaseTyped, OneRoot,
           TagsName, Names, RunIsReal,
                HistoriesGrow, TagsAreTested, RunIsAlone, R!Clean, R!Versions
  <1>2. CASE R!ReleaseNext
    <2>1. PICK c \in Clones :
            \/ R!ReadVersion(c) \/ R!Check(c) \/ R!SetVersion(c) \/ R!CommitVersion(c)
            \/ R!PushMain(c) \/ R!Tag(c) \/ R!PushTag(c) \/ R!Stops(c)
            \/ R!Work(c) \/ R!Restore(c) \/ R!Pull(c) \/ R!Push(c)
      BY <1>2 DEF R!ReleaseNext
    <2> QED
      BY <2>1, RunsBeginAndEnd, CheckKeeps, SetVersionKeeps, CommitVersionKeeps, PushMainKeeps,
         TagKeeps, PushTagKeeps, WorkKeeps, PullKeeps, PushKeeps
  <1> QED
    BY <1>1, <1>2

\* The invariant is inductive: what a tag names, how far a script has come, and what is
\* tested and in order while nobody changes a checkout under it.
THEOREM ReleaseInvariantHolds == R!ReleaseSpec => []ReleaseInvariant
  BY ReleaseStarts, ReleaseStepKeeps, PTL DEF R!ReleaseSpec

\* The invariant is what makes releases orderly.
LEMMA InvariantIsOrderly == ReleaseInvariant => R!ReleasesAreOrderly
  <1> SUFFICES ASSUME ReleaseInvariant PROVE R!ReleasesAreOrderly
    OBVIOUS
  <1>1. R!TagsNameReleases
    BY DEF ReleaseInvariant, TagsName, Names, R!TagsNameReleases, R!Released
  <1>2. ASSUME ~touched PROVE R!ReleasesAreTested /\ R!VersionsGrow
    <2>1. R!ReleasesAreTested
      BY <1>2 DEF ReleaseInvariant, TagsAreTested, Tested, R!ReleasesAreTested, R!Released
    <2>2. R!VersionsGrow
      BY <1>2 DEF ReleaseInvariant, HistoriesGrow, Grows, R!VersionsGrow
    <2> QED
      BY <2>1, <2>2
  <1> QED
    BY <1>1, <1>2 DEF R!ReleasesAreOrderly

\* With any number of maintainers, and whatever fails between two of the script's
\* commands: a tag on the remote names a commit of main with its version; and where a
\* checkout is left alone while the script runs in it, that commit is tested and the
\* version of main never falls.
THEOREM ReleasesStayOrderly == R!ReleaseSpec => []R!ReleasesAreOrderly
  BY ReleaseInvariantHolds, InvariantIsOrderly, PTL

\* The same of the two tools side by side, as the run checks them.
THEOREM ToolsStayOrderly == ToolsSpec => [](InstallKeepsFaith /\ ReleasesAreOrderly)
  <1> DEFINE Inv == InstallInvariant /\ ReleaseInvariant
  <1>1. ToolsInit => Inv
    BY InitInstalls, ReleaseStarts DEF ToolsInit
  <1>2. Inv /\ [ToolsNext]_<<tool, installVars, releaseVars>> => Inv'
    <2> SUFFICES ASSUME Inv, [ToolsNext]_<<tool, installVars, releaseVars>> PROVE Inv'
      OBVIOUS
    <2>1. [InstallNext]_installVars
      BY DEF ToolsNext
    <2>2. [R!ReleaseNext]_R!releaseVars
      BY DEF ToolsNext, releaseVars, R!releaseVars, R!remote, R!clone, R!script
    <2> QED
      BY <2>1, <2>2, StepInstalls, ReleaseStepKeeps
  <1>3. Inv => InstallKeepsFaith /\ ReleasesAreOrderly
    BY InvariantKeepsFaith, InvariantIsOrderly DEF ReleasesAreOrderly
  <1> QED
    BY <1>1, <1>2, <1>3, PTL DEF ToolsSpec
=============================================================================
