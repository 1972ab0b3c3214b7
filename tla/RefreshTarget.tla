----------------------------- MODULE RefreshTarget -----------------------------
(***************************************************************************)
(* hldspec_refresh_target.py: the only tool that writes into a target's    *)
(* support files.  An apply plans first, then writes the agents' bootstrap,*)
(* the run card, the vendored runtime and the managed block of the         *)
(* constitution, one file after the other; an adoption puts the block on   *)
(* top of a constitution that has none.  People own what is outside the    *)
(* block and edit it at any time; a run may die with a file half written,  *)
(* and the tool itself is upgraded between runs.                           *)
(***************************************************************************)
EXTENDS Naturals, SequencesExt

CONSTANTS
  Rules,       \* what people write into the constitution
  None, Broken,
  MaxDeaths, MaxEdits  \* bounds: runs that die, marks that people delete

ASSUME BoundsAssumption == {MaxDeaths, MaxEdits} \subseteq Nat

Versions == {"v1", "v2"}
Marks == {"begin", "end", "note"}
Texts == Seq(Marks \cup Versions \cup Rules)

ASSUME RulesAssumption == Rules \cap (Marks \cup Versions) = {}
ASSUME NoneAssumption == None \notin Texts

\* A constitution is a sequence of marks, bodies of the block and rules.  The note of the
\* template speaks of the end mark and so contains it.
ManagedBlock(v) == <<"begin", v, "end">>
Template(v) == Append(ManagedBlock(v), "note")

Ends(text) == {i \in DOMAIN text : text[i] \in {"end", "note"}}
Begins(text) == {i \in DOMAIN text : text[i] = "begin"}
First(S) == CHOOSE i \in S : \A j \in S : i <= j

\* _split_managed_block: the block begins with the first begin mark; none: 0.
BlockFirst(text) == IF Begins(text) = {} THEN 0 ELSE First(Begins(text))

\* With the last end mark.
BlockLastOfAll(text) ==
  LET after == {i \in Ends(text) : i > BlockFirst(text)}
  IN IF BlockFirst(text) = 0 \/ after = {} THEN 0 ELSE CHOOSE i \in after : \A j \in after : j <= i

\* The first end mark behind it; none: 0.
BlockLast(text) ==
  LET after == {i \in Ends(text) : i > BlockFirst(text)}
  IN IF BlockFirst(text) = 0 \/ after = {} THEN 0 ELSE First(after)

\* _constitution_marker_state
MarkerState(text) ==
  IF BlockLast(text) # 0 THEN "MANAGED"
  ELSE IF Begins(text) \cup Ends(text) # {} THEN "PARTIAL" ELSE "UNMARKED"

\* refresh_constitution_text
Refreshed(text, v) ==
  SubSeq(text, 1, BlockFirst(text) - 1) \o ManagedBlock(v)
    \o SubSeq(text, BlockLast(text) + 1, Len(text))

-----------------------------------------------------------------------------
VARIABLES
  external,      \* whether the control files are outside of the target
  version,       \* of the tool
  constitution, backup,
  helpers,       \* by which version the other files were written
  step, plan, read,
  told,          \* what the last run ended with
  deaths, edits,
  want,          \* the rules as the people left them
  excused        \* an edit met a run, or a run backed up what a dead run had left

runVars == <<step, plan, read, told>>
refreshVars == <<external, version, constitution, backup, helpers, runVars, deaths, edits, want, excused>>

\* The rules and their order: each with itself and with those behind it.
RulesIn(text) ==
  IF text = None THEN {}
  ELSE {p \in Rules \X Rules : \E i, j \in DOMAIN text : i <= j /\ p = <<text[i], text[j]>>}

TornFrom(text) == Prefixes(text) \ {text}

Helpers == {"agents", "card", "modules", "manifest", "review"}
Steps == {"idle", "agents", "card", "modules", "manifest", "constitution", "backup", "write"}

RefreshInit ==
  /\ external \in BOOLEAN /\ version = "v1"
  /\ constitution \in {None, <<>>} /\ backup = None
  /\ helpers = [f \in Helpers |-> None]
  /\ step = "idle" /\ plan = "none" /\ read = None /\ told = "nothing"
  /\ deaths = 0 /\ edits = 0 /\ want = {} /\ excused = FALSE

EndRun(outcome) == step' = "idle" /\ plan' = "none" /\ read' = None /\ told' = outcome

-----------------------------------------------------------------------------
\* With managed blocks taken for current.
PlannedIfMissing(text) ==
  IF text = None THEN "create"
  ELSE IF MarkerState(text) = "UNMARKED" THEN "review" ELSE "none"

\* _classify_constitution and build_refresh_plan: what an apply will do about it.
Planned(text) ==
  IF text = None THEN "create"
  ELSE CASE MarkerState(text) = "MANAGED" -> "refresh"
         [] MarkerState(text) = "UNMARKED" -> "review"
         [] MarkerState(text) = "PARTIAL" -> "none"

BuildPlan ==
  /\ step = "idle"
  /\ step' = "agents" /\ plan' = Planned(constitution) /\ told' = "nothing"
  /\ UNCHANGED <<external, version, constitution, backup, helpers, read, deaths, edits, want, excused>>

\* Only if it is missing.
WriteHelperIfMissing(file, next) ==
  /\ step = file
  /\ helpers' = IF helpers[file] = None THEN [helpers EXCEPT ![file] = version] ELSE helpers
  /\ IF external /\ file = "agents" THEN EndRun("failed")
     ELSE step' = next /\ UNCHANGED <<plan, read, told>>
  /\ UNCHANGED <<external, version, constitution, backup, deaths, edits, want, excused>>

\* A helper file is written in full, whatever it was; the run fails on the path of one that
\* is not in the target.
WriteHelper(file, next) ==
  /\ step = file
  /\ helpers' = [helpers EXCEPT ![file] = version]
  /\ IF external /\ file = "agents" THEN EndRun("failed")
     ELSE step' = next /\ UNCHANGED <<plan, read, told>>
  /\ UNCHANGED <<external, version, constitution, backup, deaths, edits, want, excused>>

WriteAgents == WriteHelper("agents", "card")
WriteCard == WriteHelper("card", "modules")
WriteModules == WriteHelper("modules", "manifest")
WriteManifest == WriteHelper("manifest", "constitution")

\* The last item of the plan: nothing, a page for a person, a new constitution whether or
\* not there is one by now, or the reading of the one there is.
ApplyConstitution ==
  /\ step = "constitution"
  /\ CASE plan = "none" -> EndRun("applied") /\ UNCHANGED <<constitution, helpers>>
       [] plan = "review" -> /\ helpers' = [helpers EXCEPT !.review = version]
                             /\ EndRun("applied") /\ UNCHANGED constitution
       [] plan = "create" -> constitution' = Template(version) /\ EndRun("applied") /\ UNCHANGED helpers
       [] plan = "refresh" -> /\ read' = constitution /\ step' = "backup"
                              /\ UNCHANGED <<constitution, helpers, plan, told>>
  /\ UNCHANGED <<external, version, backup, deaths, edits, want, excused>>

\* Whatever marks there are.
AdoptAnyway ==
  /\ step = "idle" /\ constitution # None
  /\ step' = "backup" /\ plan' = "adopt" /\ read' = constitution /\ told' = "nothing"
  /\ UNCHANGED <<external, version, constitution, backup, helpers, deaths, edits, want, excused>>

\* adopt_constitution_managed_block: only for a constitution without any mark.
Adopt ==
  /\ step = "idle" /\ constitution # None /\ MarkerState(constitution) = "UNMARKED"
  /\ step' = "backup" /\ plan' = "adopt" /\ read' = constitution /\ told' = "nothing"
  /\ UNCHANGED <<external, version, constitution, backup, helpers, deaths, edits, want, excused>>

\* Something is torn: what a dead run left no longer has the rules of the people.
Spoilt(text) == RulesIn(text) # want

\* The one backup is overwritten; the text that was read need not have its block any more.
WriteBackup ==
  /\ step = "backup"
  /\ backup' = read
  /\ excused' = (excused \/ (deaths > 0 /\ Spoilt(read)))
  /\ IF plan = "refresh" /\ MarkerState(read) # "MANAGED" THEN EndRun("failed")
     ELSE step' = "write" /\ UNCHANGED <<plan, read, told>>
  /\ UNCHANGED <<external, version, constitution, helpers, deaths, edits, want>>

NewText == IF plan = "adopt" THEN ManagedBlock(version) \o read ELSE Refreshed(read, version)

WriteConstitution ==
  /\ step = "write"
  /\ constitution' = NewText
  /\ EndRun(IF plan = "adopt" THEN "adopted" ELSE "applied")
  /\ UNCHANGED <<external, version, backup, helpers, deaths, edits, want, excused>>

\* A run dies: between two writes, or with a file half written.
Die ==
  /\ step # "idle" /\ deaths < MaxDeaths /\ deaths' = deaths + 1
  /\ \/ UNCHANGED <<constitution, backup, helpers>>
     \/ /\ step \in Helpers /\ helpers' = [helpers EXCEPT ![step] = Broken] /\ UNCHANGED <<constitution, backup>>
     \/ /\ step = "constitution" /\ plan = "create"
        /\ constitution' \in TornFrom(Template(version)) /\ UNCHANGED <<backup, helpers>>
     \/ step = "backup" /\ backup' \in TornFrom(read) /\ UNCHANGED <<constitution, helpers>>
     \/ step = "write" /\ constitution' \in TornFrom(NewText) /\ UNCHANGED <<backup, helpers>>
  /\ EndRun("nothing")
  /\ excused' = (excused \/ (step = "backup" /\ Spoilt(read)))
  /\ UNCHANGED <<external, version, edits, want>>

-----------------------------------------------------------------------------
Upgrade ==
  /\ step = "idle" /\ version = "v1" /\ version' = "v2"
  /\ told' = "nothing"
  /\ UNCHANGED <<external, constitution, backup, helpers, step, plan, read, deaths, edits, want, excused>>

\* People write outside the block: behind a begin mark only if an end mark is between.
InBlock(text, i) ==
  \E b \in Begins(text) : \E e \in Ends(text) : b < i /\ i < e /\ b..i \cap Ends(text) = {}

Writes(text) ==
  /\ \A i \in DOMAIN text : text[i] \in Rules => ~ InBlock(text, i)
  /\ constitution' = text /\ want' = RulesIn(text)
  /\ excused' = (excused \/ step # "idle")
  /\ told' = "nothing"
  /\ UNCHANGED <<external, version, backup, helpers, step, plan, read, deaths>>

AddRule(r) ==
  /\ <<r, r>> \notin want /\ ~ Spoilt(constitution)
  /\ LET text == IF constitution = None THEN <<>> ELSE constitution
     IN \E i \in 1..(Len(text) + 1) : Writes(InsertAt(text, i, r))
  /\ UNCHANGED edits

\* A mark goes.
DeleteMark ==
  /\ edits < MaxEdits /\ edits' = edits + 1 /\ constitution # None /\ ~ Spoilt(constitution)
  /\ \E i \in DOMAIN constitution :
       constitution[i] \in Marks /\ Writes(RemoveAt(constitution, i))

\* People put the backup back after a run died.
Restore ==
  /\ Spoilt(constitution) /\ backup # None /\ RulesIn(backup) = want
  /\ Writes(backup) /\ UNCHANGED edits

Tool == \/ WriteAgents \/ WriteCard \/ WriteModules \/ WriteManifest \/ ApplyConstitution
        \/ WriteBackup \/ WriteConstitution

RefreshNext == \/ BuildPlan \/ Adopt \/ Tool \/ Die \/ Upgrade \/ DeleteMark \/ Restore
        \/ \E r \in Rules : AddRule(r)

RefreshSpec == RefreshInit /\ [][RefreshNext]_refreshVars

\* A run that has begun goes on, and the tool is applied again and again.
FairSpec == RefreshSpec /\ WF_refreshVars(Tool) /\ WF_refreshVars(BuildPlan)

-----------------------------------------------------------------------------
\* The type invariant.  No mark and no rule is in the constitution twice: the tool never adds
\* a second block.
RefreshTypeOK ==
  /\ version \in Versions /\ excused \in BOOLEAN /\ deaths \in 0..MaxDeaths /\ edits \in 0..MaxEdits
  /\ external \in BOOLEAN /\ want \subseteq Rules \X Rules
  /\ helpers \in [Helpers -> Versions \cup {None, Broken}]
  /\ \A text \in {constitution, backup, read} :
       text # None => /\ text \in Texts
                      /\ \A i, j \in DOMAIN text : text[i] = text[j] => i = j \/ text[i] \in Versions
  /\ step \in Steps /\ plan \in {"none", "review", "create", "refresh", "adopt"}
  /\ told \in {"nothing", "applied", "adopted", "failed"}

\* What people wrote outside the block is in the constitution, in their order; when a run
\* died it is there or in the backup.  But for people who edit while a run is at work, and
\* for a further run that makes its backup of what a dead one left.
KeepsRules ==
  \/ excused \/ RulesIn(constitution) = want
  \/ deaths > 0 /\ backup # None /\ RulesIn(backup) = want

\* When an apply has ended well every helper is of the tool's version, and so is the
\* block of a constitution that has one.
CurrentBlock(text) == MarkerState(text) = "MANAGED" => text[BlockFirst(text) + 1] = version
HelpersCurrent == \A f \in {"agents", "card", "modules", "manifest"} : helpers[f] = version
AppliedIsCurrent ==
  told = "applied" => HelpersCurrent /\ (excused \/ (constitution # None /\ CurrentBlock(constitution)))

\* Whatever died, runs that are repeated bring a target that has its control files inside
\* up to date, the constitution too unless its marks need a person.
RefreshSettles == <>[](external \/ (HelpersCurrent /\ constitution # None /\ CurrentBlock(constitution)))
=============================================================================
