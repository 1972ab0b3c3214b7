------------------------------- MODULE BuildLoop -------------------------------
(***************************************************************************)
(* `hldspec start` and the Build Loop triggers of `hldspec continue`        *)
(* (scripts/hldspec_agent_session.py): prereqs, init and ready bring a      *)
(* target to READY_FOR_SPECIFY.  A run copies the source HLD, builds the    *)
(* source package and its mirror under .specify/, asks git, readiness,      *)
(* freshness and approval, and writes its verdict as the stage the next run *)
(* starts from.  People edit, commit, install, approve and start again at   *)
(* any time, SpecKit writes its phases, and runs die.                       *)
(***************************************************************************)
EXTENDS Naturals

CONSTANTS
  Texts,      \* what an HLD may say
  Habits,     \* a subset of {"careful", "any"}: how people use the tool
  None, Torn,
  MaxEdits,   \* bound: changes that people make to HLD, source and target
  MaxCrashes  \* bound: runs that die

ASSUME HabitsAssumption == Habits \subseteq {"careful", "any"}
ASSUME TextsAssumption == Texts # {}
ASSUME BoundsAssumption ==
  MaxEdits \in Nat /\ MaxCrashes \in Nat /\ None # Torn /\ {None, Torn} \cap Texts = {}

Triggers == {"check", "prereqs", "init", "ready"}

\* PROJECT_NON_BLOCKING_STAGES; ACTIVE stands for the four of SpecKit's phases.
NonBlocking ==
  {"INIT_PREREQS_READY", "WORKSPACE_INITIALIZED", "MIRROR_SYNCED", "READY_FOR_SPECIFY", "ACTIVE"}

\* The other stages, the unrecognised ones of the operator state as REASSESSMENT_REQUIRED.
Blocking ==
  {"HLD_READY", "SOURCE_FRESHNESS_BLOCKED", "INIT_PREREQS_BLOCKED", "BUILD_LOOP_INIT_BLOCKED",
   "BLOCKED", "SPECKIT_APPROVAL_GATE_BLOCKED", "REASSESSMENT_REQUIRED"}

VARIABLES
  source,    \* the user's HLD
  raw,       \* targetHLD/raw/HLD.raw.md
  working,   \* targetHLD/HLD.md
  package,   \* the text the source package is built from
  mirror,    \* that of .specify/source/
  record,    \* source_freshness.json: blocking or not
  trigger,   \* agent_session.json
  plan,      \* session_plan.json with its approval, and the reports the gate asks for
  state,     \* hldspec_state.json: the stage and whether it has staleness warnings
  dirty,     \* git status lists something
  ignored,   \* .specify/source/ is in .gitignore
  env,       \* git, a branch and a SpecKit command
  policy,    \* a branch policy
  init,      \* .specify/memory/
  specs,     \* the phases SpecKit has written
  queue,     \* a bundle or invocation queue says which features its specs are of
  bound,     \* the branch goes with the spec directories
  pc, cmd,   \* what the running command does next, and which it is
  calm,      \* the HLDs have not changed while it ran
  habit, edits, crashes

hlds == <<source, raw, working>>
control == <<record, trigger, plan, state>>
speckit == <<specs, queue, bound>>
target == <<dirty, ignored, env, policy, init, speckit>>
bounds == <<habit, edits, crashes>>
vars == <<hlds, package, mirror, control, target, pc, cmd, calm, bounds>>

\* Which text comes first does not matter.
Init ==
  /\ source = (CHOOSE t \in Texts : TRUE) /\ raw = None /\ working = None /\ package = None /\ mirror = None
  /\ record = None /\ trigger = None /\ plan = None /\ state = None
  /\ dirty = FALSE /\ ignored \in BOOLEAN /\ env \in BOOLEAN
  /\ policy = FALSE /\ init = FALSE /\ specs = "none" /\ queue = FALSE /\ bound = TRUE
  /\ pc = "idle" /\ cmd = None /\ calm = TRUE
  /\ habit \in Habits /\ edits = 0 /\ crashes = 0

-----------------------------------------------------------------------------
(***************************************************************************)
(* What the reports say.                                                   *)
(***************************************************************************)
\* build_source_freshness.
StaleWith(r, w) == (r # None /\ r # source) \/ w # source
Stale == StaleWith(raw, working)
Freshness(stale) == IF stale THEN "blocking" ELSE "fresh"

\* build_target_discovery of a target that holds what the tools have written: content
\* without a session or a package has no lineage, and a package whose metadata does not
\* parse takes it away.
Lineage == package # Torn /\ (trigger # None \/ package # None)
UnknownBrownfield == (init \/ specs # "none") /\ ~Lineage

\* build_phase_ledger; an artifact is stale when the freshness record, as it was last
\* written, says that the HLD is.
PhasesSafe == specs = "none" \/ (specs = "verified" /\ record # "blocking")
ContinueBlocked == UnknownBrownfield \/ package = Torn \/ ~PhasesSafe

\* build_speckit_init_prereq_report.
Prereqs == env /\ ~dirty

\* _project_checkpoint_gate.
CheckpointBlocks == state # None /\ (state.stage \in Blocking \/ state.stale)

\* NO_BUNDLES of build_execution_state: SpecKit's files are there and no queue has a place
\* for them.
Unmapped == specs # "none" /\ ~queue

\* build_speckit_operator_state_report and the preflight of the session; whatever is
\* missing in git, package, workspace or branch policy, or wrong with the branch, has a
\* stage of its own.
OperatorState ==
  IF ~PhasesSafe THEN "REASSESSMENT_REQUIRED"
  ELSE IF Stale THEN "SOURCE_FRESHNESS_BLOCKED"
  ELSE IF CheckpointBlocks THEN "BLOCKED"
  ELSE IF ~env \/ dirty \/ package = None \/ ~init \/ mirror = None \/ ~policy \/ ~bound
    THEN "REASSESSMENT_REQUIRED"
  ELSE IF Unmapped THEN "REASSESSMENT_REQUIRED"
  ELSE IF specs # "none" THEN "ACTIVE"
  ELSE IF plan = "open" THEN "SPECKIT_APPROVAL_GATE_BLOCKED"
  ELSE "READY_FOR_SPECIFY"

InitState ==
  IF ~init THEN "BUILD_LOOP_INIT_BLOCKED"
  ELSE IF mirror = None THEN "WORKSPACE_INITIALIZED" ELSE "MIRROR_SYNCED"

\* _write_workflow_state: the warnings are those of the moment it writes.
Writes(stage) == state' = [stage |-> stage, stale |-> Stale] /\ record' = Freshness(Stale)

-----------------------------------------------------------------------------
(***************************************************************************)
(* How careful people use it: in the documented order, and only when what   *)
(* the next command asks for is there.                                      *)
(***************************************************************************)
Usable == state # None /\ ~CheckpointBlocks
Prepared == init /\ mirror # None /\ Usable

\* There is something that only a start brings about.
StartHelps ==
  \/ trigger = None \/ plan = None \/ package = None \/ raw # source
  \/ trigger = "ready" /\ ~Prepared
  \/ trigger # "ready" /\ Prepared

MayStart == habit = "careful" => StartHelps
MayChoose(t) == habit = "careful" => t = IF Prepared THEN "ready" ELSE "init"
MayContinue ==
  habit = "careful" => /\ ~StartHelps /\ Prereqs /\ ~Stale
                       /\ trigger = "ready" => policy /\ plan = "approved"

-----------------------------------------------------------------------------
(***************************************************************************)
(* The package, built by both commands.                                    *)
(***************************************************************************)
\* With a package that is there being kept.
BuildIfMissing ==
  /\ pc = "build"
  /\ package' = IF package \in Texts THEN package ELSE working
  /\ pc' = IF init THEN "mirror" ELSE "idle"
  /\ UNCHANGED <<hlds, mirror, control, target, cmd, calm, bounds>>

\* Without the mirror.
BuildWithoutMirror ==
  /\ pc = "build"
  /\ package' = working
  /\ pc' = IF cmd = "start" THEN "idle" ELSE "report"
  /\ UNCHANGED <<hlds, mirror, control, target, cmd, calm, bounds>>

\* build_source_package_content from the working HLD.
Build ==
  /\ pc = "build"
  /\ package' = working
  /\ pc' = IF init THEN "mirror" ELSE "idle"
  /\ UNCHANGED <<hlds, mirror, control, target, cmd, calm, bounds>>

\* materialize_specify_mirror.  Its manifest has the hash of a file with the time of the
\* build, so that git sees a mirror it tracks as changed.
Mirror ==
  /\ pc = "mirror"
  /\ mirror' = package
  /\ dirty' = (dirty \/ ~ignored)
  /\ pc' = IF cmd = "start" THEN "idle" ELSE "report"
  /\ UNCHANGED <<hlds, package, control, ignored, env, policy, init, speckit, cmd, calm, bounds>>

-----------------------------------------------------------------------------
(***************************************************************************)
(* start.                                                                  *)
(***************************************************************************)
\* copy_source, and the freshness record; the working copy is only made once.
StartCopies ==
  /\ pc = "idle" /\ MayStart /\ ~UnknownBrownfield
  /\ raw' = source
  /\ working' = IF working = None THEN source ELSE working
  /\ record' = Freshness(StaleWith(raw', working'))
  /\ dirty' = (dirty \/ raw # source)
  /\ pc' = "start_init" /\ cmd' = "start"
  /\ UNCHANGED <<source, package, mirror, trigger, plan, state, ignored, env, policy, init,
                 speckit, calm, bounds>>

\* plan_or_init_workspace, which runs SpecKit with --execute.
StartInits ==
  /\ pc = "start_init"
  /\ init' \in {init} \cup {env}
  /\ init => init'
  /\ dirty' = (dirty \/ init' # init)
  /\ pc' = "session"
  /\ UNCHANGED <<hlds, package, mirror, control, ignored, env, policy, speckit, cmd, calm, bounds>>

WritesSession ==
  /\ pc = "session"
  /\ \E t \in Triggers : MayChoose(t) /\ trigger' = t
  /\ pc' = "plan"
  /\ UNCHANGED <<hlds, package, mirror, record, plan, state, target, cmd, calm, bounds>>

\* write_session_artifacts: the plan is a new one, without approvals.
WritesPlan ==
  /\ pc = "plan"
  /\ plan' = "open"
  /\ pc' = "build"
  /\ UNCHANGED <<hlds, package, mirror, record, trigger, state, target, cmd, calm, bounds>>

-----------------------------------------------------------------------------
(***************************************************************************)
(* continue.                                                               *)
(***************************************************************************)
\* The checks a run begins with; "init" is where SpecKit's workspace comes next.
Begin(next) ==
  /\ pc = "idle" /\ trigger # None /\ MayContinue /\ ~ContinueBlocked
  /\ pc' = next /\ cmd' = "continue" /\ calm' = TRUE
  /\ UNCHANGED <<hlds, package, mirror, trigger, plan, target, bounds>>

\* run_workflow_trigger up to what it refuses, and the prereqs run; check HLD is the
\* project pipeline's, of which only the stage matters here.
Refuses ==
  /\ Begin("idle")
  /\ \/ trigger = "check" /\ Writes("HLD_READY")
     \/ trigger # "check" /\ Stale /\ Writes("SOURCE_FRESHNESS_BLOCKED")
     \/ trigger # "check" /\ ~Stale /\ ~Prereqs /\ Writes("INIT_PREREQS_BLOCKED")
     \/ trigger = "prereqs" /\ ~Stale /\ Prereqs /\ Writes("INIT_PREREQS_READY")

GoesOn ==
  /\ Begin("init")
  /\ trigger \in {"init", "ready"} /\ ~Stale /\ Prereqs
  /\ record' = "fresh" /\ UNCHANGED state

\* plan_or_init_workspace with execute; the command may fail.
InitWorkspace ==
  /\ pc = "init"
  /\ init' \in {init} \cup {env}
  /\ init => init'
  /\ dirty' = (dirty \/ init' # init)
  /\ pc' = IF init' /\ working # None THEN "build" ELSE "report"
  /\ UNCHANGED <<hlds, package, mirror, control, ignored, env, policy, speckit, cmd, calm, bounds>>

\* The verdict is written for the next run.
Report ==
  /\ pc = "report"
  /\ Writes(IF trigger = "init" THEN InitState ELSE OperatorState)
  /\ pc' = "idle"
  /\ UNCHANGED <<hlds, package, mirror, trigger, plan, target, cmd, calm, bounds>>

\* status recomputes the freshness record too.
Status ==
  /\ pc = "idle" /\ trigger # None
  /\ record' = Freshness(Stale)
  /\ UNCHANGED <<hlds, package, mirror, trigger, plan, state, target, pc, cmd, calm, bounds>>

\* A run dies; one that builds the package may leave its metadata torn.
Crash ==
  /\ pc # "idle" /\ crashes < MaxCrashes
  /\ crashes' = crashes + 1
  /\ package' \in IF pc = "build" THEN {package, Torn, working} ELSE {package}
  /\ pc' = "idle"
  /\ UNCHANGED <<hlds, mirror, control, target, cmd, calm, habit, edits>>

-----------------------------------------------------------------------------
(***************************************************************************)
(* People and SpecKit.                                                     *)
(***************************************************************************)
EditSource(t) ==
  /\ edits < MaxEdits /\ edits' = edits + 1
  /\ source' = t /\ t # source
  /\ calm' = FALSE
  /\ UNCHANGED <<raw, working, package, mirror, control, target, pc, cmd, habit, crashes>>

EditWorking(t) ==
  /\ edits < MaxEdits /\ edits' = edits + 1
  /\ working \notin {None, t} /\ working' = t
  /\ dirty' = TRUE /\ calm' = FALSE
  /\ UNCHANGED <<source, raw, package, mirror, control, ignored, env, policy, init, speckit,
                 pc, cmd, habit, crashes>>

ChangeTarget ==
  /\ edits < MaxEdits /\ edits' = edits + 1
  /\ dirty' = TRUE
  /\ UNCHANGED <<hlds, package, mirror, control, ignored, env, policy, init, speckit, pc, cmd,
                 calm, habit, crashes>>

\* The working HLD is brought to what the source says.
Reconcile ==
  /\ working \notin {None, source} /\ working' = source
  /\ dirty' = TRUE /\ calm' = FALSE
  /\ UNCHANGED <<source, raw, package, mirror, control, ignored, env, policy, init, speckit,
                 pc, cmd, bounds>>

Commit ==
  /\ env /\ dirty /\ dirty' = FALSE
  /\ UNCHANGED <<hlds, package, mirror, control, ignored, env, policy, init, speckit, pc, cmd,
                 calm, bounds>>

Install ==
  /\ ~env /\ env' = TRUE
  /\ UNCHANGED <<hlds, package, mirror, control, dirty, ignored, policy, init, speckit, pc, cmd,
                 calm, bounds>>

AddPolicy ==
  /\ init /\ ~policy /\ policy' = TRUE
  /\ dirty' = TRUE
  /\ UNCHANGED <<hlds, package, mirror, control, ignored, env, init, speckit, pc, cmd, calm,
                 bounds>>

\* Context receipt, phase report and the approval in the plan.
Approve ==
  /\ pc = "idle" /\ plan = "open" /\ package \in Texts
  /\ plan' = "approved"
  /\ UNCHANGED <<hlds, package, mirror, record, trigger, state, target, pc, cmd, calm, bounds>>

\* What keeps discovery from going on is removed by hand: a torn package, or the
\* workspace of a start that died before it had a session.
CleanUp ==
  /\ pc = "idle" /\ (package = Torn \/ UnknownBrownfield)
  /\ package' = IF package = Torn THEN None ELSE package
  /\ IF package = Torn \/ Lineage THEN UNCHANGED <<init, specs, bound, mirror>>
     ELSE init' = FALSE /\ specs' = "none" /\ bound' = TRUE /\ mirror' = None
  /\ UNCHANGED <<hlds, control, dirty, ignored, env, policy, queue, pc, cmd, calm, bounds>>

\* SpecKit writes the artifacts of a phase, and they are validated.
SpecKitPhase ==
  /\ pc = "idle" /\ state # None /\ state.stage \in {"READY_FOR_SPECIFY", "ACTIVE"}
  /\ specs # "unverified" /\ specs' = "unverified" /\ dirty' = TRUE
  /\ UNCHANGED <<hlds, package, mirror, control, ignored, env, policy, init, queue, bound,
                 pc, cmd, calm, bounds>>

Validate ==
  /\ specs = "unverified" /\ specs' = "verified"
  /\ UNCHANGED <<hlds, package, mirror, control, dirty, ignored, env, policy, init, queue,
                 bound, pc, cmd, calm, bounds>>

\* The prework (check HLD and the project pipeline) makes the queue; neither start nor the
\* Build Loop does.
MakeQueue ==
  /\ working # None /\ ~queue /\ queue' = TRUE
  /\ UNCHANGED <<hlds, package, mirror, control, dirty, ignored, env, policy, init, specs,
                 bound, pc, cmd, calm, bounds>>

\* Somebody switches to a branch the spec directories are not of, loses its spec.md or
\* copies the files of another one: build_speckit_branch_gate_report blocks.
LeaveBranch ==
  /\ edits < MaxEdits /\ edits' = edits + 1
  /\ specs # "none" /\ bound /\ bound' = FALSE
  /\ UNCHANGED <<hlds, package, mirror, control, dirty, ignored, env, policy, init, specs,
                 queue, pc, cmd, calm, habit, crashes>>

\* What it advises; NextFeature has the branches and their cards one by one.
ReturnToBranch ==
  /\ ~bound /\ bound' = TRUE
  /\ UNCHANGED <<hlds, package, mirror, control, dirty, ignored, env, policy, init, specs,
                 queue, pc, cmd, calm, bounds>>

StartStep == StartInits \/ WritesSession \/ WritesPlan
Step == StartStep \/ InitWorkspace \/ Build \/ Mirror \/ Report

Next ==
  \/ StartCopies \/ StartStep
  \/ Refuses \/ GoesOn \/ InitWorkspace \/ Build \/ Mirror \/ Report \/ Status \/ Crash
  \/ \E t \in Texts : EditSource(t) \/ EditWorking(t)
  \/ ChangeTarget \/ Reconcile \/ Commit \/ Install \/ AddPolicy \/ Approve \/ CleanUp
  \/ SpecKitPhase \/ Validate \/ MakeQueue \/ LeaveBranch \/ ReturnToBranch

Spec == Init /\ [][Next]_vars

\* Runs end; people repair, approve and continue whenever they may, and careful ones
\* start again when it helps; the prework gets its queue made; SpecKit's initialisation
\* succeeds some time.
FairSpec ==
  /\ Spec
  /\ WF_vars(Step) /\ SF_vars(InitWorkspace /\ init')
  /\ SF_vars(StartCopies /\ (habit = "careful" \/ trigger = None)) /\ SF_vars(Refuses \/ GoesOn)
  /\ WF_vars(Reconcile) /\ WF_vars(Commit) /\ WF_vars(Install) /\ WF_vars(AddPolicy)
  /\ SF_vars(Approve) /\ SF_vars(Status) /\ SF_vars(CleanUp) /\ WF_vars(Validate)
  /\ WF_vars(MakeQueue) /\ WF_vars(ReturnToBranch)

-----------------------------------------------------------------------------
TextsOK ==
  /\ source \in Texts /\ raw \in Texts \cup {None} /\ working \in Texts \cup {None}
  /\ package \in Texts \cup {None, Torn} /\ mirror \in Texts \cup {None}
  /\ pc = "mirror" => package # Torn
ControlOK ==
  /\ record \in {None, "blocking", "fresh"} /\ trigger \in Triggers \cup {None}
  /\ plan \in {None, "open", "approved"}
  /\ state = None \/ state \in [stage : Blocking \cup NonBlocking, stale : BOOLEAN]
TargetOK ==
  /\ dirty \in BOOLEAN /\ ignored \in BOOLEAN /\ env \in BOOLEAN
  /\ policy \in BOOLEAN /\ init \in BOOLEAN /\ specs \in {"none", "unverified", "verified"}
  /\ queue \in BOOLEAN /\ bound \in BOOLEAN
CommandOK ==
  /\ pc \in {"idle", "start_init", "session", "plan", "build", "mirror", "init", "report"}
  /\ cmd \in {None, "start", "continue"} /\ calm \in BOOLEAN
  /\ habit \in Habits /\ edits \in 0..MaxEdits /\ crashes \in 0..MaxCrashes

\* The type invariant.
TypeOK == TextsOK /\ ControlOK /\ TargetOK /\ CommandOK

\* READY_FOR_SPECIFY, or a phase that may go on, is only told of a package and a mirror
\* that say what the user's HLD says, after any edits, half-made starts and builds that
\* died, unless somebody changed an HLD in the middle of the run.
ReadyIsCurrent ==
  [][ pc = "report" /\ state' # None /\ state'.stage \in {"READY_FOR_SPECIFY", "ACTIVE"}
        /\ pc' = "idle" /\ crashes' = crashes /\ calm =>
      package = source /\ mirror = source ]_vars

\* The target is ready for SpecKit, or SpecKit is at work, on the HLD as it is.
Settled ==
  /\ state # None /\ state.stage \in {"READY_FOR_SPECIFY", "ACTIVE"} /\ ~state.stale
  /\ package = source /\ mirror = source /\ ~Stale

\* Careful people who keep the mirror out of git, have the prework make the queue and go
\* back to the branch of their specs get there, and back there after every edit, every
\* switch of branches and every run that died.
CarefulPeopleGetReady == habit = "careful" /\ ignored => []<>Settled
=============================================================================
