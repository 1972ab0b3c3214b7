# HLDspec: a TLA+ model

HLDspec turns a high-level design (HLD) into work for SpecKit: it stages a source
package in a target repository, asks people to decide at gates, plans a queue of
features and drives SpecKit through them. There is no server and no database. The
state is a few dozen files under the target's `.hldspec/`, `.specify/`, `specs/` and
`targetHLD/`, and the program is a set of short command-line processes that read
some of these files and write others. What is hard follows from that:

* commands run at the same time as each other, as a person with an editor and as
  an agent, and only the audit log takes a lock;
* a process may die between any two file operations, and most files are written
  with `write_text`, which truncates first;
* a file read earlier (a pointer, a queue, an approval, a hash, a modification time) is
  used later;
* what one run writes as its verdict is what the next run reads as its input;
* some decisions are derived again from the disk at every step, others from a
  remembered place (an index, a fingerprint) that the world can move under.

## Inventory

| Component | State | Operations | Interacts with | What makes it correct |
|---|---|---|---|---|
| Invocation audit log (`speckit_invocation_audit.py`) | one NDJSON file, its lock, three directories | `append_invocation_record` | any number of writers, the OS | the history replays; an acknowledged record is never lost; a torn log is frozen; calls end |
| Externalization and control paths (`run_state.py`, `control_paths.py`, `command_start`) | control directories of the target and of controller roots, the pointer file | start, mirror, point, delete; resolve | every command resolves through the pointer | control state is never lost or split by an interruption |
| Project pipeline (`machines/project.py` and its machines, `project_continue.sh`, `approve_hldspec_prework.py`) | sync directories of three workspaces, the freshness record, the approval | one gated machine after the other | people, build scripts, execution machine | what is reused is current; no gate is passed without its decision |
| Spec planning (`hld_map.py`, `hld_spec_sync.py`, `build_spec_*`, `apply_spec_build_plan_decisions.py`, `spec_bundles.py`) | plan, review, questions, prework, bundles | the scripts of the first run, answers | people who answer, the pipeline's gates | cycles are refused; splitting keeps the order; answering comes to an end |
| Section sync (`hld_spec_sync.py`) | specs and reports of a workspace, the run state | one run per section, resumed, restarted | agents, HLD editors, other runs | what is skipped is done; a rejected output never reaches the workspace |
| Downstream generator (`hld_spec_downstream.py`) | plans and tasks beside the specs, logs and staging directories | a run per phase | agents, other runs | all or nothing; no run exceeds its phase's rights |
| Build loop (`scripts/hldspec_agent_session.py`, `hld_source_package.py`, `speckit_operator_state.py`, `source_freshness.py`, `session_control.py`, `target_discovery.py`) | session, plan with approval, freshness record, workflow state, package and mirror | start, continue with its triggers, status | people, git, SpecKit | ready is only said of what the HLD says; people get ready |
| SpecKit execution machine (`machines/speckit_execution.py`, `speckit_invoker.py`) | `speckit_execution_state.json` | gated and live runs | queue of the prework, people's edits, SpecKit | order of the ritual, no hollow completion |
| Drive loop and derived state (`speckit_drive_loop.py`, `speckit_execution_state.py`, `phase_evidence.py`) | none but the loop's own; the specs on disk | drive, assess, next action | the agent, people, the approval record | goes on only after progress, ends |
| HLD re-sync (`hld_sync.py`) | done ledger, fingerprints, file times | `run_sync` | HLD editors, SpecKit | nothing stale is called verified |
| Next feature ritual (`next_feature_readiness.py`, `speckit_branch_gate.py`, `git_lifecycle.py`) | none of its own: branch, feature directories, evidence file, git | build the run card | people, SpecKit, git, CI | what a card offers is earned; every feature gets merged |
| Target refresh (`refresh_target.py`, `runtime_vendor.py`) | managed block of the constitution, run card, runtime, backup | plan, apply, adopt | people editing the constitution | user text is never lost; targets come up to date |
| Promotion, product QA ledger, backlog, helpers, journeys, rendering, prompts | none, or files nobody else reads | reports and text | read the files above | functions of their input |

`PROJECT.json` lists all components with what is and is not modelled, and the
hazards of the code, each at its line with the properties that cover it.

## Modules

A module's state is what the program keeps on disk, and a running process is a program
counter with what it has read: a step reads or writes one file, so that other
processes, people and crashes come between any two. A file whose writer died has a content
of its own, `Torn` or `Broken`. What people, agents, SpecKit and git do are actions of their own.

**`InvocationLedger`** is the abstract specification of the audit log: per
invocation, a visible stage and the stage a caller was promised. Stages appear
one at a time; a power failure takes back only what was not promised.

**`InvocationAuditLog`** is the writer. `Call` ... `Return` are the steps of
`append_invocation_record`: open or create the three path components, take the
`flock` or run into its deadline, scan and replay the history, write the record in
fragments (`os.write` may be short), fsync the file and the three directories,
release, return. `FailOrCrash` ends a call anywhere. `PowerLoss` keeps what was
synced and any prefix of the rest; a path component whose entry, or that of one
above it, was not synced may vanish with everything below. The file is kept as
the scanner splits it: `lines` and the unterminated `tail`. `Ledger` is the refinement
mapping: the stage of an id is read off the complete lines, the promised stage off the
acknowledged records.

**`InvocationRecord`** is what `validate_invocation_record` admits: bindings, command,
results and outcome of a record as far as they constrain each other.

**`Externalization`** is `command_start` and everybody else. A start stages its
session in the target, builds the package where the pointer says, and with an
external state location mirrors the target to the controller root, writes the
pointer and deletes the local copy, one name at a time; `Crash` between any two
steps may leave the file being written torn. Another command resolves the control
directory in one step (`ToolResolve`) and writes in a later one (`ToolWrite`). A
file's content is the number of the start that wrote it.

**`ProjectPipeline`** is `ProjectMachine.run`: the gated machines from the raw HLD to the
door of SpecKit in either workspace layout, with the scripts of the read-only first run,
the freshness record, the mirror, and people who edit, answer, accept and approve. The prework
gate stops on what is missing, older than its inputs, or refused for its content; which
contents are refused (blockers, REWORK_REQUIRED, a RunSkeptic ACTION or CONFLICT) is the constant
`Rework`, before and after people change the plan. Its two outcomes about engineering guidelines
do not occur: a run makes them anew before it comes to the plan gate
(`_ensure_source_package_guidance`). `project_continue.sh` goes through the same steps in the
legacy layout; what it does beyond the machine is `Rebuild`: with the plan's questions answered
it applies the answers (`EditPlan`) and makes review, prework and package anew in place,
and what people decided stays. `rounds` counts the changes of the plan: in the plan as it is and in
the prework derived from it.

**`HldConversion`** is how the raw text gets its anchors there: headings outside of code
blocks, candidates, the conversion plan, the decision queue and its validation, the
splits, and the text with anchors inserted by line number, which the map then reads
back. A text is the sequence of its lines, of which only the structure is kept.

**`SpecPlanning`** is what those scripts compute: the map with its search for cycles, the
plan with its order and flags, the split of a spec, the review, the questions, the SpecKit
queue, its bundles and their validation. A section that names no specs gets one only when the
classification calls it a candidate (`Candidate`); the others are context and in no spec. The
quality review reads texts as well, and what it finds in them may block or not (`MakeQuality`). The plan is data, so that order and dependencies
can be compared; `MakeMap` ... `Report` are the scripts in turn. The recursion of
`detect_cycles` is unrolled into steps (`Look`) on the path that its call stack is.

**`SectionSync`** is `hld_spec_sync.py` in its map mode, several processes at once:
selection of the sections a target needs, `--resume`, the agent, the trial on a copy, the
application file by file and the read-modify-write of the run state. Trial and final validation
ask for the map too (`Consolidated`): sections that are active without HLD-SPECS, or blocked by or in
conflict with another one, are the constant `Unresolved` and fail every run.

**`Downstream`** is `hld_spec_downstream.py`: command lines with their permissions, the
agent's log, the staged files, the trial, the application and the verdict. Log and
staging directory are named by the second of the start, which two runs may share.

**`BuildLoop`** is `start`, `status` and `continue` with every Build Loop trigger: copies
of the HLD, SpecKit's initialisation, the session and its plan, the package, its mirror
and the verdict of a run that is an input of the next one. The operator state calls specs active
only when a queue says which features they are of (`queue`, made by the prework and by no command
of the loop) and the branch goes with their directories (`bound`, the verdict of the branch gate).

**`SpecKitExecution`** is `SpecKitExecutionMachine`: load the state (`{}` when it is
unreadable, or for a live run of another version), find everything done, step to
the next feature, find a decision, or invoke SpecKit; then write. Load, invocation
and write are separate steps, so that people's decisions (`Decide`), crashes
and a rebuilt queue (`Replan`, between runs) fall in between.

**`SpecKitDriveLoop`** is `run_drive_loop` over the resume point of
`build_execution_state`; agents and people verify and undo phases at any time.

**`HldSync`** is `run_sync` over integer times: editing, reverting, building, changes
of evidence and queue, a sync that reads the HLD in one step and the times in
another, and one that dies and leaves an unreadable ledger.

**`NextFeature`** is the run card of the next feature: the driver reads the branch gate,
the spec directory, the evidence and git one after the other; people, SpecKit, git and CI
take the step a card offers, or do something else.

**`RefreshTarget`** is plan, apply and adopt on a constitution that is a sequence of marks,
bodies and rules, so that finding the managed block is the code's text search.

`MC*` modules give the constants small values. The theorems are in `*Proofs` modules, where
two components with related subjects share one (`SpecKitProofs`, `TargetProofs`, `SyncProofs`,
`PlanningProofs`);
their specifications have names of their own there (`DriveSpec`, `RefreshSpec`, `SyncSpec`, `PlanSpec`).
Definitions named for a deviation (`AcquireSharedLock`, `SkipsPhase`, `BuildIfMissing`...)
and introduced by a comment such as "Without ..." or "With ..." are no part of the
specifications: each is a plausible mistake in the definition after it, and
replacing that definition by it breaks the property it is listed with in
`PROJECT.json`.

## Runs

Every run checks one component with its environment. Where `CHECK_DEADLOCK FALSE` is
given the bounded system stops by design: starts, runs and edits are used up.

| Run | Instance | Shows |
|---|---|---|
| `audit_log` | 2 writers (one scheduled fairly), 6 requests of 2 invocations, 2 fragments per write | `HistoryReplays`, `HistoryIsHonest`, `AckedRecordsSurvive`, `TornLogIsFrozen`, `RefinesLedger`, `EveryCallEnds` |
| `externalization` | 3 starts, 2 sources, 2 records, two other commands | `ExternalStartTakesEffect`, `InterruptionKeepsControl`, `FirstMoveKeepsRecords` |
| `execution` | 2 features, a queue that grows and shrinks, 1 crash, gated and live runs, no states of other versions | `CompleteIsEarned`, `DependencyOrder`, `RepeatsAreCrashes`, `EverythingCompletes` |
| `drive_loop` | 2 specs of 3 phases, several limits | `RunsAreProgress`, `EarlierSpecsDone`, `LoopEnds` |
| `hld_sync` | 2 specs that share a section, 2 texts, times up to 4 | `VerifiedIsFresh`, `StaleSticks` |
| `project_pipeline` | both layouts, source apart or not, 3 contents in 5 texts, one whose prework is refused until its plan is changed, large sections of 4 lines, 1 edit, 1 cut | `ReusedIsCurrent`, `ConversionFits`, `LegacyApprovalFits`, `NewLayoutGetsThrough` |
| `spec_planning` | 3 sections in three families of HLDs, some of them context, and one HLD that is nothing else, bundles of 3 and 5, 1 upset | `CyclesStopPlanning`, `ApprovalFits`, `SplitKeepsOrder`, `PlanTurnsGreen` |
| `section_sync` | 3 sections, one with a text in conflict, budget of 3, 2 runs at a time, 2 upsets | `SkipIsRight`, `WorkspaceStaysValid`, `RunsSettle` |
| `refresh_target` | 2 rules, 2 versions, both kinds of control directory, 1 death, 1 edit | `RefreshTypeOK`, `KeepsRules`, `AppliedIsCurrent`, `RefreshSettles` |
| `downstream` | 2 runs, 2 seconds, 1 failing write, every configuration of `MCConfigs` | `RefusedLeavesNothing`, `TrialDecides`, `OwnRightsOnly` |
| `build_loop` | 2 texts, careful people or any, a queue that comes late, 1 edit or switch of the branch, 1 crash | `ReadyIsCurrent`, `CarefulPeopleGetReady` |
| `next_feature` | 2 features, 2 drafts, 2 upsets | `OffersAreEarned`, `FeaturesGetMerged` |

The bounds are the smallest at which each hazard's story can be told in full. Two writers
are enough for a lock with one holder, since a third one would only repeat what the second
sees; two fragments give a record that is there in part. Three starts are a first move, a
repeated one and one from another source. Two features or specs give an order to break,
and one crash gives every point of a run to restart from. One edit of the HLD gives a plan,
a queue or a record of another text; two versions of the tool give an upgrade. The largest
instance, `build_loop`, has 1.4 million states, `downstream` and `next_feature` some 820
thousand, `section_sync` 732 thousand, `spec_planning` 546 thousand, `audit_log` 162 thousand,
`project_pipeline` 131 thousand from 22 initial states.

What some properties except is written into them, because the code does not give more:

* `VerifiedIsFresh` excepts what was built after its record and before the last edit
  (`BuiltBetween`), and records that are a spec's first, were adopted after the ledger was torn or
  were taken while the HLD was edited: nothing need have been built from their sections.
* `KeepsRules` excepts people who edit while a run is between its read and its write, and a
  run that makes its backup of what a dead one left.
* `ConversionFits` is about a plan of the text as it is, and splits not written by hand. A
  heading below level 2 in front of the first section belongs to none and stays there.
* `LegacyApprovalFits` is about the legacy layout: the package that reaches SpecKit is of the HLD
  that was approved and has all changes of the plan in it. It is not always the package that
  was approved. In the new layout the approval always stays.
* `ApprovalFits` asks for the sections that name specs or are candidates for one, since the plan
  leaves out the others.
* `ReadyIsCurrent` and `OffersAreEarned` except a change in the very run that reports (`calm`):
  the code reads one file after the other.
* `OwnRightsOnly` and its companions in `Downstream` are stated for runs that share a
  second as well; `TrialDecides` and `RefusedLeavesNothing` except those that do
  (`SharesSecond`), which apply what the other one staged.
* `NewLayoutGetsThrough`, `RunsSettle` and `PlanTurnsGreen` name the states from which
  only a person who does something else gets away (`Wedged`, `Stuck`). Among them: a prework
  refused for its content, which a run does not make anew while it counts as up to date; and a
  section of the HLD with a conflict or without its marker, which fails the runs of all others.
* `CarefulPeopleGetReady` is about people who start again when the workflow state of an
  earlier verdict blocks them, on a target whose mirror git does not track. They have the prework
  make the queue and go back to the branch of their specs, as the operator state tells them to.

## Fairness

Fairness is stated for what somebody repeats or a scheduler runs, never for crashes,
edits or errors.

* `InvocationAuditLog`: a responsive writer takes its steps (WF), and its deadline passes
  while another holds the lock. The other writer owes nothing.
* `SpecKitExecution`: a run goes on and is started again (WF); SpecKit's work is verified
  infinitely often when it is tried infinitely often (SF).
* `SpecKitDriveLoop`: the loop's own steps (WF); its agent may do anything.
* `ProjectPipeline`: runs are repeated until one has reached SpecKit (`RunsGoOn`), and people
  keep sections, accept flagged specs and approve what waits for them (WF).
* `SpecPlanning`: a run goes on and is started again; people accept the proposed splits.
* `SectionSync`: a process that runs goes on (WF), and each target is resumed again and again (SF).
* `RefreshTarget`: the steps of the tool, and apply is repeated.
* `BuildLoop`: runs end; people repair, approve and continue when they may; careful ones start
  again when it helps; the prework makes the queue (`MakeQueue`) and people go back to the branch of
  their specs (`ReturnToBranch`), neither of which a command of the loop does; SpecKit's init succeeds
  some time. Without the queue specs stay in REASSESSMENT_REQUIRED for ever.
* `NextFeature`: the driver reads on; people follow the cards again and again (SF), come back
  to unfinished features, and somebody commits, with the evidence recorded, what was tested.

## Proofs

The theorems hold for every value of the constants that meets the named assumptions of the
modules, and those only say what the code's own data are: distinct queue entries, a `None`
that is none of the values beside it, phases in an order. Each `Spec => []Inv` is proved by
an invariant that every step keeps, with one proof step per action.

**`InvocationAuditLogProofs`.** `HistoryInv`: whoever is between scan and fsync holds the
lock, the tail is a prefix of the record it writes, and that record was admitted by the
history as it is. Without the middle part a writer could complete a line that the history
forbids. `HistoryIsHonest` adds that what is written was validated. `DurableInv` follows the
chain of fsyncs: each of the four steps of a sync adds the file or one directory to what
survives, so that a record is safe before it is acknowledged. The refinement maps every step
to one of `InvocationLedger` or to a stutter.

**`SpecKitProofs`.** The drive loop: `FrontDone`, everything before the resume point the
agent was started at is verified, and `RunsCovered`, the runs counted so far are no more than
the verified phases without the one at work; the resume point is the least of the pending
places, and the key moves only when that one is verified. The execution machine: `CountInv`,
a job that is decided in the state was verified at most once more than runs died, and
`EarnedInv`, all that comes before the place a state keeps is earned. `Completeness` and
`Ordering` have the hypothesis `StableOrder`, which the code relies on and does not check:
the queues agree as far as both go, and no gated run takes over a state of another version.

**`TargetProofs`.** Externalization: `SessionInv` follows the session through copy, pointer
and deletion, `RecordInv` the settled records through the mirroring. Refresh: `TextsInv`, a
constitution has each mark at most once, in order and no rule in the block; `RunInv`, what
the run read is still there unless somebody edited; `HelpersInv`, the files behind the step
are of the tool's version. The lemma on the splice says that replacing the block's body
changes no rule and no mark, which is what makes `KeepsRules` inductive.

**`SyncProofs`.** The done ledger: `IInv` adds to the types what the times say of the texts,
artifacts newer than the HLD were built from it, and an entry has the text its artifacts were
built from when their times agree. Section sync: `RunsInv`, what a run has read and staged;
`LastInv`, the records of the run that wrote a spec are those of the spec. That a spec has
all the sections its skip relies on rests on `LoadedRequired`, proved along the load order by
its least counterexample, since the context that fits the budget is computed by recursion.

**`ProjectPipelineProofs`.** `RunInv` and `BuildInv`: where a run is and how far the
directory it builds has got with the run's text. `LegacyInv`: the approval is of the text the
package is made from, and what is reused is what was recorded. `RoundsInv`: a prework that is not
older than its plan has all changes of it; with `LegacyInv` this gives `ApprovedHldExecutes`. `NewInv` and `GivenInv`, for the new layout: before
the first run nothing is there; a record of a text that is not converted means that there is
no plan in the sync directory; a text that was converted to begin with keeps its lines, and
what is reused is what was recorded. The two are needed because up to date compares source,
raw copy, working HLD and record by their hashes only, while `ReusedIsCurrent` is about the
plan. `GenuineInv`: a queue is as it was made of a text, but for its answers.

`ConversionsFit` says where the lines of a text are when its sections have their anchors: line
`i` is at `At(S, i)`, two further for each section that starts up to it (`Placed`, along the
lines). So the code fences before a line are as many as they were, the anchors are the only new
headings, and each section ends with the line it ended with (`MarkedMasks`, `MarkedHeadings`,
`MarkedEnds`). What is left is about the plan: without a split by hand the sections start at every
candidate and at headings inside of one (`Covers`). A line that is still there is one that is in its
place, which needs no induction over what a filter of the text leaves.

**`PlanningProofs`.** The search for cycles: `PathInv`, the stack is a path from the loop over
the sections, along references, through sections that are not left; `LeftInv`, what was looked
at is left or next on the path, what a section that is left needs is left too, and every set of
such sections has one that needs none of the set. A section met again on the path gives a cycle;
when the path is empty everything is left, and there is none. That the search ends within the
steps it is given is a count of `Marks`: a step deals with one more reference or leaves one more
section. `CyclesAlwaysStop` needs of an HLD only that its references are to sections it has.

The runs that plan: `PlanOK`, the order lists every spec once, the sections in specs are the candidates, and
what was split leaves its place to its children, holds of the plan of every HLD and is kept by
every split. `FilesOK` and `QueueOK` say which files there are at each script, `ChainOK` that
each is made from those before it. Nothing in the code compares the files when a run that died
is followed by another. The reason that `ApprovalFits` holds all the same is the last part of
`QueueOK`: as long as a question is open the plan does not pass its review, so that a run which
reports without building anything cannot get to an approval, and one without open questions
builds everything again. `SplitsKeepOrder` compares places: those of a split spec's children are
a block, blocks are in the order of the specs they replace, and within one the table of
responsibilities puts each after those it depends on.

Downstream: `RightsInv`: a file is by a run that may write it. `RefusedInv`: a
run that is not at the writing has written nothing, and what it has staged is permitted.
`TrialInv`: while nobody else touches the workspace, writing what is left to write of a
tried run gives a valid one.

**`BuildLoopProofs`.** `CurrentInv`: a continue during which no HLD has changed began with
texts that agree, and carries them from the working HLD to the package and the mirror.

**`NextFeatureProofs`.** `OffersInv` is `TipInv`, a branch's last commit has its product,
`EvidenceInv`, the evidence is of a commit that is there, and `ReadingInv`, what the driver
has read is still so.

The type invariants of all components are theorems, but for the two small modules
`InvocationRecord` and `HldConversion`, which have no state; that of `SpecPlanning` is part of
`RunInv`. Most of them are not among the runs' properties, since the run would only repeat the
proof. Every safety property that the runs show to hold is a theorem too.

Only model-checked is liveness: `EveryCallEnds`, `EverythingCompletes`, `LoopEnds`,
`NewLayoutGetsThrough`, `PlanTurnsGreen`, `RunsSettle`, `RefreshSettles`, `CarefulPeopleGetReady`,
`FeaturesGetMerged`. The proof system has no rule for fairness and `ENABLED`.

## Known divergences

What the code does and a comment, a message or a document says otherwise. The models have
what the code does; the properties say what still holds.

* `run_state.py:136`: the mirror removes from the controller what the target lacks, the audit
  log too; `docs/SPECKIT_INVOCATION_AUDIT_LOG_CONTRACT.md:377` says "no automatic deletion".
* `hldspec_agent_session.py:1138`: a start with the default location stages its session in the
  target although the pointer leads elsewhere; by `control_paths.py:3` state is never split.
* `speckit_execution.py:149`: index and phase are kept when the queue is planned again; with a
  feature put in front the order of `speckit_execution.py:3` is lost.
* `speckit_drive_loop.py:171`: progress is that the resume key changed, in any direction; `:12` speaks
  of "verified on-disk progress".
* `hld_sync.py:149`: a sync that finds a spec unverified drops its entry, and the next one records
  the sections as they are then; an edit in between never makes the spec DONE_STALE, as `:12` says.
* `hld_spec_sync.py:216`: a run that failed still records the sections it had loaded as context as
  "done", which `:191` reports as "already done".
* `hld_spec_sync.py:1523`: planned specs are ordered by layer, `:1533` says "Specs are built
  bottom-up."
* `refresh_target.py:573` computes a path relative to the target and raises ValueError when the
  control directory is outside of it; the apply that `:121` asks people for never comes to an end.
* `hld_spec_downstream.py:1250`: `--skeptic` is to apply a review; a HANDLED report of an earlier run
  passes for that of a run whose agent wrote none.
* `speckit_operator_state.py:231`: the checkpoint of a blocked Build Loop blocks the rerun that
  `hldspec_agent_session.py:607` and `:652` ask for ("Repair Build Loop prerequisites, then rerun
  Build Loop ready."). Only a new start gets out of it.
* Every build rewrites `.specify/source/`: where git tracks it, the run makes the target dirty that
  it then asks to be clean.
* An approval names no content: the prework approval and the session plan's approval let a rebuilt
  package through. In the legacy layout `project_continue.sh:319` makes the package anew after it was
  approved, with answers nobody saw in it, and keeps `speckit_prework_approval.json`, where
  `docs/HLDSPEC_USE_CASES_AND_API.md:697` has "Select exactly one feature from the approved invocation
  queue." and `:371` asks for a human decision "when rebuild changes approved decisions". In the
  model: `EditPlan`, `Approve` of the package made before, `Rebuild`, and the next run gets to SpecKit
  with the new one. `LegacyApprovalFits` says what holds all the same.
* `next_feature_readiness.py:857`: READY_FOR_COMMIT is said of files that were changed after the
  evidence TESTS_PASSED, which `:865` calls evidence for "the current implementation changes". The
  branch at `:879` is never reached: the files it asks for are among those of `:856`.
* A card for a feature whose branch and directory disagree offers specify without the check of
  the mirror that the comment at `next_feature_readiness.py:720-723` describes; no card asks to
  record IMPLEMENTED_COMMITTED.
* A plan copied from another feature's directory blocks the branch it was copied from too.
* An HLD with an anchor only in a code block is converted for the machines
  (`_is_converted_hld`) and not for the scripts: it never gets through. One without headings has no
  questions and is never converted (WORKING_HLD_NOT_CONVERTED).
* Restoring `.pre-hldspec.bak`, as the message suggests, leaves the queue and plan of the
  other text behind; anchors are then put at wrong lines.
* The command that answers conversion questions records options that were not offered;
  SPLIT_AS_PROPOSED without a proposed plan raises later.

## Hazards by component

* Pipeline: freshness is hashed after the build and written before the mirror; a run on a source
  whose HLD changed is stopped only after its files are written; a converted HLD that
  differs from its source is built anew by every continue; a rebuild keeps the approval; a
  refused prework is not made anew while it counts as up to date.
* Section sync: sections that were only context are recorded as done, also by a run that
  fails; two runs overwrite each other's records; one torn spec fails every other target; a section
  left out for the budget is skipped.
* Spec planning: splitting drops recorded conflicts; answers other than SPLIT are asked again for
  ever; QG-008 compares a list with itself; `order_features` is not called.
* Refresh: the backup is overwritten by the run after a dead one; an edit between read and write
  is lost; modules a new version no longer has stay behind.
* Downstream: two runs in one second share log and staging; validation looks only for the existence
  of files; a `skeptic_conflicts.json` of an earlier run stays.

`PROJECT.json` has all of them at their lines.

## Not modelled

The state machine framework, promotion gate, product QA ledger, multi-spec backlog, helper
registry, the journeys, the state report and all rendering of prompts, cards and handoffs: they
keep no state others rely on, or are functions of their input. Of what is modelled in
part: the mode of section sync without a map, `stale_check.py`, whose result nobody acts on, adoption
of brownfield targets, and the text of prompts. Two drive loops on one target, what verifies a
phase, and tests that passed on other files are listed as hazards without a property.
