--------------------------- MODULE SpecKitDriveLoop ---------------------------
(***************************************************************************)
(* run_drive_loop (hldspec/speckit_drive_loop.py): hands the bundle prompts *)
(* of the queue to an agent one after the other and goes on without people *)
(* while each run reports PASS and moves the resume point, which           *)
(* speckit_execution_state.py derives from the spec directories on disk.   *)
(* The agent may do anything to the specs; so may people, meanwhile.       *)
(***************************************************************************)
EXTENDS Naturals, Sequences, FiniteSets

CONSTANTS
  Specs,        \* the specs of the queue, in the order of bundles and specs
  BundleOf,     \* the bundle each spec is in
  Limits,       \* values of the max_bundles argument, None for no limit
  None

PHASES == <<"specify", "plan", "tasks">>
SpecIds == {Specs[i] : i \in 1..Len(Specs)}
Steps == 1..Len(PHASES)

\* Bound: the loop's count of bundles stops here, above the number of phases.
RunCap == Len(Specs) * Len(PHASES) + 1

\* a queue without specs stops the loop at once (NO_BUNDLES)
ASSUME SpecsAssumption ==
  /\ Specs \in Seq(SpecIds) /\ Len(Specs) > 0
  /\ \A i, j \in 1..Len(Specs) : Specs[i] = Specs[j] => i = j
ASSUME BundleOfAssumption == DOMAIN BundleOf = SpecIds
ASSUME NoneAssumption == None \notin ((1..Len(Specs)) \X Steps) \cup (1..RunCap)
ASSUME LimitsAssumption == Limits \subseteq (1..RunCap) \cup {None}

VARIABLES
  passing,      \* spec phases whose artifact has passing evidence and no failing one
  root,         \* the SpecKit root is there
  approved,     \* some sync directory has an APPROVED record
  stage,        \* idle, assess, agent, judge
  before,       \* resume point when the agent was started
  limit,        \* max_bundles of this loop
  runs,         \* how many bundles_run holds
  stop_reason,
  undone        \* since the loop began, something verified or the root went away

driveVars == <<passing, root, approved, stage, before, limit, runs, stop_reason, undone>>
worldVars == <<passing, root, approved, undone>>
loopVars == <<stage, before, limit, runs, stop_reason>>

-----------------------------------------------------------------------------
(***************************************************************************)
(* build_execution_state: the first phase, in queue order, that is not     *)
(* DONE_VERIFIED.                                                          *)
(***************************************************************************)
Pending == {p \in (1..Len(Specs)) \X Steps : <<Specs[p[1]], p[2]>> \notin passing}

Precedes(p, q) == p[1] < q[1] \/ (p[1] = q[1] /\ p[2] <= q[2])

\* With the last one instead.
ResumesLast ==
  IF Pending = {} \/ ~root THEN None
  ELSE CHOOSE p \in Pending : \A q \in Pending : Precedes(q, p)

\* None: no resume point, everything done or not assessable.
Resume ==
  IF Pending = {} \/ ~root THEN None
  ELSE CHOOSE p \in Pending : \A q \in Pending : Precedes(p, q)

\* _resume_key: bundle, spec and phase of the resume point.
Key(p) == IF p = None THEN None ELSE <<BundleOf[Specs[p[1]]], Specs[p[1]], p[2]>>

-----------------------------------------------------------------------------
DriveInit ==
  /\ passing \in SUBSET (SpecIds \X Steps)
  /\ root \in BOOLEAN /\ approved \in BOOLEAN
  /\ stage = "idle" /\ before = None /\ limit \in Limits /\ runs = 0
  /\ stop_reason = None /\ undone = FALSE

Stop(reason) == stage' = "idle" /\ stop_reason' = reason

\* The approval is looked at once, before the loop.
Start ==
  /\ stage = "idle"
  /\ limit' \in Limits /\ runs' = 0 /\ before' = None /\ undone' = FALSE
  /\ IF approved THEN stage' = "assess" /\ stop_reason' = None ELSE Stop("NOT_APPROVED")
  /\ UNCHANGED <<passing, root, approved>>

\* next_action says that there is nothing to run, or the bundle's prompt is missing.
AssessStops ==
  /\ stage = "assess"
  /\ \/ ~root /\ Stop("UNASSESSABLE")
     \/ root /\ Pending = {} /\ Stop("IMPLEMENT_GATE")
     \/ Resume # None /\ \E reason \in {"NO_BUNDLE_PROMPT", "PROMPT_MISSING"} : Stop(reason)
  /\ UNCHANGED <<worldVars, before, limit, runs>>

\* The agent is run on the bundle of the resume point.
StartAgent ==
  /\ stage = "assess" /\ Resume # None
  /\ before' = Resume
  /\ stage' = "agent"
  /\ UNCHANGED <<worldVars, limit, runs, stop_reason>>

\* The agent exits with an error, without PASS or asking for a reassessment.
AgentStops ==
  /\ stage = "agent"
  /\ \E reason \in {"INVOCATION_FAILED", "NEEDS_ATTENTION"} : Stop(reason)
  /\ UNCHANGED <<worldVars, before, limit, runs>>

AgentPasses ==
  /\ stage = "agent"
  /\ stage' = "judge"
  /\ UNCHANGED <<worldVars, before, limit, runs, stop_reason>>

\* One more bundle run, and another one unless that was the last allowed.
CountRun ==
  /\ runs' = IF runs < RunCap THEN runs + 1 ELSE runs
  /\ IF limit # None /\ runs' >= limit THEN Stop("MAX_BUNDLES")
     ELSE stage' = "assess" /\ UNCHANGED stop_reason

\* Without looking whether anything moved.
JudgeNothing ==
  /\ stage = "judge" /\ CountRun
  /\ UNCHANGED <<worldVars, before, limit>>

\* The specs are assessed again; the loop goes on if the resume key changed.
Judge ==
  /\ stage = "judge"
  /\ IF Key(Resume) = Key(before) THEN Stop("NO_PROGRESS") /\ UNCHANGED runs
     ELSE CountRun
  /\ UNCHANGED <<worldVars, before, limit>>

\* The agent, or anybody else, changes what is on disk.
Work(s, k) ==
  /\ <<s, k>> \notin passing /\ passing' = passing \cup {<<s, k>>}
  /\ UNCHANGED <<root, approved, undone, loopVars>>

Undo(s, k) ==
  /\ <<s, k>> \in passing /\ passing' = passing \ {<<s, k>>}
  /\ undone' = TRUE
  /\ UNCHANGED <<root, approved, loopVars>>

RootChanges ==
  /\ root' = ~root /\ undone' = (undone \/ root)
  /\ UNCHANGED <<passing, approved, loopVars>>

ApprovalChanges ==
  /\ approved' = ~approved
  /\ UNCHANGED <<passing, root, undone, loopVars>>

Loop == AssessStops \/ StartAgent \/ AgentStops \/ AgentPasses \/ Judge

DriveNext ==
  \/ Start \/ Loop \/ RootChanges \/ ApprovalChanges
  \/ \E s \in SpecIds, k \in Steps : Work(s, k) \/ Undo(s, k)

DriveSpec == DriveInit /\ [][DriveNext]_driveVars

\* The loop's process runs and the agent it waits for exits.
FairDrive == DriveSpec /\ WF_driveVars(Loop)

-----------------------------------------------------------------------------
\* The type invariant.
DriveTypeOK ==
  /\ passing \subseteq SpecIds \X Steps
  /\ root \in BOOLEAN /\ approved \in BOOLEAN
  /\ stage \in {"idle", "assess", "agent", "judge"}
  /\ before \in ((1..Len(Specs)) \X Steps) \cup {None}
  /\ limit \in Limits /\ runs \in 0..RunCap /\ undone \in BOOLEAN
  /\ stop_reason \in {None, "NOT_APPROVED", "IMPLEMENT_GATE",
       "UNASSESSABLE", "NO_BUNDLE_PROMPT", "PROMPT_MISSING", "INVOCATION_FAILED",
       "NEEDS_ATTENTION", "NO_PROGRESS", "MAX_BUNDLES"}

\* Every bundle run the loop goes on after left something verified that was not:
\* unless something was undone it has run at most as many as there are phases verified
\* by now, whoever else works on the specs.
RunsAreProgress == stage # "idle" /\ ~undone => runs <= Cardinality(passing)

\* The agent works on a bundle only when all specs in front of its resume point are
\* done, and they stay done unless somebody undoes them.
EarlierSpecsDone ==
  stage \in {"agent", "judge"} /\ ~undone =>
    \A i \in 1..(before[1] - 1), k \in Steps : <<Specs[i], k>> \in passing

\* The loop ends: for lack of progress or at its limit.  Only one without a limit may
\* go on for ever, and only when work is undone meanwhile.
LoopEnds == stage # "idle" ~> stage = "idle" \/ (limit = None /\ undone)
=============================================================================
