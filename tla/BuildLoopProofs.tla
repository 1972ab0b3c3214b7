---------------------------- MODULE BuildLoopProofs ----------------------------
(***************************************************************************)
(* Theorems about the Build Loop, for any texts of the HLD, and any number *)
(* of edits and runs that die.                                             *)
(***************************************************************************)
EXTENDS BuildLoop, TLAPS

USE HabitsAssumption, BoundsAssumption

-----------------------------------------------------------------------------
(***************************************************************************)
(* Type correctness.                                                       *)
(***************************************************************************)

\* A counter below its bound may be raised.
LEMMA Raised ==
  ASSUME NEW n \in Nat, NEW k \in 0..n
  PROVE  k + 1 # k /\ (k < n => k + 1 \in 0..n) /\ 0 \in 0..n
OBVIOUS

\* What the reports say is a stage.
LEMMA StageTypes ==
  /\ InitState \in Blocking \cup NonBlocking
  /\ OperatorState \in Blocking \cup NonBlocking
  /\ \A b \in BOOLEAN : Freshness(b) \in {"blocking", "fresh"}
<1>1. InitState \in Blocking \cup NonBlocking
  BY DEF InitState, Blocking, NonBlocking
<1>2. OperatorState \in Blocking \cup NonBlocking
  BY DEF OperatorState, Blocking, NonBlocking
<1>3. \A b \in BOOLEAN : Freshness(b) \in {"blocking", "fresh"}
  BY DEF Freshness
<1> QED
  BY <1>1, <1>2, <1>3

\* What a run writes down has its type.
LEMMA WritesTypes ==
  ASSUME NEW stage \in Blocking \cup NonBlocking, Writes(stage)
  PROVE  /\ state' \in [stage : Blocking \cup NonBlocking, stale : BOOLEAN]
         /\ record' \in {"blocking", "fresh"}
<1>1. Stale \in BOOLEAN
  BY DEF Stale, StaleWith
<1> QED
  BY <1>1, StageTypes DEF Writes

\* The steps of start keep the types.
LEMMA StartTypes ==
  ASSUME TypeOK, StartCopies \/ StartStep
  PROVE  TypeOK'
<1>1. CASE StartCopies
  <2>1. StaleWith(raw', working') \in BOOLEAN
    BY DEF StaleWith
  <2>2. record' \in {"blocking", "fresh"}
    BY <1>1, <2>1, StageTypes DEF StartCopies
  <2> QED
    <3>1. TextsOK'
      BY <1>1, <2>2 DEF TypeOK, TextsOK, StartCopies, bounds
    <3>2. ControlOK'
      BY <1>1, <2>2 DEF TypeOK, ControlOK, StartCopies, bounds
    <3>3. TargetOK'
      BY <1>1, <2>2 DEF TypeOK, TargetOK, StartCopies, bounds, speckit
    <3>4. CommandOK'
      BY <1>1, <2>2 DEF TypeOK, CommandOK, StartCopies, bounds
    <3> QED
      BY <3>1, <3>2, <3>3, <3>4 DEF TypeOK
<1>2. CASE StartInits
  <2>1. TextsOK'
    BY <1>2 DEF TypeOK, TextsOK, StartInits, hlds, control, bounds
  <2>2. ControlOK'
    BY <1>2 DEF TypeOK, ControlOK, StartInits, hlds, control, bounds
  <2>3. TargetOK'
    BY <1>2 DEF TypeOK, TargetOK, StartInits, hlds, control, bounds, speckit
  <2>4. CommandOK'
    BY <1>2 DEF TypeOK, CommandOK, StartInits, hlds, control, bounds
  <2> QED
    BY <2>1, <2>2, <2>3, <2>4 DEF TypeOK
<1>3. CASE WritesSession
  <2>1. TextsOK'
    BY <1>3 DEF TypeOK, TextsOK, WritesSession, hlds, target, bounds
  <2>2. ControlOK'
    BY <1>3 DEF TypeOK, ControlOK, WritesSession, hlds, target, bounds
  <2>3. TargetOK'
    BY <1>3 DEF TypeOK, TargetOK, WritesSession, hlds, target, bounds, speckit
  <2>4. CommandOK'
    BY <1>3 DEF TypeOK, CommandOK, WritesSession, hlds, target, bounds
  <2> QED
    BY <2>1, <2>2, <2>3, <2>4 DEF TypeOK
<1>4. CASE WritesPlan
  <2>1. TextsOK'
    BY <1>4 DEF TypeOK, TextsOK, WritesPlan, hlds, target, bounds
  <2>2. ControlOK'
    BY <1>4 DEF TypeOK, ControlOK, WritesPlan, hlds, target, bounds
  <2>3. TargetOK'
    BY <1>4 DEF TypeOK, TargetOK, WritesPlan, hlds, target, bounds, speckit
  <2>4. CommandOK'
    BY <1>4 DEF TypeOK, CommandOK, WritesPlan, hlds, target, bounds
  <2> QED
    BY <2>1, <2>2, <2>3, <2>4 DEF TypeOK
<1> QED
  BY <1>1, <1>2, <1>3, <1>4 DEF StartStep

\* The steps of continue and status keep the types.
LEMMA ContinueTypes ==
  ASSUME TypeOK, Refuses \/ GoesOn \/ InitWorkspace \/ Build \/ Mirror \/ Report \/ Status
  PROVE  TypeOK'
<1>1. CASE Refuses
  <2>1. \E stage \in Blocking \cup NonBlocking : Writes(stage)
    BY <1>1 DEF Refuses, Blocking, NonBlocking
  <2>2. /\ state' \in [stage : Blocking \cup NonBlocking, stale : BOOLEAN]
        /\ record' \in {"blocking", "fresh"}
    BY <2>1, WritesTypes
  <2> QED
    <3>1. TextsOK'
      BY <1>1, <2>2 DEF TypeOK, TextsOK, Refuses, Begin, hlds, target, bounds
    <3>2. ControlOK'
      BY <1>1, <2>2 DEF TypeOK, ControlOK, Refuses, Begin, hlds, target, bounds
    <3>3. TargetOK'
      BY <1>1, <2>2 DEF TypeOK, TargetOK, Refuses, Begin, hlds, target, bounds, speckit
    <3>4. CommandOK'
      BY <1>1, <2>2 DEF TypeOK, CommandOK, Refuses, Begin, hlds, target, bounds
    <3> QED
      BY <3>1, <3>2, <3>3, <3>4 DEF TypeOK
<1>2. CASE GoesOn
  <2>1. TextsOK'
    BY <1>2 DEF TypeOK, TextsOK, GoesOn, Begin, hlds, target, bounds
  <2>2. ControlOK'
    BY <1>2 DEF TypeOK, ControlOK, GoesOn, Begin, hlds, target, bounds
  <2>3. TargetOK'
    BY <1>2 DEF TypeOK, TargetOK, GoesOn, Begin, hlds, target, bounds, speckit
  <2>4. CommandOK'
    BY <1>2 DEF TypeOK, CommandOK, GoesOn, Begin, hlds, target, bounds
  <2> QED
    BY <2>1, <2>2, <2>3, <2>4 DEF TypeOK
<1>3. CASE InitWorkspace
  <2>1. TextsOK'
    BY <1>3 DEF TypeOK, TextsOK, InitWorkspace, hlds, control, bounds
  <2>2. ControlOK'
    BY <1>3 DEF TypeOK, ControlOK, InitWorkspace, hlds, control, bounds
  <2>3. TargetOK'
    BY <1>3 DEF TypeOK, TargetOK, InitWorkspace, hlds, control, bounds, speckit
  <2>4. CommandOK'
    BY <1>3 DEF TypeOK, CommandOK, InitWorkspace, hlds, control, bounds
  <2> QED
    BY <2>1, <2>2, <2>3, <2>4 DEF TypeOK
<1>4. CASE Build
  <2>1. TextsOK'
    BY <1>4 DEF TypeOK, TextsOK, Build, hlds, control, target, bounds
  <2>2. ControlOK'
    BY <1>4 DEF TypeOK, ControlOK, Build, hlds, control, target, bounds
  <2>3. TargetOK'
    BY <1>4 DEF TypeOK, TargetOK, Build, hlds, control, target, bounds, speckit
  <2>4. CommandOK'
    BY <1>4 DEF TypeOK, CommandOK, Build, hlds, control, target, bounds
  <2> QED
    BY <2>1, <2>2, <2>3, <2>4 DEF TypeOK
<1>5. CASE Mirror
  <2>1. TextsOK'
    BY <1>5 DEF TypeOK, TextsOK, Mirror, hlds, control, bounds
  <2>2. ControlOK'
    BY <1>5 DEF TypeOK, ControlOK, Mirror, hlds, control, bounds
  <2>3. TargetOK'
    BY <1>5 DEF TypeOK, TargetOK, Mirror, hlds, control, bounds, speckit
  <2>4. CommandOK'
    BY <1>5 DEF TypeOK, CommandOK, Mirror, hlds, control, bounds
  <2> QED
    BY <2>1, <2>2, <2>3, <2>4 DEF TypeOK
<1>6. CASE Report
  <2>1. /\ state' \in [stage : Blocking \cup NonBlocking, stale : BOOLEAN]
        /\ record' \in {"blocking", "fresh"}
    BY <1>6, WritesTypes, StageTypes DEF Report
  <2> QED
    <3>1. TextsOK'
      BY <1>6, <2>1 DEF TypeOK, TextsOK, Report, hlds, target, bounds
    <3>2. ControlOK'
      BY <1>6, <2>1 DEF TypeOK, ControlOK, Report, hlds, target, bounds
    <3>3. TargetOK'
      BY <1>6, <2>1 DEF TypeOK, TargetOK, Report, hlds, target, bounds, speckit
    <3>4. CommandOK'
      BY <1>6, <2>1 DEF TypeOK, CommandOK, Report, hlds, target, bounds
    <3> QED
      BY <3>1, <3>2, <3>3, <3>4 DEF TypeOK
<1>7. CASE Status
  <2>1. Stale \in BOOLEAN
    BY DEF Stale, StaleWith
  <2>2. record' \in {"blocking", "fresh"}
    BY <1>7, <2>1, StageTypes DEF Status
  <2> QED
    <3>1. TextsOK'
      BY <1>7, <2>2 DEF TypeOK, TextsOK, Status, hlds, target, bounds
    <3>2. ControlOK'
      BY <1>7, <2>2 DEF TypeOK, ControlOK, Status, hlds, target, bounds
    <3>3. TargetOK'
      BY <1>7, <2>2 DEF TypeOK, TargetOK, Status, hlds, target, bounds, speckit
    <3>4. CommandOK'
      BY <1>7, <2>2 DEF TypeOK, CommandOK, Status, hlds, target, bounds
    <3> QED
      BY <3>1, <3>2, <3>3, <3>4 DEF TypeOK
<1> QED
  BY <1>1, <1>2, <1>3, <1>4, <1>5, <1>6, <1>7

\* What people do and SpecKit writes.
People ==
  \/ \E t \in Texts : EditSource(t) \/ EditWorking(t)
  \/ ChangeTarget \/ Reconcile \/ Commit \/ Install \/ AddPolicy \/ Approve \/ CleanUp
  \/ SpecKitPhase \/ Validate \/ MakeQueue \/ LeaveBranch \/ ReturnToBranch

\* People and SpecKit keep the types.
LEMMA PeopleTypes ==
  ASSUME TypeOK, People
  PROVE  TypeOK'
<1>1. ASSUME NEW t \in Texts, EditSource(t) PROVE TypeOK'
  <2>1. TextsOK'
    BY <1>1 DEF TypeOK, TextsOK, EditSource, control, target
  <2>2. ControlOK'
    BY <1>1 DEF TypeOK, ControlOK, EditSource, control, target
  <2>3. TargetOK'
    BY <1>1 DEF TypeOK, TargetOK, EditSource, control, target, speckit
  <2>4. CommandOK'
    <3>1. edits' \in 0..MaxEdits
      BY <1>1, Raised DEF TypeOK, CommandOK, EditSource
    <3> QED
      BY <1>1, <3>1 DEF TypeOK, CommandOK, EditSource, control, target
  <2> QED
    BY <2>1, <2>2, <2>3, <2>4 DEF TypeOK
<1>2. ASSUME NEW t \in Texts, EditWorking(t) PROVE TypeOK'
  <2>1. TextsOK'
    BY <1>2 DEF TypeOK, TextsOK, EditWorking, control
  <2>2. ControlOK'
    BY <1>2 DEF TypeOK, ControlOK, EditWorking, control
  <2>3. TargetOK'
    BY <1>2 DEF TypeOK, TargetOK, EditWorking, control, speckit
  <2>4. CommandOK'
    <3>1. edits' \in 0..MaxEdits
      BY <1>2, Raised DEF TypeOK, CommandOK, EditWorking
    <3> QED
      BY <1>2, <3>1 DEF TypeOK, CommandOK, EditWorking, control
  <2> QED
    BY <2>1, <2>2, <2>3, <2>4 DEF TypeOK
<1>3. CASE ChangeTarget
  <2>1. TextsOK'
    BY <1>3 DEF TypeOK, TextsOK, ChangeTarget, hlds, control
  <2>2. ControlOK'
    BY <1>3 DEF TypeOK, ControlOK, ChangeTarget, hlds, control
  <2>3. TargetOK'
    BY <1>3 DEF TypeOK, TargetOK, ChangeTarget, hlds, control, speckit
  <2>4. CommandOK'
    BY <1>3 DEF TypeOK, CommandOK, ChangeTarget, hlds, control
  <2> QED
    BY <2>1, <2>2, <2>3, <2>4 DEF TypeOK
<1>4. CASE Reconcile
  <2>1. TextsOK'
    BY <1>4 DEF TypeOK, TextsOK, Reconcile, control, bounds
  <2>2. ControlOK'
    BY <1>4 DEF TypeOK, ControlOK, Reconcile, control, bounds
  <2>3. TargetOK'
    BY <1>4 DEF TypeOK, TargetOK, Reconcile, control, bounds, speckit
  <2>4. CommandOK'
    BY <1>4 DEF TypeOK, CommandOK, Reconcile, control, bounds
  <2> QED
    BY <2>1, <2>2, <2>3, <2>4 DEF TypeOK
<1>5. CASE Commit \/ Install \/ AddPolicy
  <2>1. TextsOK'
    BY <1>5 DEF TypeOK, TextsOK, Commit, Install, AddPolicy, hlds, control, bounds
  <2>2. ControlOK'
    BY <1>5 DEF TypeOK, ControlOK, Commit, Install, AddPolicy, hlds, control, bounds
  <2>3. TargetOK'
    BY <1>5 DEF TypeOK, TargetOK, Commit, Install, AddPolicy, hlds, control, bounds, speckit
  <2>4. CommandOK'
    BY <1>5 DEF TypeOK, CommandOK, Commit, Install, AddPolicy, hlds, control, bounds
  <2> QED
    BY <2>1, <2>2, <2>3, <2>4 DEF TypeOK
<1>6. CASE Approve
  <2>1. TextsOK'
    BY <1>6 DEF TypeOK, TextsOK, Approve, hlds, target, bounds
  <2>2. ControlOK'
    BY <1>6 DEF TypeOK, ControlOK, Approve, hlds, target, bounds
  <2>3. TargetOK'
    BY <1>6 DEF TypeOK, TargetOK, Approve, hlds, target, bounds, speckit
  <2>4. CommandOK'
    BY <1>6 DEF TypeOK, CommandOK, Approve, hlds, target, bounds
  <2> QED
    BY <2>1, <2>2, <2>3, <2>4 DEF TypeOK
<1>7. CASE CleanUp
  <2>1. TextsOK'
    BY <1>7 DEF TypeOK, TextsOK, CleanUp, hlds, control, bounds
  <2>2. ControlOK'
    BY <1>7 DEF TypeOK, ControlOK, CleanUp, hlds, control, bounds
  <2>3. TargetOK'
    BY <1>7 DEF TypeOK, TargetOK, CleanUp, hlds, control, bounds, speckit
  <2>4. CommandOK'
    BY <1>7 DEF TypeOK, CommandOK, CleanUp, hlds, control, bounds
  <2> QED
    BY <2>1, <2>2, <2>3, <2>4 DEF TypeOK
<1>8. CASE SpecKitPhase \/ Validate
  <2>1. TextsOK'
    BY <1>8 DEF TypeOK, TextsOK, SpecKitPhase, Validate, hlds, control, bounds
  <2>2. ControlOK'
    BY <1>8 DEF TypeOK, ControlOK, SpecKitPhase, Validate, hlds, control, bounds
  <2>3. TargetOK'
    BY <1>8 DEF TypeOK, TargetOK, SpecKitPhase, Validate, hlds, control, bounds, speckit
  <2>4. CommandOK'
    BY <1>8 DEF TypeOK, CommandOK, SpecKitPhase, Validate, hlds, control, bounds
  <2> QED
    BY <2>1, <2>2, <2>3, <2>4 DEF TypeOK
<1>9. CASE MakeQueue \/ LeaveBranch \/ ReturnToBranch
  <2>1. TextsOK'
    BY <1>9 DEF TypeOK, TextsOK, MakeQueue, LeaveBranch, ReturnToBranch, hlds
  <2>2. ControlOK'
    BY <1>9 DEF TypeOK, ControlOK, MakeQueue, LeaveBranch, ReturnToBranch, control
  <2>3. TargetOK'
    BY <1>9 DEF TypeOK, TargetOK, MakeQueue, LeaveBranch, ReturnToBranch
  <2>4. CommandOK'
    <3>1. edits' \in 0..MaxEdits
      BY <1>9, Raised DEF TypeOK, CommandOK, MakeQueue, LeaveBranch, ReturnToBranch, bounds
    <3> QED
      BY <1>9, <3>1 DEF TypeOK, CommandOK, MakeQueue, LeaveBranch, ReturnToBranch, bounds
  <2> QED
    BY <2>1, <2>2, <2>3, <2>4 DEF TypeOK
<1> QED
  BY <1>1, <1>2, <1>3, <1>4, <1>5, <1>6, <1>7, <1>8, <1>9 DEF People

\* The types of the HLDs, the package, the control files and the running command, of every
\* start and continue in any order with edits, repairs and runs that die.
THEOREM TypeCorrect == Spec => []TypeOK
<1>1. Init => TypeOK
  <2>1. (CHOOSE t \in Texts : TRUE) \in Texts
    BY TextsAssumption
  <2> SUFFICES ASSUME Init PROVE TypeOK
    OBVIOUS
  <2>2. TextsOK /\ ControlOK
    BY <2>1 DEF Init, TextsOK, ControlOK
  <2>3. edits \in 0..MaxEdits /\ crashes \in 0..MaxCrashes
    BY DEF Init
  <2>4. TargetOK /\ CommandOK
    BY <2>3 DEF Init, TargetOK, CommandOK
  <2> QED
    BY <2>2, <2>4 DEF TypeOK
<1>2. TypeOK /\ [Next]_vars => TypeOK'
  <2> SUFFICES ASSUME TypeOK, [Next]_vars PROVE TypeOK'
    OBVIOUS
  <2>1. CASE StartCopies \/ StartStep
    BY <2>1, StartTypes
  <2>2. CASE Refuses \/ GoesOn \/ InitWorkspace \/ Build \/ Mirror \/ Report \/ Status
    BY <2>2, ContinueTypes
  <2>3. CASE Crash
    <3>1. TextsOK'
      BY <2>3 DEF TypeOK, TextsOK, Crash, hlds, control, target
    <3>2. ControlOK'
      BY <2>3 DEF TypeOK, ControlOK, Crash, hlds, control, target
    <3>3. TargetOK'
      BY <2>3 DEF TypeOK, TargetOK, Crash, hlds, control, target, speckit
    <3>4. CommandOK'
      BY <2>3 DEF TypeOK, CommandOK, Crash, hlds, control, target
    <3> QED
      BY <3>1, <3>2, <3>3, <3>4 DEF TypeOK
  <2>4. CASE People
    BY <2>4, PeopleTypes
  <2>5. CASE UNCHANGED vars
    <3>1. TextsOK'
      BY <2>5 DEF TypeOK, TextsOK, vars, hlds, control, target, bounds
    <3>2. ControlOK'
      BY <2>5 DEF TypeOK, ControlOK, vars, hlds, control, target, bounds
    <3>3. TargetOK'
      BY <2>5 DEF TypeOK, TargetOK, vars, hlds, control, target, bounds, speckit
    <3>4. CommandOK'
      BY <2>5 DEF TypeOK, CommandOK, vars, hlds, control, target, bounds
    <3> QED
      BY <3>1, <3>2, <3>3, <3>4 DEF TypeOK
  <2> QED
    BY <2>1, <2>2, <2>3, <2>4, <2>5 DEF Next, People
<1> QED
  BY <1>1, <1>2, PTL DEF Spec

-----------------------------------------------------------------------------
(***************************************************************************)
(* Ready is said of the HLD as it is.                                      *)
(***************************************************************************)

\* What a continue during which no HLD has changed knows: the texts agreed when it began,
\* and they have gone from the working HLD to the package and from there to the mirror.
\* A start never reports.
CurrentInv ==
  /\ cmd = "start" => pc \notin {"init", "report"}
  /\ cmd # "start" => pc \notin {"start_init", "session", "plan"}
  /\ pc \in {"init", "build", "mirror", "report"} /\ cmd # "start" /\ calm => ~Stale
  /\ pc = "mirror" /\ cmd # "start" /\ calm => package = source
  /\ pc = "report" /\ init /\ calm => package = source /\ mirror = source

\* The commands keep it.
LEMMA CommandsCurrent ==
  ASSUME TypeOK, CurrentInv,
         StartCopies \/ StartStep \/ Refuses \/ GoesOn \/ InitWorkspace \/ Build \/ Mirror
           \/ Report \/ Status \/ Crash
  PROVE  CurrentInv'
<1>1. CASE StartCopies
  BY <1>1 DEF CurrentInv, StartCopies
<1>2. CASE StartStep
  BY <1>2 DEF CurrentInv, StartStep, StartInits, WritesSession, WritesPlan
<1>3. CASE Refuses
  BY <1>3 DEF CurrentInv, Refuses, Begin
<1>4. CASE GoesOn
  BY <1>4 DEF CurrentInv, GoesOn, Begin, Stale, StaleWith, hlds
<1>5. CASE InitWorkspace
  <2>1. pc' = "report" /\ init' => working = None
    BY <1>5 DEF InitWorkspace
  <2>2. working = None => Stale
    BY DEF TypeOK, TextsOK, Stale, StaleWith
  <2> QED
    BY <1>5, <2>1, <2>2 DEF CurrentInv, InitWorkspace, Stale, StaleWith, hlds
<1>6. CASE Build
  BY <1>6 DEF CurrentInv, Build, Stale, StaleWith, hlds
<1>7. CASE Mirror
  BY <1>7 DEF CurrentInv, Mirror, Stale, StaleWith, hlds
<1>8. CASE Report \/ Crash
  BY <1>8 DEF CurrentInv, Report, Crash
<1>9. CASE Status
  BY <1>9 DEF CurrentInv, Status
<1> QED
  BY <1>1, <1>2, <1>3, <1>4, <1>5, <1>6, <1>7, <1>8, <1>9

\* People keep it: who changes an HLD ends the calm, and the package is cleaned up only
\* when nothing runs.
LEMMA PeopleCurrent ==
  ASSUME CurrentInv, People
  PROVE  CurrentInv'
<1>1. CASE \E t \in Texts : EditSource(t) \/ EditWorking(t)
  BY <1>1 DEF CurrentInv, EditSource, EditWorking
<1>2. CASE Reconcile
  BY <1>2 DEF CurrentInv, Reconcile, bounds
<1>3. CASE Approve \/ CleanUp \/ SpecKitPhase
  BY <1>3 DEF CurrentInv, Approve, CleanUp, SpecKitPhase
<1>4. CASE ChangeTarget \/ Commit \/ Install \/ AddPolicy \/ Validate
  BY <1>4 DEF CurrentInv, ChangeTarget, Commit, Install, AddPolicy, Validate, Stale, StaleWith, hlds
<1>5. CASE MakeQueue \/ LeaveBranch \/ ReturnToBranch
  BY <1>5 DEF CurrentInv, MakeQueue, LeaveBranch, ReturnToBranch, Stale, StaleWith, hlds, bounds
<1> QED
  BY <1>1, <1>2, <1>3, <1>4, <1>5 DEF People

\* The step that says ready is the report of a ready run, and says it of a target that is
\* initialised.
LEMMA ReportIsCurrent ==
  ASSUME TypeOK, CurrentInv, Next, pc = "report", pc' = "idle", crashes' = crashes, calm,
         state' # None, state'.stage \in {"READY_FOR_SPECIFY", "ACTIVE"}
  PROVE  package = source /\ mirror = source
<1>1. Report
  <2>1. ~Crash
    <3>1. crashes + 1 # crashes
      BY Raised DEF TypeOK, CommandOK
    <3> QED
      BY <3>1 DEF Crash
  <2>2. ~(StartCopies \/ StartStep \/ Refuses \/ GoesOn \/ InitWorkspace \/ Build \/ Mirror \/ Status)
    BY DEF StartCopies, StartStep, StartInits, WritesSession, WritesPlan, Refuses, GoesOn, Begin,
           InitWorkspace, Build, Mirror, Status
  <2>3. ~People
    BY DEF People, EditSource, EditWorking, ChangeTarget, Reconcile, Commit, Install, AddPolicy,
           Approve, CleanUp, SpecKitPhase, Validate, MakeQueue, LeaveBranch, ReturnToBranch
  <2> QED
    BY <2>1, <2>2, <2>3 DEF Next, People
<1>2. state'.stage = InitState \/ state'.stage = OperatorState
  BY <1>1 DEF Report, Writes
<1>3. InitState \notin {"READY_FOR_SPECIFY", "ACTIVE"}
  BY DEF InitState
<1>4. OperatorState \in {"READY_FOR_SPECIFY", "ACTIVE"} => init
  BY DEF OperatorState
<1> QED
  BY <1>2, <1>3, <1>4 DEF CurrentInv

\* Ready, or a phase that may go on, is only told of a package and a mirror that say what
\* the user's HLD says: for every history of edits, half-made starts, dead builds, repairs
\* and approvals, unless an HLD was changed during the very run that tells it.
THEOREM ReadyAlwaysCurrent == Spec => ReadyIsCurrent
<1>1. Init => CurrentInv
  BY DEF Init, CurrentInv
<1>2. TypeOK /\ CurrentInv /\ [Next]_vars => CurrentInv'
  <2> SUFFICES ASSUME TypeOK, CurrentInv, [Next]_vars PROVE CurrentInv'
    OBVIOUS
  <2>1. CASE People
    BY <2>1, PeopleCurrent
  <2>2. CASE Next /\ ~People
    BY <2>2, CommandsCurrent DEF Next, People
  <2>3. CASE UNCHANGED vars
    BY <2>3 DEF CurrentInv, Stale, StaleWith, vars, hlds, control, target
  <2> QED
    BY <2>1, <2>2, <2>3
<1>3. TypeOK /\ CurrentInv /\ [Next]_vars =>
        [ pc = "report" /\ state' # None /\ state'.stage \in {"READY_FOR_SPECIFY", "ACTIVE"}
            /\ pc' = "idle" /\ crashes' = crashes /\ calm =>
          package = source /\ mirror = source ]_vars
  BY ReportIsCurrent
<1> QED
  BY TypeCorrect, <1>1, <1>2, <1>3, PTL DEF Spec, ReadyIsCurrent
=============================================================================
