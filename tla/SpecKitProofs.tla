--------------------------- MODULE SpecKitProofs ----------------------------
(***************************************************************************)
(* Theorems about the two ways a queue of features is taken through the    *)
(* SpecKit phases: bundle after bundle with an agent (SpecKitDriveLoop) and *)
(* phase after phase by the machine (SpecKitExecution).                    *)
(***************************************************************************)
EXTENDS SpecKitDriveLoop, SpecKitExecution, FiniteSetTheorems, WellFoundedInduction, TLAPS

-----------------------------------------------------------------------------
(***************************************************************************)
(* SpecKitDriveLoop, for any queue of specs and any limits, whatever the   *)
(* agent and others do to the specs meanwhile.                             *)
(***************************************************************************)

Places == (1..Len(Specs)) \X Steps
WorkAt(p) == <<Specs[p[1]], p[2]>>

-----------------------------------------------------------------------------
(***************************************************************************)
(* The resume point.                                                       *)
(***************************************************************************)

\* A non-empty set of numbers has a least one.
LEMMA LeastNumber ==
  ASSUME NEW T \in SUBSET Nat, T # {}
  PROVE  \E t \in T : \A u \in T : t <= u
<1> DEFINE Less == {ss \in Nat \X Nat : ss[1] < ss[2]}
<1>1. IsWellFoundedOn(Less, Nat)
  BY NatLessThanWellFounded DEF OpToRel
<1>2. \A x, y \in Nat : ~ (<<y, x>> \in Less) => x <= y
  OBVIOUS
<1> HIDE DEF Less
<1>3. PICK t \in T : \A u \in T : ~ (<<u, t>> \in Less)
  BY <1>1, WFMin
<1>4. \A u \in T : t <= u
  BY <1>2, <1>3
<1> QED
  BY <1>4

LEMMA PlaceType ==
  /\ Len(Specs) \in Nat \ {0}
  /\ \A p \in Places : p[1] \in 1..Len(Specs) /\ p[2] \in Steps /\ p = <<p[1], p[2]>>
  /\ \A p \in Places : WorkAt(p) \in SpecIds \X Steps
  /\ \A p \in Places : p[1] \in Nat /\ p[2] \in Nat
  /\ \A p, q \in Places : p[1] = q[1] /\ p[2] = q[2] => p = q
  /\ None \notin Places
<1>1. Len(Specs) \in Nat \ {0}
  BY SpecsAssumption
<1>2. \A p \in Places : p[1] \in 1..Len(Specs) /\ p[2] \in Steps /\ p = <<p[1], p[2]>>
  BY DEF Places
<1>3. \A p \in Places : p[1] \in Nat /\ p[2] \in Nat
  BY <1>1, <1>2 DEF Steps
<1>4. \A p \in Places : WorkAt(p) \in SpecIds \X Steps
  BY <1>2 DEF WorkAt, SpecIds
<1>5. None \notin Places
  BY NoneAssumption DEF Places
<1> QED
  BY <1>1, <1>2, <1>3, <1>4, <1>5

\* The order of queue and phases is total: of two places that precede each other there
\* is one.
LEMMA PrecedesAntisymmetric ==
  ASSUME NEW p \in Places, NEW q \in Places, Precedes(p, q), Precedes(q, p)
  PROVE  p = q
  BY PlaceType DEF Precedes

\* A set of places has a first one.
LEMMA FirstPlace ==
  ASSUME NEW S \in SUBSET Places, S # {}
  PROVE  \E p \in S : \A q \in S : Precedes(p, q)
<1> DEFINE I == {q[1] : q \in S}
<1>1. I \in SUBSET Nat /\ I # {}
  BY PlaceType
<1>2. PICK i \in I : \A j \in I : i <= j
  <2> HIDE DEF I
  <2> QED BY <1>1, LeastNumber
<1> DEFINE K == {q[2] : q \in {r \in S : r[1] = i}}
<1>3. K \in SUBSET Nat /\ K # {}
  BY PlaceType
<1>4. PICK k \in K : \A m \in K : k <= m
  <2> HIDE DEF K
  <2> QED BY <1>3, LeastNumber
<1>5. PICK p \in S : p[1] = i /\ p[2] = k
  OBVIOUS
<1>6. ASSUME NEW q \in S PROVE Precedes(p, q)
  <2>1. i <= q[1] /\ i \in Nat /\ q[1] \in Nat
    BY <1>1, <1>2
  <2>2. q[1] = i => k <= q[2]
    BY <1>4
  <2> QED
    BY <1>5, <2>1, <2>2 DEF Precedes
<1> QED
  BY <1>6

\* What build_execution_state resumes at: the first place that is not verified.
LEMMA ResumeIsFirst ==
  /\ Resume # None => /\ root /\ Resume \in Places /\ WorkAt(Resume) \notin passing
                      /\ \A q \in Places : WorkAt(q) \notin passing => Precedes(Resume, q)
  /\ root /\ Pending # {} => Resume # None
<1>1. Pending = {p \in Places : WorkAt(p) \notin passing}
  BY DEF Pending, Places, WorkAt
<1>2. CASE Pending = {} \/ ~root
  BY <1>2 DEF Resume
<1>3. CASE Pending # {} /\ root
  <2>1. \E p \in Pending : \A q \in Pending : Precedes(p, q)
    BY <1>1, <1>3, FirstPlace
  <2>2. Resume \in Pending /\ \A q \in Pending : Precedes(Resume, q)
    BY <1>3, <2>1 DEF Resume
  <2> QED
    BY <1>1, <1>3, <2>2, PlaceType
<1> QED
  BY <1>2, <1>3

\* When everything in front of a place is verified and the place is not, that is where
\* the loop resumes.
LEMMA ResumesThere ==
  ASSUME NEW p \in Places, root, WorkAt(p) \notin passing,
         \A q \in Places : Precedes(q, p) /\ q # p => WorkAt(q) \in passing
  PROVE  Resume = p
<1>1. p \in Pending
  BY DEF Pending, Places, WorkAt
<1>2. /\ Resume \in Places /\ WorkAt(Resume) \notin passing /\ Precedes(Resume, p)
  BY <1>1, ResumeIsFirst
<1> QED
  BY <1>2

-----------------------------------------------------------------------------
(***************************************************************************)
(* Type correctness.                                                       *)
(***************************************************************************)
LEMMA DriveInitType == DriveInit => DriveTypeOK
<1> SUFFICES ASSUME DriveInit PROVE DriveTypeOK
  OBVIOUS
<1>1. 0 \in 0..RunCap
  BY PlaceType DEF RunCap, PHASES
<1>2. /\ passing \subseteq SpecIds \X Steps
      /\ before \in ((1..Len(Specs)) \X Steps) \cup {None}
      /\ runs \in 0..RunCap
  BY <1>1 DEF DriveInit
<1> QED
  BY <1>2 DEF DriveInit, DriveTypeOK

LEMMA DriveNextType ==
  ASSUME DriveTypeOK, [DriveNext]_driveVars
  PROVE  DriveTypeOK'
<1> USE DEF DriveTypeOK
<1>1. CASE Start
  <2>1. 0 \in 0..RunCap
    BY PlaceType DEF RunCap, PHASES
  <2> QED
    BY <1>1, <2>1 DEF Start, Stop
<1>2. CASE AssessStops
  BY <1>2 DEF AssessStops, Stop, worldVars
<1>3. CASE StartAgent
  <2>1. before' \in (1..Len(Specs)) \X Steps
    BY <1>3, ResumeIsFirst DEF StartAgent, Places
  <2> QED
    BY <1>3, <2>1 DEF StartAgent, worldVars
<1>4. CASE AgentStops
  BY <1>4 DEF AgentStops, Stop, worldVars
<1>5. CASE AgentPasses
  BY <1>5 DEF AgentPasses, worldVars
<1>6. CASE Judge
  <2>1. RunCap \in Nat
    BY PlaceType DEF RunCap, PHASES
  <2>2. runs' \in 0..RunCap
    BY <1>6, <2>1 DEF Judge, CountRun
  <2>3. /\ stage' \in {"idle", "assess"}
        /\ stop_reason' \in {stop_reason, "MAX_BUNDLES", "NO_PROGRESS"}
    BY <1>6 DEF Judge, CountRun, Stop
  <2> QED
    BY <1>6, <2>2, <2>3 DEF Judge, worldVars
<1>7. ASSUME NEW s \in SpecIds, NEW k \in Steps, Work(s, k) PROVE DriveTypeOK'
  BY <1>7 DEF Work, loopVars
<1>8. ASSUME NEW s \in SpecIds, NEW k \in Steps, Undo(s, k) PROVE DriveTypeOK'
  BY <1>8 DEF Undo, loopVars
<1>9. CASE RootChanges
  BY <1>9 DEF RootChanges, loopVars
<1>10. CASE ApprovalChanges
  BY <1>10 DEF ApprovalChanges, loopVars
<1>11. CASE UNCHANGED driveVars
  BY <1>11 DEF driveVars
<1> QED
  BY <1>1, <1>2, <1>3, <1>4, <1>5, <1>6, <1>7, <1>8, <1>9, <1>10, <1>11 DEF DriveNext, Loop

\* The types of what run_drive_loop keeps.
THEOREM DriveTypeCorrect == DriveSpec => []DriveTypeOK
<1>1. DriveInit => DriveTypeOK
  BY DriveInitType
<1>2. DriveTypeOK /\ [DriveNext]_driveVars => DriveTypeOK'
  BY DriveNextType
<1> QED
  BY <1>1, <1>2, PTL DEF DriveSpec

-----------------------------------------------------------------------------
(***************************************************************************)
(* Progress.                                                               *)
(***************************************************************************)

\* Everything in front of the place the agent was started at is verified.
FrontDone ==
  stage \in {"agent", "judge"} =>
    /\ before \in Places
    /\ ~undone => /\ root
                  /\ \A q \in Places : Precedes(q, before) /\ q # before =>
                       WorkAt(q) \in passing

\* The runs counted so far are covered by verified work, that of the running bundle
\* not among it.
RunsCovered ==
  ~undone =>
    /\ stage = "assess" => runs <= Cardinality(passing)
    /\ stage \in {"agent", "judge"} => runs <= Cardinality(passing \ {WorkAt(before)})

LEMMA VerifiedFinite ==
  ASSUME DriveTypeOK
  PROVE  IsFiniteSet(passing)
<1>1. IsFiniteSet(1..Len(Specs)) /\ IsFiniteSet(Steps)
  <2>1. Len(Specs) \in Int /\ Len(PHASES) \in Int /\ 1 \in Int
    BY PlaceType DEF PHASES
  <2> QED
    BY <2>1, FS_Interval DEF Steps
<1>2. IsFiniteSet(SpecIds)
  <2>1. Specs \in [1..Len(Specs) -> SpecIds]
    BY SpecsAssumption
  <2>2. Specs \in Surjection(1..Len(Specs), SpecIds)
    BY <2>1 DEF Surjection, SpecIds
  <2> QED
    BY <1>1, <2>2, FS_Surjection
<1>3. IsFiniteSet(SpecIds \X Steps)
  BY <1>1, <1>2, FS_Product
<1> QED
  BY <1>3, FS_Subset DEF DriveTypeOK

LEMMA NextFront ==
  ASSUME DriveTypeOK, FrontDone, [DriveNext]_driveVars
  PROVE  FrontDone'
<1>1. CASE StartAgent
  <2>1. /\ before' = Resume /\ Resume # None
        /\ passing' = passing /\ root' = root
    BY <1>1 DEF StartAgent, worldVars
  <2>2. before' \in Places /\ root'
    BY <2>1, ResumeIsFirst
  <2>3. ASSUME NEW q \in Places, Precedes(q, before'), q # before'
        PROVE  WorkAt(q) \in passing'
    BY <2>1, <2>2, <2>3, ResumeIsFirst, PrecedesAntisymmetric
  <2> QED
    BY <2>2, <2>3 DEF FrontDone
<1>2. ASSUME NEW s \in SpecIds, NEW k \in Steps, Work(s, k) PROVE FrontDone'
  BY <1>2 DEF Work, loopVars, FrontDone
<1>3. ASSUME NEW s \in SpecIds, NEW k \in Steps, Undo(s, k) PROVE FrontDone'
  BY <1>3 DEF Undo, loopVars, FrontDone
<1>4. CASE RootChanges
  BY <1>4 DEF RootChanges, loopVars, FrontDone, DriveTypeOK
<1>5. CASE stage' \in {"idle", "assess"}
  BY <1>5 DEF FrontDone
<1>6. CASE AgentPasses \/ ApprovalChanges \/ UNCHANGED driveVars
  BY <1>6 DEF AgentPasses, ApprovalChanges, loopVars, worldVars, driveVars, FrontDone
<1> QED
  BY <1>1, <1>2, <1>3, <1>4, <1>5, <1>6
     DEF DriveNext, Loop, Start, AssessStops, AgentStops, Judge, CountRun, Stop

LEMMA NextCovered ==
  ASSUME DriveTypeOK, FrontDone, RunsCovered, [DriveNext]_driveVars
  PROVE  RunsCovered'
<1>0. IsFiniteSet(passing) /\ Cardinality(passing) \in Nat
      /\ \A x : IsFiniteSet(passing \ {x}) /\ Cardinality(passing \ {x}) \in Nat
                /\ (x \in passing => Cardinality(passing \ {x}) = Cardinality(passing) - 1)
                /\ (x \notin passing => Cardinality(passing \ {x}) = Cardinality(passing))
  BY VerifiedFinite, FS_CardinalityType, FS_RemoveElement
<1>1. CASE Start
  BY <1>0, <1>1 DEF Start, Stop, RunsCovered
<1>2. CASE StartAgent
  <2>1. /\ before' = Resume /\ Resume # None /\ stage = "assess" /\ stage' = "agent"
        /\ passing' = passing /\ undone' = undone /\ runs' = runs
    BY <1>2 DEF StartAgent, worldVars
  <2>2. WorkAt(Resume) \notin passing
    BY <2>1, ResumeIsFirst
  <2> QED
    BY <1>0, <2>1, <2>2 DEF RunsCovered
<1>3. CASE Judge
  <2>1. /\ stage = "judge" /\ passing' = passing /\ undone' = undone /\ before' = before
        /\ runs \in Nat
    BY <1>3 DEF Judge, worldVars, DriveTypeOK
  <2>2. CASE Key(Resume) = Key(before)
    BY <1>3, <2>2 DEF Judge, Stop, RunsCovered
  <2>3. CASE Key(Resume) # Key(before)
    <3>1. runs' <= runs + 1 /\ stage' \in {"idle", "assess"}
      BY <1>3, <2>1, <2>3 DEF Judge, CountRun, Stop
    <3>2. ~undone => WorkAt(before) \in passing
      BY <2>1, <2>3, ResumesThere DEF FrontDone
    <3>3. runs' \in Nat
      BY <1>3, <2>1, <2>3 DEF Judge, CountRun
    <3>4. ~undone => runs <= Cardinality(passing) - 1
      BY <1>0, <2>1, <3>2 DEF RunsCovered
    <3> QED
      BY <1>0, <2>1, <3>1, <3>3, <3>4 DEF RunsCovered
  <2> QED
    BY <2>2, <2>3
<1>4. ASSUME NEW s \in SpecIds, NEW k \in Steps, Work(s, k) PROVE RunsCovered'
  <2>1. /\ passing' = passing \cup {<<s, k>>}
        /\ stage' = stage /\ runs' = runs /\ before' = before /\ undone' = undone
    BY <1>4 DEF Work, loopVars
  <2>2. IsFiniteSet(passing')
    BY <1>0, <2>1, FS_AddElement
  <2>3. Cardinality(passing) <= Cardinality(passing') /\ Cardinality(passing') \in Nat
    BY <2>1, <2>2, FS_Subset, FS_CardinalityType
  <2>4. passing \ {WorkAt(before)} \subseteq passing' \ {WorkAt(before)}
    BY <2>1
  <2>5. IsFiniteSet(passing' \ {WorkAt(before)})
    BY <2>2, FS_RemoveElement
  <2>6. Cardinality(passing \ {WorkAt(before)}) <= Cardinality(passing' \ {WorkAt(before)})
        /\ Cardinality(passing' \ {WorkAt(before)}) \in Nat
    BY <2>4, <2>5, FS_Subset, FS_CardinalityType
  <2>7. runs \in Nat
    BY DEF DriveTypeOK
  <2> QED
    <3>1. ASSUME ~undone, stage = "assess" PROVE runs' <= Cardinality(passing')
      BY <1>0, <2>1, <2>3, <2>7, <3>1 DEF RunsCovered
    <3>2. ASSUME ~undone, stage \in {"agent", "judge"}
          PROVE  runs' <= Cardinality(passing' \ {WorkAt(before)})
      <4> DEFINE c == Cardinality(passing \ {WorkAt(before)})
                 d == Cardinality(passing' \ {WorkAt(before)})
      <4>1. runs <= c
        BY <3>2 DEF RunsCovered
      <4>2. c \in Nat /\ d \in Nat /\ c <= d /\ runs' = runs
        BY <1>0, <2>1, <2>6
      <4> HIDE DEF c, d
      <4>3. runs' <= d
        BY <2>7, <4>1, <4>2
      <4> QED
        BY <4>3 DEF d
    <3> QED
      BY <2>1, <3>1, <3>2 DEF RunsCovered
<1>5. ASSUME NEW s \in SpecIds, NEW k \in Steps, Undo(s, k) PROVE RunsCovered'
  BY <1>5 DEF Undo, RunsCovered
<1>6. CASE RootChanges
  BY <1>6 DEF RootChanges, loopVars, RunsCovered, DriveTypeOK
<1>7. CASE AssessStops \/ AgentStops
  BY <1>7 DEF AssessStops, AgentStops, Stop, RunsCovered
<1>8. CASE AgentPasses \/ ApprovalChanges \/ UNCHANGED driveVars
  BY <1>8 DEF AgentPasses, ApprovalChanges, loopVars, worldVars, driveVars, RunsCovered
<1> QED
  BY <1>1, <1>2, <1>3, <1>4, <1>5, <1>6, <1>7, <1>8 DEF DriveNext, Loop

\* The inductive invariant of the loop.
THEOREM Invariance == DriveSpec => [](DriveTypeOK /\ FrontDone /\ RunsCovered)
<1>1. DriveInit => DriveTypeOK /\ FrontDone /\ RunsCovered
  BY DriveInitType DEF DriveInit, FrontDone, RunsCovered
<1>2. (DriveTypeOK /\ FrontDone /\ RunsCovered) /\ [DriveNext]_driveVars
        => (DriveTypeOK /\ FrontDone /\ RunsCovered)'
  BY DriveNextType, NextFront, NextCovered
<1> QED
  BY <1>1, <1>2, PTL DEF DriveSpec

\* The agent works on a bundle only when all specs in front of its resume point are
\* done (build_execution_state), and they stay done unless somebody undoes them.
THEOREM EarlierDone == DriveSpec => []EarlierSpecsDone
<1>1. DriveTypeOK /\ FrontDone => EarlierSpecsDone
  <2> SUFFICES ASSUME FrontDone, stage \in {"agent", "judge"}, ~undone,
                      NEW i \in 1..(before[1] - 1), NEW k \in Steps
               PROVE  <<Specs[i], k>> \in passing
    BY DEF EarlierSpecsDone
  <2>1. before \in Places /\ before[1] \in 1..Len(Specs)
    BY PlaceType DEF FrontDone
  <2>2. <<i, k>> \in Places /\ i < before[1]
    BY <2>1, PlaceType DEF Places
  <2>3. Precedes(<<i, k>>, before) /\ <<i, k>> # before
    BY <2>2 DEF Precedes
  <2> QED
    BY <2>2, <2>3 DEF FrontDone, WorkAt
<1> QED
  BY <1>1, Invariance, PTL

\* Unless work was undone, the loop has run no more bundles than there are verified
\* phases (run_drive_loop goes on only when the resume key moved).
THEOREM Progress == DriveSpec => []RunsAreProgress
<1>1. DriveTypeOK /\ RunsCovered => RunsAreProgress
  <2> SUFFICES ASSUME DriveTypeOK, RunsCovered, stage # "idle", ~undone
               PROVE  runs <= Cardinality(passing)
    BY DEF RunsAreProgress
  <2>1. IsFiniteSet(passing) /\ runs \in Nat /\ Cardinality(passing) \in Nat
    BY VerifiedFinite, FS_CardinalityType DEF DriveTypeOK
  <2>2. /\ Cardinality(passing \ {WorkAt(before)}) <= Cardinality(passing)
        /\ Cardinality(passing \ {WorkAt(before)}) \in Nat
    BY <2>1, FS_Subset, FS_CardinalityType
  <2> QED
    BY <2>1, <2>2 DEF RunsCovered, DriveTypeOK
<1> QED
  BY <1>1, Invariance, PTL

-----------------------------------------------------------------------------
(***************************************************************************)
(* SpecKitExecution, for any features, queues, ritual and number of        *)
(* crashes.                                                                *)
(***************************************************************************)

USE ModesAssumption, PhasesAssumption, QueuesAssumption, OldsAssumption,
    MaxCrashesAssumption

Numbers == 1..Len(PHASE_ORDER)

-----------------------------------------------------------------------------
(***************************************************************************)
(* The phases.                                                             *)
(***************************************************************************)

\* Every phase has a number, the first one is 1, and DONE is the last.
LEMMA PhaseNumbers ==
  /\ Len(PHASE_ORDER) \in Nat /\ Len(PHASE_ORDER) > 1
  /\ \A p \in Phases : \E k \in Numbers : p = PHASE_ORDER[k]
  /\ \A k \in Numbers : PHASE_ORDER[k] \in Phases
  /\ FIRST_PHASE \in Phases /\ PHASE_DONE \in Phases
  /\ \A k, m \in Numbers : PHASE_ORDER[k] = PHASE_ORDER[m] => k = m
  /\ \A k \in Numbers : PHASE_ORDER[k] # PHASE_DONE => k + 1 \in Numbers
<1>1. Len(PHASE_ORDER) \in Nat /\ Len(PHASE_ORDER) > 1
  OBVIOUS
<1>2. 1 \in Numbers /\ Len(PHASE_ORDER) \in Numbers
  BY <1>1 DEF Numbers
<1> QED
  BY <1>1, <1>2 DEF Phases, FIRST_PHASE, PHASE_DONE, Numbers

LEMMA FirstNumber ==
  /\ Numbers \subseteq Nat \ {0} /\ 1 \in Numbers
  /\ \A m \in Numbers : PHASE_ORDER[m] = PHASE_ORDER[1] => m = 1
<1>1. Numbers \subseteq Nat \ {0} /\ 1 \in Numbers
  BY DEF Numbers
<1> QED
  BY <1>1, PhaseNumbers

\* _next_phase steps to the next number and stays at the last.
LEMMA NextPhaseNumber ==
  ASSUME NEW k \in Numbers
  PROVE  /\ NextPhase(PHASE_ORDER[k]) \in Phases
         /\ k + 1 \in Numbers => NextPhase(PHASE_ORDER[k]) = PHASE_ORDER[k + 1]
<1> DEFINE i == CHOOSE i \in 1..Len(PHASE_ORDER) : PHASE_ORDER[i] = PHASE_ORDER[k]
<1>1. i = k
  BY PhaseNumbers DEF Numbers
<1>2. NextPhase(PHASE_ORDER[k]) =
        IF i < Len(PHASE_ORDER) THEN PHASE_ORDER[i + 1] ELSE PHASE_DONE
  BY DEF NextPhase
<1> HIDE DEF i
<1> QED
  BY <1>1, <1>2, PhaseNumbers DEF Numbers

\* The constitution is not a phase of a feature.
LEMMA ConstitutionIsNoPhase == \A f, p : Constitution # <<f, p>>
  BY DEF Constitution

-----------------------------------------------------------------------------
(***************************************************************************)
(* Type correctness.                                                       *)
(***************************************************************************)

LEMMA BlankType == Blank \in State
  BY PhaseNumbers DEF Blank, State

LEMMA LoadType ==
  ASSUME TypeOK, NEW mode
  PROVE  Load(mode) \in State
  BY BlankType DEF Load, TypeOK

\* A run that is neither past the queue nor past a feature is at a job.
LEMMA JobType ==
  ASSUME TypeOK, NEW s \in State, ~QueueDone(s), ~FeatureDone(s)
  PROVE  /\ JobOf(s) \in Jobs
         /\ s.approved => /\ s.active_feature_index + 1 \in 1..Len(queue)
                          /\ JobOf(s) = <<queue[s.active_feature_index + 1], s.active_phase>>
                          /\ s.active_phase \in WorkPhases
                          /\ JobOf(s) # Constitution
         /\ ~s.approved => JobOf(s) = Constitution
<1>1. CASE s.approved
  <2>1. queue \in Seq(Features) /\ s.active_feature_index \in Nat /\ s.active_phase \in Phases
    BY DEF TypeOK, State
  <2>2. s.active_feature_index + 1 \in 1..Len(queue)
    BY <1>1, <2>1 DEF QueueDone
  <2>3. s.active_phase \in WorkPhases
    BY <1>1, <2>1 DEF FeatureDone, WorkPhases
  <2>4. queue[s.active_feature_index + 1] \in Features
    BY <2>1, <2>2
  <2>5. JobOf(s) = <<queue[s.active_feature_index + 1], s.active_phase>>
    BY <1>1 DEF JobOf
  <2> QED
    BY <1>1, <2>2, <2>3, <2>4, <2>5, ConstitutionIsNoPhase DEF Jobs
<1>2. CASE ~s.approved
  BY <1>2 DEF JobOf, Jobs
<1> QED
  BY <1>1, <1>2

LEMMA AdvanceType ==
  ASSUME NEW s \in State, NEW j \in Jobs
  PROVE  Advance(s, j) \in State
<1>1. NextPhase(s.active_phase) \in Phases
  BY PhaseNumbers, NextPhaseNumber DEF State
<1>2. [s EXCEPT !.approved = TRUE, !.decided = @ \cup {j}] \in State
  BY DEF State
<1>3. [s EXCEPT !.active_phase = NextPhase(@), !.decided = @ \cup {j}] \in State
  BY <1>1 DEF State
<1> QED
  BY <1>2, <1>3 DEF Advance

LEMMA InitType == Init => TypeOK
  BY BlankType DEF Init, TypeOK, Jobs

LEMMA NextType ==
  ASSUME TypeOK, [Next]_vars
  PROVE  TypeOK'
<1> USE DEF TypeOK
<1>1. CASE RunAdvance
  <2>1. PICK mode \in Modes :
          \/ QueueDone(Load(mode)) /\ WriteNext([Load(mode) EXCEPT !.all_complete = TRUE])
          \/ /\ FeatureDone(Load(mode))
             /\ WriteNext([Load(mode) EXCEPT !.active_feature_index = @ + 1,
                                             !.active_phase = FIRST_PHASE])
          \/ /\ ~QueueDone(Load(mode)) /\ ~FeatureDone(Load(mode))
             /\ WriteNext(Advance(Load(mode), JobOf(Load(mode))))
    BY <1>1 DEF RunAdvance
  <2> DEFINE s == Load(mode)
  <2>2. s \in State
    BY LoadType
  <2> HIDE DEF s
  <2>3. [s EXCEPT !.all_complete = TRUE] \in State
    BY <2>2 DEF State
  <2>4. [s EXCEPT !.active_feature_index = @ + 1, !.active_phase = FIRST_PHASE] \in State
    <3>1. FIRST_PHASE \in Phases
      BY PhaseNumbers
    <3>2. s.active_feature_index + 1 \in Nat
      BY <2>2 DEF State
    <3> QED
      BY <2>2, <3>1, <3>2 DEF State
  <2>5. ~QueueDone(s) /\ ~FeatureDone(s) => Advance(s, JobOf(s)) \in State
    BY <2>2, JobType, AdvanceType
  <2>6. mem' \in State /\ pc' = "write" /\ job' = job
    BY <2>1, <2>3, <2>4, <2>5 DEF WriteNext, s
  <2> QED
    BY <1>1, <2>6 DEF RunAdvance
<1>2. CASE RunInvoke
  <2>1. mem' \in State /\ job' \in Jobs
    BY <1>2, LoadType, JobType DEF RunInvoke
  <2> QED
    BY <1>2, <2>1 DEF RunInvoke
<1>3. CASE Verified
  <2>1. Advance(mem, job) \in State
    BY AdvanceType
  <2> QED
    BY <1>3, <2>1 DEF Verified, WriteNext
<1>4. CASE NotVerified
  BY <1>4 DEF NotVerified
<1>5. CASE Write
  <2>1. [mem EXCEPT !.current = TRUE] \in State
    BY DEF State
  <2> QED
    BY <1>5, <2>1 DEF Write
<1>6. CASE Crash
  BY <1>6, BlankType DEF Crash
<1>7. ASSUME NEW j \in Jobs, Decide(j) PROVE TypeOK'
  <2>1. [disk EXCEPT !.decided = @ \cup {j}] \in State
    BY DEF State
  <2> QED
    BY <1>7, <2>1 DEF Decide
<1>8. CASE Replan
  BY <1>8 DEF Replan
<1>9. CASE UNCHANGED vars
  BY <1>9 DEF vars
<1> QED
  BY <1>1, <1>2, <1>3, <1>4, <1>5, <1>6, <1>7, <1>8, <1>9 DEF Next

\* The types of the state file, the run and its job: run and _write_state.
THEOREM TypeCorrect == Spec => []TypeOK
<1>1. Init => TypeOK
  BY InitType
<1>2. TypeOK /\ [Next]_vars => TypeOK'
  BY NextType
<1> QED
  BY <1>1, <1>2, PTL DEF Spec

-----------------------------------------------------------------------------
(***************************************************************************)
(* Repeats.  A job is not among the decided ones of the state a run goes   *)
(* on from only if its result was lost, and only crashes lose results.     *)
(***************************************************************************)
CountedIn(s) == \A j \in Jobs : j \notin s.decided => verified[j] <= crashes

CountInv ==
  /\ \A j \in Jobs : verified[j] <= 1 + crashes
  /\ pc # "write" =>
       CountedIn(disk) /\ (~disk.current => \A j \in Jobs : verified[j] <= crashes)
  /\ pc # "idle" => CountedIn(mem)
  /\ pc = "invoke" => job \notin mem.decided

LEMMA InitCount == Init => CountInv
  BY DEF Init, CountInv, CountedIn, Jobs

\* What a run loads is counted, a state it does not trust included.
LEMMA LoadCounted ==
  ASSUME TypeOK, CountInv, pc = "idle", NEW mode
  PROVE  CountedIn(Load(mode))
  BY DEF CountInv, Load, CountedIn

\* Nothing a run does to the state it goes on from forgets a job.
LEMMA AdvanceKeeps ==
  ASSUME NEW s \in State, NEW j \in Jobs
  PROVE  Advance(s, j).decided = s.decided \cup {j}
  BY DEF Advance, State

LEMMA NextCount ==
  ASSUME TypeOK, CountInv, [Next]_vars
  PROVE  CountInv'
<1> USE DEF CountInv, CountedIn
<1>1. CASE RunAdvance
  <2>1. PICK mode \in Modes :
          LET s == Load(mode)
          IN  \/ WriteNext([s EXCEPT !.all_complete = TRUE])
              \/ WriteNext([s EXCEPT !.active_feature_index = @ + 1,
                                     !.active_phase = FIRST_PHASE])
              \/ /\ ~QueueDone(s) /\ ~FeatureDone(s)
                 /\ WriteNext(Advance(s, JobOf(s)))
    BY <1>1 DEF RunAdvance
  <2> DEFINE s == Load(mode)
  <2>2. s \in State /\ CountedIn(s)
    BY <1>1, LoadType, LoadCounted DEF RunAdvance
  <2> HIDE DEF s
  <2>3. [s EXCEPT !.all_complete = TRUE].decided = s.decided
    BY <2>2 DEF State
  <2>4. [s EXCEPT !.active_feature_index = @ + 1, !.active_phase = FIRST_PHASE].decided
          = s.decided
    BY <2>2 DEF State
  <2>5. ~QueueDone(s) /\ ~FeatureDone(s) => s.decided \subseteq Advance(s, JobOf(s)).decided
    BY <2>2, JobType, AdvanceKeeps
  <2>6. s.decided \subseteq mem'.decided /\ pc' = "write"
    BY <2>1, <2>3, <2>4, <2>5 DEF WriteNext, s
  <2> QED
    BY <1>1, <2>2, <2>6 DEF RunAdvance
<1>2. CASE RunInvoke
  <2>1. CountedIn(Load("live"))
    BY <1>2, LoadCounted DEF RunInvoke
  <2> QED
    BY <1>2, <2>1 DEF RunInvoke
<1>3. CASE Verified
  <2>1. Advance(mem, job).decided = mem.decided \cup {job}
    BY AdvanceKeeps DEF TypeOK
  <2>2. mem'.decided = mem.decided \cup {job} /\ pc' = "write" /\ crashes' = crashes
    BY <1>3, <2>1 DEF Verified, WriteNext
  <2>3. \A j \in Jobs : verified[j] \in Nat /\ crashes \in Nat
    BY DEF TypeOK
  <2>4. \A j \in Jobs : verified'[j] = IF j = job THEN verified[j] + 1 ELSE verified[j]
    BY <1>3 DEF Verified, TypeOK
  <2>5. verified[job] <= crashes
    BY <1>3 DEF Verified, TypeOK
  <2>6. \A j \in Jobs : verified'[j] <= 1 + crashes
    BY <2>3, <2>4, <2>5
  <2>7. \A j \in Jobs : j \notin mem'.decided => verified'[j] <= crashes
    BY <1>3, <2>2, <2>4 DEF Verified
  <2> QED
    BY <2>2, <2>6, <2>7
<1>4. CASE NotVerified
  BY <1>4 DEF NotVerified
<1>5. CASE Write
  <2>1. disk'.decided = mem.decided /\ disk'.current
    BY <1>5 DEF Write, TypeOK, State
  <2> QED
    BY <1>5, <2>1 DEF Write
<1>6. CASE Crash
  <2>1. \A j \in Jobs : verified[j] \in Nat /\ crashes \in Nat
    BY DEF TypeOK
  <2>2. \A j \in Jobs : verified'[j] <= crashes'
    BY <1>6, <2>1 DEF Crash
  <2>3. crashes' \in Nat /\ pc' = "idle"
    BY <1>6, <2>1 DEF Crash, TypeOK
  <2>4. \A j \in Jobs : verified'[j] \in Nat
    BY <1>6, <2>1 DEF Crash
  <2> QED
    BY <2>2, <2>3, <2>4
<1>7. ASSUME NEW j \in Jobs, Decide(j) PROVE CountInv'
  <2>1. disk'.decided = disk.decided \cup {j} /\ disk'.current = disk.current
    BY <1>7 DEF Decide, TypeOK, State
  <2> QED
    BY <1>7, <2>1 DEF Decide
<1>8. CASE Replan
  BY <1>8 DEF Replan
<1>9. CASE UNCHANGED vars
  BY <1>9 DEF vars
<1> QED
  BY <1>1, <1>2, <1>3, <1>4, <1>5, <1>6, <1>7, <1>8, <1>9 DEF Next

\* A verified job is run again only when a run died (run, _write_state), for every
\* queue, also when it is planned again, and for every mix of gated and live runs.
THEOREM Repeats == Spec => []RepeatsAreCrashes
<1>1. Init => TypeOK /\ CountInv
  BY InitType, InitCount
<1>2. (TypeOK /\ CountInv) /\ [Next]_vars => (TypeOK /\ CountInv)'
  BY NextType, NextCount
<1>3. TypeOK /\ CountInv => RepeatsAreCrashes
  BY DEF CountInv, RepeatsAreCrashes
<1> QED
  BY <1>1, <1>2, <1>3, PTL DEF Spec

-----------------------------------------------------------------------------
(***************************************************************************)
(* Order and completion.  They need two things the code does not check:    *)
(* queues that agree as far as both go, and no gated run on a state of     *)
(* another version.                                                        *)
(***************************************************************************)
StableOrder ==
  /\ \A q, r \in Queues : \A i \in 1..Len(q) : i \in 1..Len(r) => q[i] = r[i]
  /\ "gated" \in Modes => Olds = {}

\* The place s keeps in the queue is earned: all before it is in E.
PlaceIn(s, E) ==
  \A q \in Queues : \A i \in 1..Len(q), k, m \in Numbers :
    /\ PHASE_ORDER[k] # PHASE_DONE /\ s.active_phase = PHASE_ORDER[m]
    /\ i <= s.active_feature_index \/ (i = s.active_feature_index + 1 /\ k < m)
    => <<q[i], PHASE_ORDER[k]>> \in E

EarnedIn(s, E) ==
  /\ s.approved => Constitution \in E
  /\ s.decided \subseteq E
  /\ PlaceIn(s, E)

LEMMA EarnedInGrows ==
  ASSUME NEW s, NEW E, NEW F, E \subseteq F, EarnedIn(s, E)
  PROVE  EarnedIn(s, F)
<1>1. PlaceIn(s, F)
  BY DEF EarnedIn, PlaceIn
<1> QED
  BY <1>1 DEF EarnedIn

\* A state with nothing in it claims nothing.
LEMMA BlankEarned == ASSUME NEW E PROVE EarnedIn(Blank, E)
<1>1. Blank.active_phase = PHASE_ORDER[1] /\ Blank.active_feature_index = 0
      /\ ~Blank.approved /\ Blank.decided = {}
  BY DEF Blank, FIRST_PHASE
<1>2. PlaceIn(Blank, E)
  <2> HIDE PhasesAssumption, QueuesAssumption, OldsAssumption
  <2> SUFFICES ASSUME NEW q \in Queues, NEW i \in 1..Len(q),
                      NEW k \in Numbers, NEW m \in Numbers, PHASE_ORDER[1] = PHASE_ORDER[m],
                      i <= 0 \/ (i = 0 + 1 /\ k < m)
               PROVE  FALSE
    BY <1>1 DEF PlaceIn
  <2> QED
    BY FirstNumber
<1> QED
  BY <1>1, <1>2 DEF EarnedIn

\* Past the last phase of a feature, the next one's first phase is an earned place.
LEMMA NextFeatureEarned ==
  ASSUME TypeOK, StableOrder, NEW s \in State, NEW E, EarnedIn(s, E), FeatureDone(s)
  PROVE  EarnedIn([s EXCEPT !.active_feature_index = @ + 1, !.active_phase = FIRST_PHASE], E)
<1> DEFINE t == [s EXCEPT !.active_feature_index = @ + 1, !.active_phase = FIRST_PHASE]
<1>1. /\ t.approved = s.approved /\ t.decided = s.decided
      /\ t.active_feature_index = s.active_feature_index + 1
      /\ t.active_phase = PHASE_ORDER[1]
      /\ s.active_feature_index \in Nat
  BY DEF State, FIRST_PHASE
<1>2. s.active_phase = PHASE_ORDER[Len(PHASE_ORDER)]
  BY DEF FeatureDone, PHASE_DONE
<1> HIDE DEF t
<1>3. ASSUME NEW q \in Queues, NEW i \in 1..Len(q), NEW k \in Numbers, NEW m \in Numbers,
             PHASE_ORDER[k] # PHASE_DONE, t.active_phase = PHASE_ORDER[m],
             i <= t.active_feature_index \/ (i = t.active_feature_index + 1 /\ k < m)
      PROVE  <<q[i], PHASE_ORDER[k]>> \in E
  <2>1. m = 1
    BY <1>1, <1>3, FirstNumber
  <2>2. i <= s.active_feature_index + 1
    BY <1>1, <1>3, <2>1 DEF Numbers
  <2>3. k < Len(PHASE_ORDER) /\ Len(PHASE_ORDER) \in Numbers
    BY <1>3, PhaseNumbers DEF Numbers, PHASE_DONE
  <2>4. i <= s.active_feature_index \/ i = s.active_feature_index + 1
    BY <1>1, <2>2
  <2> QED
    BY <1>2, <1>3, <2>3, <2>4 DEF EarnedIn, PlaceIn
<1>4. PlaceIn(t, E)
  BY <1>3 DEF PlaceIn
<1> QED
  BY <1>1, <1>4 DEF EarnedIn, t

\* A state advanced over an earned job is earned.
LEMMA AdvanceEarned ==
  ASSUME TypeOK, StableOrder, NEW s \in State, NEW E, EarnedIn(s, E),
         ~QueueDone(s), ~FeatureDone(s), JobOf(s) \in E
  PROVE  EarnedIn(Advance(s, JobOf(s)), E)
<1>1. CASE ~s.approved
  <2>1. Advance(s, JobOf(s)) = [s EXCEPT !.approved = TRUE, !.decided = @ \cup {Constitution}]
    BY <1>1, JobType DEF Advance
  <2> DEFINE t == [s EXCEPT !.approved = TRUE, !.decided = @ \cup {Constitution}]
  <2>2. /\ t.approved /\ t.decided = s.decided \cup {Constitution}
        /\ t.active_phase = s.active_phase
        /\ t.active_feature_index = s.active_feature_index
    BY DEF State
  <2> HIDE DEF t
  <2>3. Constitution \in E
    BY <1>1, JobType
  <2>4. PlaceIn(t, E)
    BY <2>2 DEF PlaceIn, EarnedIn
  <2>5. EarnedIn(t, E)
    BY <2>2, <2>3, <2>4 DEF EarnedIn
  <2> QED
    BY <2>1, <2>5 DEF t
<1>2. CASE s.approved
  <2> DEFINE t == [s EXCEPT !.active_phase = NextPhase(@), !.decided = @ \cup {JobOf(s)}]
  <2>1. Advance(s, JobOf(s)) = t
    BY <1>2, JobType DEF Advance
  <2>2. /\ t.approved = s.approved /\ t.decided = s.decided \cup {JobOf(s)}
        /\ t.active_phase = NextPhase(s.active_phase)
        /\ t.active_feature_index = s.active_feature_index
        /\ s.active_feature_index \in Nat /\ s.active_phase \in Phases
    BY DEF State
  <2> HIDE DEF t
  <2>3. /\ s.active_feature_index + 1 \in 1..Len(queue)
        /\ JobOf(s) = <<queue[s.active_feature_index + 1], s.active_phase>>
        /\ s.active_phase # PHASE_DONE
    BY <1>2, JobType DEF WorkPhases
  <2>4. PICK n \in Numbers : s.active_phase = PHASE_ORDER[n]
    BY <2>2, PhaseNumbers
  <2>5. n + 1 \in Numbers /\ t.active_phase = PHASE_ORDER[n + 1]
    BY <2>2, <2>3, <2>4, PhaseNumbers, NextPhaseNumber
  <2>6. ASSUME NEW q \in Queues, NEW i \in 1..Len(q), NEW k \in Numbers, NEW m \in Numbers,
               PHASE_ORDER[k] # PHASE_DONE, t.active_phase = PHASE_ORDER[m],
               i <= t.active_feature_index \/ (i = t.active_feature_index + 1 /\ k < m)
        PROVE  <<q[i], PHASE_ORDER[k]>> \in E
    <3>1. m = n + 1
      BY <2>5, <2>6, PhaseNumbers
    <3>2. CASE i = s.active_feature_index + 1 /\ k = n
      <4>1. q[i] = queue[i]
        BY <2>3, <2>6, <3>2 DEF StableOrder, TypeOK
      <4> QED
        BY <2>3, <2>4, <3>2, <4>1
    <3>3. CASE ~(i = s.active_feature_index + 1 /\ k = n)
      <4>1. i <= s.active_feature_index \/ (i = s.active_feature_index + 1 /\ k < n)
        BY <2>2, <2>6, <3>1, <3>3 DEF Numbers
      <4> QED
        BY <2>4, <2>6, <4>1 DEF EarnedIn, PlaceIn
    <3> QED
      BY <3>2, <3>3
  <2>7. PlaceIn(t, E)
    BY <2>6 DEF PlaceIn
  <2>8. EarnedIn(t, E)
    BY <2>2, <2>7 DEF EarnedIn
  <2> QED
    BY <2>1, <2>8
<1> QED
  BY <1>1, <1>2

\* What a run goes on from, and what it would trust on disk, is earned; SpecKit is run
\* for the job the run is at.
EarnedInv ==
  /\ EarnedIn(mem, Earned)
  /\ disk.current \/ "gated" \in Modes => EarnedIn(disk, Earned)
  /\ pc = "invoke" => ~QueueDone(mem) /\ ~FeatureDone(mem) /\ job = JobOf(mem)

LEMMA InitEarned == StableOrder /\ Init => EarnedInv
<1> SUFFICES ASSUME StableOrder, Init PROVE EarnedInv
  OBVIOUS
<1>1. disk \in Olds => ~disk.current /\ "gated" \notin Modes
  BY DEF StableOrder
<1>2. EarnedIn(Blank, Earned)
  BY BlankEarned
<1> QED
  BY <1>1, <1>2 DEF Init, EarnedInv

LEMMA LoadEarned ==
  ASSUME EarnedInv, NEW mode \in Modes
  PROVE  EarnedIn(Load(mode), Earned)
<1>1. Load(mode) = Blank \/ (Load(mode) = disk /\ (disk.current \/ "gated" \in Modes))
  BY DEF Load
<1> QED
  BY <1>1, BlankEarned DEF EarnedInv

\* Fields that the place in the queue does not depend on.
LEMMA EarnedInFields ==
  ASSUME NEW s, NEW t, NEW E, EarnedIn(s, E), t.approved = s.approved,
         t.decided = s.decided, t.active_phase = s.active_phase,
         t.active_feature_index = s.active_feature_index
  PROVE  EarnedIn(t, E)
<1>1. PlaceIn(t, E)
  BY DEF EarnedIn, PlaceIn
<1> QED
  BY <1>1 DEF EarnedIn

LEMMA NextEarned ==
  ASSUME TypeOK, EarnedInv, StableOrder, [Next]_vars
  PROVE  EarnedInv'
<1>1. CASE RunAdvance
  <2>1. PICK mode \in Modes :
          LET s == Load(mode)
          IN  \/ WriteNext([s EXCEPT !.all_complete = TRUE])
              \/ /\ FeatureDone(s)
                 /\ WriteNext([s EXCEPT !.active_feature_index = @ + 1,
                                        !.active_phase = FIRST_PHASE])
              \/ /\ ~QueueDone(s) /\ ~FeatureDone(s) /\ JobOf(s) \in s.decided
                 /\ WriteNext(Advance(s, JobOf(s)))
    BY <1>1 DEF RunAdvance
  <2> DEFINE s == Load(mode)
  <2>2. s \in State /\ EarnedIn(s, Earned)
    BY LoadType, LoadEarned
  <2> HIDE DEF s
  <2>3. EarnedIn([s EXCEPT !.all_complete = TRUE], Earned)
    <3> DEFINE t == [s EXCEPT !.all_complete = TRUE]
    <3>1. /\ t.approved = s.approved /\ t.decided = s.decided
          /\ t.active_phase = s.active_phase
          /\ t.active_feature_index = s.active_feature_index
      BY <2>2 DEF State
    <3> HIDE DEF t
    <3>2. EarnedIn(t, Earned)
      BY <2>2, <3>1, EarnedInFields
    <3> QED
      BY <3>2 DEF t
  <2>4. FeatureDone(s) => EarnedIn(
          [s EXCEPT !.active_feature_index = @ + 1, !.active_phase = FIRST_PHASE], Earned)
    BY <2>2, NextFeatureEarned
  <2>5. ~QueueDone(s) /\ ~FeatureDone(s) /\ JobOf(s) \in s.decided =>
          EarnedIn(Advance(s, JobOf(s)), Earned)
    BY <2>2, AdvanceEarned DEF EarnedIn
  <2>6. EarnedIn(mem', Earned) /\ pc' = "write"
    BY <2>1, <2>3, <2>4, <2>5 DEF WriteNext, s
  <2>7. Earned' = Earned /\ disk' = disk
    BY <1>1 DEF RunAdvance, Earned
  <2> QED
    BY <2>6, <2>7 DEF EarnedInv
<1>2. CASE RunInvoke
  <2>1. "live" \in Modes /\ Earned' = Earned /\ disk' = disk /\ mem' = Load("live")
    BY <1>2 DEF RunInvoke, Earned
  <2>2. EarnedIn(mem', Earned)
    BY <2>1, LoadEarned
  <2>3. ~QueueDone(mem)' /\ ~FeatureDone(mem)' /\ job' = JobOf(mem)'
    BY <1>2 DEF RunInvoke, QueueDone, FeatureDone, JobOf
  <2> QED
    BY <2>1, <2>2, <2>3 DEF EarnedInv
<1>3. CASE Verified
  <2>1. Earned \subseteq Earned' /\ job \in Earned'
    <3>1. \A j \in Jobs : verified'[j] = IF j = job THEN verified[j] + 1 ELSE verified[j]
      BY <1>3 DEF Verified, TypeOK
    <3>2. \A j \in Jobs : verified[j] \in Nat
      BY DEF TypeOK
    <3>3. job \in Jobs /\ told' = told
      BY <1>3 DEF Verified, TypeOK
    <3> QED
      BY <3>1, <3>2, <3>3 DEF Earned
  <2>2. EarnedIn(mem, Earned') /\ (disk.current \/ "gated" \in Modes => EarnedIn(disk, Earned'))
    <3> DEFINE E == Earned
               F == Earned'
    <3>1. E \subseteq F /\ EarnedIn(mem, E)
          /\ (disk.current \/ "gated" \in Modes => EarnedIn(disk, E))
      BY <2>1 DEF EarnedInv
    <3> HIDE DEF E, F
    <3>2. EarnedIn(mem, F) /\ (disk.current \/ "gated" \in Modes => EarnedIn(disk, F))
      BY <3>1, EarnedInGrows
    <3> QED
      BY <3>2 DEF F
  <2>3. job = JobOf(mem) /\ ~QueueDone(mem) /\ ~FeatureDone(mem) /\ mem \in State
    BY <1>3 DEF Verified, EarnedInv, TypeOK
  <2>4. EarnedIn(Advance(mem, job), Earned')
    BY <2>1, <2>2, <2>3, AdvanceEarned
  <2>5. mem' = Advance(mem, job) /\ pc' = "write" /\ disk' = disk
    BY <1>3 DEF Verified, WriteNext
  <2> QED
    BY <2>2, <2>4, <2>5 DEF EarnedInv
<1>4. CASE NotVerified
  BY <1>4 DEF NotVerified, EarnedInv, Earned
<1>5. CASE Write
  <2> DEFINE t == [mem EXCEPT !.current = TRUE]
  <2>1. /\ t.approved = mem.approved /\ t.decided = mem.decided
        /\ t.active_phase = mem.active_phase
        /\ t.active_feature_index = mem.active_feature_index
    BY DEF TypeOK, State
  <2>2. disk' = t /\ mem' = mem /\ pc' = "idle" /\ Earned' = Earned
    BY <1>5 DEF Write, Earned
  <2> HIDE DEF t
  <2>3. EarnedIn(t, Earned)
    BY <2>1, EarnedInFields DEF EarnedInv
  <2> QED
    BY <2>2, <2>3 DEF EarnedInv
<1>6. CASE Crash
  <2>1. /\ disk' = disk \/ disk' = Blank
        /\ mem' = mem /\ pc' = "idle" /\ Earned' = Earned
    BY <1>6 DEF Crash, Earned
  <2>2. EarnedIn(Blank, Earned)
    BY BlankEarned
  <2> QED
    BY <2>1, <2>2 DEF EarnedInv
<1>7. ASSUME NEW j \in Jobs, Decide(j) PROVE EarnedInv'
  <2> DEFINE E == Earned
             F == Earned'
             t == [disk EXCEPT !.decided = @ \cup {j}]
  <2>1. E \subseteq F /\ j \in F
    BY <1>7 DEF Decide, Earned
  <2>2. disk' = t /\ mem' = mem /\ pc' = pc /\ job' = job /\ queue' = queue
        /\ "gated" \in Modes
    BY <1>7 DEF Decide
  <2>3. /\ t.approved = disk.approved /\ t.decided = disk.decided \cup {j}
        /\ t.active_phase = disk.active_phase
        /\ t.active_feature_index = disk.active_feature_index
    BY DEF TypeOK, State
  <2>4. EarnedIn(mem, E) /\ EarnedIn(disk, E)
    BY <2>2 DEF EarnedInv
  <2> HIDE DEF E, F, t
  <2>5. EarnedIn(mem, F) /\ EarnedIn(disk, F)
    BY <2>1, <2>4, EarnedInGrows
  <2>6. EarnedIn(t, F)
    <3>1. PlaceIn(t, F)
      BY <2>3, <2>5 DEF EarnedIn, PlaceIn
    <3> QED
      BY <2>1, <2>3, <2>5, <3>1 DEF EarnedIn
  <2>7. QueueDone(mem)' = QueueDone(mem) /\ FeatureDone(mem)' = FeatureDone(mem)
        /\ JobOf(mem)' = JobOf(mem)
    BY <2>2 DEF QueueDone, FeatureDone, JobOf
  <2> QED
    BY <2>2, <2>5, <2>6, <2>7 DEF EarnedInv, F
<1>8. CASE Replan
  BY <1>8 DEF Replan, EarnedInv, Earned
<1>9. CASE UNCHANGED vars
  BY <1>9 DEF vars, EarnedInv, Earned, QueueDone, FeatureDone, JobOf
<1> QED
  BY <1>1, <1>2, <1>3, <1>4, <1>5, <1>6, <1>7, <1>8, <1>9 DEF Next

\* The inductive invariant of the order of jobs.
THEOREM EarnedInvariance ==
  ASSUME StableOrder
  PROVE  Spec => [](TypeOK /\ EarnedInv)
<1>1. Init => TypeOK /\ EarnedInv
  BY InitType, InitEarned
<1>2. (TypeOK /\ EarnedInv) /\ [Next]_vars => (TypeOK /\ EarnedInv)'
  BY NextType, NextEarned
<1> QED
  BY <1>1, <1>2, PTL DEF Spec

\* A state at the end of the queue has earned every job of it.
LEMMA EarnedComplete ==
  ASSUME TypeOK, EarnedInv
  PROVE  CompleteIsEarned
<1> SUFFICES ASSUME disk.current, QueueDone(disk)
             PROVE  QueueJobs \subseteq Earned
  BY DEF CompleteIsEarned
<1>1. EarnedIn(disk, Earned) /\ Constitution \in Earned
  BY DEF EarnedInv, EarnedIn, QueueDone
<1>2. ASSUME NEW i \in 1..Len(queue), NEW p \in WorkPhases
      PROVE  <<queue[i], p>> \in Earned
  <2>1. PICK k \in Numbers : p = PHASE_ORDER[k]
    BY PhaseNumbers DEF WorkPhases
  <2>2. PICK m \in Numbers : disk.active_phase = PHASE_ORDER[m]
    BY PhaseNumbers DEF TypeOK, State
  <2>3. queue \in Queues /\ Len(queue) \in Nat /\ disk.active_feature_index \in Nat
    BY DEF TypeOK, State
  <2>4. i <= disk.active_feature_index
    BY <2>3 DEF QueueDone
  <2>5. PHASE_ORDER[k] # PHASE_DONE
    BY <2>1 DEF WorkPhases
  <2> QED
    BY <1>1, <2>1, <2>2, <2>3, <2>4, <2>5 DEF EarnedIn, PlaceIn
<1> QED
  BY <1>1, <1>2 DEF QueueJobs

\* A state the machine wrote that is past its queue has a verified invocation or a
\* recorded decision behind every phase of every feature (run): for queues that keep
\* their order when they are planned again, and without states of another version that
\* a gated run would take over.
THEOREM Completeness ==
  ASSUME StableOrder
  PROVE  Spec => []CompleteIsEarned
<1>1. TypeOK /\ EarnedInv => CompleteIsEarned
  BY EarnedComplete
<1> QED
  BY <1>1, EarnedInvariance, PTL

\* The job SpecKit is run for has everything before it earned.
LEMMA EarnedBefore ==
  ASSUME TypeOK, EarnedInv
  PROVE  DependencyOrder
<1> SUFFICES ASSUME pc = "invoke", NEW k \in Before(job)
             PROVE  k \in Earned
  BY DEF DependencyOrder
<1>1. /\ mem \in State /\ ~QueueDone(mem) /\ ~FeatureDone(mem) /\ job = JobOf(mem)
      /\ EarnedIn(mem, Earned)
  BY DEF TypeOK, EarnedInv
<1>2. job # Constitution /\ mem.approved
  BY <1>1, JobType DEF Before
<1>3. /\ mem.active_feature_index + 1 \in 1..Len(queue) /\ queue \in Queues
      /\ job = <<queue[mem.active_feature_index + 1], mem.active_phase>>
      /\ mem.active_feature_index \in Nat
  BY <1>1, <1>2, JobType DEF TypeOK, State
<1>4. CASE k = Constitution
  BY <1>1, <1>2, <1>4 DEF EarnedIn
<1>5. CASE k # Constitution
  <2>1. k \in Features \X WorkPhases
    BY <1>2, <1>5 DEF Before
  <2>2. PICK a, b \in 1..Len(queue), x, y \in 1..Len(PHASE_ORDER) :
          /\ k = <<queue[a], PHASE_ORDER[x]>> /\ job = <<queue[b], PHASE_ORDER[y]>>
          /\ a < b \/ (a = b /\ x < y)
    BY <1>2, <1>5 DEF Before
  <2>3. b = mem.active_feature_index + 1 /\ mem.active_phase = PHASE_ORDER[y]
    BY <1>3, <2>2
  <2>4. PHASE_ORDER[x] # PHASE_DONE
    BY <2>1, <2>2 DEF WorkPhases
  <2>5. a <= mem.active_feature_index \/ (a = mem.active_feature_index + 1 /\ x < y)
    BY <1>3, <2>2, <2>3
  <2> QED
    BY <1>1, <1>3, <2>2, <2>3, <2>4, <2>5 DEF EarnedIn, PlaceIn, Numbers
<1> QED
  BY <1>4, <1>5

\* SpecKit is run for a job only when everything before it in the queue and in the
\* ritual is done (run: "strict dependency order"), under the same conditions.
THEOREM Ordering ==
  ASSUME StableOrder
  PROVE  Spec => []DependencyOrder
<1>1. TypeOK /\ EarnedInv => DependencyOrder
  BY EarnedBefore
<1> QED
  BY <1>1, EarnedInvariance, PTL
=============================================================================
