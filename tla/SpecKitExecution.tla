--------------------------- MODULE SpecKitExecution ---------------------------
(***************************************************************************)
(* SpecKitExecutionMachine (hldspec/machines/speckit_execution.py): takes   *)
(* the features of the invocation queue, in order, through the phases of   *)
(* the SpecKit ritual, one phase per run, keeping its place in             *)
(* speckit_execution_state.json.  A gated run waits for decisions people   *)
(* write into that file; a live run invokes SpecKit.  Runs can die between *)
(* and inside the steps, people edit the file and the prework rebuilds the *)
(* queue.                                                                  *)
(***************************************************************************)
EXTENDS Naturals, Sequences

CONSTANTS
  Features,     \* feature ids
  Queues,       \* what speckit_invocation_queue.json may hold
  PHASE_ORDER,  \* phases of a feature, DONE last
  Modes,        \* how the machine is run: a subset of {"gated", "live"}
  Olds,         \* execution states left by other versions of the machine
  MaxCrashes    \* bound: how often a run dies

FIRST_PHASE == PHASE_ORDER[1]
PHASE_DONE == PHASE_ORDER[Len(PHASE_ORDER)]
Phases == {PHASE_ORDER[i] : i \in 1..Len(PHASE_ORDER)}
WorkPhases == Phases \ {PHASE_DONE}

\* A unit of work: the constitution or one phase of one feature.
Constitution == <<"constitution">>
Jobs == {Constitution} \cup (Features \X WorkPhases)

\* The state file.  current: state_version is STATE_VERSION; decided: the jobs whose
\* recorded decision is APPROVED or COMPLETE (any other is as good as none).
State == [current : BOOLEAN, approved : BOOLEAN, decided : SUBSET Jobs,
          active_feature_index : Nat, active_phase : Phases, all_complete : BOOLEAN]

\* What a missing, torn or otherwise unreadable file loads as: {}.
Blank == [current |-> FALSE, approved |-> FALSE, decided |-> {},
          active_feature_index |-> 0, active_phase |-> FIRST_PHASE,
          all_complete |-> FALSE]

ASSUME ModesAssumption == Modes \subseteq {"gated", "live"}
ASSUME PhasesAssumption ==
  /\ PHASE_ORDER \in Seq(STRING) /\ Len(PHASE_ORDER) > 1
  /\ \A i, j \in 1..Len(PHASE_ORDER) : PHASE_ORDER[i] = PHASE_ORDER[j] => i = j
\* feature ids in a queue are distinct
ASSUME QueuesAssumption ==
  /\ Queues \subseteq Seq(Features)
  /\ \A q \in Queues : \A i, j \in 1..Len(q) : q[i] = q[j] => i = j
ASSUME OldsAssumption == Olds \subseteq {s \in State : ~s.current}
ASSUME MaxCrashesAssumption == MaxCrashes \in Nat

VARIABLES
  queue,     \* speckit_invocation_queue.json
  disk,      \* the state file, as it loads
  pc,        \* idle, invoke (SpecKit runs) or write (the state file is written)
  job,       \* what the run invokes
  mem,       \* the state the run loaded and goes on from
  verified,  \* how often SpecKit was run for a job with a verified result
  told,      \* jobs that people recorded as approved or complete
  crashes    \* runs that died

vars == <<queue, disk, pc, job, mem, verified, told, crashes>>

Init ==
  /\ queue \in Queues
  /\ disk \in {Blank} \cup Olds
  /\ pc = "idle" /\ job = Constitution /\ mem = Blank
  /\ verified = [j \in Jobs |-> 0]
  /\ told = {} /\ crashes = 0

-----------------------------------------------------------------------------
(***************************************************************************)
(* One run.                                                                *)
(***************************************************************************)
\* A live run does not trust a state of another version.
Load(mode) == IF mode = "live" /\ ~disk.current THEN Blank ELSE disk

\* One phase too far.
SkipsPhase(p) ==
  LET i == CHOOSE i \in 1..Len(PHASE_ORDER) : PHASE_ORDER[i] = p
  IN  IF i + 1 < Len(PHASE_ORDER) THEN PHASE_ORDER[i + 2] ELSE PHASE_DONE

NextPhase(p) ==
  LET i == CHOOSE i \in 1..Len(PHASE_ORDER) : PHASE_ORDER[i] = p
  IN  IF i < Len(PHASE_ORDER) THEN PHASE_ORDER[i + 1] ELSE PHASE_DONE

\* The job a state is at; queue index i of the code is i + 1 here.
JobOf(s) ==
  IF s.approved THEN <<queue[s.active_feature_index + 1], s.active_phase>>
  ELSE Constitution

\* Without going to the next phase, and without keeping what was done.
StaysInPhase(s, j) ==
  IF j = Constitution THEN [s EXCEPT !.approved = TRUE, !.decided = @ \cup {j}]
  ELSE [s EXCEPT !.decided = @ \cup {j}]

ForgetsJob(s, j) == IF j = Constitution THEN [s EXCEPT !.approved = TRUE] ELSE s

\* The state after job j has been found decided or verified.
Advance(s, j) ==
  IF j = Constitution THEN [s EXCEPT !.approved = TRUE, !.decided = @ \cup {j}]
  ELSE [s EXCEPT !.active_phase = NextPhase(@), !.decided = @ \cup {j}]

\* The run is past the last feature of the queue, or past the last phase of one.
QueueDone(s) == s.approved /\ s.active_feature_index >= Len(queue)
FeatureDone(s) == s.approved /\ ~QueueDone(s) /\ s.active_phase = PHASE_DONE

\* The run decides what to write, and goes on to write it.
WriteNext(s) == mem' = s /\ pc' = "write" /\ UNCHANGED job

\* A run that needs no SpecKit: it finds everything done, steps to the next feature,
\* or finds the decision for its job in the state.
RunAdvance ==
  /\ pc = "idle"
  /\ \E mode \in Modes :
       LET s == Load(mode)
       IN  \/ QueueDone(s) /\ WriteNext([s EXCEPT !.all_complete = TRUE])
           \/ /\ FeatureDone(s)
              /\ WriteNext([s EXCEPT !.active_feature_index = @ + 1,
                                     !.active_phase = FIRST_PHASE])
           \/ /\ ~QueueDone(s) /\ ~FeatureDone(s) /\ JobOf(s) \in s.decided
              /\ WriteNext(Advance(s, JobOf(s)))
  /\ UNCHANGED <<queue, disk, verified, told, crashes>>

\* A live run starts SpecKit for a job without a decision.  (A gated run returns a
\* human checkpoint and changes nothing.)
RunInvoke ==
  /\ pc = "idle" /\ "live" \in Modes
  /\ LET s == Load("live")
     IN  /\ ~QueueDone(s) /\ ~FeatureDone(s) /\ JobOf(s) \notin s.decided
         /\ mem' = s /\ job' = JobOf(s)
  /\ pc' = "invoke"
  /\ UNCHANGED <<queue, disk, verified, told, crashes>>

\* SpecKit succeeded and, where the phase must produce something, the project changed.
Verified ==
  /\ pc = "invoke"
  /\ verified' = [verified EXCEPT ![job] = @ + 1]
  /\ WriteNext(Advance(mem, job))
  /\ UNCHANGED <<queue, disk, told, crashes>>

\* Going on whenever the command ended.
AdvancesUnverified ==
  /\ pc = "invoke"
  /\ WriteNext(Advance(mem, job))
  /\ UNCHANGED <<queue, disk, verified, told, crashes>>

\* It failed or produced nothing: the run is blocked and the state stays.
NotVerified ==
  /\ pc = "invoke"
  /\ pc' = "idle"
  /\ UNCHANGED <<queue, disk, job, mem, verified, told, crashes>>

\* _write_state stamps the version on what the run goes on from.
Write ==
  /\ pc = "write"
  /\ disk' = [mem EXCEPT !.current = TRUE]
  /\ pc' = "idle"
  /\ UNCHANGED <<queue, job, mem, verified, told, crashes>>

\* A run dies.  write_text truncates the file first, so one that dies writing may
\* leave it unreadable.
Crash ==
  /\ pc # "idle" /\ crashes < MaxCrashes
  /\ crashes' = crashes + 1
  /\ disk' \in IF pc = "write" THEN {disk, Blank} ELSE {disk}
  /\ pc' = "idle"
  /\ UNCHANGED <<queue, job, mem, verified, told>>

-----------------------------------------------------------------------------
(***************************************************************************)
(* Others.                                                                 *)
(***************************************************************************)
\* Someone edits the state file, also ahead of time and while a run goes on, and
\* records a job as approved or complete.  A new file has no state_version.
Decide(j) ==
  /\ "gated" \in Modes
  /\ j \notin disk.decided
  /\ disk' = [disk EXCEPT !.decided = @ \cup {j}]
  /\ told' = told \cup {j}
  /\ UNCHANGED <<queue, pc, job, mem, verified, crashes>>

\* The prework is run again and builds another queue; a run that goes on has read
\* the old one.
Replan ==
  /\ pc = "idle"
  /\ queue' \in Queues \ {queue}
  /\ UNCHANGED <<disk, pc, job, mem, verified, told, crashes>>

Next ==
  \/ RunAdvance \/ RunInvoke \/ Verified \/ NotVerified \/ Write \/ Crash
  \/ \E j \in Jobs : Decide(j)
  \/ Replan

Spec == Init /\ [][Next]_vars

\* Someone keeps running the machine, SpecKit always ends, and a job that is invoked
\* again and again is verified some time.
FairSpec ==
  /\ Spec
  /\ WF_vars(RunAdvance) /\ WF_vars(RunInvoke)
  /\ WF_vars(Verified \/ NotVerified) /\ WF_vars(Write) /\ SF_vars(Verified)

-----------------------------------------------------------------------------
\* The type invariant.
TypeOK ==
  /\ queue \in Queues
  /\ disk \in State /\ mem \in State
  /\ pc \in {"idle", "invoke", "write"}
  /\ job \in Jobs
  /\ verified \in [Jobs -> Nat]
  /\ told \subseteq Jobs
  /\ crashes \in 0..MaxCrashes

\* Jobs with something behind them: a verified invocation or somebody's decision.
Earned == {j \in Jobs : verified[j] > 0} \cup told

\* The jobs of the queue, and those that come before a job.
QueueJobs == {Constitution} \cup ({queue[i] : i \in 1..Len(queue)} \X WorkPhases)

Before(j) ==
  IF j = Constitution THEN {}
  ELSE {Constitution}
       \cup {k \in Features \X WorkPhases :
               \E a, b \in 1..Len(queue), x, y \in 1..Len(PHASE_ORDER) :
                 /\ k = <<queue[a], PHASE_ORDER[x]>> /\ j = <<queue[b], PHASE_ORDER[y]>>
                 /\ a < b \/ (a = b /\ x < y)}

\* No hollow completion: from a state the machine wrote, a run finds all features
\* complete only when every phase of every feature of the queue was verified or decided
\* by somebody, whatever was torn, repeated, edited or planned again on the way.
CompleteIsEarned == disk.current /\ QueueDone(disk) => QueueJobs \subseteq Earned

\* Strict dependency order: SpecKit is only ever run for a job when everything that
\* comes before it in the queue and in the ritual is done.
DependencyOrder == pc = "invoke" => Before(job) \subseteq Earned

\* A job is only repeated because a run died: what it did or the whole state file was
\* lost with it.
RepeatsAreCrashes == \A j \in Jobs : verified[j] <= 1 + crashes

\* Runs that are repeated for ever end with everything complete, also after crashes
\* that destroy the state, unless the queue is planned anew for ever.
EverythingCompletes ==
  []<><<queue' # queue>>_queue \/ <>[](disk.all_complete /\ QueueJobs \subseteq Earned)
=============================================================================
