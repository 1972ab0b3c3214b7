------------------------------ MODULE Downstream ------------------------------
(***************************************************************************)
(* hld_spec_downstream.py: a run takes the specs of a workspace on, phase  *)
(* by phase.  It asks an agent, reads the files the agent wants written    *)
(* from a log, refuses those its phase does not allow and applies the      *)
(* others, at once or after a trial on a copy (--use-hld-map), and then    *)
(* validates the workspace.  Log and staging directory are named after the *)
(* second a run starts in, which two runs may share.                       *)
(***************************************************************************)
EXTENDS Naturals, Sequences, SequencesExt

CONSTANTS
  Runs,      \* the runs, each started once
  Specs,     \* directories under specs/
  Configs,   \* the command lines
  Outputs,   \* what agents write
  Earlier,   \* what earlier runs may have left: sets of files
  None,
  MaxClock,  \* bound: seconds
  MaxFaults  \* bound: runs that die or fail in the middle of a file

Phases == {"analyze", "plan", "tasks", "implement", "all"}

\* The files the code tells apart.
Reports == {"downstream"} \X {"analysis", "gaps", "closure", "skeptic"}
Artifacts == Specs \X {"spec", "plan", "tasks"}
Index == <<"sync", "index">>
Paths == Reports \cup Artifacts \cup ({"code"} \X {"root", "else"}) \cup {Index, <<".git", "config">>}

\* What a file says matters for the skeptic's conflicts alone.
Says == {"fine", "conflict", "broken"}
Block == [path : Paths, says : Says]

ASSUME ConfigsAssumption ==
  Configs \subseteq [phase : Phases, mode : {"map", "direct", "look"}, allow : BOOLEAN,
                     skeptic : BOOLEAN, targets : SUBSET (Specs \cup {"all"})]
ASSUME OutputsAssumption == Outputs \subseteq Seq(Block)
ASSUME EarlierAssumption == Earlier \subseteq SUBSET Paths
ASSUME BoundsAssumption == MaxClock \in Nat \ {0} /\ MaxFaults \in Nat

File == [says : Says \cup {"torn"}, by : Runs \cup {None}]

\* skeptic, allow and the other options; id is the second; todo is what is left to be
\* written; alone says that nobody else has changed the workspace during the run.
RunState ==
  [pc : {"agent", "check", "stage", "try", "read", "apply", "judge", "over"},
   conf : Configs, id : 1..MaxClock, todo : Seq(Block), alone : BOOLEAN,
   result : {None, "agent", "refused", "failed", "invalid", "conflict", "pass"}]

ASSUME NoneAssumption == None \notin Runs \cup File \cup RunState /\ None \notin {"refused", "invalid"}

VARIABLES
  disk,    \* the workspace
  log,     \* log[t]: the agent's log of the runs started in second t
  staged,  \* staged[t]: their manifest and staged files
  run,     \* the runs
  clock,
  faults

vars == <<disk, log, staged, run, clock, faults>>

Init ==
  /\ \E S \in Earlier :
       disk = [p \in Paths |-> IF p \in S THEN [says |-> "fine", by |-> None] ELSE None]
  /\ log = [t \in 1..MaxClock |-> <<>>] /\ staged = [t \in 1..MaxClock |-> <<>>]
  /\ run = [r \in Runs |-> None]
  /\ clock = 1 /\ faults = 0

-----------------------------------------------------------------------------
(***************************************************************************)
(* What a command line allows and requires.                                *)
(***************************************************************************)
\* is_allowed_non_impl_path and is_allowed_implementation_path, as validate_write_target
\* joins them; specs that are no targets are not told apart.
Permits(conf, path) ==
  \/ path \in Reports /\ (path[2] = "closure" => conf.phase \in {"implement", "all"})
  \/ path \in Specs \X {"plan"} /\ conf.phase \in {"plan", "all"}
  \/ path \in Specs \X {"tasks"} /\ conf.phase \in {"tasks", "all"}
  \/ path = <<"code", "root">> /\ conf.allow

\* find_spec_dirs and resolve_spec_dirs with strict: an unknown target is an error, and so
\* are an empty selection and "all" among others.
SpecDirs(d) == {s \in Specs : d[<<s, "spec">>] # None}
Selected(d, conf) == IF "all" \in conf.targets THEN SpecDirs(d) ELSE conf.targets
Resolves(d, conf) ==
  /\ Selected(d, conf) # {} /\ Selected(d, conf) \subseteq SpecDirs(d)
  /\ "all" \in conf.targets => conf.targets = {"all"}

\* validate_workspace: the files are there, whatever they say.
Required(d, conf) ==
  {Index, <<"downstream", "analysis">>, <<"downstream", "gaps">>}
  \cup {<<s, "plan">> : s \in IF conf.phase \in {"plan", "all"} THEN Selected(d, conf) ELSE {}}
  \cup {<<s, "tasks">> : s \in IF conf.phase \in {"tasks", "all"} THEN Selected(d, conf) ELSE {}}
  \cup (IF conf.phase \in {"implement", "all"} THEN {<<"downstream", "closure">>} ELSE {})

Conflicts == <<"downstream", "skeptic">>

\* With evaluate_skeptic_outputs, which adds its own errors.
Valid(d, conf) ==
  /\ Resolves(d, conf) /\ \A p \in Required(d, conf) : d[p] # None
  /\ conf.skeptic => d[Conflicts] # None /\ d[Conflicts].says \in {"fine", "conflict"}

Written(d, r, block) == [d EXCEPT ![block.path] = [says |-> block.says, by |-> r]]
\* One after the other: what a path's last block says stays.
AllWritten(d, r, blocks) ==
  LET Of(p) == {i \in DOMAIN blocks : blocks[i].path = p}
  IN [p \in Paths |-> IF Of(p) = {} THEN d[p]
                      ELSE [says |-> blocks[Max(Of(p))].says, by |-> r]]
Permitted(conf, blocks) == \A i \in DOMAIN blocks : Permits(conf, blocks[i].path)

At(r, pc) == run[r] # None /\ run[r].pc = pc
Log(r) == log[run[r].id]
Goes(r, pc) == run' = [run EXCEPT ![r].pc = pc]
Ends(r, result) == run' = [run EXCEPT ![r].pc = "over", ![r].result = result]

\* r changes the workspace and becomes me.
Disturbs(r, me) ==
  run' = [q \in Runs |-> IF q = r THEN me
                         ELSE IF run[q] = None THEN None ELSE [run[q] EXCEPT !.alone = FALSE]]

-----------------------------------------------------------------------------
(***************************************************************************)
(* A run.                                                                  *)
(***************************************************************************)
\* main until the agent is called; the log of the second is opened for writing.
Start(r, conf) ==
  /\ run[r] = None /\ Resolves(disk, conf)
  /\ run' = [run EXCEPT ![r] =
       [pc |-> "agent", conf |-> conf, id |-> clock, todo |-> <<>>, alone |-> TRUE,
        result |-> None]]
  /\ log' = [log EXCEPT ![clock] = <<>>]
  /\ UNCHANGED <<disk, staged, clock, faults>>

\* run_agent: the agent exits, fails or is stopped by the timeout; two agents of a second
\* write over each other's log.
AgentEnds(r, out) ==
  /\ At(r, "agent")
  /\ log' = [log EXCEPT ![run[r].id] = out \o SubSeq(@, Len(out) + 1, Len(@))]
  /\ \/ Ends(r, "agent")
     \/ Goes(r, IF run[r].conf.mode = "look" THEN "judge" ELSE "check")
  /\ UNCHANGED <<disk, staged, clock, faults>>

\* The targets are left to be checked one by one.
ChecksNothing(r) ==
  /\ At(r, "check") /\ Goes(r, "stage")
  /\ UNCHANGED <<disk, log, staged, clock, faults>>

\* validate_write_targets.
Check(r) ==
  /\ At(r, "check")
  /\ IF Permitted(run[r].conf, Log(r)) THEN Goes(r, "stage") ELSE Ends(r, "refused")
  /\ UNCHANGED <<disk, log, staged, clock, faults>>

\* The log is read again, by stage_write_blocks or by apply_write_blocks.
Stage(r) ==
  /\ At(r, "stage")
  /\ IF run[r].conf.mode = "map"
     THEN Goes(r, "try") /\ staged' = [staged EXCEPT ![run[r].id] = Log(r)]
     ELSE /\ run' = [run EXCEPT ![r].pc = "apply", ![r].todo = Log(r)]
          /\ UNCHANGED staged
  /\ UNCHANGED <<disk, log, clock, faults>>

\* The copy is validated as it is.
TriesOld(r) ==
  /\ At(r, "try")
  /\ IF Permitted(run[r].conf, staged[run[r].id]) /\ Valid(disk, run[r].conf)
     THEN Goes(r, "read") ELSE Ends(r, "refused")
  /\ UNCHANGED <<disk, log, staged, clock, faults>>

\* copy_validation_workspace, a first apply_staged_writes_to_workspace and the validation
\* of the copy, which nobody else sees.
Try(r) ==
  /\ At(r, "try")
  /\ LET blocks == staged[run[r].id]
     IN IF /\ Permitted(run[r].conf, blocks)
           /\ Valid(AllWritten(disk, r, blocks), run[r].conf)
        THEN Goes(r, "read") ELSE Ends(r, "refused")
  /\ UNCHANGED <<disk, log, staged, clock, faults>>

\* apply_staged_writes_to_workspace reads the manifest again.
Read(r) ==
  /\ At(r, "read")
  /\ run' = [run EXCEPT ![r].pc = "apply", ![r].todo = staged[run[r].id]]
  /\ UNCHANGED <<disk, log, staged, clock, faults>>

\* Without looking at the target, which the trial has allowed.
AppliesAny(r) ==
  /\ At(r, "apply") /\ run[r].todo # <<>>
  /\ disk' = Written(disk, r, Head(run[r].todo))
  /\ Disturbs(r, [run[r] EXCEPT !.todo = Tail(@)])
  /\ UNCHANGED <<log, staged, clock, faults>>

\* The next file of either apply: validate_write_target, write_text.
Apply(r) ==
  /\ At(r, "apply") /\ run[r].todo # <<>>
  /\ IF Permits(run[r].conf, Head(run[r].todo).path)
     THEN /\ disk' = Written(disk, r, Head(run[r].todo))
          /\ Disturbs(r, [run[r] EXCEPT !.todo = Tail(@)])
     ELSE Ends(r, "refused") /\ UNCHANGED disk
  /\ UNCHANGED <<log, staged, clock, faults>>

\* The workspace is validated; unresolved conflicts are a result of their own.
Judge(r) ==
  /\ At(r, "judge") \/ (At(r, "apply") /\ run[r].todo = <<>>)
  /\ Ends(r, IF ~Valid(disk, run[r].conf) THEN "invalid"
             ELSE IF run[r].conf.skeptic /\ disk[Conflicts].says = "conflict" THEN "conflict"
             ELSE "pass")
  /\ UNCHANGED <<disk, log, staged, clock, faults>>

\* A write fails, or the run dies in it: the file is as it was or torn.
Fault(r) ==
  /\ At(r, "apply") /\ run[r].todo # <<>> /\ Permits(run[r].conf, Head(run[r].todo).path)
  /\ faults < MaxFaults /\ faults' = faults + 1
  /\ \/ UNCHANGED disk
     \/ disk' = [disk EXCEPT ![Head(run[r].todo).path] = [says |-> "torn", by |-> r]]
  /\ Disturbs(r, [run[r] EXCEPT !.pc = "over", !.result = "failed"])
  /\ UNCHANGED <<log, staged, clock>>

\* hld_spec_sync.py writes the spec of another feature.
NewSpec(s) ==
  /\ s \notin SpecDirs(disk)
  /\ disk' = [disk EXCEPT ![<<s, "spec">>] = [says |-> "fine", by |-> None]]
  /\ Disturbs(None, None)
  /\ UNCHANGED <<log, staged, clock, faults>>

Tick == clock < MaxClock /\ clock' = clock + 1 /\ UNCHANGED <<disk, log, staged, run, faults>>

Step(r) ==
  \/ \E out \in Outputs : AgentEnds(r, out)
  \/ Check(r) \/ Stage(r) \/ Try(r) \/ Read(r) \/ Apply(r) \/ Judge(r)

Next ==
  \/ \E r \in Runs : (\E conf \in Configs : Start(r, conf)) \/ Step(r) \/ Fault(r)
  \/ \E s \in Specs : NewSpec(s)
  \/ Tick

Spec == Init /\ [][Next]_vars

-----------------------------------------------------------------------------
\* The type invariant.
TypeOK ==
  /\ disk \in [Paths -> {None} \cup File] /\ run \in [Runs -> {None} \cup RunState]
  /\ log \in [1..MaxClock -> Seq(Block)] /\ staged \in [1..MaxClock -> Seq(Block)]
  /\ clock \in 1..MaxClock /\ faults \in 0..MaxFaults

SharesSecond(r) == \E q \in Runs \ {r} : run[q] # None /\ run[q].id = run[r].id

\* All or nothing: what a run refuses, for a target its phase does not allow or for a
\* trial that did not validate, it has not begun to write, whatever other runs do to the
\* workspace, unless another run shares its second.
RefusedLeavesNothing ==
  \A r \in Runs :
    run[r] # None /\ run[r].result = "refused" /\ ~SharesSecond(r) =>
      \A p \in Paths : disk[p] = None \/ disk[p].by # r

\* A trial decides: what has passed it leaves a workspace that validates, unless somebody
\* else changed the workspace meanwhile or the run's second is shared.
TrialDecides ==
  \A r \in Runs :
    run[r] # None /\ run[r].conf.mode = "map" /\ run[r].alone /\ ~SharesSecond(r) =>
      run[r].result # "invalid"

\* Nothing that a run's own phase and roots do not allow is written by it, even when
\* the log or the manifest it reads is that of another run with more rights.
OwnRightsOnly ==
  \A r \in Runs, p \in Paths :
    run[r] # None /\ disk[p] # None /\ disk[p].by = r => Permits(run[r].conf, p)
=============================================================================
