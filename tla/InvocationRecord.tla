--------------------------- MODULE InvocationRecord ---------------------------
(***************************************************************************)
(* What validate_invocation_record (hldspec/speckit_invocation_audit.py)    *)
(* asks of a record before it is serialized, and of every line of the log   *)
(* when it is read again: the fields of a record must agree with each       *)
(* other.  Whether a single field has its form is one flag.                 *)
(***************************************************************************)
EXTENDS Naturals, Sequences

CONSTANT None  \* null; no process, no record

ARTIFACT_PHASES == {"CONSTITUTION", "SPECIFY", "PLAN", "CHECKLIST", "TASKS", "IMPLEMENT"}
PHASES == ARTIFACT_PHASES \cup {"CLARIFY", "ANALYZE"}

Outcomes == {"SUCCESS", "COMMAND_FAILED", "HOLLOW_COMPLETION", "TIMEOUT", "INTERRUPTED",
             "UNEXPECTED_MUTATION"}

\* The target it is bound to and the command it ran; a skill is named by its phase, and so
\* is a prompt's slash command.
Bindings == [branch : STRING \cup {None}, head : STRING \cup {None}]
Commands == [agent : STRING, argv : Seq(STRING), skip : BOOLEAN]

\* What a FINISHED record adds; a path is its place in the order of paths.
Results == [returncode : Nat, ok : BOOLEAN, produced : BOOLEAN, verified : BOOLEAN,
            outcome : Outcomes, branch : STRING \cup {None}, head : STRING \cup {None},
            paths : Seq(Nat), count : Nat, truncated : BOOLEAN]

Record == [type : {"STARTED", "FINISHED"}, id : STRING, at : Nat, formed : BOOLEAN,
           phase : PHASES, skill : PHASES, model : STRING, binding : Bindings,
           command : Commands, result : Results \cup {None}]

\* Branch and head are both there or both null.
Paired(x) == x.branch = None <=> x.head = None

\* _validate_target_binding
BindingValid(r) == Paired(r.binding)

Flags(argv, flag) == {i \in DOMAIN argv : argv[i] = flag}

\* _validate_command_identity: the arguments begin with the agent, name the model once and
\* skip permissions as the record says, and none is the prompt's command.
CommandValid(r) ==
  LET c == r.command
      model == Flags(c.argv, "--model")
  IN /\ c.argv # <<>> /\ c.argv[1] = c.agent
     /\ Flags(c.argv, r.skill) = {}
     /\ \E i \in model : model = {i} /\ i < Len(c.argv) /\ c.argv[i + 1] = r.model
     /\ c.skip <=> Flags(c.argv, "--dangerously-skip-permissions") # {}

\* _validate_changed_paths
PathsValid(paths) == \A i, j \in DOMAIN paths : i < j => paths[i] < paths[j]

\* With any outcome that the return code allows.
OutcomeByReturnCode(r) ==
  LET f == r.result
  IN /\ f.outcome = "SUCCESS" => f.ok
     /\ f.outcome = "COMMAND_FAILED" => ~f.ok
     /\ f.outcome = "HOLLOW_COMPLETION" => f.ok

\* What the outcome says must be what is verified: a phase that makes artifacts has made some.
OutcomeValid(r) ==
  LET f == r.result
  IN /\ f.verified <=> f.ok /\ (r.phase \in ARTIFACT_PHASES => f.produced)
     /\ f.outcome = "SUCCESS" => f.verified
     /\ f.outcome = "COMMAND_FAILED" => f.returncode # 0 /\ ~f.verified
     /\ f.outcome = "HOLLOW_COMPLETION" =>
          f.returncode = 0 /\ f.ok /\ ~f.produced /\ ~f.verified

\* _validate_finished_fields
FinishedValid(r) ==
  LET f == r.result
  IN /\ f # None
     /\ f.ok <=> f.returncode = 0
     /\ OutcomeValid(r)
     /\ Paired(f) /\ PathsValid(f.paths)
     /\ IF f.truncated THEN f.count >= Len(f.paths) ELSE f.count = Len(f.paths)

\* validate_invocation_record has no errors.
Valid(r) ==
  /\ r.formed /\ r.skill = r.phase
  /\ BindingValid(r) /\ CommandValid(r)
  /\ IF r.type = "FINISHED" THEN FinishedValid(r) ELSE r.result = None

\* _PAIR_IDENTITY_FIELDS
Identity(r) == <<r.phase, r.skill, r.model, r.binding, r.command>>
=============================================================================
