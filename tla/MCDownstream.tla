----------------------------- MODULE MCDownstream -----------------------------
(***************************************************************************)
(* Two runs over two specs, with and without trial and skeptic.  Agents    *)
(* write what is needed, something that is not allowed behind something    *)
(* that is, or conflicts that are unresolved or no JSON.                   *)
(***************************************************************************)
EXTENDS Downstream, TLC

CONSTANTS r1, r2

MCRuns == {r1, r2}
MCSymmetry == Permutations(MCRuns)

Conf(phase, mode, allow, skeptic, targets) ==
  [phase |-> phase, mode |-> mode, allow |-> allow, skeptic |-> skeptic, targets |-> targets]

MCSpecs == {"001", "002"}
MCConfigs == {
  Conf("plan", "map", FALSE, TRUE, {"001"}),
  Conf("all", "map", FALSE, FALSE, {"all"}),
  Conf("tasks", "direct", FALSE, FALSE, {"001"}),
  Conf("all", "direct", TRUE, FALSE, {"all"}),
  Conf("analyze", "look", FALSE, TRUE, {"002"}) }

Fine(p) == [path |-> p, says |-> "fine"]
MCOutputs == {
  <<>>,
  <<Fine(<<"001", "plan">>), Fine(<<"downstream", "analysis">>)>>,
  <<Fine(<<"001", "plan">>), Fine(<<"001", "tasks">>), Fine(<<"code", "root">>)>>,
  <<Fine(<<"downstream", "gaps">>), Fine(<<"code", "else">>)>>,
  <<Fine(<<"001", "plan">>), [path |-> Conflicts, says |-> "conflict"]>>,
  <<[path |-> Conflicts, says |-> "broken"]>>,
  <<Fine(<<".git", "config">>), Fine(<<"001", "spec">>)>> }

Base == {Index, <<"001", "spec">>}
MCEarlier == {
  Base \cup {<<"downstream", "gaps">>},
  Base \cup Reports \cup {<<"001", "plan">>, <<"001", "tasks">>} }
=============================================================================
