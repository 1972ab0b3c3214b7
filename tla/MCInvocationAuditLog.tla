------------------------ MODULE MCInvocationAuditLog ------------------------
(***************************************************************************)
(* Two writers and two invocations.  i1 has both records, a FINISHED with  *)
(* another model and ones that claim what did not happen; i2 has its       *)
(* STARTED, and one whose arguments skip permissions behind its back.      *)
(* Only w1 is sure to be scheduled: w2 may stop for ever with the lock.    *)
(***************************************************************************)
EXTENDS InvocationAuditLog

CONSTANTS w1, w2

Command(model, flags, skip) ==
  [agent |-> "agent", argv |-> <<"agent", "--model", model>> \o flags, skip |-> skip]

Started(id, model, flags) ==
  [type |-> "STARTED", id |-> id, at |-> 1, formed |-> TRUE, phase |-> "PLAN", skill |-> "PLAN",
   model |-> model, binding |-> [branch |-> None, head |-> None],
   command |-> Command(model, flags, FALSE), result |-> None]

Finished(id, model, at, outcome, produced) ==
  [Started(id, model, <<>>) EXCEPT !.type = "FINISHED", !.at = at, !.result =
    [returncode |-> 0, ok |-> TRUE, produced |-> produced, verified |-> produced,
     outcome |-> outcome, branch |-> "main", head |-> "c1", paths |-> <<1, 2>>, count |-> 2,
     truncated |-> FALSE]]

MCWriters == {w1, w2}

MCContent ==
  [s1 |-> Started("i1", "a", <<>>),
   f1 |-> Finished("i1", "a", 1, "SUCCESS", TRUE),
   other |-> Finished("i1", "b", 2, "HOLLOW_COMPLETION", FALSE),
   hollow |-> Finished("i1", "a", 1, "SUCCESS", FALSE),
   s2 |-> Started("i2", "a", <<>>),
   skips |-> Started("i2", "a", <<"--dangerously-skip-permissions">>)]

MCRequests == DOMAIN MCContent

MCResponsive == {w1}
=============================================================================
