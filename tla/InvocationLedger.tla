-------------------------- MODULE InvocationLedger --------------------------
(***************************************************************************)
(* What the invocation audit log promises its callers, without files,      *)
(* locks or processes: every invocation moves NONE -> STARTED -> FINISHED, *)
(* the stage that was acknowledged to a caller is never lost, and only     *)
(* unacknowledged stages can disappear (a power failure).                  *)
(* The contract is docs/SPECKIT_INVOCATION_AUDIT_LOG_CONTRACT.md, sections *)
(* 3, 4 and 6; InvocationAuditLog is the writer that implements it.        *)
(***************************************************************************)
EXTENDS Naturals

CONSTANT Ids    \* the invocation ids

VARIABLES visible,  \* the stage of each invocation that the log shows
          promised  \* the stage of each invocation acknowledged to a caller

ledgerVars == <<visible, promised>>

\* Stages in the order an invocation goes through them.
NONE == 0
STARTED == 1
FINISHED == 2
Stage == NONE..FINISHED

LedgerInit ==
  /\ visible = [id \in Ids |-> NONE]
  /\ promised = [id \in Ids |-> NONE]

\* One record becomes part of the log.
Advance(id) ==
  /\ visible[id] < FINISHED
  /\ visible' = [visible EXCEPT ![id] = @ + 1]
  /\ UNCHANGED promised

\* A caller is told that a stage is recorded durably.
Promise(id) ==
  \E s \in Stage :
    /\ promised[id] < s
    /\ s <= visible[id]
    /\ promised' = [promised EXCEPT ![id] = s]
    /\ UNCHANGED visible

\* A power failure: what was not promised may be gone, the rest is not.
Lose ==
  /\ UNCHANGED promised
  /\ visible' \in [Ids -> Stage]
  /\ \A id \in Ids : promised[id] <= visible'[id] /\ visible'[id] <= visible[id]

LedgerNext ==
  \/ Lose
  \/ \E id \in Ids : Advance(id) \/ Promise(id)

LedgerSpec == LedgerInit /\ [][LedgerNext]_ledgerVars
=============================================================================
