------------------------- MODULE MCSpecKitExecution -------------------------
(***************************************************************************)
(* Two features and a ritual of two phases, one that need not and one that *)
(* must change the project; gated and live runs on one state file.         *)
(***************************************************************************)
EXTENDS SpecKitExecution

CONSTANTS f1, f2

MCFeatures == {f1, f2}
MCOrder == <<"SPECIFY", "IMPLEMENT", "DONE">>

\* A feature is planned, and dropped, behind the first.
MCPrefixQueues == {<<f1>>, <<f1, f2>>}

\* States of other versions are left to the theorem Completeness.
MCOlds == {}

MCModes == {"gated", "live"}
=============================================================================
