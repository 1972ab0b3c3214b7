----------------------------- MODULE MCBuildLoop -----------------------------
(***************************************************************************)
(* An HLD that is changed once, where and whenever, and one run that dies. *)
(***************************************************************************)
EXTENDS BuildLoop
=============================================================================
