---------------------------- MODULE MCRefreshTarget ----------------------------
(***************************************************************************)
(* The tool on a target of which people own two rules.                     *)
(***************************************************************************)
EXTENDS RefreshTarget
=============================================================================
