---------------------------- MODULE MCNextFeature ----------------------------
(***************************************************************************)
(* Two features, so that one's files, branch and evidence can be taken for *)
(* the other's.                                                            *)
(***************************************************************************)
EXTENDS NextFeature

CONSTANTS f1, f2
MCFeatures == {f1, f2}
=============================================================================
