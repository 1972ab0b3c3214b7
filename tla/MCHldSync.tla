------------------------------ MODULE MCHldSync ------------------------------
(***************************************************************************)
(* Two specs that share a section, with two texts per section, so that an  *)
(* edit can be taken back.                                                 *)
(***************************************************************************)
EXTENDS HldSync, TLC

CONSTANTS s1, s2, a1, a2

MCSpecs == {s1, s2}
MCSections == {a1, a2}
MCSectionsOf == s1 :> {a1} @@ s2 :> {a1, a2}
=============================================================================
