-------------------------- MODULE MCExternalization --------------------------
(***************************************************************************)
(* Two sources (the HLD before and after an edit) and up to three starts:  *)
(* enough to externalize, to repeat it with the same and with another      *)
(* source, and to crash in between.                                        *)
(***************************************************************************)
EXTENDS Externalization, TLC

CONSTANTS s1, s2, r1, r2

MCSources == {s1, s2}
MCOneRecord == {r1}
MCTwoRecords == {r1, r2}

Symmetry == Permutations(MCSources) \cup Permutations(MCTwoRecords)
=============================================================================
