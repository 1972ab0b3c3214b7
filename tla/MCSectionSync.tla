---------------------------- MODULE MCSectionSync ----------------------------
(***************************************************************************)
(* Section s1 refers to s3; s2 refers to s1, which is HIGH, and so needs   *)
(* s3 too.  s3 is large: it does not fit in the prompt for s2.  What s2    *)
(* may be edited to has a reference that conflicts.                        *)
(***************************************************************************)
EXTENDS SectionSync, TLC

CONSTANTS s1, s2, s3

MCSections == {s1, s2, s3}
MCTargets == {s1, s2}
MCRefs == s1 :> <<s3>> @@ s2 :> <<s1>> @@ s3 :> <<>>
MCHigh == {s1}
MCUnresolved == {<<s2, 2>>}
MCSize == s1 :> 1 @@ s2 :> 1 @@ s3 :> 2
=============================================================================
