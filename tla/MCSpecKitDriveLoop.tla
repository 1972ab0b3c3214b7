------------------------- MODULE MCSpecKitDriveLoop -------------------------
(***************************************************************************)
(* Two specs of three phases in one bundle (the resume key tells specs     *)
(* apart whatever bundle they are in), driven with and without a limit.    *)
(***************************************************************************)
EXTENDS SpecKitDriveLoop

MCSpecs == <<"s1", "s2">>
MCBundleOf == [s \in {"s1", "s2"} |-> "b1"]
MCLimits == {2, None}
=============================================================================
