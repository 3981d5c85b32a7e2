---------------------------- MODULE MCMultiDevice ---------------------------
(***************************************************************************)
(* Instances of MultiDevice for TLC: two parents that both need the same   *)
(* two devices, and one that needs two devices, with an entry that is no   *)
(* dict between its jobs.                                                  *)
(***************************************************************************)
EXTENDS MultiDevice

CONSTANTS p1, p2, d1, d2

TwoParents == {p1, p2}
OneParent  == {p1}
FourSubs   == 1..4
ThreeSubs  == 1..3
TwoDevices == {d1, d2}

FourParentOf  == [s \in FourSubs |-> IF s <= 2 THEN p1 ELSE p2]
ThreeParentOf == [s \in ThreeSubs |-> p1]
FourDeviceOf  == [s \in FourSubs |-> IF s % 2 = 1 THEN d1 ELSE d2]
ThreeDeviceOf == [s \in ThreeSubs |-> IF s = 1 THEN d1 ELSE d2]
=============================================================================
