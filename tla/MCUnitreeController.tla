-------------------------- MODULE MCUnitreeController --------------------------
(***************************************************************************)
(* UnitreeController with three policies, all of them commanding.          *)
(***************************************************************************)
EXTENDS UnitreeController

CONSTANTS p1, p2, p3

ThreePolicies == {p1, p2, p3}
=============================================================================
