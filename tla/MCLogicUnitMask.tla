---------------------------- MODULE MCLogicUnitMask ----------------------------
(***************************************************************************)
(* One channel with measured values on both sides of and inside the band,  *)
(* on its edges too, and every mode, a mode that does not exist included.  *)
(***************************************************************************)
EXTENDS LogicUnitMask

MCHysteresis == {-1, 0, 1}

=============================================================================
