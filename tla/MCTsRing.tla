------------------------------ MODULE MCTsRing ------------------------------
(***************************************************************************)
(* The instance of TsRing that TLC checks: a ring of three slots that is   *)
(* passed over more than twice, with two frames in flight.                 *)
(***************************************************************************)
EXTENDS TsRing
=============================================================================
