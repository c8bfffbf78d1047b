---------------------------- MODULE MCLifeCycle ----------------------------
(***************************************************************************)
(* The instances of LifeCycle that TLC checks: two nodes, so that there is *)
(* always one that is gone.                                                *)
(*                                                                         *)
(*   LifeCycle         both elements, a flush, and one fault at any point  *)
(*   LifeCycleRecycle  the encoder, whose caps change; nothing goes wrong  *)
(***************************************************************************)
EXTENDS LifeCycle
=============================================================================
