---------------------------- MODULE MCAsyncQueue ----------------------------
(***************************************************************************)
(* The instance of AsyncQueue that TLC checks: two consumers, so that an   *)
(* item can be taken away from the one that was woken for it, and more     *)
(* items than consumers.                                                   *)
(***************************************************************************)
EXTENDS AsyncQueue
=============================================================================
