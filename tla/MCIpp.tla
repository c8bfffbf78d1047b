------------------------------- MODULE MCIpp -------------------------------
(***************************************************************************)
(* The instances of Ipp that TLC checks, with both input formats:          *)
(*                                                                         *)
(*   Ipp            faults at any point; with a single output buffer every *)
(*                  second frame uses it again                             *)
(*   IppOverwrite   the two output buffers that sink_setcaps allocates,    *)
(*                  flushed, and nothing goes wrong                        *)
(***************************************************************************)
EXTENDS Ipp

OneBuf == <<1>>
TwoBufs == <<1, 2>>
=============================================================================
