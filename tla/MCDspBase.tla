----------------------------- MODULE MCDspBase -----------------------------
(***************************************************************************)
(* The instances of DspBase that TLC checks, all with one input buffer and *)
(* two output buffers, a DSP that keeps one input, and a ring of one slot  *)
(* more than can be in flight:                                             *)
(*                                                                         *)
(*   DspBaseDecoder   a video decoder (use_pad_alloc), flushed at any time *)
(*   DspBaseEncoder   an encoder (use_pinned) whose DSP sends headers      *)
(*   DspBaseEos       a DSP that fails and loses frames, and EOS           *)
(*   DspBaseFlush     an element with neither, flushed at any time         *)
(*   DspBaseTimeout   eos_timeout with a flush between EOS and its frames  *)
(***************************************************************************)
EXTENDS DspBase
=============================================================================
