----------------------------- MODULE VideoParse -----------------------------
(***************************************************************************)
(* The stream parsers (gstdspparse.c): what the video decoder learns of a  *)
(* stream from its headers before it creates a node.                       *)
(*                                                                         *)
(* A header is the record of the fields the parsers look at, and a buffer  *)
(* its form with such a header, or without.  A parser works on the record  *)
(* v of the decoder, of which it reads and writes                          *)
(*   width, height, cw, ch   the coded and the cropped size                *)
(*   obs, color, tmp         output_buffer_size, color_format, tmp_caps    *)
(*   parsed, profile, and of priv lol (is_divx has the same place in the   *)
(*   union), is_avc, refs, ih (initial_height), poc.                       *)
(***************************************************************************)
EXTENDS Integers, Sequences

NoBuf == [form |-> "none"]      \* a NULL GstBuffer
NoHead == [size |-> 0]           \* of a buffer that only carries a frame
NoCaps == [w |-> 0]             \* NULL GstCaps

(***************************************************************************)
(* What the headers may have in them: widths and heights in macroblocks    *)
(* are coded minus one, the others may be 0.                               *)
(***************************************************************************)
SpsHeader ==
  [profile : Nat, chroma : Nat, planes : BOOLEAN, mbw : Nat \ {0}, mbh : Nat \ {0},
   frame_mbs : BOOLEAN, crop_x : Nat, crop_y : Nat, refs : Nat, poc : Nat]
AvcConfig ==                    \* an SPS, and how long the lengths are
  [profile : Nat, chroma : Nat, planes : BOOLEAN, mbw : Nat \ {0}, mbh : Nat \ {0},
   frame_mbs : BOOLEAN, crop_x : Nat, crop_y : Nat, refs : Nat, poc : Nat, lol : 1 .. 4]
H263Header ==
  [size : 0 .. 7, esize : 0 .. 7, ufep : 0 .. 7, w9 : 0 .. 511, h9 : 0 .. 511,
   cpm : BOOLEAN, epar : BOOLEAN, pb : BOOLEAN, bits : Nat]
Mpeg4Header ==
  [start : {"sequence", "object", "other"}, defect : BOOLEAN, w : Nat, h : Nat,
   divx : BOOLEAN, xvid : BOOLEAN]

Buffers ==
  [form : {"avcC"}, head : AvcConfig]
    \cup [form : {"nal"}, head : SpsHeader \cup {NoHead}]
    \cup [form : {"h263"}, head : H263Header \cup {NoHead}]
    \cup [form : {"mpeg4"}, head : Mpeg4Header \cup {NoHead}]
    \cup [form : {"len", "seq", "vc1", "seq+vc1", "wmv3"}, head : {NoHead}]

Bytes(color, w, h) ==
  IF color = "UYVY" THEN w * h * 2 ELSE (w * h * 3) \div 2

SetFramesize(v, w, h, crop_width, crop_height) ==
  LET cw == IF crop_width # 0 THEN crop_width ELSE w
      ch == IF crop_height # 0 THEN crop_height ELSE h
      new == v.cw = 0 \/ v.ch = 0 \/ <<v.cw, v.ch>> # <<cw, ch>>
  IN [v EXCEPT !.tmp = IF new /\ @ # NoCaps THEN [@ EXCEPT !.w = cw, !.h = ch] ELSE @,
               !.cw = cw, !.ch = ch,
               !.obs = Bytes(v.color, w, h),
               !.width = w, !.height = h, !.parsed = TRUE]

Failed(v) == [ok |-> FALSE, v |-> v]
Parsed(v) == [ok |-> TRUE, v |-> v]

-----------------------------------------------------------------------------
(***************************************************************************)
(* H.263.  size is the source format, esize that of the extended type, and *)
(* w9, h9 the picture indications of a custom one.                         *)
(***************************************************************************)
H263Sizes == << <<128, 96>>, <<176, 144>>, <<352, 288>>, <<704, 576>>, <<1408, 1152>> >>

H263Bits(h) ==                  \* how many bits the parser wants to see
  IF h.size # 7 THEN 38 + 11
  ELSE 38 + 54 + (IF h.esize = 6 /\ h.cpm THEN 2 ELSE 0)
               + (IF h.esize = 6 /\ h.epar THEN 16 ELSE 0)

H263Parse(v, h) ==
  LET type == IF h.size = 7 THEN h.esize ELSE h.size
      size == IF h.size = 7 /\ type = 6 THEN <<(h.w9 + 1) * 4, h.h9 * 4>> ELSE H263Sizes[type]
      baseline == h.size # 7 /\ ~h.pb /\ ~h.cpm
  IN IF \/ h.bits < H263Bits(h)
        \/ h.size \in {0, 6}
        \/ h.size = 7 /\ (h.ufep # 1 \/ h.esize \in {0, 7})
     THEN Failed(v)
     ELSE Parsed(SetFramesize([v EXCEPT !.profile = IF baseline THEN 1 ELSE 0],
                              size[1], size[2], 0, 0))

(***************************************************************************)
(* MPEG-4.  The headers start with that of the visual object sequence or,  *)
(* after anything else, of a video object; defect says whether one of the  *)
(* many tests on the way to the size fails.                                *)
(***************************************************************************)
Mpeg4Parse(v, h) ==
  IF h.start \notin {"sequence", "object"} \/ h.defect \/ h.w = 0 \/ h.h = 0
  THEN Failed(v)
  ELSE Parsed(SetFramesize(
         [v EXCEPT !.lol = IF h.xvid THEN 0 ELSE IF h.divx THEN 1 ELSE @],
         h.w, h.h, 0, 0))

(***************************************************************************)
(* H.264.  A buffer that does not start with a start code is taken for an  *)
(* AVC configuration ("avcC"), except by the decoder that has parsed one   *)
(* already: it expects the same form again, and finds no configuration     *)
(* because it reads the version where the flags are.                       *)
(***************************************************************************)
HighProfiles == {100, 110, 122, 244, 44, 83, 86}
SubW == <<1, 2, 2, 1>>
SubH == <<1, 2, 1, 1>>

SpsSize(sps) ==                 \* coded and cropped size
  LET fields == IF sps.frame_mbs THEN 1 ELSE 2
      chroma == IF sps.profile \notin HighProfiles THEN 1
                ELSE IF sps.chroma = 3 /\ sps.planes THEN 0 ELSE sps.chroma
      w == 16 * sps.mbw
      h == 16 * sps.mbh * fields
  IN IF chroma > 3 THEN [ok |-> FALSE]
     ELSE LET cw == w - sps.crop_x * SubW[chroma + 1]
              ch == h - sps.crop_y * SubH[chroma + 1] * fields
          IN [ok |-> cw >= 0 /\ ch >= 0, w |-> w, h |-> h, cw |-> cw, ch |-> ch]

H264Parse(v, buf) ==
  LET avc == IF v.parsed THEN v.is_avc ELSE buf.form # "nal"
      found == /\ buf.head # NoHead
               /\ IF avc THEN buf.form = "avcC" /\ ~v.parsed ELSE buf.form = "nal"
      size == SpsSize(buf.head)
  IN IF ~found THEN Failed(v)
     ELSE IF ~size.ok THEN Failed(v)
     ELSE Parsed(SetFramesize(
            [v EXCEPT !.profile = buf.head.profile, !.is_avc = avc,
                      !.refs = buf.head.refs, !.ih = size.h, !.poc = buf.head.poc],
            size.w, size.h, size.cw, size.ch))

(* What is not of its format, no parser accepts. *)
ParseAs(parser, v, buf) ==
  IF parser = "h264" /\ buf.form \in {"avcC", "nal", "len"} THEN H264Parse(v, buf)
  ELSE IF buf.form # parser \/ parser = "none" THEN Failed(v)
  ELSE IF buf.head = NoHead THEN Failed(v)
  ELSE IF parser = "h263" THEN H263Parse(v, buf.head)
  ELSE Mpeg4Parse(v, buf.head)

Parse(v, buf) == ParseAs(v.parse_func, v, buf)
=============================================================================
