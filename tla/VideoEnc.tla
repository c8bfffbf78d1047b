------------------------------ MODULE VideoEnc ------------------------------
(***************************************************************************)
(* The video encoders: gstdspvenc.c, the elements built on it, and what    *)
(* their codecs under tidsp/ do when a node is created, a frame sent and   *)
(* an encoded one received.  The record e of the encoder has               *)
(*                                                                         *)
(*   alg                     of the element, with the codec it goes with   *)
(*   width, height, color, rate (framerate), bitrate, max_bitrate, level,  *)
(*   interval (keyframe_interval), gob (gob_length)                        *)
(*   bytestream, sps, pps, codec_data_done     of priv                     *)
(*   obs, ibs                output_ and input_buffer_size                 *)
(*   skip_hack_2, sink, src  as in GstDspBase; src has the codec_data too  *)
(*   skipping                the skip_hack_2 that output_loop has read and *)
(*                           is about to count down, or 0                  *)
(*   asked                   the bitrate that set_property has tested and  *)
(*                           not stored yet                                *)
(*   node                    the arguments it was created with             *)
(*   queue, out              frames at the node, buffers that wait for     *)
(*                           output_loop                                   *)
(*   headers                 headers the node has sent                     *)
(*   draining                is sink_setcaps between gst_pad_take_caps and *)
(*                           gstdsp_reinit?                                *)
(*   dead                    has sink_setcaps failed, or the program died? *)
(*   setup                   the properties mode, user_max_bitrate and the *)
(*                           level and stream-format downstream asks for   *)
(* and of the history                                                      *)
(*   chosen    the level of the table                                      *)
(*   kept      has the node survived a renegotiation?                      *)
(*   raced     has a repeated header come while a frame waited?            *)
(*   lost      has a step of skip_hack_2 been lost?                        *)
(*   crossing, crossed   have new caps come between the test and the       *)
(*                       storing of the bitrate asked, of the one stored?  *)
(*   zero      has a codec divided by zero?                                *)
(*   short     has the node had less than the picture it reads?            *)
(*   left      the last buffer that went downstream                        *)
(***************************************************************************)
EXTENDS VideoLevels, VideoParse

NoEnc == [alg |-> "none"]       \* an encoder without a node
Nothing == [kind |-> "none"]
NotAsked == -1

H264Algs == {"H264ENC", "HDH264ENC"}
HdMp4Algs == {"HDMP4VENC", "H263P0ENC"}     \* the codec td_hdmp4venc_codec
Mp4Algs == {"MP4VENC", "H263ENC"}           \* the codec td_mp4venc_codec

NewEnc(alg, interval, setup) ==
  [alg |-> alg, width |-> 0, height |-> 0, color |-> "none", rate |-> 0,
   bitrate |-> 0, max_bitrate |-> 0, level |-> 0, interval |-> interval, gob |-> 0,
   bytestream |-> TRUE, sps |-> FALSE, pps |-> FALSE, codec_data_done |-> FALSE,
   obs |-> 0, ibs |-> 0, skip_hack_2 |-> 0, skipping |-> 0, asked |-> NotAsked,
   sink |-> NoCaps, src |-> NoCaps,
   node |-> NoEnc, queue |-> <<>>, out |-> <<>>, headers |-> 0,
   draining |-> FALSE, dead |-> FALSE, setup |-> setup,
   chosen |-> Level(0, 0, 0, 0), kept |-> FALSE, raced |-> FALSE, lost |-> FALSE,
   crossing |-> FALSE, crossed |-> FALSE, zero |-> FALSE, short |-> FALSE, left |-> Nothing]

-----------------------------------------------------------------------------
(***************************************************************************)
(* sink_setcaps up to gst_pad_take_caps.                                   *)
(***************************************************************************)
CheckSupportedLevels(e) ==
  LET levels == LevelsOf(e.alg)
      user == e.setup.max_bitrate
      mbpf == Mbpf(e.width, e.height)
      level == SelectLevel(levels, e.setup.level, IF user # 0 THEN user ELSE e.bitrate,
                           mbpf * e.rate, mbpf)
  IN IF levels = <<>> THEN e
     ELSE [e EXCEPT !.chosen = level, !.level = level.id,
                    !.max_bitrate = IF user = 0 \/ user >= level.bitrate
                                    THEN level.bitrate ELSE user]

ClampBitrate(e) ==
  [e EXCEPT !.bitrate = IF @ = 0 \/ @ > e.max_bitrate THEN e.max_bitrate ELSE @,
            !.crossed = FALSE, !.crossing = e.asked # NotAsked]

MbRound(n) == 16 * MbUp(n)

BufferSizes(e) ==
  CASE e.alg \in {"H263ENC", "MP4VENC", "H264ENC"} ->
         [e EXCEPT !.obs = (e.width * e.height) \div 2]
    [] e.alg = "JPEGENC" ->
         [e EXCEPT !.ibs = Bytes(e.color, MbRound(e.width), MbRound(e.height)),
                   !.obs = (e.width * e.height)
                           \div (100 \div IF e.setup.quality < 10 THEN 10 ELSE e.setup.quality)]
    [] OTHER -> e

NearestRate(rate) == ((rate[1] * 2) \div rate[2] + 1) \div 2

TakeCaps(e, caps) ==
  LET sized == BufferSizes([e EXCEPT !.width = caps.w, !.height = caps.h, !.color = caps.color,
                                     !.rate = NearestRate(caps.rate), !.sink = caps])
      avc == e.alg \in H264Algs /\ e.setup.avc
      fit == ClampBitrate(CheckSupportedLevels(
               [sized EXCEPT !.bytestream = @ /\ ~avc]))
  IN [fit EXCEPT !.src = [w |-> caps.w, h |-> caps.h, rate |-> caps.rate, data |-> FALSE]]

-----------------------------------------------------------------------------
(***************************************************************************)
(* The node: create_args and setup_params.                                 *)
(***************************************************************************)
(* td_hdh264enc.c: the level the node is told, for wide or high pictures. *)
HdH264Level(e) ==
  LET beyond(n) == e.width \div 16 > n \/ e.height \div 16 > n
  IN CASE e.level \in {9, 10} /\ beyond(28) -> 11
       [] e.level \in {11, 12, 13, 20} /\ beyond(56) -> 21
       [] e.level = 21 /\ beyond(79) -> 22
       [] e.level \in {22, 30} /\ beyond(113) -> 31
       [] e.level = 31 /\ beyond(169) -> -1
       [] OTHER -> e.level

HdH264Buffer(level) ==
  LET cpb == CASE level = 9 -> 350
               [] level = 10 -> 175
               [] level = 11 -> 500
               [] level = 12 -> 1000
               [] level \in {13, 20} -> 2000
               [] level \in {21, 22} -> 4000
               [] level = 30 -> 10000
               [] level = 31 -> 14000
               [] OTHER -> 0
  IN (((cpb * 1200 * 3) \div 4) \div 8)

(* The interval between key frames is limited to 150 frames, which         *)
(* changes the property keyframe-interval.                                 *)
HdH264Gob(e) ==
  LET gob == e.interval * e.rate
  IN IF e.interval = 0 THEN [e EXCEPT !.gob = 255, !.dead = e.setup.mode # 1]
     ELSE IF gob > 150 THEN [e EXCEPT !.gob = 150, !.interval = 150 \div e.rate]
     ELSE [e EXCEPT !.gob = gob]

(* td_hdmp4venc.c: the levels of MPEG-4 and of H.263 as the node knows     *)
(* them, and the size of its buffer.                                       *)
HdMp4Level(e) ==
  IF e.alg = "HDMP4VENC"
  THEN IF e.level # 0 THEN e.level
       ELSE IF e.rate > 15 \/ e.width > 176 \/ e.height > 144 THEN 2
       ELSE IF e.bitrate > 64000 THEN 10 ELSE 0
  ELSE CASE e.level \in {10, 45} /\ e.rate > 15 -> 20
         [] e.level = 20 /\ e.width > 176 /\ e.rate > 15 -> 30
         [] e.level = 20 /\ e.width <= 176 /\ e.rate > 30 -> 50
         [] e.level \in {30, 40} /\ e.rate > 30 -> 60
         [] e.level = 50 /\ e.width > 176 /\ e.rate > 50 -> 60
         [] OTHER -> e.level

Vbv(e) ==
  IF e.alg # "HDMP4VENC" THEN IF e.level = 20 THEN 16 ELSE 32
  ELSE CASE e.level \in {0, 1} -> 10
         [] e.level = 10 -> 20
         [] e.level \in {2, 3} -> 40
         [] e.level = 4 -> 80
         [] e.level = 5 -> 112
         [] e.level = 6 -> 248
         [] OTHER -> 0

(* What the nodes are told: the stream, and with apart that the headers    *)
(* are to come in buffers of their own.                                    *)
Told(e, level) ==
  [alg |-> e.alg, w |-> e.width, h |-> e.height, color |-> e.color, rate |-> e.rate,
   level |-> level, apart |-> e.alg \in H264Algs /\ ~e.bytestream]

H264EncArgs(e) == Told(e, e.level)
HdH264EncArgs(e) == Told(e, HdH264Level(e))
HdMp4EncArgs(e) == Told(e, e.level)
Mp4EncArgs(e) == Told(e, IF e.alg = "MP4VENC" THEN 5 ELSE 20)
JpegEncArgs(e) == Told(e, 0)    \* send_params; create_args has the largest size

EncArgs(e) ==
  CASE e.alg = "H264ENC" -> H264EncArgs(e)
    [] e.alg = "HDH264ENC" -> HdH264EncArgs(e)
    [] e.alg \in HdMp4Algs -> HdMp4EncArgs(e)
    [] e.alg \in Mp4Algs -> Mp4EncArgs(e)
    [] OTHER -> JpegEncArgs(e)

(* setup_params may divide by zero: by the frame rate, or by the number of *)
(* macroblocks.                                                            *)
H264EncSetup(e) ==
  LET zero == e.rate = 0 \/ e.width * e.height < 256
  IN [e EXCEPT !.zero = zero, !.dead = zero]

HdMp4EncSetup(e) ==
  IF e.rate = 0 THEN [e EXCEPT !.zero = TRUE, !.dead = TRUE]
  ELSE [e EXCEPT !.obs = Vbv(e) * 2048 + e.bitrate \div e.rate]

(* create_args changes the encoder too. *)
Prepare(e) ==
  CASE e.alg = "HDH264ENC" -> [HdH264Gob(e) EXCEPT !.obs = HdH264Buffer(HdH264Level(e))]
    [] e.alg = "H264ENC" -> H264EncSetup(e)
    [] e.alg \in HdMp4Algs -> HdMp4EncSetup([e EXCEPT !.level = HdMp4Level(e)])
    [] OTHER -> e

StartNode(e) ==
  LET p == Prepare(e)
  IN IF p.dead THEN p ELSE [p EXCEPT !.node = EncArgs(p), !.headers = 0]

(* _dsp_stop with reset. *)
StopEnc(e) ==
  [e EXCEPT !.node = NoEnc, !.queue = <<>>, !.out = <<>>,
            !.skip_hack_2 = 0, !.skipping = 0, !.lost = FALSE,
            !.sps = FALSE, !.pps = FALSE, !.codec_data_done = FALSE,
            !.kept = FALSE, !.raced = FALSE, !.draining = FALSE, !.left = Nothing]

(* gstdsp_need_node_reset gets the size from before the new caps. *)
MustReset(e, caps) ==
  e.node # NoEnc /\ <<caps.w, caps.h>> # <<e.width, e.height>>

(* sink_setcaps.  A node that must be created again is drained first.      *)
EncSetCaps(e, caps) ==
  LET t == TakeCaps(e, caps)
  IN IF e.alg = "JPEGENC" /\ (caps.w % 2 # 0 \/ caps.h % 2 # 0)
     THEN [e EXCEPT !.dead = TRUE]
     ELSE IF MustReset(e, caps) THEN [t EXCEPT !.draining = TRUE]
     ELSE IF e.node = NoEnc THEN StartNode(t)
     ELSE [t EXCEPT !.kept = TRUE]

(* The wait of sink_setcaps has ended: it gives the absolute time of one   *)
(* second, which is over, so it may end before a frame has been pushed.    *)
EndDrain(e) == StartNode(StopEnc(e))

-----------------------------------------------------------------------------
(***************************************************************************)
(* A frame comes in (pad_chain), the node returns something (got_message   *)
(* with recv_cb), output_loop pushes it.                                   *)
(***************************************************************************)
EncChain(e, len) ==
  LET given == IF len >= e.ibs THEN len ELSE e.ibs
  IN [e EXCEPT !.queue = Append(@, <<e.node.w, e.node.h>>),
               !.short = @ \/ given < Bytes(e.node.color, e.node.w, e.node.h)]

IsAvc(e) == e.alg \in H264Algs /\ ~e.bytestream

(* What the node may return: with headers apart, SPS and PPS come first,   *)
(* and may come again; the HD codecs leave frames out ("skip").            *)
NodeOutput(e) ==
  IF e.node.apart /\ e.headers < 2 THEN {IF e.headers = 0 THEN "sps" ELSE "pps"}
  ELSE {"frame"} \cup (IF e.node.apart /\ e.headers = 2 THEN {"sps"} ELSE {})
                 \cup (IF e.alg \in {"HDH264ENC"} \cup HdMp4Algs THEN {"skip"} ELSE {})

(* out_recv_cb of the H.264 encoders, while codec_data is put together. *)
Wrong_StoreHeader(e) ==         \* the second header is not counted
  LET s == [e EXCEPT !.pps = @ \/ e.sps, !.sps = TRUE,
                     !.skip_hack_2 = IF e.sps THEN @ ELSE @ + 1]
  IN IF s.pps THEN [s EXCEPT !.src.data = TRUE, !.codec_data_done = TRUE] ELSE s

StoreHeader(e) ==
  LET s == [e EXCEPT !.pps = @ \/ e.sps, !.sps = TRUE,
                     !.skip_hack_2 = @ + 1]
  IN IF s.pps THEN [s EXCEPT !.src.data = TRUE, !.codec_data_done = TRUE] ELSE s

(* ignore_sps_pps_header *)
IgnoreHeader(e, kind) ==
  IF kind \notin {"sps", "pps"} THEN e
  ELSE [e EXCEPT !.skip_hack_2 = @ + 1, !.raced = @ \/ e.out # <<>>]

(* td_mp4venc_try_extract_extra_data *)
ExtractExtraData(e) ==
  [e EXCEPT !.codec_data_done = TRUE,
            !.src.data = @ \/ (~e.codec_data_done /\ e.setup.mode = 0)]

(* out_recv_cb of the codecs; a frame that is left out has no length. *)
H264EncRecv(e, kind) ==
  IF ~IsAvc(e) THEN e
  ELSE IF e.codec_data_done THEN IgnoreHeader(e, kind) ELSE StoreHeader(e)
HdH264EncRecv(e, kind) == IF kind = "skip" THEN e ELSE H264EncRecv(e, kind)
HdMp4EncRecv(e, kind) ==
  IF e.alg # "HDMP4VENC" \/ kind = "skip" THEN e ELSE ExtractExtraData(e)
Mp4EncRecv(e) == IF e.alg = "MP4VENC" THEN ExtractExtraData(e) ELSE e

EncReceive(e, kind) ==
  LET header == kind \in {"sps", "pps"}
      r == CASE e.alg = "H264ENC" -> H264EncRecv(e, kind)
             [] e.alg = "HDH264ENC" -> HdH264EncRecv(e, kind)
             [] e.alg \in HdMp4Algs -> HdMp4EncRecv(e, kind)
             [] e.alg \in Mp4Algs -> Mp4EncRecv(e)
             [] OTHER -> e
  IN [r EXCEPT !.headers = IF header THEN @ + 1 ELSE @,
               !.queue = IF header THEN @ ELSE Tail(@),
               !.out = Append(@, [kind |-> kind, size |-> <<e.node.w, e.node.h>>])]

(***************************************************************************)
(* output_loop drops as many buffers as skip_hack_2 says, whatever they    *)
(* are.  It counts down without a lock while out_recv_cb counts up, so     *)
(* what is counted up in between may be lost, or the counting down.        *)
(***************************************************************************)
EncPush(e) ==
  LET b == Head(e.out)
      o == [e EXCEPT !.out = Tail(@)]
  IN IF e.skip_hack_2 > 0 THEN [o EXCEPT !.skipping = e.skip_hack_2]
     ELSE IF b.kind = "skip" THEN o
     ELSE [o EXCEPT !.left = [kind |-> b.kind, data |-> e.src.data, size |-> b.size,
                              caps |-> <<e.src.w, e.src.h>>, drained |-> e.draining]]

CountedDown(e) ==
  (e.skipping - 1) .. (IF e.skip_hack_2 = e.skipping THEN e.skip_hack_2 - 1 ELSE e.skip_hack_2)

EncSkipped(e, left) ==
  [e EXCEPT !.skip_hack_2 = left, !.skipping = 0, !.lost = @ \/ left # e.skip_hack_2 - 1]

(***************************************************************************)
(* set_property of the bitrate, in the application's thread: it tests the  *)
(* maximum and stores the value, without a lock.                           *)
(***************************************************************************)
TestBitrate(e, bitrate) ==
  [e EXCEPT !.asked = IF e.max_bitrate # 0 /\ bitrate > e.max_bitrate
                      THEN e.max_bitrate ELSE bitrate]

StoreBitrate(e) ==
  [e EXCEPT !.bitrate = e.asked, !.asked = NotAsked,
            !.crossed = e.crossing, !.crossing = FALSE]
=============================================================================
