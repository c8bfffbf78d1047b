------------------------------ MODULE VideoDec ------------------------------
(***************************************************************************)
(* The video decoder (gstdspvdec.c) and what its codecs under tidsp/ do    *)
(* when a node is created and when a buffer is sent or received.  Every    *)
(* operator maps the record d of the decoder to what a call leaves of it:  *)
(*                                                                         *)
(*   the fields of VideoParse                                              *)
(*   vc1, sent, st           wmv_is_vc1, codec_data_sent,                  *)
(*                           hd_h264_streamtype                            *)
(*   alg, codec, parse_func, codec_data, src (caps of the source pad)      *)
(*   sink                    caps of the sink pad                          *)
(*   send_cb, pre            the codec whose send_cb the input port has,   *)
(*                           and has a codec set pre_process_buffer?       *)
(*   node                    the arguments it was created with             *)
(*   rooms                   sizes of the output buffers the node has      *)
(*   done                    lengths of the frames that wait for the loop  *)
(*   flight                  frames at the node                            *)
(*   dead                    has the element posted an error?              *)
(*   board                   what it runs on: the variable GSTDSP_CODEC,   *)
(*                           the libraries in /lib/dsp, the first format   *)
(*                           downstream offers, and the mode               *)
(* and of the history                                                      *)
(*   kept      has the node survived a renegotiation?                      *)
(*   recrop    ... that changed the cropped size?                          *)
(*   seen      size in the last SPS of a frame since upstream sent caps    *)
(*   primed    has the node had the VC-1 sequence header?                  *)
(*   unprimed  was sent already set when the node was created?             *)
(*   stale     is, or was, codec_data from caps before the last ones?      *)
(*   misread   has the node had a buffer it could not understand?          *)
(***************************************************************************)
EXTENDS VideoParse

CONSTANT OutBuffers             \* output buffers of a port (4 in the code)

ASSUME OutBuffersAssumption == OutBuffers \in Nat \ {0}

NoNode == [codec |-> "none"]
NoSize == <<0, 0>>
RoundUp16(n) == 16 * ((n + 15) \div 16)

NewDec(board) ==
  [width |-> 0, height |-> 0, cw |-> 0, ch |-> 0, obs |-> 0, color |-> "none",
   tmp |-> NoCaps, parsed |-> FALSE, profile |-> 0, lol |-> 0, is_avc |-> FALSE,
   refs |-> 0, ih |-> 0, poc |-> 0, vc1 |-> FALSE, sent |-> FALSE, st |-> 0,
   alg |-> "none", codec |-> "none", parse_func |-> "none", codec_data |-> NoBuf,
   src |-> NoCaps, sink |-> NoCaps, send_cb |-> "none", pre |-> FALSE,
   node |-> NoNode, rooms |-> <<>>, done |-> <<>>, flight |-> 0, dead |-> FALSE,
   board |-> board, kept |-> FALSE, recrop |-> FALSE, seen |-> NoSize,
   primed |-> FALSE, unprimed |-> FALSE, stale |-> FALSE, misread |-> FALSE]

-----------------------------------------------------------------------------
(***************************************************************************)
(* sink_setcaps.  Caps without a size make gstdsp_need_node_reset compare  *)
(* uninitialised variables: both answers are possible.                     *)
(***************************************************************************)
NodeResets(d, caps) ==
  IF d.node = NoNode THEN {FALSE}
  ELSE IF caps.w = 0 THEN BOOLEAN
  ELSE {<<caps.w, caps.h>> # <<d.width, d.height>>}

(* _dsp_stop and the tmp_caps of gstdsp_reinit, and of change_state. *)
StopNode(d) ==
  [d EXCEPT !.node = NoNode, !.rooms = <<>>, !.done = <<>>, !.flight = 0,
            !.tmp = NoCaps, !.kept = FALSE, !.recrop = FALSE, !.misread = FALSE]

AlgOf(name) ==
  CASE name = "h264" -> "HDH264VDEC"
    [] name = "h263" -> "H263DEC"
    [] name = "wmv" -> "WMVDEC"
    [] name = "divx" -> "MPEG4VDEC"
    [] OTHER -> "HDMPEG4VDEC"

CodecOf(alg) ==
  CASE alg \in {"MPEG4VDEC", "H263DEC"} -> "mp4vdec"
    [] alg = "WMVDEC" -> "wmvdec"
    [] alg = "HDMPEG4VDEC" -> "hdmp4vdec"
    [] OTHER -> "none"          \* chosen by profile

(* Up to skip_setup.  WMV leaves the parse_func of the caps before. *)
ChooseCodec(d, caps) ==
  LET c == [d EXCEPT !.parsed = FALSE, !.profile = 0,
                     !.alg = AlgOf(caps.name), !.codec = CodecOf(AlgOf(caps.name))]
  IN CASE caps.name = "h264" ->
            [c EXCEPT !.lol = 0, !.st = 0, !.refs = 0, !.ih = 0, !.parse_func = "h264"]
       [] caps.name = "h263" -> [c EXCEPT !.parse_func = "h263"]
       [] caps.name = "wmv" -> [c EXCEPT !.vc1 = caps.vc1]
       [] OTHER -> [c EXCEPT !.parse_func = "mpeg4"]

ConfigureCaps(d, caps) ==
  LET w == IF caps.w # 0 THEN caps.w ELSE d.width
      h == IF caps.h # 0 THEN caps.h ELSE d.height
      color == IF d.board.down = "I420" THEN "I420" ELSE "UYVY"
  IN [d EXCEPT !.cw = w, !.ch = h,
               !.width = RoundUp16(w), !.height = RoundUp16(h),
               !.obs = Bytes(color, RoundUp16(w), RoundUp16(h)),
               !.color = color,
               !.tmp = [w |-> w, h |-> h, color |-> color, rate |-> caps.rate]]

SetCaps(d, caps, reset) ==
  LET stopped == IF reset THEN StopNode(d) ELSE d
      keep == stopped.node # NoNode
      c == ConfigureCaps(IF keep THEN stopped ELSE ChooseCodec(stopped, caps), caps)
  IN [c EXCEPT !.sink = caps,
               !.codec_data = IF caps.data # NoBuf THEN caps.data ELSE @,
               !.stale = caps.data = NoBuf /\ (d.codec_data # NoBuf \/ (keep /\ @)),
               !.kept = keep,
               !.recrop = keep /\ (@ \/ <<c.cw, c.ch>> # <<d.src.w, d.src.h>>)]

-----------------------------------------------------------------------------
(***************************************************************************)
(* create_node.                                                            *)
(***************************************************************************)
Installed(d, codec) ==          \* the libraries every board has, and the others
  codec \notin {"hdmp4vdec", "hdh264dec_hp", "hdh264dec_bp"} \/ codec \in d.board.libs

CheckForceCodec(d) ==
  CASE d.board.force = "HD" /\ d.alg \in {"MPEG4VDEC", "H263DEC"} ->
         [d EXCEPT !.alg = "HDMPEG4VDEC", !.codec = "hdmp4vdec"]
    [] d.board.force = "other" /\ d.alg = "HDMPEG4VDEC" ->
         [d EXCEPT !.alg = "MPEG4VDEC", !.codec = "mp4vdec"]
    [] d.board.force = "other" /\ d.alg = "HDH264VDEC" ->
         [d EXCEPT !.alg = "H264DEC", !.codec = "h264dec"]
    [] OTHER -> d

CodecFixup(d) ==
  LET hdmp4 == "hdmp4vdec" \in d.board.libs
  IN CASE \/ d.alg = "MPEG4VDEC" /\ hdmp4 /\ d.width * d.height > 864 * 480
          \/ d.alg = "H263DEC" /\ hdmp4 /\ d.profile = 1 ->
            [d EXCEPT !.alg = "HDMPEG4VDEC", !.codec = "hdmp4vdec"]
       [] d.alg = "HDMPEG4VDEC" /\ ~hdmp4 ->
            [d EXCEPT !.alg = "MPEG4VDEC", !.codec = "mp4vdec"]
       [] d.alg = "HDH264VDEC" /\ "hdh264dec_hp" \notin d.board.libs ->
            [d EXCEPT !.alg = "H264DEC", !.codec = "h264dec"]
       [] OTHER -> d

MainOrHigh(d) == d.profile \in {77, 100}

FixCodec(d) ==
  LET f == IF d.board.force # "unset" THEN CheckForceCodec(d) ELSE CodecFixup(d)
  IN IF f.codec = "none" /\ f.alg = "HDH264VDEC"
     THEN [f EXCEPT !.codec = IF MainOrHigh(f) THEN "hdh264dec_hp" ELSE "hdh264dec_bp"]
     ELSE f

HdH264 == {"hdh264dec_hp", "hdh264dec_bp"}

(***************************************************************************)
(* create_args of the codecs: what the node is told of the stream.  The    *)
(* profile of the node is how much memory it gets for the picture.         *)
(***************************************************************************)
Above(d, w, h) == IF d.width * d.height > w * h THEN 1 ELSE 0

Args(d, stream) ==
  [codec |-> d.codec, w |-> d.width, h |-> d.height, color |-> d.color, stream |-> stream,
   profile_id |-> 1 + Above(d, 176, 144) + Above(d, 352, 288) + Above(d, 640, 480),
   refs |-> 0, reordering |-> FALSE]

Mp4Args(d) == Args(d, IF d.alg = "H263DEC" THEN "h263" ELSE "mpeg4")

HdMp4Args(d) ==
  [Args(d, IF d.profile = 1 THEN "h263" ELSE "mpeg4") EXCEPT !.profile_id = 4]

WmvArgs(d) == Args(d, IF d.vc1 THEN "vc1" ELSE "wmv3")

H264Args(d) ==
  [Args(d, "h264") EXCEPT !.profile_id = 1 + Above(d, 176, 144) + Above(d, 352, 288)]

(* Main and high profile: the height is that of the first SPS. *)
Initial(d) == MainOrHigh(d) /\ d.ih # 0

HeapProfile(d) ==
  LET w == RoundUp16(d.width)
      h == RoundUp16(IF Initial(d) THEN d.ih ELSE d.height)
      frame == (w + 64) * (h + (IF Initial(d) THEN 8 ELSE 64))
  IN ((frame * (d.refs + 1) * 3) \div 2 + 1048576
      + ((w * h * 3) \div 2) * 16
      + 160 * (w \div 16) * (h \div 16) * (d.refs + 1)
      + (w \div 16) * 4 * 180) \div 4194304

HdH264Args(d) ==
  [Args(d, "h264") EXCEPT
     !.h = IF Initial(d) THEN d.ih ELSE @,
     !.profile_id = HeapProfile(d), !.refs = d.refs,
     !.reordering = /\ d.board.mode = 0
                    /\ MainOrHigh(d) \/ (d.width * d.height) \div 256 <= 1590]

CreateArgs(d) ==
  CASE d.codec = "mp4vdec" -> Mp4Args(d)
    [] d.codec = "hdmp4vdec" -> HdMp4Args(d)
    [] d.codec = "wmvdec" -> WmvArgs(d)
    [] d.codec = "h264dec" -> H264Args(d)
    [] OTHER -> HdH264Args(d)

(***************************************************************************)
(* setup_params: that of td_mp4vdec.c leaves the send_cb of the codec      *)
(* before, and only the H.264 codecs set pre_process_buffer.               *)
(***************************************************************************)
Mp4Setup(d) == d
OtherSetup(d) == [d EXCEPT !.send_cb = d.codec]
HdH264Setup(d) == [d EXCEPT !.send_cb = d.codec, !.pre = TRUE]
Wrong_H264Setup(d) == [d EXCEPT !.send_cb = d.codec]    \* without the hook
H264Setup(d) == [d EXCEPT !.send_cb = d.codec, !.pre = TRUE]

SetupParams(d) ==
  CASE d.codec = "mp4vdec" -> Mp4Setup(d)
    [] d.codec = "h264dec" -> H264Setup(d)
    [] d.codec \in HdH264 -> HdH264Setup(d)
    [] OTHER -> OtherSetup(d)

-----------------------------------------------------------------------------
(***************************************************************************)
(* What reaches the node.  A send_cb rewrites the buffer, or says in its   *)
(* parameters what it holds.                                               *)
(***************************************************************************)
Understands(d, form) ==
  CASE d.node.stream = "h264" /\ d.node.codec \in HdH264 ->
         IF d.st = 1 THEN form = "len" /\ d.lol # 0 ELSE form = "nal"
    [] d.node.stream = "h264" /\ d.node.codec \notin HdH264 -> form = "nal"
    [] d.node.stream = "vc1" -> form = "vc1" /\ d.primed
    [] OTHER -> form = d.node.stream

Passes(d, form) == [d |-> d, form |-> form]

(* in_send_cb of td_h264dec.c, with transform_nal_encoding *)
H264Send(d, buf) ==
  IF d.lol # 0 THEN Passes(d, IF buf.form = "len" THEN "nal" ELSE "mangled")
  ELSE Passes([d EXCEPT !.send_cb = "none"], buf.form)

(* prefix_vc1; the form "crash" stands for a NULL codec_data *)
PrefixVc1(d, buf) ==
  IF d.sent THEN Passes(d, buf.form)
  ELSE Passes([d EXCEPT !.sent = TRUE, !.primed = d.codec_data.form = "seq",
                           !.codec_data = NoBuf],
                 IF d.codec_data = NoBuf THEN "crash" ELSE buf.form)

(* in_send_cb of td_wmvdec.c *)
WmvSend(d, buf) ==
  IF buf.form = "seq+vc1" THEN Passes([d EXCEPT !.sent = TRUE, !.primed = TRUE], "vc1")
  ELSE IF d.vc1 THEN PrefixVc1(d, buf)
  ELSE Passes(d, buf.form)

(* The others fill parameters of a layout of their own. *)
InSendCb(d, buf) ==
  CASE d.send_cb = "h264dec" -> H264Send(d, buf)
    [] d.send_cb = "wmvdec" -> WmvSend(d, buf)
    [] OTHER -> Passes(d, IF d.send_cb \in {"none", d.codec} THEN buf.form ELSE "mangled")

SendBuffer(d, buf) ==
  LET sent == InSendCb(d, buf)
  IN [sent.d EXCEPT !.misread = @ \/ ~Understands(sent.d, sent.form)]

(* gstdsp_send_codec_data: it goes through send_cb like a frame. *)
SendCodecData(d, form) ==
  LET sent == InSendCb(d, [form |-> form])
  IN [sent.d EXCEPT !.misread = @ \/ sent.form = "mangled"]

(* td_h264dec_transform_extra_data: an AVC configuration becomes           *)
(* length-prefixed headers, what starts with a start code stays as it is,  *)
(* also if it is left over from MPEG-4, and anything else is refused.      *)
TransformExtraData(d, buf) ==
  CASE buf.form = "avcC" -> [d |-> [d EXCEPT !.lol = buf.head.lol], form |-> "len"]
    [] buf.form \in {"nal", "mpeg4"} -> Passes(d, buf.form)
    [] OTHER -> Passes([d EXCEPT !.dead = TRUE], "none")

(* handle_extra_data of the codecs. *)
H264Extra(d, buf) ==
  LET new == TransformExtraData(d, buf)
  IN IF new.d.dead THEN new.d ELSE SendCodecData(new.d, new.form)

HdH264Extra(d, buf) ==
  LET new == TransformExtraData(d, buf)
  IN IF new.d.dead THEN new.d
     ELSE SendCodecData([new.d EXCEPT !.st = IF d.is_avc THEN 1 ELSE 0], new.form)

WmvExtra(d, buf) ==
  IF d.vc1 THEN [d EXCEPT !.codec_data = buf] ELSE SendCodecData(d, buf.form)

HandleExtraData(d) ==
  LET buf == d.codec_data
      used == [d EXCEPT !.codec_data = NoBuf]
  IN CASE buf = NoBuf -> d
       [] buf # NoBuf /\ d.codec = "h264dec" -> H264Extra(used, buf)
       [] buf # NoBuf /\ d.codec \in HdH264 -> HdH264Extra(used, buf)
       [] buf # NoBuf /\ d.codec = "wmvdec" -> WmvExtra(used, buf)
       [] OTHER -> SendCodecData(used, buf.form)

(* init_node: the headers may be in codec_data or in the first buffer; if  *)
(* they are in neither, the sizes of the caps have to do.                  *)
ParseHeaders(d, buf) ==
  LET fromData == Parse(d, d.codec_data)
      fromBuf == Parse(d, buf)
  IN IF d.parse_func # "none" /\ d.codec_data # NoBuf /\ fromData.ok THEN fromData.v
     ELSE IF d.parse_func # "none" /\ fromBuf.ok THEN fromBuf.v
     ELSE d

InitNode(d, buf) ==
  LET p == ParseHeaders(d, buf)
      f == FixCodec([p EXCEPT !.src = p.tmp])
      s == SetupParams(f)
  IN IF p.obs = 0 THEN [p EXCEPT !.src = p.tmp, !.dead = TRUE]
     ELSE IF ~Installed(f, f.codec) THEN [f EXCEPT !.dead = TRUE]
     ELSE HandleExtraData(
            [s EXCEPT !.node = CreateArgs(s), !.primed = FALSE, !.unprimed = s.sent,
                      !.rooms = [i \in 1 .. OutBuffers |-> s.obs]])

-----------------------------------------------------------------------------
(***************************************************************************)
(* pad_chain.  td_h264dec_check_stream_params parses into a copy of the    *)
(* decoder; if the coded size is another one it gives the sink pad new     *)
(* caps.                                                                   *)
(***************************************************************************)
Wrong_CheckStreamParams(d, buf) ==      \* without the copy
  ParseAs("h264", d, buf).v

CheckStreamParams(d, buf) ==
  LET v == ParseAs("h264", d, buf).v
      caps == [d.sink EXCEPT !.w = v.width, !.h = v.height]
  IN IF d.width = 0 \/ d.height = 0 \/ <<v.width, v.height>> = <<d.width, d.height>>
     THEN d
     ELSE SetCaps(d, caps, d.node # NoNode)

(* History: the size in the SPS of a byte stream, for a decoder of H.264   *)
(* that has no configuration to prefer.                                    *)
Note(d, buf) ==
  IF /\ buf.form = "nal" /\ buf.head # NoHead
     /\ d.alg \in {"HDH264VDEC", "H264DEC"} /\ d.sink.data = NoBuf
  THEN LET size == SpsSize(buf.head)
       IN [d EXCEPT !.seen = IF size.ok THEN <<size.w, size.h>> ELSE @]
  ELSE d

Chain(d, buf) ==
  LET c == IF d.pre THEN CheckStreamParams(d, buf) ELSE d
      n == IF c.node = NoNode THEN InitNode(c, buf) ELSE c
  IN IF n.dead THEN n
     ELSE Note([SendBuffer(n, buf) EXCEPT !.flight = @ + 1], buf)

(* got_message with the recv_cb of the codecs: those of TI set the length  *)
(* to the cropped size (gstdsp_vdec_len_fixup), the others leave that of   *)
(* the node.  rooms has the buffers in the order the node fills them.      *)
LenFixup(d) == Bytes(d.color, d.cw, d.ch)
HasLenFixup(codec) == codec \in {"mp4vdec", "h264dec", "wmvdec"}

Receive(d) ==
  LET len == IF HasLenFixup(d.node.codec) THEN LenFixup(d)
             ELSE Bytes(d.node.color, d.node.w, d.node.h)
  IN [d EXCEPT !.flight = @ - 1, !.rooms = Tail(@),
               !.done = Append(@, [len |-> len, room |-> Head(d.rooms)])]

(* output_loop: the frame goes downstream, the node gets a new buffer. *)
TakeFrame(d) == [d EXCEPT !.done = Tail(@), !.rooms = Append(@, d.obs)]
=============================================================================
