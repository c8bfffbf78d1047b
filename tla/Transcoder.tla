----------------------------- MODULE Transcoder -----------------------------
(***************************************************************************)
(* A video decoder linked to a video encoder.  What they share is the      *)
(* link: the caps of the decoder's source pad become those of the          *)
(* encoder's sink pad with the first buffer that is pushed with them, in   *)
(* the decoder's task, and the frames the decoder's node has filled are    *)
(* the ones the encoder's node reads.                                      *)
(*                                                                         *)
(* Upstream sends one stream after another.  A stream has caps, the        *)
(* buffers that may come in it, and tagged: do the buffers have the caps   *)
(* too?  The core of GStreamer sets the caps of a buffer on the sink pad   *)
(* when they are not the pad's.                                            *)
(***************************************************************************)
EXTENDS VideoEnc, VideoDec

CONSTANTS
  Streams,        \* the streams upstream has
  Setups,         \* the boards the decoder runs on, each with an encoder
  Bitrates,       \* values the application sets
  MaxStreams, MaxBuffers, MaxSets   \* bounds of the streams, the buffers, and
                                    \* of restarts and bitrates together

ASSUME BoundsAssumption == {MaxStreams, MaxBuffers, MaxSets} \subseteq Nat

(***************************************************************************)
(* A stream has one format from its codec_data to its last buffer, as what *)
(* a demuxer sends; caps have a size or none.  codec_data of H.264 can be  *)
(* parsed, and VC-1 has codec_data, which prefix_vc1 reads unasked.        *)
(***************************************************************************)
VideoCaps ==
  {c \in [name : {"h264", "h263", "mpeg4", "divx", "wmv"}, w : Nat, h : Nat,
          rate : Nat \X (Nat \ {0}), data : Buffers \cup {NoBuf}, vc1 : BOOLEAN] :
     c.w = 0 <=> c.h = 0}

OneFormat(s) ==
  LET data == s.caps.data
      Is(forms) == \A buf \in s.bufs : buf.form \in forms
  IN CASE s.caps.name = "h264" /\ data = NoBuf -> Is({"nal"})
       [] s.caps.name = "h264" /\ data # NoBuf ->
            /\ \/ data.form = "nal" /\ Is({"nal"})
               \/ data.form = "avcC" /\ Is({"len"})
            /\ data.head # NoHead /\ SpsSize(data.head).ok
       [] s.caps.name = "h263" -> data = NoBuf /\ Is({"h263"})
       [] s.caps.name = "wmv" /\ s.caps.vc1 -> data.form = "seq" /\ Is({"vc1", "seq+vc1"})
       [] s.caps.name = "wmv" /\ ~s.caps.vc1 -> data.form \in {"none", "seq"} /\ Is({"wmv3"})
       [] OTHER -> data.form \in {"none", "mpeg4"} /\ Is({"mpeg4"})

ASSUME StreamsAssumption ==
  \A s \in Streams :
    s.caps \in VideoCaps /\ s.bufs \subseteq Buffers /\ s.tagged \in BOOLEAN /\ OneFormat(s)

Algs == {"H264ENC", "HDH264ENC", "HDMP4VENC", "H263P0ENC", "MP4VENC", "H263ENC", "JPEGENC"}
Properties ==
  [max_bitrate : Nat, level : Int, avc : BOOLEAN, mode : {0, 1}, quality : 0 .. 100]

ASSUME SetupsAssumption ==
  /\ \A setup \in Setups :
       /\ setup.enc.alg \in Algs /\ setup.enc.interval \in Nat /\ setup.enc.setup \in Properties
       /\ setup.enc = NewEnc(setup.enc.alg, setup.enc.interval, setup.enc.setup)
  /\ Bitrates \subseteq Nat

VARIABLES
  d, e,           \* decoder and encoder
  up,             \* the stream that is sent
  streams, buffers, sets    \* counters of the bounds

vars == <<d, e, up, streams, buffers, sets>>

NoStream == [caps |-> NoCaps]

Init ==
  /\ \E setup \in Setups : d = NewDec(setup.board) /\ e = setup.enc
  /\ up = NoStream
  /\ streams = 0 /\ buffers = 0 /\ sets = 0

(* While the encoder drains, the decoder's output_loop is in it.  Whatever  *)
(* stops the decoder's node waits for that, and the rest of its chain does *)
(* not meet the encoder: both are left to afterwards.                      *)
Alive == ~d.dead /\ ~e.draining

-----------------------------------------------------------------------------
(***************************************************************************)
(* Upstream: new caps, with an empty buffer or as such, and buffers.       *)
(***************************************************************************)
NewStream ==
  /\ Alive /\ streams < MaxStreams
  /\ \E s \in Streams :
       /\ s.caps # d.sink
       /\ up' = s
       /\ \E reset \in NodeResets(d, s.caps) :
            d' = [SetCaps(d, s.caps, reset) EXCEPT !.seen = NoSize]
  /\ streams' = streams + 1
  /\ UNCHANGED <<e, buffers, sets>>

(* The caps of the buffer first, if the pad has others. *)
Configured ==
  IF ~up.tagged \/ d.sink = up.caps THEN {d}
  ELSE {[SetCaps(d, up.caps, reset) EXCEPT !.seen = NoSize] :
          reset \in NodeResets(d, up.caps)}

DecChain ==
  /\ Alive /\ up # NoStream /\ buffers < MaxBuffers
  /\ d.flight + Len(d.done) < OutBuffers
  /\ \E c \in Configured, buf \in up.bufs : d' = Chain(c, buf)
  /\ buffers' = buffers + 1
  /\ UNCHANGED <<e, up, streams, sets>>

-----------------------------------------------------------------------------
DecReceive ==
  /\ d.flight > 0 /\ d.rooms # <<>>
  /\ d' = Receive(d)
  /\ UNCHANGED <<e, up, streams, buffers, sets>>

(* output_loop of the decoder, with the sink pad of the encoder. *)
DecPush ==
  /\ d.done # <<>> /\ Alive
  /\ LET s == IF e.sink = d.src THEN e ELSE EncSetCaps(e, d.src)
     IN IF s.draining
        THEN e' = s /\ UNCHANGED d      \* the frame waits for the drain
        ELSE /\ e' = IF s.dead THEN s ELSE EncChain(s, Head(d.done).len)
             /\ d' = [TakeFrame(d) EXCEPT !.dead = s.dead]
  /\ UNCHANGED <<up, streams, buffers, sets>>

EncDrained ==
  /\ e.draining
  /\ e' = EndDrain(e)
  /\ d' = [d EXCEPT !.dead = @ \/ e'.dead]
  /\ UNCHANGED <<up, streams, buffers, sets>>

EncReturn ==
  /\ e.node # NoEnc /\ e.queue # <<>> /\ ~e.zero
  /\ \E kind \in NodeOutput(e) : e' = EncReceive(e, kind)
  /\ UNCHANGED <<d, up, streams, buffers, sets>>

EncOutput ==
  /\ ~e.zero
  /\ \/ e.out # <<>> /\ e.skipping = 0 /\ e' = EncPush(e)
     \/ e.skipping # 0 /\ \E left \in CountedDown(e) : e' = EncSkipped(e, left)
  /\ UNCHANGED <<d, up, streams, buffers, sets>>

-----------------------------------------------------------------------------
(* The application. *)
AskBitrate ==
  /\ sets < MaxSets /\ ~e.zero /\ e.asked = NotAsked
  /\ \E bitrate \in Bitrates : e' = TestBitrate(e, bitrate)
  /\ sets' = sets + 1
  /\ UNCHANGED <<d, up, streams, buffers>>

SetBitrate ==
  /\ ~e.zero /\ e.asked # NotAsked
  /\ e' = StoreBitrate(e)
  /\ UNCHANGED <<d, up, streams, buffers, sets>>

(* Both elements go to READY and back. *)
Restart ==
  /\ sets < MaxSets /\ ~e.zero /\ ~e.draining /\ up # NoStream
  /\ d' = [StopNode(d) EXCEPT !.sink = NoCaps, !.src = NoCaps, !.seen = NoSize,
                              !.dead = FALSE]
  /\ e' = [StopEnc(e) EXCEPT !.sink = NoCaps, !.src = NoCaps, !.dead = FALSE]
  /\ up' = NoStream
  /\ sets' = sets + 1
  /\ UNCHANGED <<streams, buffers>>

Next ==
  \/ NewStream \/ DecChain \/ DecReceive \/ DecPush
  \/ EncDrained \/ EncReturn \/ EncOutput
  \/ AskBitrate \/ SetBitrate \/ Restart

Spec == Init /\ [][Next]_vars

-----------------------------------------------------------------------------
(***************************************************************************)
(* Frames fit.  gstdsp_vdec_len_fixup gives a frame the cropped size       *)
(* whatever the buffer is like: the frame must not be longer than the      *)
(* buffer its node has filled, must be as long as the caps of the source   *)
(* pad say, and the encoder behind must get the whole picture its node was *)
(* created for.  The frames of a node that survives caps with another      *)
(* cropped size are the exception.                                         *)
(***************************************************************************)
FramesFit ==
  /\ ~d.recrop =>
       \A i \in 1 .. Len(d.done) :
         /\ d.done[i].len <= d.done[i].room
         /\ HasLenFixup(d.node.codec) =>
              d.done[i].len = Bytes(d.src.color, d.src.w, d.src.h)
  /\ ~e.short

(***************************************************************************)
(* A running decoder has the node the stream needs.  However often upstream*)
(* changes caps or the SPS changes the size within a byte stream, the node *)
(* has the size of the last SPS, but for two streams: one whose codec_data *)
(* is a leftover, and a byte stream of the same size behind an AVC stream. *)
(* The node then survives the caps and is_avc with it, and the parser,     *)
(* which takes it for what the first bytes are not, finds no SPS.  And the *)
(* node understands the form of the buffers that send_cb passes on.  This  *)
(* fails in the ways the code leaves open: a node that survived other      *)
(* caps, a send_cb that the codec before installed, a codec_data_sent or a *)
(* codec_data of a stream before, and a codec that GSTDSP_CODEC forces.    *)
(***************************************************************************)
NodeFollowsStream ==
  d.node # NoNode =>
    /\ d.seen # NoSize =>
         <<d.node.w, d.node.h>> = d.seen \/ d.stale \/ (d.kept /\ d.parsed /\ d.is_avc)
    /\ d.misread => \/ d.kept
                    \/ d.send_cb \notin {"none", d.codec}
                    \/ d.unprimed \/ d.stale
                    \/ d.board.force # "unset"

(***************************************************************************)
(* What the encoder promises downstream.  AVC frames leave after           *)
(* codec_data is in the caps and headers not at all, though both travel    *)
(* through one queue and skip_hack_2 only counts; a frame has the size of  *)
(* the caps it leaves with; the bitrate stays below the maximum; and the   *)
(* level is enough for the rate of macroblocks and for that maximum, or it *)
(* is the last of the table.  The exceptions: a node that survived caps    *)
(* (gst_pad_take_caps has lost codec_data), a header repeated while a      *)
(* frame waited, a lost step of skip_hack_2, a frame that leaves during    *)
(* the drain, a bitrate tested against the maximum of other caps.          *)
(***************************************************************************)
EncoderKeepsPromises ==
  /\ IsAvc(e) /\ e.left # Nothing =>
       IF e.left.kind = "frame" THEN e.left.data \/ e.kept \/ e.left.drained
       ELSE e.raced \/ e.lost
  /\ e.left # Nothing => e.left.size = e.left.caps \/ e.left.drained
  /\ e.node # NoEnc /\ LevelsOf(e.alg) # <<>> =>
       /\ e.bitrate <= e.max_bitrate \/ e.crossed
       /\ \/ e.chosen = Last(LevelsOf(e.alg))
          \/ /\ e.chosen.mbps >= Mbpf(e.width, e.height) * e.rate
             /\ e.max_bitrate <= e.chosen.bitrate
=============================================================================
