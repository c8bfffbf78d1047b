-------------------------- MODULE TranscoderProofs --------------------------
(***************************************************************************)
(* Proofs about a decoder and an encoder that are linked: TLC checks the   *)
(* properties for nine streams and six boards, here they hold for all      *)
(* streams of StreamsAssumption, all boards and all encoders of            *)
(* SetupsAssumption, whatever the bounds.                                  *)
(*                                                                         *)
(* d and e are records with some thirty fields, of which an operator of    *)
(* the model changes a few.  So each has a lemma first that says which:    *)
(* Same for the decoder and Alike for the encoder say that all others are  *)
(* as before.  The parts of the invariant follow, then a lemma for each    *)
(* thing that happens to a decoder or an encoder, and the step.            *)
(***************************************************************************)
EXTENDS Transcoder, TLAPS

-----------------------------------------------------------------------------
(* Sizes *)

(* Products are natural numbers, and grow with their factors. *)
LEMMA Products ==
  ASSUME NEW a \in Nat, NEW b \in Nat, NEW c \in Nat, NEW f \in Nat, a <= c, b <= f
  PROVE  a * b \in Nat /\ c * f \in Nat /\ a * b <= c * f
<1>1. PICK i \in Nat, j \in Nat : c = a + i /\ f = b + j
  <2> c - a \in Nat /\ f - b \in Nat /\ c = a + (c - a) /\ f = b + (f - b)
    OBVIOUS
  <2> QED
    OBVIOUS
<1>2. (a + i) * (b + j) = a * b + a * j + i * b + i * j
  OBVIOUS
<1>3. a * b \in Nat /\ a * j \in Nat /\ i * b \in Nat /\ i * j \in Nat
  OBVIOUS
<1>4. c * f = a * b + a * j + i * b + i * j
  BY <1>1, <1>2
<1> QED
  BY <1>3, <1>4

(* A larger picture takes no fewer bytes. *)
LEMMA BytesMonotonic ==
  ASSUME NEW color, NEW a \in Nat, NEW b \in Nat, NEW c \in Nat, NEW f \in Nat, a <= c, b <= f
  PROVE  Bytes(color, a, b) \in Nat /\ Bytes(color, a, b) <= Bytes(color, c, f)
<1>1. \A m, n \in Nat : m <= n => m * 2 \in Nat /\ m * 2 <= n * 2
                                   /\ (m * 3) \div 2 \in Nat /\ (m * 3) \div 2 <= (n * 3) \div 2
  OBVIOUS
<1> DEFINE m == a * b
           n == c * f
<1>2. m \in Nat /\ n \in Nat /\ m <= n
  BY Products
<1> HIDE DEF m, n
<1>3. m * 2 \in Nat /\ m * 2 <= n * 2 /\ (m * 3) \div 2 \in Nat /\ (m * 3) \div 2 <= (n * 3) \div 2
  BY <1>1, <1>2
<1> QED
  BY <1>3 DEF m, n, Bytes

(* A picture without width or height has no bytes: what init_node tests    *)
(* with output_buffer_size.                                                *)
LEMMA NoBytes ==
  ASSUME NEW color, NEW a \in Nat, NEW b \in Nat, a = 0 \/ b = 0
  PROVE  Bytes(color, a, b) = 0
<1>1. a * b = 0
  OBVIOUS
<1> QED
  BY <1>1 DEF Bytes

(* ROUND_UP leaves multiples of 16 alone. *)
LEMMA RoundingUp ==
  ASSUME NEW n \in Nat
  PROVE  /\ RoundUp16(n) \in Nat /\ n <= RoundUp16(n)
         /\ RoundUp16(RoundUp16(n)) = RoundUp16(n)
         /\ RoundUp16(16 * n) = 16 * n
BY DEF RoundUp16

-----------------------------------------------------------------------------
(* The values of the inputs *)

RawCaps == [w : Nat, h : Nat, color : {"UYVY", "I420"}, rate : Nat \X (Nat \ {0})]
ColorOf(board) == IF board.down = "I420" THEN "I420" ELSE "UYVY"

(* The fields of the caps of a stream. *)
LEMMA VideoCapsParts ==
  ASSUME NEW c \in VideoCaps
  PROVE  /\ c # NoCaps /\ c.w \in Nat /\ c.h \in Nat /\ (c.w = 0 <=> c.h = 0)
         /\ c.rate \in Nat \X (Nat \ {0}) /\ c.data \in Buffers \cup {NoBuf}
         /\ c.name \in {"h264", "h263", "mpeg4", "divx", "wmv"}
         /\ c.vc1 \in BOOLEAN
<1>1. DOMAIN c = {"name", "w", "h", "rate", "data", "vc1"} /\ DOMAIN NoCaps = {"w"}
  BY DEF VideoCaps, NoCaps
<1>2. c # NoCaps
  BY <1>1
<1> QED
  BY <1>2 DEF VideoCaps

(* Caps stay caps of their stream with another size. *)
LEMMA VideoCapsSized ==
  ASSUME NEW c \in VideoCaps, NEW w \in Nat \ {0}, NEW h \in Nat \ {0}
  PROVE  LET s == [c EXCEPT !.w = w, !.h = h] IN
         /\ s \in VideoCaps /\ s.w = w /\ s.h = h
         /\ s.name = c.name /\ s.data = c.data /\ s.vc1 = c.vc1
BY DEF VideoCaps

(* NoCaps are no caps of the source pad. *)
LEMMA RawCapsParts ==
  ASSUME NEW c \in RawCaps
  PROVE  c # NoCaps
<1>1. DOMAIN c = {"w", "h", "color", "rate"} /\ DOMAIN NoCaps = {"w"}
  BY DEF RawCaps, NoCaps
<1> QED
  BY <1>1

(* What is in the headers of a buffer. *)
LEMMA BufferParts ==
  ASSUME NEW b \in Buffers
  PROVE  /\ b # NoBuf /\ b.form \in {"avcC", "nal", "h263", "mpeg4", "len", "seq", "vc1", "seq+vc1", "wmv3"}
         /\ b.form \in {"avcC", "nal"} /\ b.head # NoHead =>
              /\ b.head.mbw \in Nat \ {0} /\ b.head.mbh \in Nat \ {0}
              /\ b.head.crop_x \in Nat /\ b.head.crop_y \in Nat /\ b.head.chroma \in Nat
         /\ b.form = "avcC" => b.head.lol \in 1 .. 4
         /\ b.form = "h263" /\ b.head # NoHead =>
              /\ b.head.size \in 0 .. 7 /\ b.head.esize \in 0 .. 7
              /\ b.head.w9 \in Nat /\ b.head.h9 \in Nat
         /\ b.form = "mpeg4" /\ b.head # NoHead => b.head.w \in Nat /\ b.head.h \in Nat
         /\ b.form \notin {"avcC", "nal", "h263", "mpeg4"} => b.head = NoHead
<1>1. DOMAIN b = {"form", "head"} /\ DOMAIN NoBuf = {"form"}
  BY DEF Buffers, NoBuf
<1>2. b # NoBuf
  BY <1>1
<1>3. CASE b \in [form : {"avcC"}, head : AvcConfig]
  BY <1>2, <1>3 DEF AvcConfig
<1>4. CASE b \in [form : {"nal"}, head : SpsHeader \cup {NoHead}]
  BY <1>2, <1>4 DEF SpsHeader
<1>5. CASE b \in [form : {"h263"}, head : H263Header \cup {NoHead}]
  BY <1>2, <1>5 DEF H263Header
<1>6. CASE b \in [form : {"mpeg4"}, head : Mpeg4Header \cup {NoHead}]
  BY <1>2, <1>6 DEF Mpeg4Header
<1>7. CASE b \in [form : {"len", "seq", "vc1", "seq+vc1", "wmv3"}, head : {NoHead}]
  BY <1>2, <1>7
<1> QED
  BY <1>3, <1>4, <1>5, <1>6, <1>7 DEF Buffers

(* An SPS gives a size in macroblocks, and the cropped size is within it. *)
LEMMA SpsSizes ==
  ASSUME NEW sps, sps.mbw \in Nat \ {0}, sps.mbh \in Nat \ {0},
         sps.crop_x \in Nat, sps.crop_y \in Nat, sps.chroma \in Nat, SpsSize(sps).ok
  PROVE  LET s == SpsSize(sps) IN
         /\ s.w \in Nat \ {0} /\ s.h \in Nat \ {0} /\ s.cw \in Nat /\ s.ch \in Nat
         /\ s.cw <= s.w /\ s.ch <= s.h
         /\ RoundUp16(s.w) = s.w /\ RoundUp16(s.h) = s.h
<1> DEFINE fields == IF sps.frame_mbs THEN 1 ELSE 2
           chroma == IF sps.profile \notin HighProfiles THEN 1
                     ELSE IF sps.chroma = 3 /\ sps.planes THEN 0 ELSE sps.chroma
           w == 16 * sps.mbw
           h == 16 * sps.mbh * fields
           x == sps.crop_x * SubW[chroma + 1]
           y == sps.crop_y * SubH[chroma + 1] * fields
<1>1. fields \in {1, 2} /\ chroma \in Nat
  OBVIOUS
<1>2. chroma <= 3
  BY <1>1 DEF SpsSize
<1>3. SubW[chroma + 1] \in {1, 2} /\ SubH[chroma + 1] \in {1, 2}
  <2> HIDE DEF chroma
  <2> chroma \in 0 .. 3
    BY <1>1, <1>2
  <2> QED
    BY DEF SubW, SubH
<1>4. x \in Nat /\ y \in Nat
  <2> HIDE DEF fields, chroma
  <2> QED
    BY <1>1, <1>3
<1>5. w \in Nat \ {0} /\ h \in Nat \ {0} /\ RoundUp16(w) = w /\ RoundUp16(h) = h
  <2>1. sps.mbh * fields \in Nat \ {0} /\ h = 16 * (sps.mbh * fields)
    <3> HIDE DEF fields
    <3> QED
      BY <1>1
  <2> HIDE DEF fields
  <2> QED
    BY <2>1, RoundingUp
<1>6. /\ SpsSize(sps).w = w /\ SpsSize(sps).h = h
      /\ SpsSize(sps).cw = w - x /\ SpsSize(sps).ch = h - y
      /\ SpsSize(sps).ok <=> w - x >= 0 /\ h - y >= 0
  <2>1. ~(chroma > 3)
    <3> HIDE DEF chroma
    <3> QED
      BY <1>1, <1>2
  <2> QED
    BY <2>1 DEF SpsSize
<1> HIDE DEF w, h, x, y
<1>7. w - x \in Nat /\ h - y \in Nat /\ w - x <= w /\ h - y <= h
  BY <1>4, <1>5, <1>6
<1> QED
  BY <1>5, <1>6, <1>7

-----------------------------------------------------------------------------
(* What the operators leave of a decoder *)

DecFields ==
  {"width", "height", "cw", "ch", "obs", "color", "tmp", "parsed", "profile", "lol",
   "is_avc", "refs", "ih", "poc", "vc1", "sent", "st", "alg", "codec", "parse_func",
   "codec_data", "src", "sink", "send_cb", "pre", "node", "rooms", "done", "flight",
   "dead", "board", "kept", "recrop", "seen", "primed", "unprimed", "stale", "misread"}

(* All fields are the same but those that may have changed. *)
Same(x, y, changed) == \A f \in DecFields \ changed : x[f] = y[f]

(* tmp_caps have the cropped size. *)
Cropped(x) == x.tmp \in RawCaps /\ x.tmp.w = x.cw /\ x.tmp.h = x.ch /\ x.tmp.color = x.color

(* set_framesize: the sizes, tmp_caps and the size of the output buffers. *)
LEMMA FramesizeIs ==
  ASSUME NEW x, DOMAIN x = DecFields, NEW w \in Nat, NEW h \in Nat,
         NEW crop_w \in Nat, NEW crop_h \in Nat, crop_w <= w, crop_h <= h
  PROVE  LET v == SetFramesize(x, w, h, crop_w, crop_h) IN
         /\ DOMAIN v = DecFields
         /\ Same(v, x, {"tmp", "cw", "ch", "obs", "width", "height", "parsed"})
         /\ v.width = w /\ v.height = h /\ v.obs = Bytes(x.color, w, h) /\ v.parsed
         /\ v.cw \in Nat /\ v.ch \in Nat /\ v.cw <= w /\ v.ch <= h
         /\ Cropped(x) => Cropped(v)
<1> DEFINE v == SetFramesize(x, w, h, crop_w, crop_h)
<1>1. /\ DOMAIN v = DecFields
      /\ Same(v, x, {"tmp", "cw", "ch", "obs", "width", "height", "parsed"})
  BY DEF SetFramesize, DecFields, Same
<1>2. /\ v.width = w /\ v.height = h /\ v.obs = Bytes(x.color, w, h) /\ v.parsed
      /\ v.cw = (IF crop_w # 0 THEN crop_w ELSE w) /\ v.ch = (IF crop_h # 0 THEN crop_h ELSE h)
      /\ v.color = x.color
  BY DEF SetFramesize, DecFields
<1>3. /\ v.tmp = x.tmp \/ v.tmp = [x.tmp EXCEPT !.w = v.cw, !.h = v.ch]
      /\ v.tmp = x.tmp => x.tmp = NoCaps \/ (v.cw = x.cw /\ v.ch = x.ch)
                            \/ x.tmp = [x.tmp EXCEPT !.w = v.cw, !.h = v.ch]
  BY <1>2 DEF SetFramesize, DecFields
<1> HIDE DEF v
<1>4. v.cw \in Nat /\ v.ch \in Nat /\ v.cw <= w /\ v.ch <= h
  BY <1>2
<1>5. ASSUME Cropped(x) PROVE Cropped(v)
  <2>1. x.tmp \in RawCaps /\ x.tmp # NoCaps
    BY <1>5, RawCapsParts DEF Cropped
  <2>2. CASE v.tmp = [x.tmp EXCEPT !.w = v.cw, !.h = v.ch]
    BY <1>2, <1>4, <1>5, <2>1, <2>2 DEF Cropped, RawCaps
  <2>3. CASE v.tmp = x.tmp /\ v.cw = x.cw /\ v.ch = x.ch
    BY <1>2, <1>5, <2>3 DEF Cropped
  <2> QED
    BY <1>3, <2>1, <2>2, <2>3
<1> QED
  BY <1>1, <1>2, <1>4, <1>5 DEF v

ParseFields ==
  {"tmp", "cw", "ch", "obs", "width", "height", "parsed", "profile", "is_avc",
   "refs", "ih", "poc", "lol"}

(* What a parser may have done when it has not failed. *)
Sized(v, x) ==
  /\ DOMAIN v = DecFields /\ Same(v, x, ParseFields)
  /\ v.width \in Nat /\ v.height \in Nat /\ v.obs = Bytes(x.color, v.width, v.height)
  /\ v.cw \in Nat /\ v.ch \in Nat /\ v.cw <= v.width /\ v.ch <= v.height
  /\ Cropped(x) => Cropped(v)

(* gst_dsp_h263_parse has found a size. *)
LEMMA H263Is ==
  ASSUME NEW x, DOMAIN x = DecFields, NEW h, H263Parse(x, h).ok,
         h.size \in 0 .. 7, h.esize \in 0 .. 7, h.w9 \in Nat, h.h9 \in Nat
  PROVE  LET v == H263Parse(x, h).v IN
         Sized(v, x) /\ v.parsed /\ v.is_avc = x.is_avc /\ v.ih = x.ih /\ v.lol = x.lol
<1> DEFINE type == IF h.size = 7 THEN h.esize ELSE h.size
           size == IF h.size = 7 /\ type = 6 THEN <<(h.w9 + 1) * 4, h.h9 * 4>> ELSE H263Sizes[type]
           baseline == h.size # 7 /\ ~h.pb /\ ~h.cpm
           y == [x EXCEPT !.profile = IF baseline THEN 1 ELSE 0]
<1>1. ~(\/ h.bits < H263Bits(h)
        \/ h.size \in {0, 6}
        \/ h.size = 7 /\ (h.ufep # 1 \/ h.esize \in {0, 7}))
  BY DEF H263Parse, Failed
<1>2. H263Parse(x, h).v = SetFramesize(y, size[1], size[2], 0, 0)
  BY <1>1 DEF H263Parse, Parsed
<1>3. size[1] \in Nat /\ size[2] \in Nat
  <2>1. type \in 1 .. 6 /\ (type = 6 => h.size = 7)
    BY <1>1
  <2> HIDE DEF type
  <2> QED
    BY <2>1 DEF H263Sizes
<1>4. /\ DOMAIN y = DecFields /\ Same(y, x, {"profile"})
      /\ y.tmp = x.tmp /\ y.cw = x.cw /\ y.ch = x.ch /\ y.color = x.color
  BY DEF DecFields, Same
<1> HIDE DEF y, size
<1> DEFINE w == size[1]
           z == size[2]
           v == SetFramesize(y, w, z, 0, 0)
<1>5. /\ DOMAIN v = DecFields
      /\ Same(v, y, {"tmp", "cw", "ch", "obs", "width", "height", "parsed"})
      /\ v.width = w /\ v.height = z /\ v.obs = Bytes(y.color, w, z) /\ v.parsed
      /\ v.cw \in Nat /\ v.ch \in Nat /\ v.cw <= w /\ v.ch <= z
      /\ Cropped(y) => Cropped(v)
  <2>1. w \in Nat /\ z \in Nat
    BY <1>3
  <2> HIDE DEF w, z
  <2> 0 \in Nat /\ 0 <= w /\ 0 <= z
    BY <2>1
  <2> QED
    BY <1>4, <2>1, FramesizeIs
<1> w \in Nat /\ z \in Nat
  BY <1>3
<1> HIDE DEF v, w, z
<1>6. Same(v, x, ParseFields) /\ v.is_avc = x.is_avc /\ v.ih = x.ih /\ v.lol = x.lol
  BY <1>4, <1>5 DEF Same, ParseFields, DecFields
<1>7. Cropped(x) => Cropped(v)
  BY <1>4, <1>5 DEF Cropped
<1> QED
  BY <1>2, <1>4, <1>5, <1>6, <1>7 DEF v, w, z, Sized

(* gst_dsp_mpeg4_parse has found a size. *)
LEMMA Mpeg4Is ==
  ASSUME NEW x, DOMAIN x = DecFields, NEW h, Mpeg4Parse(x, h).ok, h.w \in Nat, h.h \in Nat
  PROVE  LET v == Mpeg4Parse(x, h).v IN
         Sized(v, x) /\ v.parsed /\ v.is_avc = x.is_avc /\ v.ih = x.ih /\ v.profile = x.profile
<1> DEFINE y == [x EXCEPT !.lol = IF h.xvid THEN 0 ELSE IF h.divx THEN 1 ELSE @]
           v == SetFramesize(y, h.w, h.h, 0, 0)
<1>1. Mpeg4Parse(x, h).v = v
  BY DEF Mpeg4Parse, Parsed, Failed
<1>2. /\ DOMAIN y = DecFields /\ Same(y, x, {"lol"})
      /\ y.tmp = x.tmp /\ y.cw = x.cw /\ y.ch = x.ch /\ y.color = x.color
  BY DEF DecFields, Same
<1> HIDE DEF y
<1>3. /\ DOMAIN v = DecFields
      /\ Same(v, y, {"tmp", "cw", "ch", "obs", "width", "height", "parsed"})
      /\ v.width = h.w /\ v.height = h.h /\ v.obs = Bytes(y.color, h.w, h.h) /\ v.parsed
      /\ v.cw \in Nat /\ v.ch \in Nat /\ v.cw <= h.w /\ v.ch <= h.h
      /\ Cropped(y) => Cropped(v)
  <2> 0 \in Nat /\ 0 <= h.w /\ 0 <= h.h
    OBVIOUS
  <2> QED
    BY <1>2, FramesizeIs
<1> HIDE DEF v
<1>4. Same(v, x, ParseFields) /\ v.is_avc = x.is_avc /\ v.ih = x.ih /\ v.profile = x.profile
  BY <1>2, <1>3 DEF Same, ParseFields, DecFields
<1>5. Cropped(x) => Cropped(v)
  BY <1>2, <1>3 DEF Cropped
<1> QED
  BY <1>1, <1>2, <1>3, <1>4, <1>5 DEF Sized

(* A byte stream, or its configuration, is parsed when its SPS has a size. *)
Found(x, buf) ==
  /\ buf.head # NoHead /\ SpsSize(buf.head).ok
  /\ IF x.parsed THEN ~x.is_avc /\ buf.form = "nal" ELSE buf.form \in {"avcC", "nal"}

(* gst_dsp_h264_parse succeeds with an SPS whose size is sane, and with    *)
(* nothing else.                                                           *)
LEMMA H264Is ==
  ASSUME NEW x, DOMAIN x = DecFields, NEW buf \in Buffers, buf.form \in {"avcC", "nal", "len"}
  PROVE  /\ H264Parse(x, buf).ok <=> Found(x, buf)
         /\ ~H264Parse(x, buf).ok => H264Parse(x, buf).v = x
         /\ Found(x, buf) =>
              LET v == H264Parse(x, buf).v IN
              /\ Sized(v, x) /\ v.parsed /\ v.lol = x.lol /\ v.ih = v.height
              /\ v.is_avc <=> buf.form # "nal"
              /\ v.width = SpsSize(buf.head).w /\ v.height = SpsSize(buf.head).h
              /\ v.width # 0 /\ v.height # 0
              /\ RoundUp16(v.width) = v.width /\ RoundUp16(v.height) = v.height
<1>1. /\ H264Parse(x, buf).ok <=> Found(x, buf)
      /\ ~H264Parse(x, buf).ok => H264Parse(x, buf).v = x
  BY BufferParts DEF H264Parse, Found, Failed, Parsed
<1>2. SUFFICES ASSUME Found(x, buf)
      PROVE  LET v == H264Parse(x, buf).v IN
             /\ Sized(v, x) /\ v.parsed /\ v.lol = x.lol /\ v.ih = v.height
             /\ v.is_avc <=> buf.form # "nal"
             /\ v.width = SpsSize(buf.head).w /\ v.height = SpsSize(buf.head).h
             /\ v.width # 0 /\ v.height # 0
             /\ RoundUp16(v.width) = v.width /\ RoundUp16(v.height) = v.height
  BY <1>1
<1> DEFINE avc == IF x.parsed THEN x.is_avc ELSE buf.form # "nal"
           size == SpsSize(buf.head)
           y == [x EXCEPT !.profile = buf.head.profile, !.is_avc = avc,
                          !.refs = buf.head.refs, !.ih = size.h, !.poc = buf.head.poc]
           v == SetFramesize(y, size.w, size.h, size.cw, size.ch)
<1>3. H264Parse(x, buf).v = v
  BY <1>1, <1>2 DEF H264Parse, Failed, Parsed
<1>4. /\ DOMAIN y = DecFields /\ Same(y, x, {"profile", "is_avc", "refs", "ih", "poc"})
      /\ y.tmp = x.tmp /\ y.cw = x.cw /\ y.ch = x.ch /\ y.color = x.color
      /\ y.lol = x.lol /\ y.ih = size.h /\ (y.is_avc <=> avc)
  BY DEF DecFields, Same
<1>5. avc <=> buf.form # "nal"
  BY <1>2 DEF Found
<1>6. /\ size.w \in Nat \ {0} /\ size.h \in Nat \ {0} /\ size.cw \in Nat /\ size.ch \in Nat
      /\ size.cw <= size.w /\ size.ch <= size.h
      /\ RoundUp16(size.w) = size.w /\ RoundUp16(size.h) = size.h
  <2>1. /\ buf.head.mbw \in Nat \ {0} /\ buf.head.mbh \in Nat \ {0}
        /\ buf.head.crop_x \in Nat /\ buf.head.crop_y \in Nat /\ buf.head.chroma \in Nat
        /\ SpsSize(buf.head).ok
    BY <1>2, BufferParts DEF Found
  <2> QED
    BY <2>1, SpsSizes
<1> HIDE DEF y, size, avc
<1>7. /\ DOMAIN v = DecFields
      /\ Same(v, y, {"tmp", "cw", "ch", "obs", "width", "height", "parsed"})
      /\ v.width = size.w /\ v.height = size.h /\ v.obs = Bytes(y.color, size.w, size.h) /\ v.parsed
      /\ v.cw \in Nat /\ v.ch \in Nat /\ v.cw <= size.w /\ v.ch <= size.h
      /\ Cropped(y) => Cropped(v)
  BY <1>4, <1>6, FramesizeIs
<1> HIDE DEF v
<1>8. Same(v, x, ParseFields) /\ v.lol = x.lol /\ v.ih = size.h /\ (v.is_avc <=> avc)
  BY <1>4, <1>7 DEF Same, ParseFields, DecFields
<1>9. Cropped(x) => Cropped(v)
  BY <1>4, <1>7 DEF Cropped
<1>10. Sized(v, x)
  BY <1>4, <1>6, <1>7, <1>8, <1>9 DEF Sized
<1> QED
  BY <1>3, <1>5, <1>6, <1>7, <1>8, <1>10 DEF size

Parsers == {"none", "h264", "h263", "mpeg4"}

(* A parser fails and leaves the decoder as it was, or the size has been   *)
(* found; the initial height of the H.264 codecs is then the height.       *)
LEMMA ParseIs ==
  ASSUME NEW x, DOMAIN x = DecFields, NEW parser \in Parsers, NEW buf \in Buffers \cup {NoBuf}
  PROVE  LET p == ParseAs(parser, x, buf) IN
         /\ ~p.ok => p.v = x
         /\ p.ok => /\ Sized(p.v, x) /\ p.v.parsed
                    /\ p.v.ih = p.v.height \/ p.v.ih = x.ih
                    /\ buf.form \in {"avcC", "nal", "h263", "mpeg4"}
                    /\ buf.form \in {"avcC", "nal"} <=> parser = "h264"
                    /\ parser = "h264" =>
                         /\ Found(x, buf) /\ p.v.lol = x.lol /\ p.v.ih = p.v.height
                         /\ p.v.is_avc <=> buf.form # "nal"
                         /\ p.v.width = SpsSize(buf.head).w /\ p.v.height = SpsSize(buf.head).h
                         /\ p.v.width # 0 /\ p.v.height # 0
                         /\ RoundUp16(p.v.width) = p.v.width /\ RoundUp16(p.v.height) = p.v.height
                    /\ parser # "h264" => p.v.is_avc = x.is_avc
                    /\ parser = "mpeg4" => p.v.profile = x.profile
         /\ parser = "h264" /\ buf.form \in {"avcC", "nal"} /\ Found(x, buf) => p.ok
<1> DEFINE p == ParseAs(parser, x, buf)
<1>1. CASE parser = "h264" /\ buf.form \in {"avcC", "nal", "len"}
  <2>1. p = H264Parse(x, buf) /\ buf \in Buffers
    BY <1>1 DEF ParseAs, NoBuf
  <2>2. p.ok => buf.form # "len"
    BY <1>1, <2>1, H264Is, BufferParts DEF Found
  <2> HIDE DEF p
  <2> QED
    BY <1>1, <2>1, <2>2, H264Is DEF p
<1>2. CASE ~(parser = "h264" /\ buf.form \in {"avcC", "nal", "len"})
           /\ (buf.form # parser \/ parser = "none" \/ buf.head = NoHead)
  BY <1>2 DEF ParseAs, Failed
<1>3. CASE ~(parser = "h264" /\ buf.form \in {"avcC", "nal", "len"})
           /\ ~(buf.form # parser \/ parser = "none" \/ buf.head = NoHead)
  <2> buf \in Buffers
    BY <1>3 DEF NoBuf
  <2> /\ buf.form = parser /\ buf.head # NoHead
      /\ buf.form \in {"avcC", "nal", "h263", "mpeg4", "len", "seq", "vc1", "seq+vc1", "wmv3"}
      /\ buf.form \notin {"avcC", "nal", "h263", "mpeg4"} => buf.head = NoHead
    BY <1>3, BufferParts
  <2>1. parser # "h264"
    OBVIOUS
  <2>2. parser \in {"h263", "mpeg4"} /\ buf.form = parser
    BY <1>3, <2>1 DEF Parsers
  <2>3. CASE parser = "h263"
    <3>1. p = H263Parse(x, buf.head)
      BY <1>3, <2>3 DEF ParseAs
    <3>2. ~p.ok => p.v = x
      BY <3>1 DEF H263Parse, Failed, Parsed
    <3>3. /\ buf.head.size \in 0 .. 7 /\ buf.head.esize \in 0 .. 7
          /\ buf.head.w9 \in Nat /\ buf.head.h9 \in Nat
      BY <1>3, <2>2, <2>3, BufferParts
    <3>4. p.ok => Sized(p.v, x) /\ p.v.parsed /\ p.v.is_avc = x.is_avc /\ p.v.ih = x.ih
      BY <3>1, <3>3, H263Is
    <3> QED
      BY <2>2, <2>3, <3>2, <3>4
  <2>4. CASE parser = "mpeg4"
    <3>1. p = Mpeg4Parse(x, buf.head)
      BY <1>3, <2>4 DEF ParseAs
    <3>2. ~p.ok => p.v = x
      BY <3>1 DEF Mpeg4Parse, Failed, Parsed
    <3>3. buf.head.w \in Nat /\ buf.head.h \in Nat
      BY <1>3, <2>2, <2>4, BufferParts
    <3>4. p.ok => /\ Sized(p.v, x) /\ p.v.parsed /\ p.v.is_avc = x.is_avc /\ p.v.ih = x.ih
                  /\ p.v.profile = x.profile
      BY <3>1, <3>3, Mpeg4Is
    <3> QED
      BY <2>2, <2>4, <3>2, <3>4
  <2> QED
    BY <2>2, <2>3, <2>4
<1> QED
  BY <1>1, <1>2, <1>3

(* What gstdsp_base stops with the node. *)
LEMMA StopNodeIs ==
  ASSUME NEW x, DOMAIN x = DecFields
  PROVE  LET s == StopNode(x) IN
         /\ DOMAIN s = DecFields
         /\ Same(s, x, {"node", "rooms", "done", "flight", "tmp", "kept", "recrop", "misread"})
         /\ s.node = NoNode /\ s.rooms = <<>> /\ s.done = <<>> /\ s.tmp = NoCaps /\ ~s.misread
BY DEF StopNode, DecFields, Same

ChosenFields == {"parsed", "profile", "alg", "codec", "lol", "st", "refs", "ih", "parse_func", "vc1"}

(* What the decoder knows of a stream from its caps *)
CodecChosen(x, caps) ==
  /\ x.alg = AlgOf(caps.name) /\ x.codec = CodecOf(x.alg) /\ ~x.parsed /\ x.profile = 0
  /\ caps.name = "h264" => x.lol = 0 /\ x.st = 0 /\ x.ih = 0 /\ x.parse_func = "h264"
  /\ caps.name = "h263" => x.parse_func = "h263"
  /\ caps.name = "wmv" => x.vc1 = caps.vc1
  /\ caps.name \in {"mpeg4", "divx"} => x.parse_func = "mpeg4"

(* sink_setcaps chooses the codec by the name of the caps alone. *)
LEMMA ChooseCodecIs ==
  ASSUME NEW x, DOMAIN x = DecFields, NEW caps \in VideoCaps
  PROVE  LET s == ChooseCodec(x, caps) IN
         /\ DOMAIN s = DecFields /\ Same(s, x, ChosenFields)
         /\ CodecChosen(s, caps)
         /\ s.ih \in {0, x.ih} /\ s.parse_func \in Parsers \cup {x.parse_func}
<1> DEFINE s == ChooseCodec(x, caps)
           c == [x EXCEPT !.parsed = FALSE, !.profile = 0,
                          !.alg = AlgOf(caps.name), !.codec = CodecOf(AlgOf(caps.name))]
<1>1. /\ DOMAIN c = DecFields /\ Same(c, x, {"parsed", "profile", "alg", "codec"})
      /\ c.alg = AlgOf(caps.name) /\ c.codec = CodecOf(c.alg) /\ ~c.parsed /\ c.profile = 0
      /\ c.ih = x.ih /\ c.parse_func = x.parse_func
  BY DEF DecFields, Same
<1>2. s = CASE caps.name = "h264" ->
                 [c EXCEPT !.lol = 0, !.st = 0, !.refs = 0, !.ih = 0, !.parse_func = "h264"]
            [] caps.name = "h263" -> [c EXCEPT !.parse_func = "h263"]
            [] caps.name = "wmv" -> [c EXCEPT !.vc1 = caps.vc1]
            [] OTHER -> [c EXCEPT !.parse_func = "mpeg4"]
  BY DEF ChooseCodec
<1> HIDE DEF c, s
<1> caps.name \in {"h264", "h263", "mpeg4", "divx", "wmv"}
  BY VideoCapsParts
<1>3. CASE caps.name = "h264"
  <2>1. s = [c EXCEPT !.lol = 0, !.st = 0, !.refs = 0, !.ih = 0, !.parse_func = "h264"]
    BY <1>2, <1>3
  <2>2. /\ DOMAIN s = DecFields /\ Same(s, c, {"lol", "st", "refs", "ih", "parse_func"})
        /\ s.lol = 0 /\ s.st = 0 /\ s.ih = 0 /\ s.parse_func = "h264"
    BY <1>1, <2>1 DEF Same, DecFields
  <2>3. Same(s, x, ChosenFields)
    BY <1>1, <2>2 DEF Same, ChosenFields
  <2>4. s.alg = c.alg /\ s.codec = c.codec /\ s.parsed = c.parsed /\ s.profile = c.profile
    BY <2>2 DEF Same, DecFields
  <2> QED
    BY <1>1, <1>3, <2>2, <2>3, <2>4 DEF CodecChosen, Parsers, s
<1>4. CASE caps.name = "h263"
  <2>1. s = [c EXCEPT !.parse_func = "h263"]
    BY <1>2, <1>4
  <2> QED
    BY <1>1, <1>4, <2>1 DEF CodecChosen, Same, DecFields, ChosenFields, Parsers, s
<1>5. CASE caps.name = "wmv"
  <2>1. s = [c EXCEPT !.vc1 = caps.vc1]
    BY <1>2, <1>5
  <2> QED
    BY <1>1, <1>5, <2>1 DEF CodecChosen, Same, DecFields, ChosenFields, Parsers, s
<1>6. CASE caps.name \in {"mpeg4", "divx"}
  <2>1. s = [c EXCEPT !.parse_func = "mpeg4"]
    BY <1>2, <1>6
  <2> QED
    BY <1>1, <1>6, <2>1 DEF CodecChosen, Same, DecFields, ChosenFields, Parsers, s
<1> QED
  BY <1>3, <1>4, <1>5, <1>6

SizeFields == {"cw", "ch", "width", "height", "obs", "color", "tmp"}

(* A size of the caps, or else that of the decoder *)
Width(x, caps) == IF caps.w # 0 THEN caps.w ELSE x.width
Height(x, caps) == IF caps.w # 0 THEN caps.h ELSE x.height

CapsKnown(x) ==
  /\ x.cw \in Nat /\ x.ch \in Nat /\ x.width \in Nat /\ x.height \in Nat
  /\ Cropped(x) /\ x.cw <= x.width /\ x.ch <= x.height
  /\ x.obs = Bytes(x.color, x.width, x.height) /\ x.color = ColorOf(x.board)

(* configure_caps rounds the size of the caps up, and keeps it as the      *)
(* cropped size.                                                           *)
LEMMA ConfigureCapsIs ==
  ASSUME NEW x, DOMAIN x = DecFields, NEW caps \in VideoCaps, x.width \in Nat, x.height \in Nat
  PROVE  LET s == ConfigureCaps(x, caps) IN
         /\ DOMAIN s = DecFields /\ Same(s, x, SizeFields)
         /\ CapsKnown(s)
         /\ s.cw = Width(x, caps) /\ s.ch = Height(x, caps)
         /\ s.width = RoundUp16(s.cw) /\ s.height = RoundUp16(s.ch)
<1> DEFINE s == ConfigureCaps(x, caps)
<1>1. /\ DOMAIN s = DecFields /\ Same(s, x, SizeFields)
  BY DEF ConfigureCaps, Same, DecFields, SizeFields
<1>2. /\ s.cw = Width(x, caps) /\ s.ch = Height(x, caps)
      /\ s.width = RoundUp16(s.cw) /\ s.height = RoundUp16(s.ch)
      /\ s.obs = Bytes(s.color, s.width, s.height) /\ s.color = ColorOf(x.board)
      /\ s.tmp = [w |-> s.cw, h |-> s.ch, color |-> s.color, rate |-> caps.rate]
      /\ s.board = x.board
  BY VideoCapsParts DEF ConfigureCaps, DecFields, Width, Height, ColorOf
<1> HIDE DEF s
<1>3. s.cw \in Nat /\ s.ch \in Nat
  BY <1>2, VideoCapsParts DEF Width, Height
<1>4. /\ s.width \in Nat /\ s.height \in Nat /\ s.cw <= s.width /\ s.ch <= s.height
  BY <1>2, <1>3, RoundingUp
<1>5. Cropped(s)
  <2>1. s.color \in {"UYVY", "I420"} /\ caps.rate \in Nat \X (Nat \ {0})
    BY <1>2, VideoCapsParts DEF ColorOf
  <2> QED
    BY <1>2, <1>3, <2>1 DEF Cropped, RawCaps
<1> QED
  BY <1>1, <1>2, <1>3, <1>4, <1>5 DEF CapsKnown, s

Keeps(x, reset) == ~reset /\ x.node # NoNode

(* What new caps make of the decoder x, if the node is kept and if not *)
Recapped(s, x, caps, reset) ==
  /\ DOMAIN s = DecFields
  /\ s.sink = caps /\ (s.kept <=> Keeps(x, reset))
  /\ s.codec_data = (IF caps.data # NoBuf THEN caps.data ELSE x.codec_data)
  /\ s.stale <=> caps.data = NoBuf /\ (x.codec_data # NoBuf \/ (Keeps(x, reset) /\ x.stale))
  /\ CapsKnown(s)
  /\ s.cw = Width(x, caps) /\ s.ch = Height(x, caps)
  /\ s.width = RoundUp16(s.cw) /\ s.height = RoundUp16(s.ch)
  /\ Same(s, x, {"sink", "kept", "codec_data", "stale", "recrop"} \cup SizeFields
                  \cup IF Keeps(x, reset) THEN {}
                       ELSE ChosenFields \cup {"node", "rooms", "done", "flight", "misread"})
  /\ Keeps(x, reset) => /\ s.recrop <=> x.recrop \/ <<s.cw, s.ch>> # <<x.src.w, x.src.h>>
  /\ ~Keeps(x, reset) =>
       /\ CodecChosen(s, caps) /\ s.node = NoNode /\ ~s.recrop
       /\ s.ih \in {0, x.ih} /\ s.parse_func \in Parsers \cup {x.parse_func}
       /\ reset => s.rooms = <<>> /\ s.done = <<>> /\ ~s.misread
       /\ ~reset => s.rooms = x.rooms /\ s.done = x.done /\ s.misread = x.misread

(* sink_setcaps, with the node or without. *)
LEMMA SetCapsIs ==
  ASSUME NEW x, DOMAIN x = DecFields, NEW caps \in VideoCaps, NEW reset \in BOOLEAN,
         x.width \in Nat, x.height \in Nat
  PROVE  Recapped(SetCaps(x, caps, reset), x, caps, reset)
<1> DEFINE keep == Keeps(x, reset)
           stopped == IF reset THEN StopNode(x) ELSE x
           y == IF keep THEN stopped ELSE ChooseCodec(stopped, caps)
           c == ConfigureCaps(y, caps)
           s == SetCaps(x, caps, reset)
           Stopped == {"node", "rooms", "done", "flight", "tmp", "kept", "recrop", "misread"}
<1>1. /\ DOMAIN stopped = DecFields
      /\ Same(stopped, x, IF reset THEN Stopped ELSE {})
      /\ stopped.node # NoNode <=> keep
      /\ reset => stopped.rooms = <<>> /\ stopped.done = <<>> /\ ~stopped.misread
      /\ ~reset => stopped = x
  BY StopNodeIs DEF Same, Keeps
<1> HIDE DEF stopped
<1>2. /\ DOMAIN y = DecFields
      /\ Same(y, stopped, IF keep THEN {} ELSE ChosenFields)
      /\ ~keep => /\ CodecChosen(y, caps)
                  /\ y.ih \in {0, stopped.ih} /\ y.parse_func \in Parsers \cup {stopped.parse_func}
  BY <1>1, ChooseCodecIs DEF Same
<1> HIDE DEF y
<1>3. y.width = x.width /\ y.height = x.height /\ stopped.ih = x.ih /\ stopped.parse_func = x.parse_func
  BY <1>1, <1>2 DEF Same, DecFields, ChosenFields
<1>4. /\ DOMAIN c = DecFields /\ Same(c, y, SizeFields)
      /\ CapsKnown(c)
      /\ c.cw = Width(y, caps) /\ c.ch = Height(y, caps)
      /\ c.width = RoundUp16(c.cw) /\ c.height = RoundUp16(c.ch)
  BY <1>2, <1>3, ConfigureCapsIs
<1>5. s = [c EXCEPT !.sink = caps,
                    !.codec_data = IF caps.data # NoBuf THEN caps.data ELSE @,
                    !.stale = caps.data = NoBuf /\ (x.codec_data # NoBuf \/ (keep /\ @)),
                    !.kept = keep,
                    !.recrop = keep /\ (@ \/ <<c.cw, c.ch>> # <<x.src.w, x.src.h>>)]
  BY <1>1 DEF SetCaps, Keeps, stopped, y
<1> HIDE DEF c, s, keep
<1>6. /\ DOMAIN s = DecFields /\ Same(s, c, {"sink", "kept", "codec_data", "stale", "recrop"})
      /\ s.sink = caps /\ (s.kept <=> keep)
      /\ s.codec_data = (IF caps.data # NoBuf THEN caps.data ELSE c.codec_data)
      /\ s.stale <=> caps.data = NoBuf /\ (x.codec_data # NoBuf \/ (keep /\ c.stale))
      /\ s.recrop <=> keep /\ (c.recrop \/ <<c.cw, c.ch>> # <<x.src.w, x.src.h>>)
  BY <1>4, <1>5 DEF Same, DecFields
<1>7. /\ c.codec_data = x.codec_data /\ c.stale = x.stale
      /\ keep => c.recrop = x.recrop
  BY <1>1, <1>2, <1>4 DEF Same, DecFields, ChosenFields, SizeFields, Keeps, keep
<1>8. /\ s.cw = c.cw /\ s.ch = c.ch /\ s.width = c.width /\ s.height = c.height
      /\ s.obs = c.obs /\ s.color = c.color /\ s.tmp = c.tmp /\ s.board = c.board
  BY <1>6 DEF Same, DecFields
<1>9. /\ CapsKnown(s)
      /\ s.cw = Width(x, caps) /\ s.ch = Height(x, caps)
      /\ s.width = RoundUp16(s.cw) /\ s.height = RoundUp16(s.ch)
  BY <1>3, <1>4, <1>8 DEF CapsKnown, Cropped, Width, Height
<1>10. Same(s, x, {"sink", "kept", "codec_data", "stale", "recrop"} \cup SizeFields
                             \cup IF keep THEN {} ELSE ChosenFields \cup {"node", "rooms",
                                           "done", "flight", "misread"})
  <2>1. CASE keep
    <3>1. stopped = x
      BY <1>1, <2>1 DEF Keeps, keep
    <3> QED
      BY <1>2, <1>4, <1>6, <2>1, <3>1 DEF Same, SizeFields
  <2>2. CASE ~keep
    BY <1>1, <1>2, <1>4, <1>6, <2>2 DEF Same, SizeFields
  <2> QED
    BY <2>1, <2>2
<1>11. ASSUME ~keep
       PROVE  /\ CodecChosen(s, caps) /\ s.node = NoNode
              /\ s.ih \in {0, x.ih} /\ s.parse_func \in Parsers \cup {x.parse_func}
              /\ reset => s.rooms = <<>> /\ s.done = <<>> /\ ~s.misread
              /\ ~reset => s.rooms = x.rooms /\ s.done = x.done /\ s.misread = x.misread
  <2>1. /\ s.alg = y.alg /\ s.codec = y.codec /\ s.parsed = y.parsed /\ s.profile = y.profile
        /\ s.lol = y.lol /\ s.st = y.st /\ s.ih = y.ih /\ s.parse_func = y.parse_func
        /\ s.vc1 = y.vc1
        /\ s.node = y.node /\ s.rooms = y.rooms /\ s.done = y.done /\ s.misread = y.misread
    BY <1>4, <1>6 DEF Same, DecFields, SizeFields
  <2>2. /\ y.node = stopped.node /\ y.rooms = stopped.rooms /\ y.done = stopped.done
        /\ y.misread = stopped.misread
    BY <1>2 DEF Same, DecFields, ChosenFields
  <2>3. CodecChosen(s, caps)
    BY <1>2, <1>11, <2>1 DEF CodecChosen
  <2> QED
    BY <1>1, <1>2, <1>3, <1>11, <2>1, <2>2, <2>3
<1>12. /\ s.codec_data = (IF caps.data # NoBuf THEN caps.data ELSE x.codec_data)
       /\ s.stale <=> caps.data = NoBuf /\ (x.codec_data # NoBuf \/ (keep /\ x.stale))
       /\ keep => (s.recrop <=> x.recrop \/ <<s.cw, s.ch>> # <<x.src.w, x.src.h>>)
       /\ ~keep => ~s.recrop
  BY <1>6, <1>7, <1>8
<1>13. Recapped(s, x, caps, reset)
  BY <1>6, <1>9, <1>10, <1>11, <1>12 DEF Recapped, keep
<1> QED
  BY <1>13 DEF s

(* GSTDSP_CODEC (check_force_codec) changes the codec and its algorithm    *)
(* only.                                                                   *)
LEMMA ForceIs ==
  ASSUME NEW x, DOMAIN x = DecFields
  PROVE  LET f == CheckForceCodec(x) IN DOMAIN f = DecFields /\ Same(f, x, {"alg", "codec"})
BY DEF CheckForceCodec, DecFields, Same

(* codec_fixup does not change more. *)
LEMMA FixupIs ==
  ASSUME NEW x, DOMAIN x = DecFields
  PROVE  LET f == CodecFixup(x) IN DOMAIN f = DecFields /\ Same(f, x, {"alg", "codec"})
BY DEF CodecFixup, DecFields, Same

H264Decoders == {"HDH264VDEC", "H264DEC"}

(* Whatever is installed or forced, the codec stays one for the stream;    *)
(* only if forced it may be the wrong one of H.263 and MPEG-4.             *)
LEMMA FixCodecIs ==
  ASSUME NEW x, DOMAIN x = DecFields, NEW name \in {"h264", "h263", "mpeg4", "divx", "wmv"},
         x.alg = AlgOf(name), x.codec = CodecOf(x.alg)
  PROVE  LET f == FixCodec(x) IN
         /\ DOMAIN f = DecFields /\ Same(f, x, {"alg", "codec"})
         /\ name = "h264" => f.alg \in H264Decoders /\ f.codec \in HdH264 \cup {"h264dec"}
         /\ name # "h264" => f.alg \notin H264Decoders
                             /\ f.codec \in {"mp4vdec", "hdmp4vdec", "wmvdec"}
         /\ name = "wmv" <=> f.codec = "wmvdec"
         /\ x.board.force = "unset" /\ name = "h263" =>
              \/ f.codec = "mp4vdec" /\ f.alg = "H263DEC"
              \/ f.codec = "hdmp4vdec" /\ f.profile = 1
         /\ x.board.force = "unset" /\ name \in {"mpeg4", "divx"} =>
              (f.codec = "mp4vdec" => f.alg # "H263DEC")
<1> DEFINE f == FixCodec(x)
           g == IF x.board.force # "unset" THEN CheckForceCodec(x) ELSE CodecFixup(x)
<1>1. DOMAIN g = DecFields /\ Same(g, x, {"alg", "codec"})
  BY ForceIs, FixupIs
<1>2. /\ DOMAIN f = DecFields /\ Same(f, g, {"codec"})
      /\ f.codec = (IF g.codec = "none" /\ g.alg = "HDH264VDEC"
                    THEN IF MainOrHigh(g) THEN "hdh264dec_hp" ELSE "hdh264dec_bp" ELSE g.codec)
  BY <1>1 DEF FixCodec, Same, DecFields
<1>3. Same(f, x, {"alg", "codec"}) /\ f.alg = g.alg /\ f.profile = x.profile
  BY <1>1, <1>2 DEF Same, DecFields
<1>4. CASE x.board.force # "unset"
  <2>1. <<g.alg, g.codec>> =
          CASE x.board.force = "HD" /\ x.alg \in {"MPEG4VDEC", "H263DEC"} -> <<"HDMPEG4VDEC", "hdmp4vdec">>
            [] x.board.force = "other" /\ x.alg = "HDMPEG4VDEC" -> <<"MPEG4VDEC", "mp4vdec">>
            [] x.board.force = "other" /\ x.alg = "HDH264VDEC" -> <<"H264DEC", "h264dec">>
            [] OTHER -> <<x.alg, x.codec>>
    BY <1>4 DEF CheckForceCodec, DecFields
  <2> HIDE DEF f, g
  <2> QED
    BY <1>2, <1>3, <1>4, <2>1 DEF AlgOf, CodecOf, HdH264, H264Decoders, f
<1>5. CASE x.board.force = "unset"
  <2>1. <<g.alg, g.codec>> =
          CASE \/ x.alg = "MPEG4VDEC" /\ "hdmp4vdec" \in x.board.libs /\ x.width * x.height > 864 * 480
               \/ x.alg = "H263DEC" /\ "hdmp4vdec" \in x.board.libs /\ x.profile = 1 -> <<"HDMPEG4VDEC", "hdmp4vdec">>
            [] x.alg = "HDMPEG4VDEC" /\ "hdmp4vdec" \notin x.board.libs -> <<"MPEG4VDEC", "mp4vdec">>
            [] x.alg = "HDH264VDEC" /\ "hdh264dec_hp" \notin x.board.libs -> <<"H264DEC", "h264dec">>
            [] OTHER -> <<x.alg, x.codec>>
    BY <1>5 DEF CodecFixup, DecFields
  <2> DEFINE large == x.width * x.height > 864 * 480
  <2> HIDE DEF f, g, large
  <2>2. <<g.alg, g.codec>> =
          CASE \/ x.alg = "MPEG4VDEC" /\ "hdmp4vdec" \in x.board.libs /\ large
               \/ x.alg = "H263DEC" /\ "hdmp4vdec" \in x.board.libs /\ x.profile = 1 -> <<"HDMPEG4VDEC", "hdmp4vdec">>
            [] x.alg = "HDMPEG4VDEC" /\ "hdmp4vdec" \notin x.board.libs -> <<"MPEG4VDEC", "mp4vdec">>
            [] x.alg = "HDH264VDEC" /\ "hdh264dec_hp" \notin x.board.libs -> <<"H264DEC", "h264dec">>
            [] OTHER -> <<x.alg, x.codec>>
    BY <2>1 DEF large
  <2>3. /\ name = "h264" => \/ g.alg = "HDH264VDEC" /\ g.codec = "none"
                            \/ g.alg = "H264DEC" /\ g.codec = "h264dec"
        /\ name = "h263" => \/ g.alg = "H263DEC" /\ g.codec = "mp4vdec"
                            \/ g.alg = "HDMPEG4VDEC" /\ g.codec = "hdmp4vdec" /\ x.profile = 1
        /\ name \in {"mpeg4", "divx"} => \/ g.alg = "MPEG4VDEC" /\ g.codec = "mp4vdec"
                                         \/ g.alg = "HDMPEG4VDEC" /\ g.codec = "hdmp4vdec"
        /\ name = "wmv" => g.alg = "WMVDEC" /\ g.codec = "wmvdec"
    <3>1. CASE name = "h264"
      <4>1. x.alg = "HDH264VDEC" /\ x.codec = "none"
        BY <3>1 DEF AlgOf, CodecOf
      <4>2. CASE "hdh264dec_hp" \in x.board.libs
        <5>1. <<g.alg, g.codec>> = <<x.alg, x.codec>>
          BY <2>2, <4>1, <4>2
        <5> QED
          BY <3>1, <4>1, <5>1
      <4>3. CASE "hdh264dec_hp" \notin x.board.libs
        <5>1. <<g.alg, g.codec>> = <<"H264DEC", "h264dec">>
          BY <2>2, <4>1, <4>3
        <5> QED
          BY <3>1, <5>1
      <4> QED
        BY <4>2, <4>3
    <3>2. CASE name = "h263"
      <4>1. x.alg = "H263DEC" /\ x.codec = "mp4vdec"
        BY <3>2 DEF AlgOf, CodecOf
      <4> QED
        BY <2>2, <3>2, <4>1
    <3>3. CASE name = "mpeg4"
      <4>1. x.alg = "HDMPEG4VDEC" /\ x.codec = "hdmp4vdec"
        BY <3>3 DEF AlgOf, CodecOf
      <4> QED
        BY <2>2, <3>3, <4>1
    <3>4. CASE name = "divx"
      <4>1. x.alg = "MPEG4VDEC" /\ x.codec = "mp4vdec"
        BY <3>4 DEF AlgOf, CodecOf
      <4> QED
        BY <2>2, <3>4, <4>1
    <3>5. CASE name = "wmv"
      <4>1. x.alg = "WMVDEC" /\ x.codec = "wmvdec"
        BY <3>5 DEF AlgOf, CodecOf
      <4> QED
        BY <2>2, <3>5, <4>1
    <3> QED
      BY <3>1, <3>2, <3>3, <3>4, <3>5
  <2>4. CASE name = "h264"
    BY <1>2, <1>3, <2>3, <2>4 DEF HdH264, H264Decoders, f
  <2>5. CASE name = "h263"
    <3>1. f.codec = g.codec
      BY <1>2, <2>3, <2>5
    <3>2. \/ f.codec = "mp4vdec" /\ f.alg = "H263DEC"
          \/ f.codec = "hdmp4vdec" /\ f.profile = 1 /\ f.alg = "HDMPEG4VDEC"
      BY <1>3, <2>3, <2>5, <3>1
    <3> QED
      BY <1>2, <1>3, <2>5, <3>2 DEF H264Decoders, f
  <2>6. CASE name \in {"mpeg4", "divx"}
    <3>1. f.codec = g.codec
      BY <1>2, <2>3, <2>6
    <3> QED
      BY <1>2, <1>3, <2>3, <2>6, <3>1 DEF H264Decoders, f
  <2>7. CASE name = "wmv"
    <3>1. f.codec = g.codec
      BY <1>2, <2>3, <2>7
    <3> QED
      BY <1>2, <1>3, <2>3, <2>7, <3>1 DEF H264Decoders, f
  <2> QED
    BY <2>4, <2>5, <2>6, <2>7
<1> QED
  BY <1>4, <1>5

(* setup_params: all codecs but td_mp4vdec.c install a send_cb; those of   *)
(* H.264 install pre_process_buffer.                                       *)
LEMMA SetupIs ==
  ASSUME NEW x, DOMAIN x = DecFields
  PROVE  LET s == SetupParams(x) IN
         /\ DOMAIN s = DecFields /\ Same(s, x, {"send_cb", "pre"})
         /\ s.send_cb = IF x.codec = "mp4vdec" THEN x.send_cb ELSE x.codec
         /\ x.codec \in HdH264 \cup {"h264dec"} => s.pre
BY DEF SetupParams, Mp4Setup, H264Setup, HdH264Setup, OtherSetup, DecFields, Same, HdH264

(* create_args: the stream the node is told, and its size. *)
LEMMA ArgsIs ==
  ASSUME NEW x
  PROVE  LET n == CreateArgs(x) IN
         /\ n # NoNode /\ n.codec = x.codec /\ n.w = x.width /\ n.color = x.color
         /\ n.h = x.height \/ (x.codec \notin {"mp4vdec", "hdmp4vdec", "wmvdec"} /\ x.ih # 0 /\ n.h = x.ih)
         /\ n.stream = CASE x.codec = "mp4vdec" -> IF x.alg = "H263DEC" THEN "h263" ELSE "mpeg4"
                         [] x.codec = "hdmp4vdec" -> IF x.profile = 1 THEN "h263" ELSE "mpeg4"
                         [] x.codec = "wmvdec" -> IF x.vc1 THEN "vc1" ELSE "wmv3"
                         [] OTHER -> "h264"
<1> DEFINE n == CreateArgs(x)
<1>1. \A stream : LET a == Args(x, stream) IN
        /\ DOMAIN a = {"codec", "w", "h", "color", "stream", "profile_id", "refs", "reordering"}
        /\ a.codec = x.codec /\ a.w = x.width /\ a.h = x.height /\ a.color = x.color /\ a.stream = stream
  BY DEF Args
<1>2. DOMAIN NoNode = {"codec"}
  BY DEF NoNode
<1>3. CASE x.codec = "mp4vdec"
  BY <1>1, <1>2, <1>3 DEF CreateArgs, Mp4Args
<1>4. CASE x.codec = "hdmp4vdec"
  BY <1>1, <1>2, <1>4 DEF CreateArgs, HdMp4Args
<1>5. CASE x.codec = "wmvdec"
  BY <1>1, <1>2, <1>5 DEF CreateArgs, WmvArgs
<1>6. CASE x.codec = "h264dec"
  BY <1>1, <1>2, <1>6 DEF CreateArgs, H264Args
<1>7. CASE x.codec \notin {"mp4vdec", "hdmp4vdec", "wmvdec", "h264dec"}
  <2>1. n = HdH264Args(x)
    BY <1>7 DEF CreateArgs
  <2>2. /\ DOMAIN HdH264Args(x) = {"codec", "w", "h", "color", "stream", "profile_id", "refs", "reordering"}
        /\ HdH264Args(x).codec = x.codec /\ HdH264Args(x).w = x.width /\ HdH264Args(x).color = x.color
        /\ HdH264Args(x).stream = "h264" /\ HdH264Args(x).h = IF Initial(x) THEN x.ih ELSE x.height
    BY <1>1 DEF HdH264Args
  <2>3. Initial(x) => x.ih # 0
    BY DEF Initial
  <2> QED
    BY <1>2, <1>7, <2>1, <2>2, <2>3
<1> QED
  BY <1>3, <1>4, <1>5, <1>6, <1>7

SendFields == {"send_cb", "sent", "primed", "codec_data"}

(* A send_cb touches nothing but what it has to pass on. *)
LEMMA InSendCbIs ==
  ASSUME NEW x, DOMAIN x = DecFields, NEW buf
  PROVE  LET s == InSendCb(x, buf) IN
         /\ DOMAIN s.d = DecFields /\ Same(s.d, x, SendFields)
         /\ s.d.codec_data \in {x.codec_data, NoBuf}
BY DEF InSendCb, H264Send, WmvSend, PrefixVc1, Passes, DecFields, Same, SendFields

(* send_buffer does not either, and notes what was misread. *)
LEMMA SendBufferIs ==
  ASSUME NEW x, DOMAIN x = DecFields, NEW buf
  PROVE  LET s == SendBuffer(x, buf) IN
         /\ DOMAIN s = DecFields /\ Same(s, x, SendFields \cup {"misread"})
         /\ s.codec_data \in {x.codec_data, NoBuf}
<1> DEFINE i == InSendCb(x, buf)
<1>1. /\ DOMAIN i.d = DecFields /\ Same(i.d, x, SendFields) /\ i.d.codec_data \in {x.codec_data, NoBuf}
  BY InSendCbIs
<1> HIDE DEF i
<1> DEFINE s == [i.d EXCEPT !.misread = @ \/ ~Understands(i.d, i.form)]
<1>2. DOMAIN s = DecFields /\ Same(s, i.d, {"misread"}) /\ s.codec_data = i.d.codec_data
  BY <1>1 DEF DecFields, Same
<1>3. SendBuffer(x, buf) = s
  BY DEF SendBuffer, i
<1> HIDE DEF s
<1> QED
  BY <1>1, <1>2, <1>3 DEF Same

ExtraFields == SendFields \cup {"misread", "lol", "st", "dead"}

(* gstdsp_send_codec_data is such a call. *)
LEMMA SendCodecDataIs ==
  ASSUME NEW x, DOMAIN x = DecFields, NEW form
  PROVE  LET s == SendCodecData(x, form) IN
         /\ DOMAIN s = DecFields /\ Same(s, x, SendFields \cup {"misread"})
         /\ s.codec_data \in {x.codec_data, NoBuf}
<1> DEFINE i == InSendCb(x, [form |-> form])
<1>1. /\ DOMAIN i.d = DecFields /\ Same(i.d, x, SendFields) /\ i.d.codec_data \in {x.codec_data, NoBuf}
  BY InSendCbIs
<1> HIDE DEF i
<1> DEFINE s == [i.d EXCEPT !.misread = @ \/ i.form = "mangled"]
<1>2. DOMAIN s = DecFields /\ Same(s, i.d, {"misread"}) /\ s.codec_data = i.d.codec_data
  BY <1>1 DEF DecFields, Same
<1>3. SendCodecData(x, form) = s
  BY DEF SendCodecData, i
<1> HIDE DEF s
<1> QED
  BY <1>1, <1>2, <1>3 DEF Same

(* handle_extra_data has nothing to do without codec_data. *)
LEMMA HandleExtraDataIs ==
  ASSUME NEW x, DOMAIN x = DecFields
  PROVE  LET s == HandleExtraData(x) IN
         /\ DOMAIN s = DecFields /\ Same(s, x, ExtraFields)
         /\ x.codec_data = NoBuf => s = x
         /\ s.codec_data \in {x.codec_data, NoBuf}
<1> DEFINE buf == x.codec_data
           used == [x EXCEPT !.codec_data = NoBuf]
           s == HandleExtraData(x)
<1>1. DOMAIN used = DecFields /\ Same(used, x, {"codec_data"}) /\ used.codec_data = NoBuf
  BY DEF DecFields, Same
<1> HIDE DEF used
<1>2. /\ DOMAIN TransformExtraData(used, buf).d = DecFields
      /\ Same(TransformExtraData(used, buf).d, used, {"lol", "dead"})
  BY <1>1 DEF TransformExtraData, Passes, Same, DecFields
<1>3. CASE buf = NoBuf
  BY <1>3 DEF HandleExtraData, Same
<1>4. CASE buf # NoBuf /\ x.codec = "h264dec"
  <2>1. s = H264Extra(used, buf)
    BY <1>4 DEF HandleExtraData, HdH264, used
  <2> DEFINE t == TransformExtraData(used, buf)
  <2>2. s = t.d \/ s = SendCodecData(t.d, t.form)
    BY <2>1 DEF H264Extra
  <2>3. t.d.codec_data = NoBuf
    BY <1>1, <1>2 DEF Same, DecFields
  <2> HIDE DEF t, s
  <2>4. /\ DOMAIN s = DecFields /\ Same(s, t.d, SendFields \cup {"misread"})
        /\ s.codec_data = NoBuf
    BY <1>2, <2>2, <2>3, SendCodecDataIs DEF t, Same
  <2> QED
    BY <1>1, <1>2, <1>4, <2>4 DEF Same, ExtraFields, SendFields, s, t
<1>5. CASE buf # NoBuf /\ x.codec \in HdH264
  <2>1. s = HdH264Extra(used, buf)
    BY <1>5 DEF HandleExtraData, HdH264, used
  <2> DEFINE t == TransformExtraData(used, buf)
             u == [t.d EXCEPT !.st = IF used.is_avc THEN 1 ELSE 0]
  <2>2. s = t.d \/ s = SendCodecData(u, t.form)
    BY <2>1 DEF HdH264Extra
  <2>3. t.d.codec_data = NoBuf
    BY <1>1, <1>2 DEF Same, DecFields
  <2>4. DOMAIN u = DecFields /\ Same(u, t.d, {"st"}) /\ u.codec_data = NoBuf
    BY <1>2, <2>3 DEF Same, DecFields
  <2> HIDE DEF t, u, s
  <2>5. /\ DOMAIN s = DecFields /\ Same(s, t.d, SendFields \cup {"misread", "st"})
        /\ s.codec_data = NoBuf
    BY <1>2, <2>2, <2>3, <2>4, SendCodecDataIs DEF t, Same
  <2> QED
    BY <1>1, <1>2, <1>5, <2>5 DEF Same, ExtraFields, SendFields, s, t
<1>6. CASE buf # NoBuf /\ x.codec = "wmvdec"
  <2>1. s = WmvExtra(used, buf)
    BY <1>6 DEF HandleExtraData, HdH264, used
  <2> HIDE DEF s
  <2>2. CASE used.vc1
    <3>1. s = [used EXCEPT !.codec_data = buf]
      BY <2>1, <2>2 DEF WmvExtra
    <3> QED
      BY <1>1, <1>6, <3>1 DEF Same, DecFields, ExtraFields, SendFields, s
  <2>3. CASE ~used.vc1
    <3>1. s = SendCodecData(used, buf.form)
      BY <2>1, <2>3 DEF WmvExtra
    <3> QED
      BY <1>1, <1>6, <3>1, SendCodecDataIs DEF Same, ExtraFields, SendFields, s
  <2> QED
    BY <2>2, <2>3
<1>7. CASE buf # NoBuf /\ x.codec \notin HdH264 \cup {"h264dec", "wmvdec"}
  <2>1. s = SendCodecData(used, buf.form)
    BY <1>7 DEF HandleExtraData, HdH264, used
  <2> HIDE DEF s
  <2> QED
    BY <1>1, <1>7, <2>1, SendCodecDataIs DEF Same, ExtraFields, SendFields, s
<1> QED
  BY <1>3, <1>4, <1>5, <1>6, <1>7

Rounded(x) == RoundUp16(x.width) = x.width /\ RoundUp16(x.height) = x.height

(* A parser leaves sizes that belong together. *)
LEMMA SizedConfigured ==
  ASSUME NEW x, CapsKnown(x), NEW v, Sized(v, x)
  PROVE  CapsKnown(v)
<1>1. v.color = x.color /\ v.board = x.board
  BY DEF Sized, Same, DecFields, ParseFields
<1> QED
  BY <1>1 DEF CapsKnown, Sized

(* What the parser has found before a node is created: codec_data first,   *)
(* then the buffer.                                                        *)
LEMMA ParseHeadersIs ==
  ASSUME NEW x, DOMAIN x = DecFields, CapsKnown(x), x.parse_func \in Parsers, ~x.parsed,
         x.codec_data \in Buffers \cup {NoBuf}, NEW buf \in Buffers
  PROVE  LET p == ParseHeaders(x, buf)
             data == x.codec_data
         IN  /\ DOMAIN p = DecFields /\ Same(p, x, ParseFields) /\ CapsKnown(p)
             /\ p.ih \in {x.ih, p.height}
             /\ x.parse_func = "h264" =>
                  /\ p.lol = x.lol
                  /\ Rounded(x) => Rounded(p)
                  /\ data # NoBuf /\ data.form \in {"avcC", "nal"} /\ data.head # NoHead /\ SpsSize(data.head).ok =>
                       p.parsed /\ (p.is_avc <=> data.form = "avcC")
                  /\ data = NoBuf /\ buf.form = "nal" =>
                       /\ ~(p.parsed /\ p.is_avc)
                       /\ buf.head # NoHead /\ SpsSize(buf.head).ok =>
                            /\ p.width = SpsSize(buf.head).w /\ p.height = SpsSize(buf.head).h
                            /\ p.ih = p.height
             /\ x.parse_func = "mpeg4" => p.profile = x.profile
<1> DEFINE data == x.codec_data
           fromData == ParseAs(x.parse_func, x, data)
           fromBuf == ParseAs(x.parse_func, x, buf)
           p == ParseHeaders(x, buf)
<1>1. p = IF x.parse_func # "none" /\ data # NoBuf /\ fromData.ok THEN fromData.v
          ELSE IF x.parse_func # "none" /\ fromBuf.ok THEN fromBuf.v
          ELSE x
  BY DEF ParseHeaders, Parse
<1>2. /\ fromData.ok => /\ Sized(fromData.v, x) /\ fromData.v.parsed
                        /\ fromData.v.ih = fromData.v.height \/ fromData.v.ih = x.ih
                        /\ x.parse_func = "h264" =>
                             /\ Found(x, data) /\ fromData.v.lol = x.lol
                             /\ (fromData.v.is_avc <=> data.form # "nal") /\ Rounded(fromData.v)
                        /\ x.parse_func = "mpeg4" => fromData.v.profile = x.profile
      /\ x.parse_func = "h264" /\ data.form \in {"avcC", "nal"} /\ Found(x, data) => fromData.ok
  BY ParseIs DEF Rounded
<1>3. /\ fromBuf.ok => /\ Sized(fromBuf.v, x) /\ fromBuf.v.parsed
                       /\ fromBuf.v.ih = fromBuf.v.height \/ fromBuf.v.ih = x.ih
                       /\ x.parse_func = "h264" =>
                            /\ Found(x, buf) /\ fromBuf.v.lol = x.lol
                            /\ (fromBuf.v.is_avc <=> buf.form # "nal") /\ Rounded(fromBuf.v)
                            /\ fromBuf.v.ih = fromBuf.v.height
                            /\ fromBuf.v.width = SpsSize(buf.head).w
                            /\ fromBuf.v.height = SpsSize(buf.head).h
                       /\ x.parse_func = "mpeg4" => fromBuf.v.profile = x.profile
      /\ x.parse_func = "h264" /\ buf.form \in {"avcC", "nal"} /\ Found(x, buf) => fromBuf.ok
  BY ParseIs DEF Rounded
<1>4. \A b : b.form \in {"avcC", "nal"} /\ b.head # NoHead /\ SpsSize(b.head).ok => Found(x, b)
  BY DEF Found
<1> HIDE DEF fromData, fromBuf, p
<1>5. CASE x.parse_func # "none" /\ data # NoBuf /\ fromData.ok
  <2>1. p = fromData.v
    BY <1>1, <1>5
  <2>2. CapsKnown(p)
    BY <1>2, <1>5, <2>1, SizedConfigured
  <2>3. data.form = "avcC" \/ data.form # "avcC"
    OBVIOUS
  <2> QED
    BY <1>2, <1>5, <2>1, <2>2 DEF Sized, p
<1>6. CASE ~(x.parse_func # "none" /\ data # NoBuf /\ fromData.ok) /\ x.parse_func # "none" /\ fromBuf.ok
  <2>1. p = fromBuf.v
    BY <1>1, <1>6
  <2>2. CapsKnown(p)
    BY <1>3, <1>6, <2>1, SizedConfigured
  <2> QED
    BY <1>2, <1>3, <1>4, <1>6, <2>1, <2>2 DEF Sized, p
<1>7. CASE ~(x.parse_func # "none" /\ data # NoBuf /\ fromData.ok) /\ ~(x.parse_func # "none" /\ fromBuf.ok)
  <2>1. p = x
    BY <1>1, <1>7
  <2> QED
    BY <1>2, <1>3, <1>4, <1>7, <2>1 DEF Same, p
<1> QED
  BY <1>5, <1>6, <1>7

(* init_node, step by step: f is the decoder with its codec, n with its    *)
(* node.                                                                   *)
WithCodec(x, buf) == LET p == ParseHeaders(x, buf) IN FixCodec([p EXCEPT !.src = p.tmp])
WithNode(f) ==
  LET s == SetupParams(f)
  IN [s EXCEPT !.node = CreateArgs(s), !.primed = FALSE, !.unprimed = s.sent,
               !.rooms = [i \in 1 .. OutBuffers |-> s.obs]]

(* The node of InitNode has the size, the codec and the stream of the      *)
(* decoder.                                                                *)
LEMMA WithNodeIs ==
  ASSUME NEW f, DOMAIN f = DecFields
  PROVE  LET n == WithNode(f) IN
         /\ DOMAIN n = DecFields
         /\ Same(n, f, {"send_cb", "pre", "node", "primed", "unprimed", "rooms"})
         /\ n.send_cb = (IF f.codec = "mp4vdec" THEN f.send_cb ELSE f.codec)
         /\ f.codec \in HdH264 \cup {"h264dec"} => n.pre
         /\ ~n.primed /\ n.unprimed = f.sent
         /\ n.rooms = [i \in 1 .. OutBuffers |-> f.obs]
         /\ n.node # NoNode /\ n.node.codec = f.codec /\ n.node.w = f.width /\ n.node.color = f.color
         /\ \/ n.node.h = f.height
            \/ f.codec \notin {"mp4vdec", "hdmp4vdec", "wmvdec"} /\ f.ih # 0 /\ n.node.h = f.ih
         /\ n.node.stream = CASE f.codec = "mp4vdec" -> IF f.alg = "H263DEC" THEN "h263" ELSE "mpeg4"
                              [] f.codec = "hdmp4vdec" -> IF f.profile = 1 THEN "h263" ELSE "mpeg4"
                              [] f.codec = "wmvdec" -> IF f.vc1 THEN "vc1" ELSE "wmv3"
                              [] OTHER -> "h264"
<1> DEFINE s == SetupParams(f)
           args == CreateArgs(s)
           n == WithNode(f)
<1>1. /\ DOMAIN s = DecFields /\ Same(s, f, {"send_cb", "pre"})
      /\ s.send_cb = IF f.codec = "mp4vdec" THEN f.send_cb ELSE f.codec
      /\ f.codec \in HdH264 \cup {"h264dec"} => s.pre
  BY SetupIs
<1>2. /\ s.codec = f.codec /\ s.width = f.width /\ s.height = f.height /\ s.color = f.color
      /\ s.ih = f.ih /\ s.alg = f.alg /\ s.profile = f.profile /\ s.vc1 = f.vc1
      /\ s.sent = f.sent /\ s.obs = f.obs
  BY <1>1 DEF Same, DecFields
<1>3. /\ args # NoNode /\ args.codec = s.codec /\ args.w = s.width /\ args.color = s.color
      /\ args.h = s.height \/ (s.codec \notin {"mp4vdec", "hdmp4vdec", "wmvdec"} /\ s.ih # 0 /\ args.h = s.ih)
      /\ args.stream = CASE s.codec = "mp4vdec" -> IF s.alg = "H263DEC" THEN "h263" ELSE "mpeg4"
                         [] s.codec = "hdmp4vdec" -> IF s.profile = 1 THEN "h263" ELSE "mpeg4"
                         [] s.codec = "wmvdec" -> IF s.vc1 THEN "vc1" ELSE "wmv3"
                         [] OTHER -> "h264"
  BY ArgsIs
<1>4. n = [s EXCEPT !.node = args, !.primed = FALSE, !.unprimed = s.sent,
                    !.rooms = [i \in 1 .. OutBuffers |-> s.obs]]
  BY DEF WithNode
<1> HIDE DEF s, args, n
<1>5. /\ DOMAIN n = DecFields /\ Same(n, s, {"node", "primed", "unprimed", "rooms"})
      /\ n.node = args /\ ~n.primed /\ n.unprimed = s.sent
      /\ n.rooms = [i \in 1 .. OutBuffers |-> s.obs]
  BY <1>1, <1>4 DEF Same, DecFields
<1>6. n.send_cb = s.send_cb /\ n.pre = s.pre
  BY <1>5 DEF Same, DecFields
<1>7. Same(n, f, {"send_cb", "pre", "node", "primed", "unprimed", "rooms"})
  BY <1>1, <1>5 DEF Same
<1> QED
  BY <1>1, <1>2, <1>3, <1>5, <1>6, <1>7 DEF n

(* The codec of InitNode, after the headers were parsed. *)
LEMMA WithCodecIs ==
  ASSUME NEW x, DOMAIN x = DecFields, NEW caps \in VideoCaps, CodecChosen(x, caps),
         CapsKnown(x), x.parse_func \in Parsers,
         x.codec_data \in Buffers \cup {NoBuf}, NEW buf \in Buffers
  PROVE  LET p == ParseHeaders(x, buf)
             f == WithCodec(x, buf)
         IN  /\ DOMAIN f = DecFields
             /\ Same(f, p, {"src", "alg", "codec"})
             /\ Same(f, x, ParseFields \cup {"src", "alg", "codec"})
             /\ CapsKnown(f) /\ f.src = f.tmp
             /\ f.ih \in {x.ih, f.height}
             /\ caps.name = "h264" => f.alg \in H264Decoders /\ f.codec \in HdH264 \cup {"h264dec"}
             /\ caps.name # "h264" => f.alg \notin H264Decoders
                                      /\ f.codec \in {"mp4vdec", "hdmp4vdec", "wmvdec"}
             /\ caps.name = "wmv" <=> f.codec = "wmvdec"
             /\ x.board.force = "unset" /\ caps.name = "h263" =>
                  \/ f.codec = "mp4vdec" /\ f.alg = "H263DEC"
                  \/ f.codec = "hdmp4vdec" /\ f.profile = 1
             /\ x.board.force = "unset" /\ caps.name \in {"mpeg4", "divx"} =>
                  (f.codec = "mp4vdec" => f.alg # "H263DEC") /\ f.profile = 0
<1> DEFINE p == ParseHeaders(x, buf)
           q == [p EXCEPT !.src = p.tmp]
           f == WithCodec(x, buf)
<1>1. /\ DOMAIN p = DecFields /\ Same(p, x, ParseFields) /\ CapsKnown(p)
      /\ p.ih \in {x.ih, p.height}
      /\ x.parse_func = "mpeg4" => p.profile = x.profile
  BY ParseHeadersIs DEF CodecChosen
<1>2. f = FixCodec(q)
  BY DEF WithCodec
<1> HIDE DEF p, f
<1>3. DOMAIN q = DecFields /\ Same(q, p, {"src"}) /\ q.src = p.tmp
  BY <1>1 DEF Same, DecFields
<1> HIDE DEF q
<1>4. /\ q.alg = AlgOf(caps.name) /\ q.codec = CodecOf(q.alg) /\ q.profile = p.profile
      /\ q.board = x.board
  BY <1>1, <1>3 DEF Same, DecFields, ParseFields, CodecChosen
<1>5. caps.name \in {"h264", "h263", "mpeg4", "divx", "wmv"}
  BY VideoCapsParts
<1>6. /\ DOMAIN f = DecFields /\ Same(f, q, {"alg", "codec"})
      /\ caps.name = "h264" => f.alg \in H264Decoders /\ f.codec \in HdH264 \cup {"h264dec"}
      /\ caps.name # "h264" => f.alg \notin H264Decoders
                               /\ f.codec \in {"mp4vdec", "hdmp4vdec", "wmvdec"}
      /\ caps.name = "wmv" <=> f.codec = "wmvdec"
      /\ q.board.force = "unset" /\ caps.name = "h263" =>
           \/ f.codec = "mp4vdec" /\ f.alg = "H263DEC"
           \/ f.codec = "hdmp4vdec" /\ f.profile = 1
      /\ q.board.force = "unset" /\ caps.name \in {"mpeg4", "divx"} =>
           (f.codec = "mp4vdec" => f.alg # "H263DEC")
  BY <1>2, <1>3, <1>4, <1>5, FixCodecIs
<1>7. Same(f, p, {"src", "alg", "codec"}) /\ f.src = p.tmp /\ f.profile = p.profile
  BY <1>3, <1>6 DEF Same, DecFields
<1>8. /\ f.tmp = p.tmp /\ f.cw = p.cw /\ f.ch = p.ch /\ f.width = p.width /\ f.height = p.height
      /\ f.obs = p.obs /\ f.color = p.color /\ f.board = p.board /\ f.ih = p.ih
  BY <1>7 DEF Same, DecFields
<1>9. CapsKnown(f)
  BY <1>1, <1>8 DEF CapsKnown, Cropped
<1>10. Same(f, x, ParseFields \cup {"src", "alg", "codec"})
  BY <1>1, <1>7 DEF Same
<1>11. caps.name \in {"mpeg4", "divx"} => f.profile = 0
  BY <1>1, <1>7 DEF CodecChosen
<1> QED
  BY <1>1, <1>4, <1>6, <1>7, <1>8, <1>9, <1>10, <1>11 DEF f, p

(* init_node fails without a size or without the node's library. *)
LEMMA InitNodeIs ==
  ASSUME NEW x, DOMAIN x = DecFields, NEW buf
  PROVE  LET p == ParseHeaders(x, buf)
             f == WithCodec(x, buf)
         IN  InitNode(x, buf) =
               IF p.obs = 0 THEN [p EXCEPT !.src = p.tmp, !.dead = TRUE]
               ELSE IF ~Installed(f, f.codec) THEN [f EXCEPT !.dead = TRUE]
               ELSE HandleExtraData(WithNode(f))
BY DEF InitNode, WithCodec, WithNode

-----------------------------------------------------------------------------
(* The invariant of the decoder *)

DecTypes(x) ==
  /\ DOMAIN x = DecFields
  /\ x.width \in Nat /\ x.height \in Nat
  /\ x.sink \in VideoCaps \cup {NoCaps}
  /\ x.codec_data \in Buffers \cup {NoBuf}
  /\ x.parse_func \in Parsers

(* Without a node there are no buffers. *)
Idle(x) == x.node = NoNode => x.rooms = <<>> /\ x.done = <<>> /\ ~x.misread

(* A decoder that may create a node knows what the caps say. *)
Chosen(x) ==
  x.sink # NoCaps /\ x.node = NoNode /\ ~x.dead =>
    CapsKnown(x) /\ Rounded(x) /\ CodecChosen(x, x.sink)

(* While the node lives, sizes only grow: the picture in the caps of the   *)
(* source pad is within that of the node, and that within the decoder's.   *)
NodeSizes(x) ==
  x.node # NoNode =>
    /\ x.sink # NoCaps /\ x.src \in RawCaps
    /\ x.cw \in Nat /\ x.ch \in Nat /\ x.node.w \in Nat /\ x.node.h \in Nat
    /\ x.src.w <= x.node.w /\ x.node.w <= x.width /\ x.src.w <= x.cw
    /\ x.src.h <= x.node.h /\ x.node.h <= x.height /\ x.src.h <= x.ch
    /\ x.color = ColorOf(x.board) /\ x.src.color = x.color /\ x.node.color = x.color
    /\ ~x.recrop => x.cw = x.src.w /\ x.ch = x.src.h
    /\ x.obs = Bytes(x.color, x.width, x.height)

Needed(x) == Bytes(x.node.color, x.node.w, x.node.h)
Picture(x) == Bytes(x.src.color, x.src.w, x.src.h)

Frames(x) ==
  x.node # NoNode =>
    /\ x.rooms \in Seq(Nat) /\ \A i \in DOMAIN x.rooms : Needed(x) <= x.rooms[i]
    /\ x.done \in Seq([len : Nat, room : Nat])
    /\ \A i \in DOMAIN x.done :
         /\ Needed(x) <= x.done[i].room /\ Picture(x) <= x.done[i].len
         /\ IF HasLenFixup(x.node.codec) THEN x.recrop \/ x.done[i].len = Picture(x)
            ELSE x.done[i].len = Needed(x)

(* codec_data is that of the caps, unless it is stale. *)
Data(x) ==
  x.sink # NoCaps /\ ~x.stale =>
    /\ x.sink.data = NoBuf => x.codec_data = NoBuf
    /\ x.node = NoNode /\ ~x.dead => x.codec_data = x.sink.data

(* A decoder of H.264 watches the stream, and its node has its size. *)
Watches(x) ==
  x.node # NoNode /\ x.alg \in H264Decoders =>
    /\ x.pre /\ x.node.w = x.width /\ x.node.h = x.height /\ x.width # 0 /\ x.height # 0
    /\ Rounded(x)
    /\ ~x.kept /\ ~x.stale /\ x.sink.data = NoBuf => ~(x.parsed /\ x.is_avc)

(* Who else but the node's codec may have send_cb without harm: a node     *)
(* that survives, codec_data_sent or codec_data of a stream before, a      *)
(* codec that is forced, or the send_cb of the codec before.               *)
Foreign(x) == x.send_cb \notin {"none", x.codec} /\ ~(x.send_cb = "h264dec" /\ x.lol = 0)
Excused(x) == x.kept \/ x.unprimed \/ x.stale \/ x.board.force # "unset" \/ Foreign(x)

Misread(x) == x.misread => Excused(x)

ReadsAs(x) ==
  /\ x.node.codec = x.codec
  /\ x.sink.name = "h264" =>
       /\ x.node.stream = "h264" /\ x.codec \in HdH264 \cup {"h264dec"}
       /\ x.lol # 0 <=> x.sink.data # NoBuf /\ x.sink.data.form = "avcC"
       /\ x.st = 1 <=> x.codec \in HdH264 /\ x.lol # 0
       /\ x.codec = "h264dec" /\ x.lol # 0 => x.send_cb = "h264dec"
  /\ x.sink.name = "h263" => x.node.stream = "h263"
  /\ x.sink.name \in {"mpeg4", "divx"} => x.node.stream = "mpeg4"
  /\ x.sink.name \in {"h263", "mpeg4", "divx"} => x.codec \in {"mp4vdec", "hdmp4vdec"}
  /\ x.sink.name = "wmv" =>
       /\ x.codec = "wmvdec" /\ x.send_cb = "wmvdec" /\ (x.vc1 <=> x.sink.vc1)
       /\ x.node.stream = IF x.vc1 THEN "vc1" ELSE "wmv3"
       /\ x.vc1 => IF x.sent THEN x.primed ELSE x.codec_data = x.sink.data

Reads(x) == x.node # NoNode /\ ~x.dead /\ ~Excused(x) => ReadsAs(x)

Base(x) ==
  /\ DecTypes(x) /\ Idle(x) /\ Chosen(x) /\ NodeSizes(x) /\ Frames(x)
  /\ Data(x) /\ Watches(x) /\ Misread(x) /\ Reads(x)

-----------------------------------------------------------------------------
(* What only moves frames, or ends the element *)

FrameFields == {"rooms", "done", "flight", "dead"}

(* What moves frames keeps the invariant but for what it says of them. *)
LEMMA FramesMove ==
  ASSUME NEW x, Base(x), NEW y, DOMAIN y = DecFields, Same(y, x, FrameFields \cup {"seen"}),
         x.dead => y.dead, Idle(y), Frames(y)
  PROVE  Base(y)
<1>1. /\ y.width = x.width /\ y.height = x.height /\ y.sink = x.sink
      /\ y.codec_data = x.codec_data /\ y.parse_func = x.parse_func
      /\ y.node = x.node /\ y.misread = x.misread /\ y.cw = x.cw /\ y.ch = x.ch
      /\ y.src = x.src /\ y.color = x.color /\ y.board = x.board /\ y.recrop = x.recrop
      /\ y.obs = x.obs /\ y.stale = x.stale /\ y.alg = x.alg /\ y.pre = x.pre
      /\ y.kept = x.kept /\ y.parsed = x.parsed /\ y.is_avc = x.is_avc
      /\ y.send_cb = x.send_cb /\ y.codec = x.codec /\ y.lol = x.lol
      /\ y.unprimed = x.unprimed /\ y.st = x.st /\ y.vc1 = x.vc1 /\ y.sent = x.sent
      /\ y.primed = x.primed /\ y.profile = x.profile /\ y.ih = x.ih /\ y.tmp = x.tmp
  BY DEF Same, DecFields, FrameFields
<1>2. DecTypes(y)
  BY <1>1 DEF Base, DecTypes
<1>3. Chosen(y)
  BY <1>1 DEF Base, Chosen, CapsKnown, Cropped, Rounded, CodecChosen
<1>4. NodeSizes(y)
  BY <1>1 DEF Base, NodeSizes
<1>5. Data(y)
  BY <1>1 DEF Base, Data
<1>6. Watches(y)
  BY <1>1 DEF Base, Watches, Rounded
<1>7. (Excused(y) <=> Excused(x)) /\ (ReadsAs(y) <=> ReadsAs(x))
  BY <1>1 DEF Excused, Foreign, ReadsAs
<1>8. Misread(y) /\ Reads(y)
  BY <1>1, <1>7 DEF Base, Misread, Reads
<1> QED
  BY <1>2, <1>3, <1>4, <1>5, <1>6, <1>8 DEF Base

(* The picture of the caps is within what the node writes, and that within *)
(* its buffers, whose length gstdsp_vdec_len_fixup may correct.            *)
LEMMA NodeNeeds ==
  ASSUME NEW x, Base(x), x.node # NoNode
  PROVE  /\ Needed(x) \in Nat /\ Picture(x) \in Nat /\ x.obs \in Nat
         /\ LenFixup(x) \in Nat
         /\ Needed(x) <= x.obs /\ Picture(x) <= Needed(x)
         /\ Picture(x) <= LenFixup(x)
         /\ ~x.recrop => LenFixup(x) = Picture(x)
<1>1. /\ x.src.w \in Nat /\ x.src.h \in Nat
      /\ x.cw \in Nat /\ x.ch \in Nat /\ x.node.w \in Nat /\ x.node.h \in Nat
      /\ x.width \in Nat /\ x.height \in Nat
      /\ x.src.w <= x.node.w /\ x.node.w <= x.width /\ x.src.w <= x.cw
      /\ x.src.h <= x.node.h /\ x.node.h <= x.height /\ x.src.h <= x.ch
      /\ x.src.color = x.color /\ x.node.color = x.color
      /\ ~x.recrop => x.cw = x.src.w /\ x.ch = x.src.h
      /\ x.obs = Bytes(x.color, x.width, x.height)
  BY DEF Base, NodeSizes, DecTypes, RawCaps
<1>2. /\ Bytes(x.color, x.src.w, x.src.h) \in Nat
      /\ Bytes(x.color, x.src.w, x.src.h) <= Bytes(x.color, x.node.w, x.node.h)
  BY <1>1, BytesMonotonic
<1>3. /\ Bytes(x.color, x.node.w, x.node.h) \in Nat
      /\ Bytes(x.color, x.node.w, x.node.h) <= Bytes(x.color, x.width, x.height)
  BY <1>1, BytesMonotonic
<1>4. Bytes(x.color, x.src.w, x.src.h) <= Bytes(x.color, x.cw, x.ch)
  BY <1>1, BytesMonotonic
<1>5. /\ Bytes(x.color, x.width, x.height) \in Nat /\ Bytes(x.color, x.cw, x.ch) \in Nat
  BY <1>1, BytesMonotonic
<1> QED
  BY <1>1, <1>2, <1>3, <1>4, <1>5 DEF Needed, Picture, LenFixup

(* The node returns a frame. *)
LEMMA ReceiveKeeps ==
  ASSUME NEW x, Base(x), x.rooms # <<>>
  PROVE  Base(Receive(x)) /\ Same(Receive(x), x, FrameFields)
<1> DEFINE y == Receive(x)
           frame == [len |-> IF HasLenFixup(x.node.codec) THEN LenFixup(x)
                             ELSE Bytes(x.node.color, x.node.w, x.node.h),
                     room |-> Head(x.rooms)]
<1>1. DOMAIN x = DecFields /\ x.node # NoNode
  BY DEF Base, DecTypes, Idle
<1>2. /\ DOMAIN y = DecFields /\ Same(y, x, {"rooms", "done", "flight"})
      /\ y.rooms = Tail(x.rooms) /\ y.done = Append(x.done, frame)
  BY <1>1 DEF Receive, Same, DecFields
<1>3. /\ y.node = x.node /\ y.src = x.src /\ y.recrop = x.recrop /\ y.dead = x.dead
  BY <1>2 DEF Same, DecFields
<1>4. Needed(y) = Needed(x) /\ Picture(y) = Picture(x)
  BY <1>3 DEF Needed, Picture
<1>5. /\ x.rooms \in Seq(Nat) /\ \A i \in DOMAIN x.rooms : Needed(x) <= x.rooms[i]
      /\ x.done \in Seq([len : Nat, room : Nat])
      /\ \A i \in DOMAIN x.done :
           /\ Needed(x) <= x.done[i].room /\ Picture(x) <= x.done[i].len
           /\ IF HasLenFixup(x.node.codec) THEN x.recrop \/ x.done[i].len = Picture(x)
              ELSE x.done[i].len = Needed(x)
  BY <1>1 DEF Base, Frames
<1>6. /\ frame \in [len : Nat, room : Nat]
      /\ Needed(x) <= frame.room /\ Picture(x) <= frame.len
      /\ IF HasLenFixup(x.node.codec) THEN x.recrop \/ frame.len = Picture(x)
         ELSE frame.len = Needed(x)
  <2>1. 1 \in DOMAIN x.rooms /\ Head(x.rooms) = x.rooms[1] /\ Head(x.rooms) \in Nat
    BY <1>5
  <2>2. frame.room = Head(x.rooms)
        /\ frame.len = IF HasLenFixup(x.node.codec) THEN LenFixup(x) ELSE Needed(x)
    BY DEF Needed
  <2>3. frame.len \in Nat /\ Picture(x) <= frame.len
        /\ (HasLenFixup(x.node.codec) => x.recrop \/ frame.len = Picture(x))
    <3> HIDE DEF frame
    <3>1. /\ Needed(x) \in Nat /\ Picture(x) \in Nat
          /\ LenFixup(x) \in Nat
          /\ Picture(x) <= Needed(x)
          /\ Picture(x) <= LenFixup(x)
          /\ ~x.recrop => LenFixup(x) = Picture(x)
      BY <1>1, NodeNeeds
    <3> QED
      BY <2>2, <3>1
  <2>4. frame \in [len : Nat, room : Nat]
    BY <2>1, <2>2, <2>3
  <2> HIDE DEF frame
  <2> QED
    BY <1>5, <2>1, <2>2, <2>3, <2>4
<1> HIDE DEF frame, y
<1>7. /\ y.rooms \in Seq(Nat) /\ \A i \in DOMAIN y.rooms : Needed(x) <= y.rooms[i]
  <2>1. y.rooms \in Seq(Nat) /\ \A i \in DOMAIN y.rooms : i + 1 \in DOMAIN x.rooms /\ y.rooms[i] = x.rooms[i + 1]
    BY <1>2, <1>5
  <2> QED
    BY <1>5, <2>1
<1>8. /\ y.done \in Seq([len : Nat, room : Nat])
      /\ \A i \in DOMAIN y.done : y.done[i] = frame \/ (i \in DOMAIN x.done /\ y.done[i] = x.done[i])
  <2>1. y.done \in Seq([len : Nat, room : Nat])
    BY <1>2, <1>5, <1>6
  <2>2. DOMAIN y.done = 1 .. Len(x.done) + 1 /\ DOMAIN x.done = 1 .. Len(x.done) /\ Len(x.done) \in Nat
    BY <1>2, <1>5
  <2>3. /\ y.done[Len(x.done) + 1] = frame
        /\ \A i \in 1 .. Len(x.done) : y.done[i] = x.done[i]
    BY <1>2, <1>5
  <2>4. \A i \in 1 .. Len(x.done) + 1 : i = Len(x.done) + 1 \/ i \in 1 .. Len(x.done)
    BY <2>2
  <2> QED
    BY <2>1, <2>2, <2>3, <2>4
<1>9. Frames(y)
  BY <1>3, <1>4, <1>5, <1>6, <1>7, <1>8 DEF Frames
<1>10. Idle(y)
  BY <1>1, <1>3 DEF Idle
<1>11. Same(y, x, FrameFields) /\ Same(y, x, FrameFields \cup {"seen"})
  BY <1>2 DEF Same, FrameFields
<1> QED
  BY <1>2, <1>3, <1>9, <1>10, <1>11, FramesMove DEF y

(* output_loop takes a frame; downstream may fail. *)
LEMMA TakeFrameKeeps ==
  ASSUME NEW x, Base(x), x.done # <<>>, NEW dead, x.dead => dead
  PROVE  LET y == [TakeFrame(x) EXCEPT !.dead = dead] IN
         Base(y) /\ Same(y, x, FrameFields)
<1> DEFINE y == [TakeFrame(x) EXCEPT !.dead = dead]
<1>1. DOMAIN x = DecFields /\ x.node # NoNode
  BY DEF Base, DecTypes, Idle
<1>2. /\ DOMAIN y = DecFields /\ Same(y, x, {"rooms", "done", "dead"})
      /\ y.rooms = Append(x.rooms, x.obs) /\ y.done = Tail(x.done) /\ y.dead = dead
  BY <1>1 DEF TakeFrame, Same, DecFields
<1> HIDE DEF y
<1>3. /\ y.node = x.node /\ y.src = x.src /\ y.recrop = x.recrop
  BY <1>2 DEF Same, DecFields
<1>4. Needed(y) = Needed(x) /\ Picture(y) = Picture(x)
  BY <1>3 DEF Needed, Picture
<1>5. /\ x.rooms \in Seq(Nat) /\ \A i \in DOMAIN x.rooms : Needed(x) <= x.rooms[i]
      /\ x.done \in Seq([len : Nat, room : Nat])
      /\ \A i \in DOMAIN x.done :
           /\ Needed(x) <= x.done[i].room /\ Picture(x) <= x.done[i].len
           /\ IF HasLenFixup(x.node.codec) THEN x.recrop \/ x.done[i].len = Picture(x)
              ELSE x.done[i].len = Needed(x)
  BY <1>1 DEF Base, Frames
<1>6. x.obs \in Nat /\ Needed(x) <= x.obs
  BY <1>1, NodeNeeds
<1>7. /\ y.done \in Seq([len : Nat, room : Nat])
      /\ \A i \in DOMAIN y.done : i + 1 \in DOMAIN x.done /\ y.done[i] = x.done[i + 1]
  BY <1>2, <1>5
<1>8. /\ y.rooms \in Seq(Nat)
      /\ \A i \in DOMAIN y.rooms : y.rooms[i] = x.obs \/ (i \in DOMAIN x.rooms /\ y.rooms[i] = x.rooms[i])
  <2>1. y.rooms \in Seq(Nat)
    BY <1>2, <1>5, <1>6
  <2>2. DOMAIN y.rooms = 1 .. Len(x.rooms) + 1 /\ DOMAIN x.rooms = 1 .. Len(x.rooms) /\ Len(x.rooms) \in Nat
    BY <1>2, <1>5
  <2>3. /\ y.rooms[Len(x.rooms) + 1] = x.obs
        /\ \A i \in 1 .. Len(x.rooms) : y.rooms[i] = x.rooms[i]
    BY <1>2, <1>5
  <2>4. \A i \in 1 .. Len(x.rooms) + 1 : i = Len(x.rooms) + 1 \/ i \in 1 .. Len(x.rooms)
    BY <2>2
  <2> QED
    BY <2>1, <2>2, <2>3, <2>4
<1>9. Frames(y)
  BY <1>3, <1>4, <1>5, <1>6, <1>7, <1>8 DEF Frames
<1>10. Idle(y)
  BY <1>1, <1>3 DEF Idle
<1>11. Same(y, x, FrameFields) /\ Same(y, x, FrameFields \cup {"seen"})
  BY <1>2 DEF Same, FrameFields
<1> QED
  BY <1>2, <1>9, <1>10, <1>11, FramesMove DEF y

(* The element may fail at any time. *)
LEMMA DeadKeeps ==
  ASSUME NEW x, Base(x), NEW dead
  PROVE  LET y == [x EXCEPT !.dead = @ \/ dead] IN
         Base(y) /\ Same(y, x, FrameFields)
<1> DEFINE y == [x EXCEPT !.dead = @ \/ dead]
<1>1. DOMAIN x = DecFields
  BY DEF Base, DecTypes
<1>2. /\ DOMAIN y = DecFields /\ Same(y, x, {"dead"}) /\ (x.dead => y.dead)
  BY <1>1 DEF Same, DecFields
<1> HIDE DEF y
<1>3. /\ y.node = x.node /\ y.src = x.src /\ y.recrop = x.recrop /\ y.rooms = x.rooms
      /\ y.done = x.done /\ y.misread = x.misread
  BY <1>2 DEF Same, DecFields
<1>4. Frames(y) /\ Idle(y)
  BY <1>3 DEF Base, Frames, Idle, Needed, Picture
<1>5. Same(y, x, FrameFields) /\ Same(y, x, FrameFields \cup {"seen"})
  BY <1>2 DEF Same, FrameFields
<1> QED
  BY <1>2, <1>4, <1>5, FramesMove DEF y

-----------------------------------------------------------------------------
(* New caps *)

(* New caps keep the invariant; a node is only kept with the decoder's     *)
(* size.                                                                   *)
LEMMA SetCapsKeeps ==
  ASSUME NEW x, Base(x), NEW caps \in VideoCaps, NEW reset \in BOOLEAN,
         Keeps(x, reset) => Width(x, caps) = x.width /\ Height(x, caps) = x.height
  PROVE  LET y == SetCaps(x, caps, reset) IN
         /\ Base(y) /\ y.sink = caps
         /\ y.node # NoNode <=> Keeps(x, reset)
         /\ Same(y, x, {"sink", "kept", "codec_data", "stale", "recrop", "node", "rooms",
                        "done", "flight", "misread"} \cup SizeFields \cup ChosenFields)
<1> DEFINE y == SetCaps(x, caps, reset)
<1>1. DecTypes(x) /\ DOMAIN x = DecFields /\ x.width \in Nat /\ x.height \in Nat
  BY DEF Base, DecTypes
<1>2. Recapped(y, x, caps, reset)
  BY <1>1, SetCapsIs
<1> HIDE DEF y
<1> USE DEF Recapped
<1>3. Keeps(x, reset) => Width(x, caps) = x.width /\ Height(x, caps) = x.height
  OBVIOUS
<1>4. caps # NoCaps /\ caps.data \in Buffers \cup {NoBuf}
  BY VideoCapsParts
<1>5. /\ y.cw \in Nat /\ y.ch \in Nat /\ y.width \in Nat /\ y.height \in Nat
      /\ y.cw <= y.width /\ y.ch <= y.height
      /\ y.obs = Bytes(y.color, y.width, y.height) /\ y.color = ColorOf(y.board)
      /\ Rounded(y)
  <2>1. /\ y.cw \in Nat /\ y.ch \in Nat /\ y.width \in Nat /\ y.height \in Nat
        /\ y.cw <= y.width /\ y.ch <= y.height
        /\ y.obs = Bytes(y.color, y.width, y.height) /\ y.color = ColorOf(y.board)
    BY <1>2 DEF CapsKnown
  <2> QED
    BY <1>2, <2>1, RoundingUp DEF Rounded
<1>6. Same(y, x, {"sink", "kept", "codec_data", "stale", "recrop", "node", "rooms",
                  "done", "flight", "misread"} \cup SizeFields \cup ChosenFields)
  BY <1>2 DEF Same
<1>7. DecTypes(y)
  <2>1. y.codec_data \in Buffers \cup {NoBuf}
    BY <1>1, <1>2, <1>4 DEF DecTypes
  <2>2. CASE Keeps(x, reset)
    <3>1. y.parse_func = x.parse_func
      BY <1>2, <2>2 DEF Same, DecFields, SizeFields
    <3> QED
      BY <1>1, <1>2, <1>5, <2>1, <3>1 DEF DecTypes
  <2>3. CASE ~Keeps(x, reset)
    BY <1>1, <1>2, <1>5, <2>1, <2>3 DEF DecTypes
  <2> QED
    BY <2>2, <2>3
<1>8. Data(y)
  BY <1>2, <1>4 DEF Data, Keeps
<1>9. CASE Keeps(x, reset)
  <2>1. /\ y.node = x.node /\ y.rooms = x.rooms /\ y.done = x.done /\ y.src = x.src
        /\ y.board = x.board /\ y.alg = x.alg /\ y.pre = x.pre
    BY <1>2, <1>9 DEF Same, DecFields, SizeFields
  <2>2. x.node # NoNode
    BY <1>9 DEF Keeps
  <2>3. y.cw = x.width /\ y.ch = x.height
    BY <1>2, <1>3, <1>9
  <2>4. NodeSizes(y)
    <3>1. /\ x.src \in RawCaps /\ x.node.w \in Nat /\ x.node.h \in Nat
          /\ x.src.w \in Nat /\ x.src.h \in Nat
          /\ x.src.w <= x.node.w /\ x.node.w <= x.width
          /\ x.src.h <= x.node.h /\ x.node.h <= x.height
          /\ x.color = ColorOf(x.board) /\ x.src.color = x.color /\ x.node.color = x.color
      BY <2>2 DEF Base, NodeSizes, RawCaps
    <3>2. x.node.w <= y.width /\ x.src.w <= y.cw /\ x.node.h <= y.height /\ x.src.h <= y.ch
      BY <1>1, <1>5, <2>3, <3>1
    <3>3. ~y.recrop => y.cw = y.src.w /\ y.ch = y.src.h
      BY <1>2, <1>9, <2>1
    <3> QED
      BY <1>2, <1>4, <1>5, <2>1, <3>1, <3>2, <3>3 DEF NodeSizes
  <2>5. Frames(y)
    <3>1. x.recrop => y.recrop
      BY <1>2, <1>9
    <3> QED
      BY <2>1, <2>2, <3>1 DEF Base, Frames, Needed, Picture
  <2>6. Watches(y)
    BY <1>2, <1>5, <1>9, <2>1, <2>2, <2>3 DEF Base, Watches, Rounded
  <2>7. Excused(y)
    BY <1>2, <1>9 DEF Excused
  <2>8. Idle(y) /\ Chosen(y) /\ Misread(y) /\ Reads(y)
    BY <2>1, <2>2, <2>7 DEF Idle, Chosen, Misread, Reads
  <2> QED
    BY <1>2, <1>6, <1>7, <1>8, <1>9, <2>1, <2>2, <2>4, <2>5, <2>6, <2>8 DEF Base, y
<1>10. CASE ~Keeps(x, reset)
  <2>1. Idle(y) /\ ~y.misread
    BY <1>2, <1>10 DEF Base, Idle, Keeps
  <2>2. Chosen(y)
    BY <1>2, <1>5, <1>10 DEF Chosen
  <2>3. NodeSizes(y) /\ Frames(y) /\ Watches(y) /\ Misread(y) /\ Reads(y)
    BY <1>2, <1>10, <2>1 DEF NodeSizes, Frames, Watches, Misread, Reads
  <2> QED
    BY <1>2, <1>6, <1>7, <1>8, <1>10, <2>1, <2>2, <2>3 DEF Base, y
<1> QED
  BY <1>9, <1>10

(* seen is not in the invariant of the node. *)
LEMMA SeenKeeps ==
  ASSUME NEW x, Base(x), NEW size
  PROVE  LET y == [x EXCEPT !.seen = size] IN
         Base(y) /\ Same(y, x, {"seen"}) /\ y.seen = size
<1> DEFINE y == [x EXCEPT !.seen = size]
<1>1. DOMAIN x = DecFields
  BY DEF Base, DecTypes
<1>2. DOMAIN y = DecFields /\ Same(y, x, {"seen"}) /\ y.seen = size
  BY <1>1 DEF Same, DecFields
<1> HIDE DEF y
<1>3. /\ y.node = x.node /\ y.src = x.src /\ y.recrop = x.recrop /\ y.rooms = x.rooms
      /\ y.done = x.done /\ y.misread = x.misread /\ y.dead = x.dead
  BY <1>2 DEF Same, DecFields
<1>4. Frames(y) /\ Idle(y)
  BY <1>3 DEF Base, Frames, Idle, Needed, Picture
<1>5. Same(y, x, FrameFields \cup {"seen"})
  BY <1>2 DEF Same
<1> QED
  BY <1>2, <1>3, <1>4, <1>5, FramesMove DEF y

-----------------------------------------------------------------------------
(* Buffers of the stream *)

(* What OneFormat says of a buffer *)
Fits(caps, buf) ==
  /\ buf \in Buffers
  /\ caps.name = "h264" /\ caps.data = NoBuf => buf.form = "nal"
  /\ caps.name = "h264" /\ caps.data # NoBuf =>
       /\ \/ caps.data.form = "nal" /\ buf.form = "nal"
          \/ caps.data.form = "avcC" /\ buf.form = "len"
       /\ caps.data.head # NoHead /\ SpsSize(caps.data.head).ok
  /\ caps.name = "h263" => caps.data = NoBuf /\ buf.form = "h263"
  /\ caps.name = "wmv" /\ caps.vc1 => caps.data.form = "seq" /\ buf.form \in {"vc1", "seq+vc1"}
  /\ caps.name = "wmv" /\ ~caps.vc1 => caps.data.form \in {"none", "seq"} /\ buf.form = "wmv3"
  /\ caps.name \in {"mpeg4", "divx"} =>
       caps.data.form \in {"none", "mpeg4"} /\ buf.form = "mpeg4"

(* The buffers of a stream fit its caps. *)
LEMMA StreamFits ==
  ASSUME NEW s \in Streams, NEW buf \in s.bufs
  PROVE  Fits(s.caps, buf)
<1>1. /\ s.caps \in VideoCaps /\ s.bufs \subseteq Buffers /\ OneFormat(s)
      /\ s.caps.name \in {"h264", "h263", "mpeg4", "divx", "wmv"}
  BY StreamsAssumption, VideoCapsParts
<1> QED
  BY <1>1 DEF OneFormat, Fits

(* Only a send_cb of td_h264dec.c that has nothing to do removes itself. *)
LEMMA ForeignStays ==
  ASSUME NEW x, DOMAIN x = DecFields, NEW buf
  PROVE  LET s == InSendCb(x, buf) IN
         /\ s.d.send_cb = IF x.send_cb = "h264dec" /\ x.lol = 0 THEN "none" ELSE x.send_cb
         /\ Foreign(s.d) <=> Foreign(x)
         /\ ~Foreign(x) /\ x.codec # "wmvdec" =>
              /\ Same(s.d, x, {"send_cb"})
              /\ s.form = IF x.send_cb = "h264dec" /\ x.lol # 0
                          THEN IF buf.form = "len" THEN "nal" ELSE "mangled"
                          ELSE buf.form
BY DEF InSendCb, H264Send, WmvSend, PrefixVc1, Passes, DecFields, Same, Foreign

(* The send_cb of td_wmvdec.c: the node has the sequence header with the   *)
(* first frame of VC-1.                                                    *)
LEMMA WmvReads ==
  ASSUME NEW x, DOMAIN x = DecFields, NEW buf, x.send_cb = "wmvdec"
  PROVE  LET s == InSendCb(x, buf) IN
         /\ buf.form = "seq+vc1" => s.form = "vc1" /\ s.d.sent /\ s.d.primed
         /\ buf.form # "seq+vc1" /\ (~x.vc1 \/ x.sent) =>
              s.form = buf.form /\ s.d.sent = x.sent /\ s.d.primed = x.primed
                /\ s.d.codec_data = x.codec_data
         /\ buf.form # "seq+vc1" /\ x.vc1 /\ ~x.sent /\ x.codec_data.form = "seq" =>
              s.form = buf.form /\ s.d.sent /\ s.d.primed
<1>1. InSendCb(x, buf) = WmvSend(x, buf)
  BY DEF InSendCb
<1>2. x.codec_data.form = "seq" => x.codec_data # NoBuf
  BY DEF NoBuf
<1> DEFINE y == [x EXCEPT !.sent = TRUE, !.primed = TRUE]
           z == [x EXCEPT !.sent = TRUE, !.primed = x.codec_data.form = "seq", !.codec_data = NoBuf]
<1>3. y.sent /\ y.primed /\ z.sent /\ (z.primed <=> x.codec_data.form = "seq")
  BY DEF DecFields
<1>4. CASE buf.form = "seq+vc1"
  <2>1. InSendCb(x, buf) = [d |-> y, form |-> "vc1"]
    BY <1>1, <1>4 DEF WmvSend, Passes
  <2> HIDE DEF y
  <2> QED
    BY <1>3, <1>4, <2>1
<1>5. CASE buf.form # "seq+vc1" /\ (~x.vc1 \/ x.sent)
  <2>1. InSendCb(x, buf) = [d |-> x, form |-> buf.form]
    BY <1>1, <1>5 DEF WmvSend, PrefixVc1, Passes
  <2> QED
    BY <1>5, <2>1
<1>6. CASE buf.form # "seq+vc1" /\ x.vc1 /\ ~x.sent /\ x.codec_data.form = "seq"
  <2>1. InSendCb(x, buf) = PrefixVc1(x, buf)
    BY <1>1, <1>6 DEF WmvSend
  <2>2. InSendCb(x, buf) = [d |-> z, form |-> buf.form]
    BY <1>2, <1>6, <2>1 DEF PrefixVc1, Passes
  <2> HIDE DEF z
  <2> QED
    BY <1>3, <1>6, <2>2
<1> QED
  BY <1>4, <1>5, <1>6

(* A node that is excused by nothing reads what it is sent. *)
LEMMA SendBufferReads ==
  ASSUME NEW x, Base(x), x.node # NoNode, ~x.dead, NEW buf, Fits(x.sink, buf)
  PROVE  LET y == SendBuffer(x, buf) IN
         ~Excused(y) => ~y.misread /\ ReadsAs(y)
<1> DEFINE i == InSendCb(x, buf)
           y == SendBuffer(x, buf)
<1>1. DOMAIN x = DecFields /\ x.sink.name \in {"h264", "h263", "mpeg4", "divx", "wmv"}
  BY VideoCapsParts DEF Base, DecTypes, NodeSizes
<1>2. /\ DOMAIN i.d = DecFields /\ Same(i.d, x, SendFields)
      /\ i.d.codec_data \in {x.codec_data, NoBuf}
  BY <1>1, InSendCbIs
<1>3. /\ i.d.send_cb = IF x.send_cb = "h264dec" /\ x.lol = 0 THEN "none" ELSE x.send_cb
      /\ Foreign(i.d) <=> Foreign(x)
      /\ ~Foreign(x) /\ x.codec # "wmvdec" =>
           /\ i.form = IF x.send_cb = "h264dec" /\ x.lol # 0
                       THEN IF buf.form = "len" THEN "nal" ELSE "mangled"
                       ELSE buf.form
  BY <1>1, ForeignStays
<1>4. y = [i.d EXCEPT !.misread = @ \/ ~Understands(i.d, i.form)]
  BY DEF SendBuffer
<1>5. x.send_cb = "wmvdec" =>
         /\ buf.form = "seq+vc1" => i.form = "vc1" /\ i.d.sent /\ i.d.primed
         /\ buf.form # "seq+vc1" /\ (~x.vc1 \/ x.sent) =>
              i.form = buf.form /\ i.d.sent = x.sent /\ i.d.primed = x.primed
                /\ i.d.codec_data = x.codec_data
         /\ buf.form # "seq+vc1" /\ x.vc1 /\ ~x.sent /\ x.codec_data.form = "seq" =>
              i.form = buf.form /\ i.d.sent /\ i.d.primed
  BY <1>1, WmvReads
<1> HIDE DEF i
<1>6. /\ DOMAIN y = DecFields /\ Same(y, i.d, {"misread"})
      /\ y.misread <=> i.d.misread \/ ~Understands(i.d, i.form)
  BY <1>2, <1>4 DEF DecFields, Same
<1> HIDE DEF y
<1>7. /\ i.d.kept = x.kept /\ i.d.unprimed = x.unprimed /\ i.d.stale = x.stale
      /\ i.d.board = x.board /\ i.d.misread = x.misread /\ i.d.node = x.node
      /\ i.d.codec = x.codec /\ i.d.sink = x.sink /\ i.d.lol = x.lol /\ i.d.st = x.st
      /\ i.d.vc1 = x.vc1
  BY <1>2 DEF Same, DecFields, SendFields
<1>8. /\ y.kept = i.d.kept /\ y.unprimed = i.d.unprimed /\ y.stale = i.d.stale
      /\ y.board = i.d.board /\ y.node = i.d.node
      /\ y.codec = i.d.codec /\ y.sink = i.d.sink /\ y.lol = i.d.lol /\ y.st = i.d.st
      /\ y.vc1 = i.d.vc1 /\ y.send_cb = i.d.send_cb /\ y.sent = i.d.sent
      /\ y.primed = i.d.primed /\ y.codec_data = i.d.codec_data
  BY <1>6 DEF Same, DecFields
<1>9. SUFFICES ASSUME ~Excused(y)
               PROVE  ~y.misread /\ ReadsAs(y)
  BY DEF y
<1>10. ~Excused(x)
  BY <1>3, <1>7, <1>8, <1>9 DEF Excused, Foreign
<1>11. ~i.d.misread /\ ReadsAs(x) /\ ~Foreign(x)
  BY <1>7, <1>10 DEF Base, Misread, Reads, Excused
<1>12. x.node.codec = x.codec
  BY <1>11 DEF ReadsAs
<1>13. CASE x.sink.name = "h264"
  <2>1. /\ x.node.stream = "h264" /\ x.codec \in HdH264 \cup {"h264dec"}
        /\ x.lol # 0 <=> x.sink.data # NoBuf /\ x.sink.data.form = "avcC"
        /\ x.st = 1 <=> x.codec \in HdH264 /\ x.lol # 0
        /\ x.codec = "h264dec" /\ x.lol # 0 => x.send_cb = "h264dec"
    BY <1>11, <1>13 DEF ReadsAs
  <2>2. buf.form = IF x.lol # 0 THEN "len" ELSE "nal"
    BY <1>13, <2>1 DEF Fits
  <2>3. x.codec \in HdH264 /\ x.lol # 0 => x.send_cb # "h264dec"
    BY <1>11 DEF Foreign, HdH264
  <2>4. x.codec # "wmvdec" /\ (x.codec = "h264dec" <=> x.codec \notin HdH264)
    BY <2>1 DEF HdH264
  <2>5. i.form = IF x.codec = "h264dec" \/ x.lol = 0 THEN "nal" ELSE "len"
    BY <1>3, <1>11, <2>1, <2>2, <2>3, <2>4
  <2>6. Understands(i.d, i.form)
    BY <1>7, <1>12, <2>1, <2>4, <2>5 DEF Understands
  <2> QED
    BY <1>3, <1>6, <1>7, <1>8, <1>11, <1>12, <1>13, <2>1, <2>6 DEF ReadsAs
<1>14. CASE x.sink.name \in {"h263", "mpeg4", "divx"}
  <2>1. /\ x.node.stream = IF x.sink.name = "h263" THEN "h263" ELSE "mpeg4"
        /\ x.codec \in {"mp4vdec", "hdmp4vdec"}
    BY <1>11, <1>14 DEF ReadsAs
  <2>2. buf.form = x.node.stream
    BY <1>14, <2>1 DEF Fits
  <2>3. x.send_cb = "h264dec" => x.lol = 0
    BY <1>11, <2>1 DEF Foreign
  <2>4. i.form = x.node.stream
    BY <1>3, <1>11, <2>1, <2>2, <2>3
  <2>5. Understands(i.d, i.form)
    BY <1>7, <2>1, <2>4 DEF Understands
  <2> QED
    BY <1>6, <1>7, <1>8, <1>11, <1>12, <1>14, <2>1, <2>5 DEF ReadsAs
<1>15. CASE x.sink.name = "wmv"
  <2>1. /\ x.codec = "wmvdec" /\ x.send_cb = "wmvdec" /\ (x.vc1 <=> x.sink.vc1)
        /\ x.node.stream = IF x.vc1 THEN "vc1" ELSE "wmv3"
        /\ x.vc1 => IF x.sent THEN x.primed ELSE x.codec_data = x.sink.data
    BY <1>11, <1>15 DEF ReadsAs
  <2>2. /\ x.vc1 => x.sink.data.form = "seq" /\ buf.form \in {"vc1", "seq+vc1"}
        /\ ~x.vc1 => buf.form = "wmv3"
    BY <1>15, <2>1 DEF Fits
  <2>3. x.vc1 => i.form = "vc1" /\ i.d.sent /\ i.d.primed
    BY <1>5, <2>1, <2>2
  <2>4. ~x.vc1 => i.form = "wmv3"
    BY <1>5, <2>1, <2>2
  <2>5. Understands(i.d, i.form)
    BY <1>7, <2>1, <2>3, <2>4 DEF Understands
  <2> QED
    BY <1>3, <1>6, <1>7, <1>8, <1>11, <1>12, <1>15, <2>1, <2>3, <2>5 DEF ReadsAs
<1> QED
  BY <1>1, <1>13, <1>14, <1>15

(* What a buffer that is sent changes, and what it does not. *)
LEMMA SendMoves ==
  ASSUME NEW x, Base(x), x.node # NoNode, NEW y, DOMAIN y = DecFields,
         Same(y, x, SendFields \cup {"misread"}), y.codec_data \in {x.codec_data, NoBuf},
         ~Excused(y) => ~y.misread /\ ReadsAs(y)
  PROVE  Base(y)
<1>1. /\ y.width = x.width /\ y.height = x.height /\ y.sink = x.sink
      /\ y.parse_func = x.parse_func /\ y.node = x.node /\ y.cw = x.cw /\ y.ch = x.ch
      /\ y.src = x.src /\ y.color = x.color /\ y.board = x.board /\ y.recrop = x.recrop
      /\ y.obs = x.obs /\ y.stale = x.stale /\ y.alg = x.alg /\ y.pre = x.pre
      /\ y.kept = x.kept /\ y.parsed = x.parsed /\ y.is_avc = x.is_avc
      /\ y.rooms = x.rooms /\ y.done = x.done
  BY DEF Same, DecFields, SendFields
<1>2. DecTypes(y)
  BY <1>1 DEF Base, DecTypes
<1>3. Idle(y) /\ Chosen(y)
  BY <1>1 DEF Idle, Chosen
<1>4. NodeSizes(y)
  BY <1>1 DEF Base, NodeSizes
<1>5. Frames(y)
  BY <1>1 DEF Base, Frames, Needed, Picture
<1>6. Data(y)
  BY <1>1 DEF Base, Data
<1>7. Watches(y)
  BY <1>1 DEF Base, Watches, Rounded
<1>8. Misread(y) /\ Reads(y)
  BY DEF Misread, Reads
<1> QED
  BY <1>2, <1>3, <1>4, <1>5, <1>6, <1>7, <1>8 DEF Base

(* A buffer is sent. *)
LEMMA SendBufferKeeps ==
  ASSUME NEW x, Base(x), x.node # NoNode, ~x.dead, NEW buf, Fits(x.sink, buf)
  PROVE  LET y == [SendBuffer(x, buf) EXCEPT !.flight = @ + 1] IN
         /\ Base(y) /\ Same(y, x, SendFields \cup {"misread", "flight"})
<1> DEFINE s == SendBuffer(x, buf)
           y == [s EXCEPT !.flight = @ + 1]
<1>1. DOMAIN x = DecFields
  BY DEF Base, DecTypes
<1>2. /\ DOMAIN s = DecFields /\ Same(s, x, SendFields \cup {"misread"})
      /\ s.codec_data \in {x.codec_data, NoBuf}
  BY <1>1, SendBufferIs
<1>3. ~Excused(s) => ~s.misread /\ ReadsAs(s)
  BY SendBufferReads
<1> HIDE DEF s
<1>4. Base(s)
  BY <1>2, <1>3, SendMoves
<1>5. DOMAIN y = DecFields /\ Same(y, s, {"flight"})
  BY <1>2 DEF Same, DecFields
<1> HIDE DEF y
<1>6. /\ y.node = s.node /\ y.src = s.src /\ y.recrop = s.recrop /\ y.rooms = s.rooms
      /\ y.done = s.done /\ y.misread = s.misread /\ y.dead = s.dead
  BY <1>5 DEF Same, DecFields
<1>7. Frames(y) /\ Idle(y)
  BY <1>4, <1>6 DEF Base, Frames, Idle, Needed, Picture
<1>8. Same(y, s, FrameFields \cup {"seen"}) /\ Same(y, x, SendFields \cup {"misread", "flight"})
  BY <1>2, <1>5 DEF Same, FrameFields
<1> QED
  BY <1>4, <1>5, <1>6, <1>7, <1>8, FramesMove DEF y, s

-----------------------------------------------------------------------------
(* A new node *)

(* What the codec of a new node reads, if nothing excuses it *)
NewNode(n) ==
  /\ DOMAIN n = DecFields /\ n.node # NoNode /\ n.node.codec = n.codec
  /\ n.codec_data = n.sink.data /\ ~n.misread /\ ~n.sent /\ ~n.dead
  /\ n.sink.name = "h264" =>
       /\ n.node.stream = "h264" /\ n.codec \in HdH264 \cup {"h264dec"} /\ n.send_cb = n.codec
       /\ n.lol = 0 /\ n.st = 0
       /\ n.sink.data # NoBuf => (n.is_avc <=> n.sink.data.form = "avcC")
  /\ n.sink.name = "h263" => n.node.stream = "h263"
  /\ n.sink.name \in {"mpeg4", "divx"} => n.node.stream = "mpeg4"
  /\ n.sink.name \in {"h263", "mpeg4", "divx"} => n.codec \in {"mp4vdec", "hdmp4vdec"}
  /\ n.sink.name = "wmv" =>
       /\ n.codec = "wmvdec" /\ n.send_cb = "wmvdec" /\ (n.vc1 <=> n.sink.vc1)
       /\ n.node.stream = IF n.vc1 THEN "vc1" ELSE "wmv3"

(* codec_data is sent: what becomes of send_cb, and what the node reads. *)
LEMMA SendCodecDataPasses ==
  ASSUME NEW x, DOMAIN x = DecFields, NEW form
  PROVE  LET y == SendCodecData(x, form) IN
         /\ y.send_cb = IF x.send_cb = "h264dec" /\ x.lol = 0 THEN "none" ELSE x.send_cb
         /\ Foreign(y) <=> Foreign(x)
         /\ ~Foreign(x) /\ x.codec # "wmvdec" =>
              /\ Same(y, x, {"send_cb", "misread"})
              /\ (x.send_cb # "h264dec" \/ x.lol = 0 \/ form = "len") /\ form # "mangled" =>
                   (y.misread <=> x.misread)
         /\ x.send_cb = "wmvdec" /\ ~x.vc1 /\ form \notin {"seq+vc1", "mangled"} =>
              Same(y, x, {"misread"}) /\ (y.misread <=> x.misread)
<1> DEFINE i == InSendCb(x, [form |-> form])
           y == SendCodecData(x, form)
<1>1. DOMAIN i.d = DecFields /\ Same(i.d, x, SendFields)
  BY InSendCbIs
<1>2. /\ i.d.send_cb = IF x.send_cb = "h264dec" /\ x.lol = 0 THEN "none" ELSE x.send_cb
      /\ Foreign(i.d) <=> Foreign(x)
      /\ ~Foreign(x) /\ x.codec # "wmvdec" =>
           /\ Same(i.d, x, {"send_cb"})
           /\ i.form = IF x.send_cb = "h264dec" /\ x.lol # 0
                       THEN IF form = "len" THEN "nal" ELSE "mangled"
                       ELSE form
  BY ForeignStays
<1>3. x.send_cb = "wmvdec" /\ ~x.vc1 /\ form # "seq+vc1" => i.d = x /\ i.form = form
  BY DEF InSendCb, WmvSend, Passes
<1>4. y = [i.d EXCEPT !.misread = @ \/ i.form = "mangled"]
  BY DEF SendCodecData
<1> HIDE DEF i, y
<1>5. /\ DOMAIN y = DecFields /\ Same(y, i.d, {"misread"})
      /\ y.misread <=> i.d.misread \/ i.form = "mangled"
  BY <1>1, <1>4 DEF Same, DecFields
<1>6. /\ y.send_cb = i.d.send_cb /\ y.codec = i.d.codec /\ y.lol = i.d.lol
      /\ i.d.misread = x.misread
  BY <1>1, <1>5 DEF Same, DecFields, SendFields
<1>7. Foreign(y) <=> Foreign(i.d)
  BY <1>6 DEF Foreign
<1>8. ~Foreign(x) /\ x.codec # "wmvdec" =>
        /\ Same(y, x, {"send_cb", "misread"})
        /\ (x.send_cb # "h264dec" \/ x.lol = 0 \/ form = "len") /\ form # "mangled" =>
             (y.misread <=> x.misread)
  BY <1>2, <1>5, <1>6 DEF Same
<1>9. x.send_cb = "wmvdec" /\ ~x.vc1 /\ form \notin {"seq+vc1", "mangled"} =>
        Same(y, x, {"misread"}) /\ (y.misread <=> x.misread)
  BY <1>3, <1>5, <1>6 DEF Same
<1> QED
  BY <1>2, <1>6, <1>7, <1>8, <1>9 DEF y

(* A new node reads its codec_data. *)
LEMMA ExtraReads ==
  ASSUME NEW n, NewNode(n), NEW buf, Fits(n.sink, buf), n.sink \in VideoCaps
  PROVE  LET y == HandleExtraData(n) IN ~Foreign(y) => ~y.misread /\ ReadsAs(y)
<1> DEFINE y == HandleExtraData(n)
           data == n.sink.data
           used == [n EXCEPT !.codec_data = NoBuf]
<1>1. /\ DOMAIN n = DecFields /\ n.node.codec = n.codec
      /\ n.codec_data = data /\ ~n.misread /\ ~n.sent /\ ~n.dead
      /\ n.sink.name \in {"h264", "h263", "mpeg4", "divx", "wmv"}
      /\ data \in Buffers \cup {NoBuf}
  BY VideoCapsParts DEF NewNode
<1>2. DOMAIN used = DecFields /\ Same(used, n, {"codec_data"})
  BY <1>1 DEF Same, DecFields
<1> HIDE DEF used, y
<1>3. /\ used.node = n.node /\ used.codec = n.codec /\ used.sink = n.sink
      /\ used.lol = n.lol /\ used.st = n.st /\ used.vc1 = n.vc1
      /\ used.send_cb = n.send_cb /\ used.is_avc = n.is_avc /\ used.misread = n.misread
      /\ used.sent = n.sent /\ used.dead = n.dead
  BY <1>2 DEF Same, DecFields
<1>4. CASE n.sink.name = "h264" /\ data = NoBuf
  <2>1. y = n
    BY <1>1, <1>4 DEF HandleExtraData, y
  <2> QED
    BY <1>1, <1>4, <2>1 DEF NewNode, ReadsAs, y
<1>5. CASE n.sink.name = "h264" /\ data # NoBuf
  <2>1. /\ n.node.stream = "h264" /\ n.codec \in HdH264 \cup {"h264dec"} /\ n.send_cb = n.codec
        /\ n.lol = 0 /\ n.st = 0 /\ (n.is_avc <=> data.form = "avcC")
        /\ data.form \in {"avcC", "nal"} /\ data \in Buffers /\ data.head # NoHead
    BY <1>1, <1>5 DEF NewNode, Fits
  <2>2. data.form = "avcC" => data.head.lol # 0
    BY <2>1, BufferParts
  <2> DEFINE t == TransformExtraData(used, data)
             form == IF data.form = "avcC" THEN "len" ELSE "nal"
  <2>3. /\ DOMAIN t.d = DecFields /\ Same(t.d, used, {"lol"}) /\ t.form = form
        /\ t.d.lol # 0 <=> data.form = "avcC"
    <3>1. CASE data.form = "avcC"
      <4> DEFINE v == [used EXCEPT !.lol = data.head.lol]
      <4>1. t = [d |-> v, form |-> "len"]
        BY <3>1 DEF TransformExtraData
      <4>2. DOMAIN v = DecFields /\ Same(v, used, {"lol"}) /\ v.lol = data.head.lol
        BY <1>2 DEF Same, DecFields
      <4> HIDE DEF v
      <4> QED
        BY <2>2, <3>1, <4>1, <4>2
    <3>2. CASE data.form = "nal"
      <4>1. t = [d |-> used, form |-> "nal"]
        BY <3>2 DEF TransformExtraData, Passes
      <4> QED
        BY <1>2, <1>3, <2>1, <3>2, <4>1 DEF Same
    <3> QED
      BY <2>1, <3>1, <3>2
  <2> HIDE DEF t
  <2>4. CASE n.codec = "h264dec"
    <3>1. y = H264Extra(used, data)
      BY <1>1, <1>5, <2>4 DEF HandleExtraData, HdH264, y, used
    <3>2. /\ t.d.node = n.node /\ t.d.codec = n.codec /\ t.d.sink = n.sink
          /\ t.d.st = n.st /\ t.d.send_cb = n.send_cb /\ t.d.misread = n.misread
          /\ ~t.d.dead
      BY <1>1, <1>3, <2>3 DEF Same, DecFields
    <3>3. ~Foreign(t.d)
      BY <2>1, <2>4, <3>2 DEF Foreign
    <3> HIDE DEF form
    <3>4. y = SendCodecData(t.d, form)
      BY <2>3, <3>1, <3>2 DEF H264Extra, t
    <3>5. form = IF data.form = "avcC" THEN "len" ELSE "nal"
      BY DEF form
    <3>6. /\ y.send_cb = IF t.d.send_cb = "h264dec" /\ t.d.lol = 0 THEN "none" ELSE t.d.send_cb
          /\ Same(y, t.d, {"send_cb", "misread"}) /\ (y.misread <=> t.d.misread)
      BY <2>1, <2>3, <2>4, <3>2, <3>3, <3>4, <3>5, SendCodecDataPasses
    <3>7. /\ y.node = n.node /\ y.codec = n.codec /\ y.sink = n.sink
          /\ y.st = n.st /\ y.lol = t.d.lol
      BY <3>2, <3>6 DEF Same, DecFields
    <3> QED
      BY <1>1, <1>5, <2>1, <2>3, <2>4, <3>2, <3>6, <3>7 DEF ReadsAs, y, HdH264
  <2>5. CASE n.codec \in HdH264
    <3> DEFINE u == [t.d EXCEPT !.st = IF used.is_avc THEN 1 ELSE 0]
    <3>1. y = HdH264Extra(used, data)
      BY <1>1, <1>5, <2>5 DEF HandleExtraData, HdH264, y, used
    <3>2. /\ DOMAIN u = DecFields /\ Same(u, t.d, {"st"})
          /\ u.st = IF data.form = "avcC" THEN 1 ELSE 0
      BY <1>3, <2>1, <2>3 DEF Same, DecFields
    <3> HIDE DEF u
    <3>3. /\ t.d.node = n.node /\ t.d.codec = n.codec /\ t.d.sink = n.sink
          /\ t.d.st = n.st /\ t.d.send_cb = n.send_cb /\ t.d.misread = n.misread
          /\ ~t.d.dead
      BY <1>1, <1>3, <2>3 DEF Same, DecFields
    <3>4. /\ u.node = n.node /\ u.codec = n.codec /\ u.sink = n.sink
          /\ u.lol = t.d.lol /\ u.send_cb = n.send_cb /\ u.misread = n.misread
      BY <3>2, <3>3 DEF Same, DecFields
    <3>5. ~Foreign(u) /\ u.send_cb # "h264dec" /\ u.codec # "wmvdec"
      BY <2>1, <2>5, <3>4 DEF Foreign, HdH264
    <3>6. form \in {"len", "nal"}
      OBVIOUS
    <3> HIDE DEF form
    <3>7. y = SendCodecData(u, form)
      BY <2>3, <3>1, <3>3 DEF HdH264Extra, t, u
    <3>8. /\ Same(y, u, {"send_cb", "misread"}) /\ (y.misread <=> u.misread)
      BY <3>2, <3>5, <3>6, <3>7, SendCodecDataPasses
    <3>9. /\ y.node = n.node /\ y.codec = n.codec /\ y.sink = n.sink
          /\ y.st = u.st /\ y.lol = t.d.lol
      BY <3>4, <3>8 DEF Same, DecFields
    <3> QED
      BY <1>1, <1>5, <2>1, <2>3, <2>5, <3>2, <3>4, <3>8, <3>9 DEF ReadsAs, y, HdH264
  <2> QED
    BY <2>1, <2>4, <2>5
<1>6. CASE n.sink.name \in {"h263", "mpeg4", "divx"}
  <2>1. /\ n.codec \in {"mp4vdec", "hdmp4vdec"}
        /\ n.node.stream = IF n.sink.name = "h263" THEN "h263" ELSE "mpeg4"
        /\ data = NoBuf \/ data.form = "mpeg4"
    <3>1. data.form \in {"none", "mpeg4"}
      BY <1>6 DEF Fits, NoBuf
    <3>2. data.form = "none" => data = NoBuf
      BY <1>1, BufferParts
    <3> QED
      BY <1>6, <3>1, <3>2 DEF NewNode
  <2>2. CASE data = NoBuf
    <3>1. y = n
      BY <1>1, <2>2 DEF HandleExtraData, y
    <3> QED
      BY <1>1, <1>6, <2>1, <3>1 DEF ReadsAs, NewNode, y
  <2>3. CASE data # NoBuf
    <3>1. y = SendCodecData(used, "mpeg4")
      BY <1>1, <2>1, <2>3 DEF HandleExtraData, HdH264, y, used
    <3>2. ASSUME ~Foreign(y)
          PROVE  ~y.misread /\ ReadsAs(y)
      <4>1. ~Foreign(used) /\ used.codec # "wmvdec"
        BY <1>2, <1>3, <2>1, <3>1, <3>2, SendCodecDataPasses
      <4>2. used.send_cb # "h264dec" \/ used.lol = 0
        BY <1>3, <2>1, <4>1 DEF Foreign
      <4>3. Same(y, used, {"send_cb", "misread"}) /\ (y.misread <=> used.misread)
        BY <1>2, <3>1, <4>1, <4>2, SendCodecDataPasses
      <4>4. y.node = n.node /\ y.codec = n.codec /\ y.sink = n.sink
        BY <1>3, <4>3 DEF Same, DecFields
      <4> QED
        BY <1>1, <1>3, <1>6, <2>1, <4>3, <4>4 DEF ReadsAs
    <3> QED
      BY <3>2 DEF y
  <2> QED
    BY <2>2, <2>3
<1>7. CASE n.sink.name = "wmv"
  <2>1. /\ n.codec = "wmvdec" /\ n.send_cb = "wmvdec" /\ (n.vc1 <=> n.sink.vc1)
        /\ n.node.stream = IF n.vc1 THEN "vc1" ELSE "wmv3"
        /\ n.vc1 => data.form = "seq"
        /\ data.form \in {"none", "seq"}
    BY <1>7 DEF NewNode, Fits
  <2>2. CASE data = NoBuf
    <3>1. y = n
      BY <1>1, <2>2 DEF HandleExtraData, y
    <3> QED
      BY <1>1, <1>7, <2>1, <3>1 DEF ReadsAs, y
  <2>3. CASE data # NoBuf /\ n.vc1
    <3>1. y = [used EXCEPT !.codec_data = data]
      BY <1>1, <1>3, <2>1, <2>3 DEF HandleExtraData, HdH264, WmvExtra, y, used
    <3>2. Same(y, used, {"codec_data"}) /\ y.codec_data = data
      BY <1>2, <3>1 DEF Same, DecFields
    <3>3. /\ y.node = n.node /\ y.codec = n.codec /\ y.sink = n.sink /\ y.send_cb = n.send_cb
          /\ y.vc1 = n.vc1 /\ y.misread = n.misread /\ y.sent = n.sent
      BY <1>3, <3>2 DEF Same, DecFields
    <3> QED
      BY <1>1, <1>7, <2>1, <3>2, <3>3 DEF ReadsAs, y
  <2>4. CASE data # NoBuf /\ ~n.vc1
    <3>1. data.form = "seq"
      <4>1. data.form = "none" => data = NoBuf
        BY <1>1, BufferParts
      <4> QED
        BY <2>1, <2>4, <4>1
    <3>2. y = SendCodecData(used, "seq")
      BY <1>1, <1>3, <2>1, <2>4, <3>1 DEF HandleExtraData, HdH264, WmvExtra, y, used
    <3>3. Same(y, used, {"misread"}) /\ (y.misread <=> used.misread)
      BY <1>2, <1>3, <2>1, <2>4, <3>2, SendCodecDataPasses
    <3>4. /\ y.node = n.node /\ y.codec = n.codec /\ y.sink = n.sink /\ y.send_cb = n.send_cb
          /\ y.vc1 = n.vc1
      BY <1>3, <3>3 DEF Same, DecFields
    <3> QED
      BY <1>1, <1>3, <1>7, <2>1, <2>4, <3>3, <3>4 DEF ReadsAs, y
  <2> QED
    BY <2>2, <2>3, <2>4
<1> QED
  BY <1>1, <1>4, <1>5, <1>6, <1>7

(* A decoder that has failed before it had a node *)
LEMMA FailedWithoutNode ==
  ASSUME NEW x, Base(x), x.node = NoNode, x.sink # NoCaps, ~x.dead,
         NEW y, DOMAIN y = DecFields, y.dead, y.width \in Nat, y.height \in Nat,
         Same(y, x, ParseFields \cup {"src", "alg", "codec", "dead"})
  PROVE  Base(y)
<1>1. /\ y.node = x.node /\ y.rooms = x.rooms /\ y.done = x.done /\ y.misread = x.misread
      /\ y.sink = x.sink /\ y.codec_data = x.codec_data /\ y.parse_func = x.parse_func
      /\ y.stale = x.stale
  BY DEF Same, DecFields, ParseFields
<1>2. DecTypes(y) /\ Idle(y) /\ ~y.misread
  BY <1>1 DEF Base, DecTypes, Idle
<1>3. Chosen(y) /\ NodeSizes(y) /\ Frames(y) /\ Watches(y) /\ Misread(y) /\ Reads(y)
  BY <1>1, <1>2 DEF Chosen, NodeSizes, Frames, Watches, Misread, Reads
<1>4. Data(y)
  BY <1>1 DEF Base, Data
<1> QED
  BY <1>2, <1>3, <1>4 DEF Base

(* A node is created; for a byte stream with the size of its SPS. *)
LEMMA InitNodeKeeps ==
  ASSUME NEW x, Base(x), x.sink # NoCaps, x.node = NoNode, ~x.dead,
         NEW buf, Fits(x.sink, buf)
  PROVE  LET y == InitNode(x, buf) IN
         /\ Base(y) /\ (y.node = NoNode => y.dead)
         /\ y.node # NoNode => (y.alg \in H264Decoders <=> x.sink.name = "h264")
         /\ y.node # NoNode /\ x.sink.data = NoBuf /\ ~x.stale => ~y.dead
         /\ y.sink = x.sink /\ y.seen = x.seen /\ y.stale = x.stale /\ y.board = x.board
         /\ y.kept = x.kept
         /\ y.node # NoNode /\ x.sink.name = "h264" /\ x.sink.data = NoBuf /\ ~x.stale
              /\ buf.head # NoHead /\ SpsSize(buf.head).ok =>
              y.node.w = SpsSize(buf.head).w /\ y.node.h = SpsSize(buf.head).h
<1> DEFINE y == InitNode(x, buf)
           p == ParseHeaders(x, buf)
           f == WithCodec(x, buf)
           n == WithNode(f)
           caps == x.sink
<1>1. /\ DOMAIN x = DecFields /\ caps \in VideoCaps /\ x.parse_func \in Parsers
      /\ x.codec_data \in Buffers \cup {NoBuf} /\ buf \in Buffers
      /\ CapsKnown(x) /\ Rounded(x) /\ CodecChosen(x, caps)
      /\ caps.name \in {"h264", "h263", "mpeg4", "divx", "wmv"}
      /\ x.rooms = <<>> /\ x.done = <<>> /\ ~x.misread
  BY VideoCapsParts DEF Base, DecTypes, Chosen, Idle, Fits
<1>2. /\ DOMAIN p = DecFields /\ Same(p, x, ParseFields) /\ CapsKnown(p)
      /\ p.ih \in {x.ih, p.height}
      /\ x.parse_func = "h264" =>
           /\ p.lol = x.lol
           /\ Rounded(x) => Rounded(p)
           /\ x.codec_data # NoBuf /\ x.codec_data.form \in {"avcC", "nal"}
                /\ x.codec_data.head # NoHead /\ SpsSize(x.codec_data.head).ok =>
                p.parsed /\ (p.is_avc <=> x.codec_data.form = "avcC")
           /\ x.codec_data = NoBuf /\ buf.form = "nal" =>
                /\ ~(p.parsed /\ p.is_avc)
                /\ buf.head # NoHead /\ SpsSize(buf.head).ok =>
                     /\ p.width = SpsSize(buf.head).w /\ p.height = SpsSize(buf.head).h
                     /\ p.ih = p.height
  <2>1. ~x.parsed
    BY <1>1 DEF CodecChosen
  <2> QED
    BY <1>1, <2>1, ParseHeadersIs
<1>3. /\ DOMAIN f = DecFields
      /\ Same(f, p, {"src", "alg", "codec"})
      /\ Same(f, x, ParseFields \cup {"src", "alg", "codec"})
      /\ CapsKnown(f) /\ f.src = f.tmp
      /\ f.ih \in {x.ih, f.height}
      /\ caps.name = "h264" => f.alg \in H264Decoders /\ f.codec \in HdH264 \cup {"h264dec"}
      /\ caps.name # "h264" => f.alg \notin H264Decoders
                               /\ f.codec \in {"mp4vdec", "hdmp4vdec", "wmvdec"}
      /\ caps.name = "wmv" <=> f.codec = "wmvdec"
      /\ x.board.force = "unset" /\ caps.name = "h263" =>
           \/ f.codec = "mp4vdec" /\ f.alg = "H263DEC"
           \/ f.codec = "hdmp4vdec" /\ f.profile = 1
      /\ x.board.force = "unset" /\ caps.name \in {"mpeg4", "divx"} =>
           (f.codec = "mp4vdec" => f.alg # "H263DEC") /\ f.profile = 0
  BY <1>1, WithCodecIs
<1>4. y = IF p.obs = 0 THEN [p EXCEPT !.src = p.tmp, !.dead = TRUE]
          ELSE IF ~Installed(f, f.codec) THEN [f EXCEPT !.dead = TRUE]
          ELSE HandleExtraData(n)
  BY <1>1, InitNodeIs
<1>5. /\ DOMAIN n = DecFields
      /\ Same(n, f, {"send_cb", "pre", "node", "primed", "unprimed", "rooms"})
      /\ n.send_cb = (IF f.codec = "mp4vdec" THEN f.send_cb ELSE f.codec)
      /\ f.codec \in HdH264 \cup {"h264dec"} => n.pre
      /\ ~n.primed /\ n.unprimed = f.sent
      /\ n.rooms = [i \in 1 .. OutBuffers |-> f.obs]
      /\ n.node # NoNode /\ n.node.codec = f.codec /\ n.node.w = f.width /\ n.node.color = f.color
      /\ \/ n.node.h = f.height
         \/ f.codec \notin {"mp4vdec", "hdmp4vdec", "wmvdec"} /\ f.ih # 0 /\ n.node.h = f.ih
      /\ n.node.stream = CASE f.codec = "mp4vdec" -> IF f.alg = "H263DEC" THEN "h263" ELSE "mpeg4"
                           [] f.codec = "hdmp4vdec" -> IF f.profile = 1 THEN "h263" ELSE "mpeg4"
                           [] f.codec = "wmvdec" -> IF f.vc1 THEN "vc1" ELSE "wmv3"
                           [] OTHER -> "h264"
  BY <1>3, WithNodeIs
<1> HIDE DEF y, p, f, n
<1>6. CASE p.obs = 0
  <2>1. y = [p EXCEPT !.src = p.tmp, !.dead = TRUE]
    BY <1>4, <1>6
  <2>2. /\ DOMAIN y = DecFields /\ Same(y, p, {"src", "dead"}) /\ y.dead
    BY <1>2, <2>1 DEF Same, DecFields
  <2>3. /\ y.width = p.width /\ y.height = p.height
        /\ Same(y, x, ParseFields \cup {"src", "alg", "codec", "dead"})
    BY <1>2, <2>2 DEF Same, DecFields
  <2>4. y.width \in Nat /\ y.height \in Nat
    BY <1>2, <2>3 DEF CapsKnown
  <2>5. /\ y.sink = x.sink /\ y.seen = x.seen /\ y.stale = x.stale /\ y.board = x.board
        /\ y.kept = x.kept /\ y.node = NoNode
    BY <2>3 DEF Same, DecFields, ParseFields
  <2> QED
    BY <2>2, <2>3, <2>4, <2>5, FailedWithoutNode DEF y
<1>7. CASE p.obs # 0 /\ ~Installed(f, f.codec)
  <2>1. y = [f EXCEPT !.dead = TRUE]
    BY <1>4, <1>7
  <2>2. /\ DOMAIN y = DecFields /\ Same(y, f, {"dead"}) /\ y.dead
    BY <1>3, <2>1 DEF Same, DecFields
  <2>3. /\ y.width = f.width /\ y.height = f.height
        /\ Same(y, x, ParseFields \cup {"src", "alg", "codec", "dead"})
    BY <1>3, <2>2 DEF Same, DecFields
  <2>4. y.width \in Nat /\ y.height \in Nat
    BY <1>3, <2>3 DEF CapsKnown
  <2>5. /\ y.sink = x.sink /\ y.seen = x.seen /\ y.stale = x.stale /\ y.board = x.board
        /\ y.kept = x.kept /\ y.node = NoNode
    BY <2>3 DEF Same, DecFields, ParseFields
  <2> QED
    BY <2>2, <2>3, <2>4, <2>5, FailedWithoutNode DEF y
<1>8. CASE p.obs # 0 /\ Installed(f, f.codec)
  <2>1. /\ DOMAIN y = DecFields /\ Same(y, n, ExtraFields)
        /\ n.codec_data = NoBuf => y = n
        /\ y.codec_data \in {n.codec_data, NoBuf}
    <3>1. y = HandleExtraData(n)
      BY <1>4, <1>8
    <3> QED
      BY <1>5, <3>1, HandleExtraDataIs
  <2>2. /\ f.obs = p.obs /\ f.width = p.width /\ f.height = p.height /\ f.lol = p.lol
        /\ f.ih = p.ih /\ f.is_avc = p.is_avc /\ f.parsed = p.parsed
    BY <1>3 DEF Same, DecFields
  <2>3. /\ f.sink = x.sink /\ f.seen = x.seen /\ f.stale = x.stale /\ f.board = x.board
        /\ f.kept = x.kept /\ f.codec_data = x.codec_data /\ f.parse_func = x.parse_func
        /\ f.done = x.done /\ f.misread = x.misread /\ f.sent = x.sent /\ f.st = x.st
        /\ f.vc1 = x.vc1 /\ f.dead = x.dead /\ f.recrop = x.recrop
    BY <1>3 DEF Same, DecFields, ParseFields
  <2>4. /\ n.width = f.width /\ n.height = f.height /\ n.cw = f.cw /\ n.ch = f.ch
        /\ n.obs = f.obs /\ n.color = f.color /\ n.board = f.board /\ n.src = f.src
        /\ n.alg = f.alg /\ n.codec = f.codec /\ n.parsed = f.parsed /\ n.is_avc = f.is_avc
        /\ n.lol = f.lol /\ n.st = f.st /\ n.vc1 = f.vc1 /\ n.sent = f.sent /\ n.dead = f.dead
        /\ n.sink = f.sink /\ n.seen = f.seen /\ n.stale = f.stale /\ n.kept = f.kept
        /\ n.codec_data = f.codec_data /\ n.parse_func = f.parse_func /\ n.done = f.done
        /\ n.misread = f.misread /\ n.recrop = f.recrop
    BY <1>5 DEF Same, DecFields
  <2>5. /\ y.width = n.width /\ y.height = n.height /\ y.cw = n.cw /\ y.ch = n.ch
        /\ y.obs = n.obs /\ y.color = n.color /\ y.board = n.board /\ y.src = n.src
        /\ y.alg = n.alg /\ y.codec = n.codec /\ y.parsed = n.parsed /\ y.is_avc = n.is_avc
        /\ y.sink = n.sink /\ y.seen = n.seen /\ y.stale = n.stale /\ y.kept = n.kept
        /\ y.parse_func = n.parse_func /\ y.done = n.done /\ y.rooms = n.rooms
        /\ y.node = n.node /\ y.pre = n.pre /\ y.unprimed = n.unprimed /\ y.recrop = n.recrop
    BY <2>1 DEF Same, DecFields, ExtraFields, SendFields
  <2>6. /\ f.cw \in Nat /\ f.ch \in Nat /\ f.width \in Nat /\ f.height \in Nat
        /\ f.tmp \in RawCaps /\ f.tmp.w = f.cw /\ f.tmp.h = f.ch /\ f.tmp.color = f.color
        /\ f.cw <= f.width /\ f.ch <= f.height
        /\ f.obs = Bytes(f.color, f.width, f.height) /\ f.color = ColorOf(f.board)
    BY <1>3 DEF CapsKnown, Cropped
  <2>7. n.node.h = f.height
    <3>1. caps.name = "h264" => x.ih = 0
      BY <1>1 DEF CodecChosen
    <3> QED
      BY <1>3, <1>5, <3>1
  <2>8. DecTypes(y)
    BY <1>1, <2>1, <2>3, <2>4, <2>5, <2>6 DEF DecTypes
  <2>9. y.node # NoNode /\ Idle(y) /\ Chosen(y)
    BY <1>5, <2>5 DEF Idle, Chosen
  <2>10. NodeSizes(y)
    <3>1. /\ y.src \in RawCaps /\ y.src.w = f.cw /\ y.src.h = f.ch /\ y.src.color = f.color
      BY <1>3, <2>4, <2>5, <2>6
    <3>2. y.node.w = f.width /\ y.node.h = f.height /\ y.node.color = f.color
      BY <1>5, <2>5, <2>7
    <3> QED
      BY <2>3, <2>4, <2>5, <2>6, <3>1, <3>2 DEF NodeSizes
  <2>11. Frames(y)
    <3>1. Needed(y) = f.obs /\ f.obs \in Nat
      <4>1. Needed(y) = Bytes(f.color, f.width, f.height)
        BY <1>5, <2>5, <2>7 DEF Needed
      <4> QED
        BY <2>6, <4>1, BytesMonotonic
    <3>2. y.rooms = [i \in 1 .. OutBuffers |-> f.obs] /\ y.done = <<>>
      BY <1>1, <1>5, <2>3, <2>4, <2>5
    <3>3. y.rooms \in Seq(Nat) /\ \A i \in DOMAIN y.rooms : y.rooms[i] = f.obs
      BY <3>1, <3>2, OutBuffersAssumption
    <3> QED
      BY <3>1, <3>2, <3>3 DEF Frames
  <2>12. Data(y)
    <3>1. x.sink # NoCaps /\ ~x.stale /\ x.sink.data = NoBuf => x.codec_data = NoBuf
      BY DEF Base, Data
    <3> QED
      BY <2>1, <2>3, <2>4, <2>5, <2>9, <3>1 DEF Data
  <2>13. caps.name = "h264" /\ ~x.stale /\ caps.data = NoBuf =>
           /\ x.codec_data = NoBuf /\ buf.form = "nal" /\ x.parse_func = "h264"
    BY <1>1 DEF Base, Data, Fits, CodecChosen
  <2>14. Watches(y)
    <3>1. SUFFICES ASSUME y.alg \in H264Decoders PROVE Watches(y)
      BY DEF Watches
    <3>2. caps.name = "h264" /\ x.parse_func = "h264"
      BY <1>1, <1>3, <2>4, <2>5, <3>1 DEF CodecChosen
    <3>3. Rounded(y)
      BY <1>1, <1>2, <2>2, <2>4, <2>5, <3>2 DEF Rounded
    <3>4. f.width # 0 /\ f.height # 0
      BY <1>8, <2>2, <2>6, NoBytes
    <3>5. ~y.kept /\ ~y.stale /\ y.sink.data = NoBuf => ~(y.parsed /\ y.is_avc)
      BY <1>2, <2>2, <2>3, <2>4, <2>5, <2>13, <3>2
    <3> QED
      BY <1>3, <1>5, <2>4, <2>5, <2>7, <3>2, <3>3, <3>4, <3>5 DEF Watches
  <2>15. ~Excused(y) => ~y.misread /\ ReadsAs(y)
    <3>1. SUFFICES ASSUME ~Excused(y) PROVE ~y.misread /\ ReadsAs(y)
      OBVIOUS
    <3>2. ~Foreign(y) /\ ~y.stale /\ ~y.unprimed /\ y.board.force = "unset"
      BY <3>1 DEF Excused
    <3>3. ~x.stale /\ ~n.sent /\ ~n.misread /\ ~n.dead /\ x.board.force = "unset"
      BY <1>1, <1>5, <2>3, <2>4, <2>5, <3>2
    <3>4. n.codec_data = n.sink.data /\ n.sink = caps
      BY <2>3, <2>4, <3>3 DEF Base, Data
    <3>5. CASE caps.name = "h264"
      <4>1. /\ x.parse_func = "h264" /\ x.lol = 0 /\ x.st = 0
        BY <1>1, <3>5 DEF CodecChosen
      <4>2. n.lol = 0 /\ n.st = 0
        BY <1>2, <2>2, <2>3, <2>4, <4>1
      <4>3. caps.data # NoBuf => (n.is_avc <=> caps.data.form = "avcC")
        <5>1. caps.data # NoBuf =>
                /\ caps.data.form \in {"nal", "avcC"}
                /\ caps.data.head # NoHead /\ SpsSize(caps.data.head).ok
          BY <3>5 DEF Fits
        <5>2. x.codec_data = caps.data
          BY <2>3, <2>4, <3>4
        <5> QED
          BY <1>2, <2>2, <2>4, <4>1, <5>1, <5>2
      <4>4. n.codec \in HdH264 \cup {"h264dec"} /\ n.send_cb = n.codec /\ n.node.stream = "h264"
        BY <1>3, <1>5, <2>4, <3>5 DEF HdH264
      <4>5. NewNode(n)
        BY <1>5, <2>4, <3>3, <3>4, <3>5, <4>2, <4>3, <4>4 DEF NewNode
      <4> QED
        BY <1>1, <1>4, <1>8, <3>2, <3>4, <4>5, ExtraReads
    <3>6. CASE caps.name \in {"h263", "mpeg4", "divx"}
      <4>1. /\ n.codec \in {"mp4vdec", "hdmp4vdec"}
            /\ n.node.stream = IF caps.name = "h263" THEN "h263" ELSE "mpeg4"
        BY <1>3, <1>5, <2>4, <3>3, <3>6
      <4>2. NewNode(n)
        BY <1>5, <2>4, <3>3, <3>4, <3>6, <4>1 DEF NewNode
      <4> QED
        BY <1>1, <1>4, <1>8, <3>2, <3>4, <4>2, ExtraReads
    <3>7. CASE caps.name = "wmv"
      <4>1. /\ n.codec = "wmvdec" /\ n.send_cb = "wmvdec" /\ (n.vc1 <=> caps.vc1)
            /\ n.node.stream = IF n.vc1 THEN "vc1" ELSE "wmv3"
        BY <1>1, <1>3, <1>5, <2>3, <2>4, <3>7 DEF CodecChosen
      <4>2. NewNode(n)
        BY <1>5, <2>4, <3>3, <3>4, <3>7, <4>1 DEF NewNode
      <4> QED
        BY <1>1, <1>4, <1>8, <3>2, <3>4, <4>2, ExtraReads
    <3> QED
      BY <1>1, <3>5, <3>6, <3>7
  <2>16. Base(y)
    BY <2>8, <2>9, <2>10, <2>11, <2>12, <2>14, <2>15 DEF Base, Misread, Reads
  <2>17. x.sink.name = "h264" /\ x.sink.data = NoBuf /\ ~x.stale
              /\ buf.head # NoHead /\ SpsSize(buf.head).ok =>
              y.node.w = SpsSize(buf.head).w /\ y.node.h = SpsSize(buf.head).h
    BY <1>2, <1>5, <2>2, <2>5, <2>7, <2>13
  <2>18. y.alg \in H264Decoders <=> x.sink.name = "h264"
    BY <1>3, <2>4, <2>5
  <2>19. x.sink.data = NoBuf /\ ~x.stale => ~y.dead
    BY <2>1, <2>3, <2>4 DEF Base, Data
  <2> QED
    BY <2>3, <2>4, <2>5, <2>9, <2>16, <2>17, <2>18, <2>19 DEF y
<1> QED
  BY <1>6, <1>7, <1>8

-----------------------------------------------------------------------------
(* pad_chain, and the size in the last SPS *)

Seen(x) ==
  /\ x.seen # NoSize => x.sink # NoCaps /\ x.sink.data = NoBuf
  /\ x.sink # NoCaps /\ x.node = NoNode /\ ~x.dead => x.seen = NoSize
  /\ x.node # NoNode /\ x.seen # NoSize =>
       <<x.node.w, x.node.h>> = x.seen \/ x.stale \/ (x.kept /\ x.parsed /\ x.is_avc)

(* Caps of the same stream *)
SameStream(a, b) ==
  a \in VideoCaps /\ a.name = b.name /\ a.data = b.data /\ a.vc1 = b.vc1

(* A buffer that fits caps fits all caps of their stream. *)
LEMMA FitsStream ==
  ASSUME NEW a, NEW b \in VideoCaps, SameStream(a, b), NEW buf, Fits(b, buf)
  PROVE  Fits(a, buf)
BY DEF Fits, SameStream

(* Caps come with the stream or with a buffer. *)
LEMMA NewCapsKeep ==
  ASSUME NEW x, Base(x), NEW caps \in VideoCaps, NEW reset \in NodeResets(x, caps)
  PROVE  LET y == [SetCaps(x, caps, reset) EXCEPT !.seen = NoSize] IN
         /\ Base(y) /\ Seen(y) /\ y.sink = caps /\ y.board = x.board /\ y.dead = x.dead
<1> DEFINE c == SetCaps(x, caps, reset)
           y == [c EXCEPT !.seen = NoSize]
<1>1. reset \in BOOLEAN /\ (Keeps(x, reset) => Width(x, caps) = x.width /\ Height(x, caps) = x.height)
  BY VideoCapsParts DEF NodeResets, Keeps, Width, Height
<1>2. /\ Base(c) /\ c.sink = caps
      /\ Same(c, x, {"sink", "kept", "codec_data", "stale", "recrop", "node", "rooms",
                     "done", "flight", "misread"} \cup SizeFields \cup ChosenFields)
  BY <1>1, SetCapsKeeps
<1> HIDE DEF c
<1>3. Base(y) /\ Same(y, c, {"seen"}) /\ y.seen = NoSize
  BY <1>2, SeenKeeps
<1> HIDE DEF y
<1>4. y.sink = caps /\ y.board = x.board /\ y.dead = x.dead
  BY <1>2, <1>3 DEF Same, DecFields, SizeFields, ChosenFields
<1>5. Seen(y)
  BY <1>3 DEF Seen
<1> QED
  BY <1>3, <1>4, <1>5 DEF y, c

(* check_stream_params: the node has the size of the SPS, or is gone. *)
LEMMA CheckStreamParamsKeeps ==
  ASSUME NEW x, Base(x), Seen(x), x.sink # NoCaps, ~x.dead, NEW buf, Fits(x.sink, buf)
  PROVE  LET y == CheckStreamParams(x, buf) IN
         /\ Base(y) /\ SameStream(y.sink, x.sink) /\ y.sink # NoCaps
         /\ y.board = x.board /\ ~y.dead /\ y.seen = x.seen
         /\ \/ /\ y = x
               /\ x.node # NoNode /\ x.alg \in H264Decoders /\ Found(x, buf) =>
                    x.node.w = SpsSize(buf.head).w /\ x.node.h = SpsSize(buf.head).h
            \/ /\ y.node = NoNode /\ x.sink.name = "h264"
               /\ buf.form = "nal" /\ buf.head # NoHead /\ SpsSize(buf.head).ok
<1> DEFINE p == ParseAs("h264", x, buf)
           v == p.v
           caps == [x.sink EXCEPT !.w = v.width, !.h = v.height]
           y == CheckStreamParams(x, buf)
<1>1. /\ DOMAIN x = DecFields /\ x.sink \in VideoCaps /\ buf \in Buffers
      /\ x.sink.name \in {"h264", "h263", "mpeg4", "divx", "wmv"}
  BY VideoCapsParts DEF Base, DecTypes, Fits
<1>2. /\ ~p.ok => v = x
      /\ p.ok => /\ Found(x, buf) /\ buf.form \in {"avcC", "nal"}
                 /\ v.width = SpsSize(buf.head).w /\ v.height = SpsSize(buf.head).h
                 /\ v.width # 0 /\ v.height # 0 /\ Sized(v, x)
      /\ buf.form \in {"avcC", "nal"} /\ Found(x, buf) => p.ok
  <2>1. "h264" \in Parsers
    BY DEF Parsers
  <2> QED
    BY <1>1, <2>1, ParseIs
<1>3. y = IF x.width = 0 \/ x.height = 0 \/ <<v.width, v.height>> = <<x.width, x.height>>
          THEN x ELSE SetCaps(x, caps, x.node # NoNode)
  BY DEF CheckStreamParams
<1> HIDE DEF p, y
<1>4. p.ok => x.sink.name = "h264" /\ buf.form = "nal" /\ buf.head # NoHead /\ SpsSize(buf.head).ok
  BY <1>1, <1>2 DEF Fits, Found
<1>5. CASE x.width = 0 \/ x.height = 0 \/ <<v.width, v.height>> = <<x.width, x.height>>
  <2>1. y = x
    BY <1>3, <1>5
  <2>2. ASSUME x.node # NoNode, x.alg \in H264Decoders, Found(x, buf)
        PROVE  x.node.w = SpsSize(buf.head).w /\ x.node.h = SpsSize(buf.head).h
    <3>1. x.width # 0 /\ x.height # 0 /\ x.node.w = x.width /\ x.node.h = x.height
      BY <2>2 DEF Base, Watches
    <3>2. buf.form \in {"avcC", "nal"}
      BY <2>2 DEF Found
    <3>3. p.ok
      BY <1>2, <2>2, <3>2
    <3> QED
      BY <1>2, <1>5, <3>1, <3>3
  <2> QED
    BY <1>1, <2>1, <2>2 DEF SameStream, y
<1>6. CASE ~(x.width = 0 \/ x.height = 0 \/ <<v.width, v.height>> = <<x.width, x.height>>)
  <2> DEFINE reset == x.node # NoNode
  <2>1. p.ok
    BY <1>2, <1>6
  <2>2. /\ caps \in VideoCaps /\ caps # NoCaps /\ SameStream(caps, x.sink)
    <3>1. v.width \in Nat \ {0} /\ v.height \in Nat \ {0}
      BY <1>2, <2>1 DEF Sized
    <3> HIDE DEF v
    <3>2. /\ caps \in VideoCaps
          /\ caps.name = x.sink.name /\ caps.data = x.sink.data /\ caps.vc1 = x.sink.vc1
      BY <1>1, <3>1 DEF VideoCaps
    <3> HIDE DEF caps
    <3> QED
      BY <3>2, VideoCapsParts DEF SameStream
  <2> HIDE DEF caps
  <2>3. reset \in BOOLEAN /\ ~Keeps(x, reset)
    BY DEF Keeps
  <2>4. y = SetCaps(x, caps, reset)
    BY <1>3, <1>6
  <2> HIDE DEF reset
  <2>5. /\ Base(y) /\ y.sink = caps /\ y.node = NoNode
        /\ Same(y, x, {"sink", "kept", "codec_data", "stale", "recrop", "node", "rooms",
                       "done", "flight", "misread"} \cup SizeFields \cup ChosenFields)
    BY <2>2, <2>3, <2>4, SetCapsKeeps
  <2>6. y.board = x.board /\ y.dead = x.dead /\ y.seen = x.seen
    BY <2>5 DEF Same, DecFields, SizeFields, ChosenFields
  <2> QED
    BY <1>4, <2>1, <2>2, <2>5, <2>6 DEF y
<1> QED
  BY <1>5, <1>6

(* The size Note has seen, if it has looked *)
Looks(x, buf) ==
  /\ buf.form = "nal" /\ buf.head # NoHead /\ SpsSize(buf.head).ok
  /\ x.alg \in H264Decoders /\ x.sink.data = NoBuf

(* The last SPS is noted. *)
LEMMA NoteKeeps ==
  ASSUME NEW x, Base(x), NEW buf
  PROVE  LET y == Note(x, buf) IN
         /\ Base(y) /\ Same(y, x, {"seen"})
         /\ y.seen = IF Looks(x, buf) THEN <<SpsSize(buf.head).w, SpsSize(buf.head).h>>
                     ELSE x.seen
<1> DEFINE size == SpsSize(buf.head)
           look == /\ buf.form = "nal" /\ buf.head # NoHead
                   /\ x.alg \in {"HDH264VDEC", "H264DEC"} /\ x.sink.data = NoBuf
           y == Note(x, buf)
           z == [x EXCEPT !.seen = IF size.ok THEN <<size.w, size.h>> ELSE @]
<1>1. y = IF look THEN z ELSE x
  BY DEF Note
<1>2. DOMAIN x = DecFields
  BY DEF Base, DecTypes
<1>3. z = [x EXCEPT !.seen = IF size.ok THEN <<size.w, size.h>> ELSE x.seen]
  OBVIOUS
<1>4. /\ Base(z) /\ Same(z, x, {"seen"})
      /\ z.seen = IF size.ok THEN <<size.w, size.h>> ELSE x.seen
  BY <1>3, SeenKeeps
<1> HIDE DEF z, y
<1>5. Looks(x, buf) <=> look /\ size.ok
  BY DEF Looks, H264Decoders
<1> QED
  BY <1>1, <1>4, <1>5 DEF Same, y

(* A buffer comes in (pad_chain). *)
LEMMA ChainKeeps ==
  ASSUME NEW x, Base(x), Seen(x), x.sink # NoCaps, ~x.dead, NEW buf, Fits(x.sink, buf)
  PROVE  LET y == Chain(x, buf) IN
         /\ Base(y) /\ Seen(y) /\ SameStream(y.sink, x.sink) /\ y.sink # NoCaps
         /\ y.board = x.board
<1> DEFINE c == IF x.pre THEN CheckStreamParams(x, buf) ELSE x
           n == IF c.node = NoNode THEN InitNode(c, buf) ELSE c
           s == [SendBuffer(n, buf) EXCEPT !.flight = @ + 1]
           y == Chain(x, buf)
<1>1. x.sink \in VideoCaps
  BY DEF Base, DecTypes
<1>2. /\ Base(c) /\ SameStream(c.sink, x.sink) /\ c.sink # NoCaps
      /\ c.board = x.board /\ ~c.dead /\ c.seen = x.seen
      /\ \/ /\ c = x
            /\ x.node # NoNode /\ x.alg \in H264Decoders /\ Found(x, buf) =>
                 x.node.w = SpsSize(buf.head).w /\ x.node.h = SpsSize(buf.head).h
         \/ /\ c.node = NoNode /\ x.sink.name = "h264"
            /\ buf.form = "nal" /\ buf.head # NoHead /\ SpsSize(buf.head).ok
  <2>1. CASE x.pre
    BY <2>1, CheckStreamParamsKeeps
  <2>2. CASE ~x.pre
    <3>1. ~(x.node # NoNode /\ x.alg \in H264Decoders)
      BY <2>2 DEF Base, Watches
    <3> QED
      BY <1>1, <2>2, <3>1 DEF SameStream
  <2> QED
    BY <2>1, <2>2
<1> HIDE DEF c
<1>3. Fits(c.sink, buf) /\ c.sink \in VideoCaps /\ c.sink.name = x.sink.name /\ c.sink.data = x.sink.data
  BY <1>1, <1>2, FitsStream DEF SameStream
<1>4. /\ Base(n) /\ (n.node = NoNode => n.dead) /\ n.sink = c.sink
      /\ n.board = x.board /\ n.seen = x.seen /\ n.stale = c.stale /\ n.kept = c.kept
      /\ \/ /\ n = x /\ x.node # NoNode
            /\ x.alg \in H264Decoders /\ Found(x, buf) =>
                 x.node.w = SpsSize(buf.head).w /\ x.node.h = SpsSize(buf.head).h
         \/ /\ x.seen = NoSize \/ (x.sink.name = "h264" /\ buf.form = "nal"
                                     /\ buf.head # NoHead /\ SpsSize(buf.head).ok)
            /\ n.node # NoNode => (n.alg \in H264Decoders <=> n.sink.name = "h264")
            /\ n.node # NoNode /\ n.sink.data = NoBuf /\ ~n.stale => ~n.dead
            /\ n.node # NoNode /\ n.sink.name = "h264" /\ n.sink.data = NoBuf /\ ~n.stale
                 /\ buf.head # NoHead /\ SpsSize(buf.head).ok =>
                 n.node.w = SpsSize(buf.head).w /\ n.node.h = SpsSize(buf.head).h
  <2>1. CASE c.node = NoNode
    <3>1. n = InitNode(c, buf)
      BY <2>1
    <3> HIDE DEF n
    <3>2. x.seen = NoSize \/ (x.sink.name = "h264" /\ buf.form = "nal"
                                /\ buf.head # NoHead /\ SpsSize(buf.head).ok)
      BY <1>2, <2>1 DEF Seen
    <3> QED
      BY <1>2, <1>3, <2>1, <3>1, <3>2, InitNodeKeeps
  <2>2. CASE c.node # NoNode
    BY <1>2, <2>2
  <2> QED
    BY <2>1, <2>2
<1>5. y = IF n.dead THEN n ELSE Note(s, buf)
  BY DEF Chain, c
<1> HIDE DEF n
<1>6. CASE n.dead
  <2>1. y = n
    BY <1>5, <1>6
  <2>2. Seen(n)
    <3>1. n.seen # NoSize => n.sink # NoCaps /\ n.sink.data = NoBuf
      BY <1>2, <1>3, <1>4 DEF Seen
    <3>2. ASSUME n.node # NoNode, n.seen # NoSize
          PROVE  <<n.node.w, n.node.h>> = n.seen \/ n.stale \/ (n.kept /\ n.parsed /\ n.is_avc)
      <4>1. n = x \/ n.stale
        BY <1>4, <1>6, <3>1, <3>2
      <4> QED
        BY <3>2, <4>1 DEF Seen
    <3> QED
      BY <1>6, <3>1, <3>2 DEF Seen
  <2> QED
    BY <1>2, <1>4, <2>1, <2>2 DEF y
<1>7. CASE ~n.dead
  <2>1. n.node # NoNode /\ Fits(n.sink, buf)
    BY <1>3, <1>4, <1>7
  <2>2. Base(s) /\ Same(s, n, SendFields \cup {"misread", "flight"})
    BY <1>4, <1>7, <2>1, SendBufferKeeps
  <2> HIDE DEF s
  <2>3. /\ Base(y) /\ Same(y, s, {"seen"})
        /\ y.seen = IF Looks(s, buf) THEN <<SpsSize(buf.head).w, SpsSize(buf.head).h>> ELSE s.seen
    BY <1>5, <1>7, <2>2, NoteKeeps
  <2> HIDE DEF y
  <2>4. /\ s.node = n.node /\ s.sink = n.sink /\ s.board = n.board /\ s.seen = n.seen
        /\ s.alg = n.alg /\ s.stale = n.stale /\ s.kept = n.kept /\ s.parsed = n.parsed
        /\ s.is_avc = n.is_avc
    BY <2>2 DEF Same, DecFields, SendFields
  <2>5. /\ y.node = s.node /\ y.sink = s.sink /\ y.board = s.board
        /\ y.stale = s.stale /\ y.kept = s.kept /\ y.parsed = s.parsed
        /\ y.is_avc = s.is_avc
    BY <2>3 DEF Same, DecFields
  <2>6. Looks(s, buf) <=> Looks(n, buf)
    BY <2>4 DEF Looks
  <2>7. y.seen # NoSize => y.sink # NoCaps /\ y.sink.data = NoBuf
    BY <1>2, <1>3, <1>4, <2>3, <2>4, <2>5, <2>6 DEF Seen, Looks
  <2>8. ASSUME y.seen # NoSize, ~y.stale
        PROVE  <<y.node.w, y.node.h>> = y.seen \/ (y.kept /\ y.parsed /\ y.is_avc)
    <3>1. CASE Looks(n, buf)
      <4>1. /\ y.seen = <<SpsSize(buf.head).w, SpsSize(buf.head).h>>
            /\ n.alg \in H264Decoders /\ n.sink.data = NoBuf /\ ~n.stale
            /\ buf.form = "nal" /\ buf.head # NoHead /\ SpsSize(buf.head).ok
        BY <2>3, <2>4, <2>5, <2>6, <2>8, <3>1 DEF Looks
      <4>2. CASE n = x /\ x.node # NoNode
                 /\ (x.alg \in H264Decoders /\ Found(x, buf) =>
                       x.node.w = SpsSize(buf.head).w /\ x.node.h = SpsSize(buf.head).h)
        <5>1. ~n.kept => ~(n.parsed /\ n.is_avc)
          BY <1>4, <2>1, <4>1 DEF Base, Watches
        <5>2. Found(x, buf) \/ (x.parsed /\ x.is_avc)
          BY <4>1 DEF Found
        <5> QED
          BY <2>4, <2>5, <4>1, <4>2, <5>1, <5>2
      <4>3. CASE /\ n.alg \in H264Decoders <=> n.sink.name = "h264"
                 /\ n.sink.name = "h264" /\ n.sink.data = NoBuf /\ ~n.stale
                      /\ buf.head # NoHead /\ SpsSize(buf.head).ok =>
                      n.node.w = SpsSize(buf.head).w /\ n.node.h = SpsSize(buf.head).h
        BY <2>4, <2>5, <4>1, <4>3
      <4> QED
        BY <1>4, <2>1, <4>2, <4>3
    <3>2. CASE ~Looks(n, buf)
      <4>1. y.seen = x.seen /\ x.seen # NoSize /\ n.sink.data = NoBuf
        BY <1>4, <2>3, <2>4, <2>5, <2>6, <2>7, <2>8, <3>2
      <4>2. n = x
        <5>1. SUFFICES ASSUME n # x PROVE FALSE
          OBVIOUS
        <5>2. /\ x.sink.name = "h264" /\ buf.form = "nal" /\ buf.head # NoHead /\ SpsSize(buf.head).ok
              /\ n.alg \in H264Decoders
          BY <1>3, <1>4, <2>1, <4>1, <5>1
        <5> QED
          BY <3>2, <4>1, <5>2 DEF Looks
      <4> QED
        BY <2>1, <2>4, <2>5, <2>8, <4>1, <4>2 DEF Seen
    <3> QED
      BY <3>1, <3>2
  <2>9. y.node # NoNode
    BY <2>1, <2>4, <2>5
  <2>10. Seen(y)
    BY <2>7, <2>8, <2>9 DEF Seen
  <2> QED
    BY <1>2, <1>4, <2>3, <2>4, <2>5, <2>10 DEF y
<1> QED
  BY <1>6, <1>7

-----------------------------------------------------------------------------
(* The decoder and its stream *)

Linked(x, s) ==
  IF s = NoStream THEN x.node = NoNode /\ x.sink = NoCaps /\ ~x.dead
  ELSE s \in Streams /\ x.sink # NoCaps /\ SameStream(x.sink, s.caps)

DecInv == Base(d) /\ Seen(d) /\ Linked(d, up)

(* A new decoder. *)
LEMMA NewDecBase ==
  ASSUME NEW board
  PROVE  Base(NewDec(board)) /\ Seen(NewDec(board)) /\ Linked(NewDec(board), NoStream)
<1> DEFINE x == NewDec(board)
<1>1. /\ DOMAIN x = DecFields /\ x.width = 0 /\ x.height = 0 /\ x.sink = NoCaps
      /\ x.codec_data = NoBuf /\ x.parse_func = "none" /\ x.node = NoNode
      /\ x.rooms = <<>> /\ x.done = <<>> /\ x.misread = FALSE /\ x.dead = FALSE
      /\ x.seen = NoSize
  BY DEF NewDec, DecFields
<1> HIDE DEF x
<1>2. DecTypes(x) /\ Idle(x)
  BY <1>1 DEF DecTypes, Parsers, Idle
<1>3. Chosen(x) /\ NodeSizes(x) /\ Frames(x) /\ Data(x) /\ Watches(x) /\ Misread(x) /\ Reads(x)
  BY <1>1 DEF Chosen, NodeSizes, Frames, Data, Watches, Misread, Reads
<1> QED
  BY <1>1, <1>2, <1>3 DEF Base, Seen, Linked, x

(* The decoder goes to READY and back. *)
LEMMA StopKeeps ==
  ASSUME NEW x, Base(x)
  PROVE  LET y == [StopNode(x) EXCEPT !.sink = NoCaps, !.src = NoCaps, !.seen = NoSize,
                                      !.dead = FALSE]
         IN  Base(y) /\ Seen(y) /\ Linked(y, NoStream) /\ y.board = x.board
<1> DEFINE s == StopNode(x)
           y == [s EXCEPT !.sink = NoCaps, !.src = NoCaps, !.seen = NoSize, !.dead = FALSE]
<1>1. DOMAIN x = DecFields
  BY DEF Base, DecTypes
<1>2. /\ DOMAIN s = DecFields
      /\ Same(s, x, {"node", "rooms", "done", "flight", "tmp", "kept", "recrop", "misread"})
      /\ s.node = NoNode /\ s.rooms = <<>> /\ s.done = <<>> /\ s.tmp = NoCaps /\ ~s.misread
  BY <1>1, StopNodeIs
<1> HIDE DEF s
<1>3. /\ DOMAIN y = DecFields /\ Same(y, s, {"sink", "src", "seen", "dead"})
      /\ y.sink = NoCaps /\ y.seen = NoSize /\ y.dead = FALSE
  BY <1>2 DEF Same, DecFields
<1> HIDE DEF y
<1>4. /\ y.node = NoNode /\ y.rooms = <<>> /\ y.done = <<>> /\ ~y.misread
      /\ y.width = x.width /\ y.height = x.height /\ y.codec_data = x.codec_data
      /\ y.parse_func = x.parse_func /\ y.board = x.board
  BY <1>2, <1>3 DEF Same, DecFields
<1>5. DecTypes(y) /\ Idle(y)
  BY <1>3, <1>4 DEF Base, DecTypes, Idle
<1>6. Chosen(y) /\ NodeSizes(y) /\ Frames(y) /\ Data(y) /\ Watches(y) /\ Misread(y) /\ Reads(y)
  BY <1>3, <1>4 DEF Chosen, NodeSizes, Frames, Data, Watches, Misread, Reads
<1> QED
  BY <1>3, <1>4, <1>5, <1>6 DEF Base, Seen, Linked, y, s

(* What moves frames changes nothing of the link. *)
LEMMA FramesMoveLinked ==
  ASSUME NEW x, NEW s, Seen(x), Linked(x, s), s # NoStream, NEW y, Same(y, x, FrameFields),
         x.dead => y.dead
  PROVE  Seen(y) /\ Linked(y, s) /\ y.board = x.board
<1>1. /\ y.node = x.node /\ y.sink = x.sink /\ y.seen = x.seen /\ y.stale = x.stale
      /\ y.kept = x.kept /\ y.parsed = x.parsed /\ y.is_avc = x.is_avc /\ y.board = x.board
  BY DEF Same, DecFields, FrameFields
<1> QED
  BY <1>1 DEF Seen, Linked

(* A stream is one. *)
LEMMA StreamIsNoNoStream == ASSUME NEW s \in Streams PROVE s # NoStream
<1>1. s.caps # NoCaps
  BY StreamsAssumption, VideoCapsParts
<1> QED
  BY <1>1 DEF NoStream

(* The decoder's part of the invariant holds at first, *)
LEMMA DecInit == Init => DecInv
<1> SUFFICES ASSUME Init PROVE DecInv
  OBVIOUS
<1>1. PICK board : d = NewDec(board)
  BY DEF Init
<1> QED
  BY <1>1, NewDecBase DEF DecInv, Init

(* and every step preserves it. *)
LEMMA DecStep ==
  ASSUME DecInv, [Next]_vars, e.draining => up # NoStream
  PROVE  DecInv' /\ d'.board = d.board
<1>1. Base(d) /\ Seen(d) /\ Linked(d, up)
  BY DEF DecInv
<1>2. CASE NewStream
  <2>1. PICK s \in Streams :
          /\ up' = s
          /\ \E reset \in NodeResets(d, s.caps) :
               d' = [SetCaps(d, s.caps, reset) EXCEPT !.seen = NoSize]
    BY <1>2 DEF NewStream
  <2>2. s.caps \in VideoCaps /\ s.caps # NoCaps /\ s # NoStream
    BY StreamsAssumption, VideoCapsParts, StreamIsNoNoStream
  <2>3. /\ Base(d') /\ Seen(d') /\ d'.sink = s.caps /\ d'.board = d.board
    BY <1>1, <2>1, <2>2, NewCapsKeep
  <2> QED
    BY <2>1, <2>2, <2>3 DEF DecInv, Linked, SameStream
<1>3. CASE DecChain
  <2>1. PICK c \in Configured, buf \in up.bufs : d' = Chain(c, buf)
    BY <1>3 DEF DecChain
  <2>2. ~d.dead /\ up # NoStream /\ up' = up
    BY <1>3 DEF DecChain, Alive
  <2>3. up \in Streams /\ d.sink # NoCaps /\ SameStream(d.sink, up.caps)
    BY <1>1, <2>2 DEF Linked
  <2>4. up.caps \in VideoCaps /\ up.caps # NoCaps /\ Fits(up.caps, buf)
    BY <2>3, StreamsAssumption, VideoCapsParts, StreamFits
  <2>5. /\ Base(c) /\ Seen(c) /\ SameStream(c.sink, up.caps) /\ ~c.dead /\ c.board = d.board
        /\ c.sink # NoCaps
    <3>1. CASE c = d
      BY <1>1, <2>2, <2>3, <3>1
    <3>2. CASE c # d
      <4>1. PICK reset \in NodeResets(d, up.caps) :
              c = [SetCaps(d, up.caps, reset) EXCEPT !.seen = NoSize]
        BY <3>2 DEF Configured
      <4> QED
        BY <1>1, <2>2, <2>4, <4>1, NewCapsKeep DEF SameStream
    <3> QED
      BY <3>1, <3>2
  <2>6. Fits(c.sink, buf) /\ c.sink \in VideoCaps
    BY <2>4, <2>5, FitsStream DEF SameStream
  <2>7. /\ Base(d') /\ Seen(d') /\ SameStream(d'.sink, c.sink) /\ d'.sink # NoCaps
        /\ d'.board = c.board
    BY <2>1, <2>5, <2>6, ChainKeeps
  <2>8. SameStream(d'.sink, up.caps)
    BY <2>5, <2>6, <2>7 DEF SameStream
  <2> QED
    BY <2>2, <2>3, <2>5, <2>7, <2>8 DEF DecInv, Linked
<1>4. ASSUME d.node # NoNode PROVE up # NoStream
  BY <1>1, <1>4 DEF Linked
<1>5. ASSUME Base(d'), Same(d', d, FrameFields), d.dead => d'.dead, up # NoStream, up' = up
      PROVE  DecInv' /\ d'.board = d.board
  BY <1>1, <1>5, FramesMoveLinked DEF DecInv
<1>6. CASE DecReceive
  <2>1. d.rooms # <<>> /\ d' = Receive(d) /\ up' = up
    BY <1>6 DEF DecReceive
  <2>2. Base(d') /\ Same(d', d, FrameFields) /\ d'.dead = d.dead
    <3>1. Receive(d).dead = d.dead
      <4>1. DOMAIN d = DecFields
        BY <1>1 DEF Base, DecTypes
      <4> QED
        BY <4>1 DEF Receive, DecFields
    <3> QED
      BY <1>1, <2>1, <3>1, ReceiveKeeps
  <2>3. d.node # NoNode
    BY <1>1, <2>1 DEF Base, Idle
  <2> QED
    BY <1>4, <1>5, <2>1, <2>2, <2>3
<1>7. CASE DecPush
  <2>1. /\ d.done # <<>> /\ ~d.dead /\ up' = up
        /\ d' = d \/ \E dead : d' = [TakeFrame(d) EXCEPT !.dead = dead]
    BY <1>7 DEF DecPush, Alive
  <2>2. CASE d' = d
    BY <1>1, <2>1, <2>2 DEF DecInv
  <2>3. CASE d' # d
    <3>1. PICK dead : d' = [TakeFrame(d) EXCEPT !.dead = dead]
      BY <2>1, <2>3
    <3>2. Base(d') /\ Same(d', d, FrameFields)
      BY <1>1, <2>1, <3>1, TakeFrameKeeps
    <3>3. d.node # NoNode
      BY <1>1, <2>1 DEF Base, Idle
    <3> QED
      BY <1>4, <1>5, <2>1, <3>2, <3>3
  <2> QED
    BY <2>2, <2>3
<1>8. CASE EncDrained
  <2>1. d' = [d EXCEPT !.dead = @ \/ e'.dead] /\ up' = up
    BY <1>8 DEF EncDrained
  <2> DEFINE dead == e'.dead
  <2>2. d' = [d EXCEPT !.dead = @ \/ dead] /\ DOMAIN d = DecFields
    BY <1>1, <2>1 DEF Base, DecTypes
  <2> HIDE DEF dead
  <2>3. Base(d') /\ Same(d', d, FrameFields)
    BY <1>1, <2>2, DeadKeeps
  <2>4. d.dead => d'.dead
    BY <2>2 DEF DecFields
  <2> QED
    BY <1>5, <1>8, <2>1, <2>3, <2>4 DEF EncDrained
<1>9. CASE EncReturn
  BY <1>1, <1>9 DEF EncReturn, DecInv
<1>10. CASE EncOutput
  BY <1>1, <1>10 DEF EncOutput, DecInv
<1>11. CASE AskBitrate \/ SetBitrate
  BY <1>1, <1>11 DEF AskBitrate, SetBitrate, DecInv
<1>12. CASE Restart
  <2>1. /\ d' = [StopNode(d) EXCEPT !.sink = NoCaps, !.src = NoCaps, !.seen = NoSize, !.dead = FALSE]
        /\ up' = NoStream
    BY <1>12 DEF Restart
  <2> QED
    BY <1>1, <2>1, StopKeeps DEF DecInv
<1>13. CASE UNCHANGED vars
  BY <1>1, <1>13 DEF vars, DecInv
<1> QED
  BY <1>2, <1>3, <1>6, <1>7, <1>8, <1>9, <1>10, <1>11, <1>12, <1>13 DEF Next

-----------------------------------------------------------------------------
(* check_supported_levels *)

Levels == [id : Nat, mbpf : Nat, mbps : Nat, bitrate : Nat \ {0}]
Tables == {LevelsH264, LevelsHdH264, LevelsH263, LevelsMp4, LevelsHdMp4}

IsTable(levels) ==
  /\ Len(levels) \in 1 .. 10 /\ levels # <<>>
  /\ \A i \in 1 .. Len(levels) : levels[i] \in Levels
  /\ Head(levels) = levels[1] /\ Last(levels) = levels[Len(levels)]

(* The tables of levels have at most ten rows. *)
LEMMA TableParts ==
  ASSUME NEW levels \in Tables
  PROVE  IsTable(levels)
<1>1. IsTable(LevelsH264)
  <2>1. LevelsH264 # <<>> /\ Len(LevelsH264) = 10 /\ Head(LevelsH264) = LevelsH264[1]
    BY DEF LevelsH264
  <2>2. \A i \in 1 .. 10 : LevelsH264[i] \in Levels
    BY DEF LevelsH264, Level, Levels
  <2>3. Last(LevelsH264) = LevelsH264[Len(LevelsH264)]
    BY DEF Last
  <2> QED
    BY <2>1, <2>2, <2>3 DEF IsTable
<1>2. IsTable(LevelsHdH264)
  <2>1. LevelsHdH264 # <<>> /\ Len(LevelsHdH264) = 10 /\ Head(LevelsHdH264) = LevelsHdH264[1]
    BY DEF LevelsHdH264
  <2>2. \A i \in 1 .. 10 : LevelsHdH264[i] \in Levels
    BY DEF LevelsHdH264, Level, Levels
  <2>3. Last(LevelsHdH264) = LevelsHdH264[Len(LevelsHdH264)]
    BY DEF Last
  <2> QED
    BY <2>1, <2>2, <2>3 DEF IsTable
<1>3. IsTable(LevelsH263)
  <2>1. LevelsH263 # <<>> /\ Len(LevelsH263) = 8 /\ Head(LevelsH263) = LevelsH263[1]
    BY DEF LevelsH263
  <2>2. \A i \in 1 .. 8 : LevelsH263[i] \in Levels
    BY DEF LevelsH263, Level, Levels
  <2>3. Last(LevelsH263) = LevelsH263[Len(LevelsH263)]
    BY DEF Last
  <2> QED
    BY <2>1, <2>2, <2>3 DEF IsTable
<1>4. IsTable(LevelsMp4)
  <2>1. LevelsMp4 # <<>> /\ Len(LevelsMp4) = 7 /\ Head(LevelsMp4) = LevelsMp4[1]
    BY DEF LevelsMp4
  <2>2. \A i \in 1 .. 7 : LevelsMp4[i] \in Levels
    BY DEF LevelsMp4, Level, Levels
  <2>3. Last(LevelsMp4) = LevelsMp4[Len(LevelsMp4)]
    BY DEF Last
  <2> QED
    BY <2>1, <2>2, <2>3 DEF IsTable
<1>5. IsTable(LevelsHdMp4)
  <2>1. LevelsHdMp4 # <<>> /\ Len(LevelsHdMp4) = 8 /\ Head(LevelsHdMp4) = LevelsHdMp4[1]
    BY DEF LevelsHdMp4
  <2>2. \A i \in 1 .. 8 : LevelsHdMp4[i] \in Levels
    BY DEF LevelsHdMp4, Level, Levels
  <2>3. Last(LevelsHdMp4) = LevelsHdMp4[Len(LevelsHdMp4)]
    BY DEF Last
  <2> QED
    BY <2>1, <2>2, <2>3 DEF IsTable
<1> QED
  BY <1>1, <1>2, <1>3, <1>4, <1>5 DEF Tables

(* The search ends at a row of the table. *)
LEMMA SearchIn ==
  ASSUME NEW levels \in Tables, NEW tgt, NEW bitrate, NEW mbps, NEW mbpf
  PROVE  SearchLevel(levels, tgt, bitrate, mbps, mbpf) \in Levels
<1> DEFINE n == Len(levels)
           better(level, i) == /\ tgt > 0 => tgt = levels[i].id
                               /\ Better(level, levels[i], bitrate, mbps, mbpf)
           Is(f, m) == f = [i \in 0 .. m |-> IF i = 0 THEN Head(levels)
                                             ELSE IF better(f[i - 1], i) THEN levels[i] ELSE f[i - 1]]
           S == {m \in 0 .. n : \E f : Is(f, m)}
           found == CHOOSE f : Is(f, n)
<1>1. n \in 1 .. 10 /\ Head(levels) \in Levels /\ \A i \in 1 .. n : levels[i] \in Levels
  BY TableParts DEF IsTable
<1>2. 0 \in S
  <2>1. Is([i \in 0 .. 0 |-> Head(levels)], 0)
    OBVIOUS
  <2> HIDE DEF Is
  <2> QED
    BY <1>1, <2>1
<1>3. ASSUME NEW m \in 0 .. n - 1, m \in S
      PROVE  m + 1 \in S
  <2>1. PICK f : Is(f, m)
    BY <1>3
  <2> DEFINE last == IF better(f[m], m + 1) THEN levels[m + 1] ELSE f[m]
             g == [i \in 0 .. m + 1 |-> IF i = m + 1 THEN last ELSE f[i]]
  <2>2. Is(g, m + 1)
    <3>1. \A i \in 0 .. m : g[i] = f[i]
      OBVIOUS
    <3>2. g[m + 1] = last
      BY <1>1
    <3> HIDE DEF g
    <3>3. g = [i \in 0 .. m + 1 |-> g[i]]
      BY DEF g
    <3>4. \A i \in 0 .. m + 1 : g[i] = IF i = 0 THEN Head(levels)
                                       ELSE IF better(g[i - 1], i) THEN levels[i] ELSE g[i - 1]
      <4> SUFFICES ASSUME NEW i \in 0 .. m + 1
                   PROVE  g[i] = IF i = 0 THEN Head(levels)
                                 ELSE IF better(g[i - 1], i) THEN levels[i] ELSE g[i - 1]
        OBVIOUS
      <4>1. CASE i = 0
        BY <1>1, <2>1, <3>1, <4>1
      <4>2. CASE i = m + 1
        BY <1>1, <3>1, <3>2, <4>2
      <4>3. CASE i \in 1 .. m
        <5>1. g[i] = f[i] /\ g[i - 1] = f[i - 1]
          BY <3>1, <4>3
        <5> HIDE DEF better
        <5>2. f[i] = IF better(f[i - 1], i) THEN levels[i] ELSE f[i - 1]
          BY <2>1, <4>3
        <5> QED
          BY <4>3, <5>1, <5>2
      <4> QED
        BY <1>1, <4>1, <4>2, <4>3
    <3> HIDE DEF better
    <3> QED
      BY <3>3, <3>4
  <2> HIDE DEF Is, g
  <2> QED
    BY <1>1, <2>2
<1>4. n \in S
  <2> HIDE DEF S, n
  <2> QED
    BY <1>1, <1>2, <1>3
<1>5. Is(found, n)
  <2> HIDE DEF Is
  <2> QED
    BY <1>4
<1> HIDE DEF found
<1>6. \A i \in 1 .. n : found[i] \in {found[i - 1], levels[i]}
  <2> HIDE DEF better
  <2> QED
    BY <1>5
<1>7. found[0] = Head(levels)
  <2> HIDE DEF better
  <2> QED
    BY <1>1, <1>5
<1>8. found[n] \in Levels
  <2> DEFINE T == {i \in 0 .. n : found[i] \in Levels}
  <2>1. 0 \in T
    BY <1>1, <1>7
  <2>2. \A i \in 0 .. n - 1 : i \in T => i + 1 \in T
    <3> SUFFICES ASSUME NEW i \in 0 .. n - 1, found[i] \in Levels
                 PROVE  found[i + 1] \in Levels
      <4> HIDE DEF n
      <4> QED
        BY <1>1
    <3>1. i + 1 \in 1 .. n /\ (i + 1) - 1 = i
      BY <1>1
    <3> QED
      BY <1>1, <1>6, <3>1
  <2> HIDE DEF T, n
  <2>3. n \in T
    BY <1>1, <2>1, <2>2
  <2> QED
    BY <2>3 DEF T
<1>9. SearchLevel(levels, tgt, bitrate, mbps, mbpf) = found[n]
  BY DEF SearchLevel, found
<1> QED
  BY <1>8, <1>9

(* The level that is chosen is large enough for the macroblocks of a       *)
(* second, or the last.                                                    *)
LEMMA SelectLevelIs ==
  ASSUME NEW levels \in Tables, NEW tgt, NEW bitrate, NEW mbps \in Nat, NEW mbpf
  PROVE  LET l == SelectLevel(levels, tgt, bitrate, mbps, mbpf) IN
         l \in Levels /\ (l = Last(levels) \/ l.mbps >= mbps)
<1> DEFINE beyond(l) == (bitrate # 0 /\ l.bitrate < bitrate) \/ l.mbps < mbps
           asked == SearchLevel(levels, tgt, bitrate, mbps, mbpf)
           any == SearchLevel(levels, -1, bitrate, mbps, mbpf)
           l == SelectLevel(levels, tgt, bitrate, mbps, mbpf)
<1>1. asked \in Levels /\ any \in Levels
  BY SearchIn
<1>2. Last(levels) \in Levels
  <2>1. IsTable(levels)
    BY TableParts
  <2>2. Len(levels) \in 1 .. Len(levels)
    BY <2>1 DEF IsTable
  <2> QED
    BY <2>1, <2>2 DEF IsTable
<1>3. l = IF tgt > 0 /\ asked.id = tgt /\ ~beyond(asked) THEN asked
          ELSE IF beyond(any) THEN Last(levels) ELSE any
  BY DEF SelectLevel
<1> HIDE DEF asked, any, l
<1>4. ASSUME NEW k \in Levels, ~beyond(k)
      PROVE  k.mbps >= mbps
  BY <1>4 DEF Levels
<1> HIDE DEF beyond
<1> QED
  BY <1>1, <1>2, <1>3, <1>4 DEF l

(* An encoder has one of the tables, or none. *)
LEMMA HasTable ==
  ASSUME NEW alg \in Algs
  PROVE  LevelsOf(alg) = <<>> \/ (LevelsOf(alg) \in Tables /\ LevelsOf(alg) # <<>>)
<1>1. \A t \in Tables : t # <<>>
  BY TableParts DEF IsTable
<1> QED
  BY <1>1 DEF LevelsOf, Tables

-----------------------------------------------------------------------------
(* What the operators leave of an encoder *)

EncFields ==
  {"alg", "width", "height", "color", "rate", "bitrate", "max_bitrate", "level", "interval",
   "gob", "bytestream", "sps", "pps", "codec_data_done", "obs", "ibs", "skip_hack_2", "sink",
   "src", "node", "queue", "out", "headers", "draining", "dead", "setup", "chosen", "kept",
    "raced", "zero", "short", "left", "skipping", "lost", "asked", "crossing", "crossed"}

Alike(x, y, changed) == \A f \in EncFields \ changed : x[f] = y[f]

EncCaps == [w : Nat, h : Nat, rate : Nat \X (Nat \ {0}), data : BOOLEAN]

EncTypes(x) ==
  /\ DOMAIN x = EncFields
  /\ x.alg \in Algs /\ x.setup \in Properties
  /\ x.bitrate \in Nat /\ x.max_bitrate \in Nat /\ x.ibs \in Nat /\ x.skip_hack_2 \in Nat
  /\ x.skipping \in Nat /\ x.asked \in Nat \cup {NotAsked}

(* The level that has been chosen, and the bitrates stored and asked *)
Bounded(x) ==
  LevelsOf(x.alg) # <<>> =>
    /\ x.max_bitrate # 0
    /\ x.bitrate <= x.max_bitrate \/ x.crossed
    /\ x.asked <= x.max_bitrate \/ x.crossing
    /\ \/ x.chosen = Last(LevelsOf(x.alg))
       \/ /\ x.chosen.mbps >= Mbpf(x.width, x.height) * x.rate
          /\ x.max_bitrate <= x.chosen.bitrate

(* The caps are those of both pads. *)
EncSized(x) ==
  /\ x.sink \in RawCaps /\ x.src \in EncCaps
  /\ x.width = x.sink.w /\ x.height = x.sink.h /\ x.color = x.sink.color
  /\ x.src.w = x.width /\ x.src.h = x.height
  /\ x.bytestream \in BOOLEAN /\ (x.bytestream <=> ~(x.alg \in H264Algs /\ x.setup.avc))

SizesFields == {"width", "height", "color", "rate", "sink", "src", "bytestream",
                "obs", "ibs", "bitrate", "max_bitrate", "level", "chosen", "crossing", "crossed"}

(* The sizes of the buffers, by codec. *)
LEMMA BufferSizesAre ==
  ASSUME NEW x, DOMAIN x = EncFields, x.ibs \in Nat, x.width \in Nat, x.height \in Nat
  PROVE  LET y == BufferSizes(x) IN
         DOMAIN y = EncFields /\ Alike(y, x, {"obs", "ibs"}) /\ y.ibs \in Nat
<1> DEFINE y == BufferSizes(x)
<1>1. MbRound(x.width) \in Nat /\ MbRound(x.height) \in Nat
  BY DEF MbRound, MbUp
<1>2. Bytes(x.color, MbRound(x.width), MbRound(x.height)) \in Nat
  BY <1>1, BytesMonotonic
<1>3. CASE x.alg \in {"H263ENC", "MP4VENC", "H264ENC"}
  <2> DEFINE obs == (x.width * x.height) \div 2
  <2>1. y = [x EXCEPT !.obs = obs]
    BY <1>3 DEF BufferSizes
  <2> HIDE DEF obs
  <2> QED
    BY <2>1 DEF EncFields, Alike
<1>4. CASE x.alg = "JPEGENC"
  <2> DEFINE obs == (x.width * x.height) \div (100 \div IF x.setup.quality < 10 THEN 10 ELSE x.setup.quality)
             ibs == Bytes(x.color, MbRound(x.width), MbRound(x.height))
  <2>1. y = [x EXCEPT !.ibs = ibs, !.obs = obs]
    BY <1>4 DEF BufferSizes
  <2>2. ibs \in Nat
    BY <1>2
  <2> HIDE DEF obs, ibs
  <2> QED
    BY <2>1, <2>2 DEF EncFields, Alike
<1>5. CASE x.alg \notin {"H263ENC", "MP4VENC", "H264ENC", "JPEGENC"}
  BY <1>5 DEF BufferSizes, Alike
<1> QED
  BY <1>3, <1>4, <1>5

(* The bitrate is below the maximum, and that below the level's. *)
LEMMA LevelsChecked ==
  ASSUME NEW x, EncTypes(x), x.width \in Nat, x.height \in Nat, x.rate \in Nat
  PROVE  LET y == ClampBitrate(CheckSupportedLevels(x)) IN
         /\ DOMAIN y = EncFields
         /\ Alike(y, x, {"chosen", "level", "max_bitrate", "bitrate", "crossing", "crossed"})
         /\ y.bitrate \in Nat /\ y.max_bitrate \in Nat /\ Bounded(y)
<1> DEFINE levels == LevelsOf(x.alg)
           user == x.setup.max_bitrate
           mbpf == Mbpf(x.width, x.height)
           level == SelectLevel(levels, x.setup.level, IF user # 0 THEN user ELSE x.bitrate,
                                mbpf * x.rate, mbpf)
           max == IF user = 0 \/ user >= level.bitrate THEN level.bitrate ELSE user
           c == CheckSupportedLevels(x)
           y == ClampBitrate(c)
<1>1. /\ DOMAIN x = EncFields /\ x.alg \in Algs /\ user \in Nat /\ x.bitrate \in Nat
      /\ x.max_bitrate \in Nat /\ x.asked \in Nat \cup {NotAsked}
  BY DEF EncTypes, Properties
<1>2. c = IF levels = <<>> THEN x
          ELSE [x EXCEPT !.chosen = level, !.level = level.id, !.max_bitrate = max]
  BY DEF CheckSupportedLevels
<1>3. mbpf * x.rate \in Nat
  <2>1. mbpf \in Nat
    <3>1. MbUp(x.width) \in Nat /\ MbUp(x.height) \in Nat
      BY DEF MbUp
    <3> QED
      BY <3>1, Products DEF Mbpf
  <2> QED
    BY <2>1, Products
<1>4. levels # <<>> =>
        /\ level \in Levels
        /\ level = Last(levels) \/ level.mbps >= mbpf * x.rate
  BY <1>1, <1>3, HasTable, SelectLevelIs
<1>5. levels # <<>> => max \in Nat \ {0} /\ max <= level.bitrate
  <2> HIDE DEF level
  <2> QED
    BY <1>1, <1>4 DEF Levels
<1>6. y = [c EXCEPT !.bitrate = IF @ = 0 \/ @ > c.max_bitrate THEN c.max_bitrate ELSE @,
                    !.crossed = FALSE, !.crossing = c.asked # NotAsked]
  BY DEF ClampBitrate
<1> HIDE DEF max, level, user, c, y
<1>7. /\ DOMAIN c = EncFields /\ Alike(c, x, {"chosen", "level", "max_bitrate"})
      /\ c.bitrate = x.bitrate /\ c.asked = x.asked
      /\ levels = <<>> => c.max_bitrate = x.max_bitrate
      /\ levels # <<>> => c.max_bitrate = max /\ c.chosen = level
  BY <1>1, <1>2 DEF Alike, EncFields
<1>8. /\ DOMAIN y = EncFields /\ Alike(y, c, {"bitrate", "crossing", "crossed"})
      /\ y.bitrate = IF c.bitrate = 0 \/ c.bitrate > c.max_bitrate THEN c.max_bitrate ELSE c.bitrate
      /\ y.max_bitrate = c.max_bitrate /\ y.chosen = c.chosen
      /\ y.asked = c.asked /\ (y.crossing <=> c.asked # NotAsked)
  BY <1>6, <1>7 DEF Alike, EncFields
<1>9. Alike(y, x, {"chosen", "level", "max_bitrate", "bitrate", "crossing", "crossed"})
  BY <1>7, <1>8 DEF Alike
<1>10. y.alg = x.alg /\ y.width = x.width /\ y.height = x.height /\ y.rate = x.rate
  BY <1>9 DEF Alike, EncFields
<1>11. /\ y.max_bitrate \in Nat /\ y.bitrate \in Nat /\ y.bitrate <= y.max_bitrate
       /\ y.asked <= y.max_bitrate \/ y.crossing
  BY <1>1, <1>5, <1>7, <1>8 DEF NotAsked
<1>12. Bounded(y)
  BY <1>4, <1>5, <1>7, <1>8, <1>10, <1>11 DEF Bounded
<1> QED
  BY <1>8, <1>9, <1>11, <1>12 DEF y, c

(* The frame rate is rounded to a natural number. *)
LEMMA RateIsNat ==
  ASSUME NEW rate \in Nat \X (Nat \ {0})
  PROVE  NearestRate(rate) \in Nat
<1>1. rate[1] \in Nat /\ rate[2] \in Nat \ {0}
  OBVIOUS
<1> DEFINE n == rate[1]  m == rate[2]
<1>2. n \in Nat /\ m \in Nat \ {0}
  BY <1>1
<1> HIDE DEF n, m
<1>3. (n * 2) \div m \in Nat
  BY <1>2
<1>4. ((n * 2) \div m + 1) \div 2 \in Nat
  BY <1>3
<1> QED
  BY <1>4 DEF NearestRate, n, m

(* TakeCaps makes the encoder's sizes those of the caps. *)
Taken(y, x, caps) ==
  /\ EncTypes(y) /\ Alike(y, x, SizesFields)
  /\ EncSized(y) /\ Bounded(y) /\ y.sink = caps /\ ~y.src.data

(* What sink_setcaps leaves before it decides on the node. *)
LEMMA TakeCapsIs ==
  ASSUME NEW x, EncTypes(x), NEW caps \in RawCaps,
         x.bytestream \in BOOLEAN,
         x.bytestream \/ (x.alg \in H264Algs /\ x.setup.avc)
  PROVE  Taken(TakeCaps(x, caps), x, caps)
<1> DEFINE rate == NearestRate(caps.rate)
           a == [x EXCEPT !.width = caps.w, !.height = caps.h, !.color = caps.color,
                          !.rate = rate, !.sink = caps]
           b == BufferSizes(a)
           avc == x.alg \in H264Algs /\ x.setup.avc
           c == [b EXCEPT !.bytestream = @ /\ ~avc]
           f == ClampBitrate(CheckSupportedLevels(c))
           src == [w |-> caps.w, h |-> caps.h, rate |-> caps.rate, data |-> FALSE]
           y == [f EXCEPT !.src = src]
<1>1. DOMAIN x = EncFields /\ x.ibs \in Nat
  BY DEF EncTypes
<1>2. /\ caps.w \in Nat /\ caps.h \in Nat /\ caps.rate \in Nat \X (Nat \ {0})
      /\ caps # NoCaps
  BY DEF RawCaps, NoCaps
<1>3. rate \in Nat
  BY <1>2, RateIsNat
<1>4. src \in EncCaps /\ src.w = caps.w /\ src.h = caps.h /\ ~src.data
  BY <1>2 DEF EncCaps
<1>5. TakeCaps(x, caps) = y
  BY DEF TakeCaps
<1> HIDE DEF rate, src
<1>6. /\ DOMAIN a = EncFields /\ Alike(a, x, {"width", "height", "color", "rate", "sink"})
      /\ a.width = caps.w /\ a.height = caps.h /\ a.color = caps.color
      /\ a.rate = rate /\ a.sink = caps
  BY <1>1 DEF EncFields, Alike
<1> HIDE DEF a
<1>7. a.ibs \in Nat
  BY <1>1, <1>6 DEF EncFields, Alike
<1>8. DOMAIN b = EncFields /\ Alike(b, a, {"obs", "ibs"}) /\ b.ibs \in Nat
  BY <1>2, <1>6, <1>7, BufferSizesAre
<1> HIDE DEF b
<1>9. b.bytestream = x.bytestream
  BY <1>6, <1>8 DEF EncFields, Alike
<1>10. /\ DOMAIN c = EncFields /\ Alike(c, b, {"bytestream"})
       /\ c.bytestream = (x.bytestream /\ ~avc)
  BY <1>8, <1>9 DEF EncFields, Alike
<1> HIDE DEF c
<1>11. Alike(c, x, SizesFields)
  BY <1>6, <1>8, <1>10 DEF Alike, SizesFields
<1>12. /\ c.width = caps.w /\ c.height = caps.h /\ c.color = caps.color
       /\ c.rate = rate /\ c.sink = caps /\ c.ibs \in Nat
       /\ c.bitrate = x.bitrate /\ c.max_bitrate = x.max_bitrate
  BY <1>6, <1>8, <1>10 DEF EncFields, Alike
<1>13. EncTypes(c)
  BY <1>10, <1>11, <1>12 DEF EncTypes, Alike, SizesFields, EncFields
<1>14. /\ DOMAIN f = EncFields
       /\ Alike(f, c, {"chosen", "level", "max_bitrate", "bitrate", "crossing", "crossed"})
       /\ f.bitrate \in Nat /\ f.max_bitrate \in Nat /\ Bounded(f)
  BY <1>2, <1>3, <1>12, <1>13, LevelsChecked
<1> HIDE DEF f
<1>15. /\ DOMAIN y = EncFields /\ Alike(y, f, {"src"}) /\ y.src = src
  BY <1>14 DEF Alike, EncFields
<1> HIDE DEF y
<1>16. Alike(y, x, SizesFields)
  BY <1>11, <1>14, <1>15 DEF Alike, SizesFields
<1>17. /\ y.width = caps.w /\ y.height = caps.h /\ y.color = caps.color
       /\ y.rate = rate /\ y.sink = caps /\ y.ibs \in Nat
       /\ y.bytestream = (x.bytestream /\ ~avc)
       /\ y.alg = f.alg /\ y.bitrate = f.bitrate /\ y.max_bitrate = f.max_bitrate
       /\ y.chosen = f.chosen /\ y.width = f.width /\ y.height = f.height /\ y.rate = f.rate
       /\ y.asked = f.asked /\ y.crossing = f.crossing /\ y.crossed = f.crossed
  BY <1>10, <1>12, <1>14, <1>15 DEF Alike, EncFields
<1>18. /\ y.alg = x.alg /\ y.setup = x.setup /\ y.skip_hack_2 = x.skip_hack_2
       /\ y.skipping = x.skipping /\ y.asked = x.asked
  BY <1>16 DEF Alike, EncFields, SizesFields
<1>19. EncTypes(y)
  BY <1>14, <1>15, <1>17, <1>18 DEF EncTypes
<1>20. Bounded(y)
  BY <1>14, <1>17 DEF Bounded
<1>21. EncSized(y)
  BY <1>4, <1>15, <1>17, <1>18 DEF EncSized
<1> QED
  BY <1>4, <1>5, <1>15, <1>16, <1>17, <1>19, <1>20, <1>21 DEF Taken

-----------------------------------------------------------------------------
(* The invariant of the encoder *)

IsHeader(b) == b.kind \in {"sps", "pps"}
Kinds == {"sps", "pps", "frame", "skip"}

(* The stream format is settled by the first caps. *)
Formatted(x) ==
  x.bytestream \in BOOLEAN /\ (x.bytestream \/ (x.alg \in H264Algs /\ x.setup.avc))

Blank(x) ==
  /\ x.node = NoEnc /\ x.out = <<>> /\ x.left = Nothing /\ ~x.draining
  /\ ~x.sps /\ ~x.pps /\ ~x.codec_data_done /\ x.skip_hack_2 = 0 /\ ~x.kept /\ ~x.raced
  /\ x.skipping = 0 /\ ~x.lost

EncIdle(x) == x.node = NoEnc => Blank(x) /\ (x.sink # NoCaps => x.dead)

(* The node has the size of the caps, but for the drain; what it has sent  *)
(* has the node's.                                                         *)
EncNode(x, color) ==
  x.node # NoEnc =>
    /\ EncSized(x) /\ Bounded(x)
    /\ x.sink.color = color /\ x.node.color = color
    /\ x.node.apart <=> IsAvc(x)
    /\ ~x.draining => x.node.w = x.width /\ x.node.h = x.height
    /\ x.out \in Seq([kind : Kinds, size : {<<x.node.w, x.node.h>>}])

(* skip_hack_2 counts the headers at the front of the queue, where they    *)
(* all are unless one came again while a frame waited, and the one that    *)
(* output_loop has taken and not counted down.                             *)
Waiting(x) == IF x.skipping = 0 THEN x.skip_hack_2 ELSE x.skip_hack_2 - 1

Counted(x) ==
  ~x.raced /\ ~x.lost =>
    /\ Waiting(x) \in 0 .. Len(x.out)
    /\ \A i \in 1 .. Len(x.out) : IsHeader(x.out[i]) <=> i <= Waiting(x)

Headers(x) ==
  x.node # NoEnc /\ IsAvc(x) =>
    /\ x.headers \in 0 .. 3
    /\ x.sps <=> x.headers > 0
    /\ x.pps <=> x.headers > 1
    /\ x.codec_data_done <=> x.headers > 1
    /\ x.headers > 1 => x.src.data \/ x.kept \/ x.draining
    /\ x.headers < 2 => ~x.raced /\ \A i \in 1 .. Len(x.out) : IsHeader(x.out[i])
    /\ Counted(x)

LeftWell(x) ==
  x.left # Nothing =>
    /\ x.left.size = x.left.caps \/ x.left.drained
    /\ IsAvc(x) => IF x.left.kind = "frame" THEN x.left.data \/ x.kept \/ x.left.drained
                   ELSE x.raced \/ x.lost

EncInv(x, color) ==
  /\ EncTypes(x) /\ Formatted(x) /\ EncIdle(x) /\ EncNode(x, color)
  /\ Headers(x) /\ LeftWell(x) /\ ~x.short

-----------------------------------------------------------------------------
(* A node is created. *)

PrepareFields == {"gob", "dead", "interval", "obs", "zero", "level"}

(* create_args and setup_params touch none of what the caps have set. *)
LEMMA PrepareIs ==
  ASSUME NEW x, DOMAIN x = EncFields
  PROVE  DOMAIN Prepare(x) = EncFields /\ Alike(Prepare(x), x, PrepareFields)
<1>1. CASE x.alg = "HDH264ENC"
  <2> DEFINE gob == x.interval * x.rate
             short == 150 \div x.rate
             dead == x.setup.mode # 1
             obs == HdH264Buffer(HdH264Level(x))
             g == HdH264Gob(x)
  <2>1. Prepare(x) = [g EXCEPT !.obs = obs]
    BY <1>1 DEF Prepare, HdMp4Algs
  <2>2. g = IF x.interval = 0 THEN [x EXCEPT !.gob = 255, !.dead = dead]
            ELSE IF gob > 150 THEN [x EXCEPT !.gob = 150, !.interval = short]
            ELSE [x EXCEPT !.gob = gob]
    BY DEF HdH264Gob
  <2> HIDE DEF gob, short, dead, obs, g
  <2>3. DOMAIN g = EncFields /\ Alike(g, x, PrepareFields)
    BY <2>2 DEF EncFields, Alike, PrepareFields
  <2> QED
    BY <2>1, <2>3 DEF EncFields, Alike, PrepareFields
<1>2. CASE x.alg = "H264ENC"
  <2> DEFINE zero == x.rate = 0 \/ x.width * x.height < 256
  <2>1. Prepare(x) = [x EXCEPT !.zero = zero, !.dead = zero]
    BY <1>2 DEF Prepare, H264EncSetup, HdMp4Algs
  <2> HIDE DEF zero
  <2> QED
    BY <2>1 DEF EncFields, Alike, PrepareFields
<1>3. CASE x.alg \in HdMp4Algs
  <2> DEFINE level == HdMp4Level(x)
             l == [x EXCEPT !.level = level]
             obs == Vbv(l) * 2048 + l.bitrate \div l.rate
  <2>1. Prepare(x) = IF l.rate = 0 THEN [l EXCEPT !.zero = TRUE, !.dead = TRUE]
                     ELSE [l EXCEPT !.obs = obs]
    BY <1>3 DEF Prepare, HdMp4EncSetup, HdMp4Algs
  <2> HIDE DEF level, obs
  <2>2. DOMAIN l = EncFields /\ Alike(l, x, PrepareFields)
    BY DEF EncFields, Alike, PrepareFields
  <2> HIDE DEF l
  <2> QED
    BY <2>1, <2>2 DEF EncFields, Alike, PrepareFields
<1>4. CASE x.alg \notin {"HDH264ENC", "H264ENC"} \cup HdMp4Algs
  BY <1>4 DEF Prepare, Alike
<1> QED
  BY <1>1, <1>2, <1>3, <1>4

(* A node is told the size of the caps, and whether the headers come       *)
(* apart.                                                                  *)
LEMMA EncArgsAre ==
  ASSUME NEW x, x.alg \in Algs
  PROVE  LET a == EncArgs(x) IN
         /\ a # NoEnc /\ a.w = x.width /\ a.h = x.height /\ a.color = x.color
         /\ a.apart <=> IsAvc(x)
<1>1. ASSUME NEW level
      PROVE  LET a == Told(x, level) IN
             /\ a # NoEnc /\ a.w = x.width /\ a.h = x.height /\ a.color = x.color
             /\ a.apart <=> IsAvc(x)
  <2>1. Told(x, level).alg = x.alg
    BY DEF Told
  <2>2. Told(x, level) # NoEnc
    BY <2>1 DEF NoEnc, Algs
  <2> QED
    BY <2>2 DEF Told, IsAvc
<1> QED
  BY <1>1 DEF EncArgs, H264EncArgs, HdH264EncArgs, HdMp4EncArgs, Mp4EncArgs, JpegEncArgs

(* The encoder has caps and no node. *)
Ready(x, color) ==
  /\ EncTypes(x) /\ EncSized(x) /\ Bounded(x) /\ Blank(x)
  /\ ~x.short /\ x.sink.color = color /\ x.bytestream \in BOOLEAN

Settled(y, sink, color) ==
  EncInv(y, color) /\ y.sink = sink /\ ~y.draining /\ (~y.dead => y.node # NoEnc)

(* A node is created, or the element fails. *)
LEMMA StartNodeKeeps ==
  ASSUME NEW x, NEW color, Ready(x, color)
  PROVE  Settled(StartNode(x), x.sink, color)
<1> DEFINE p == Prepare(x)
           a == EncArgs(p)
           y == StartNode(x)
<1>1. DOMAIN x = EncFields
  BY DEF Ready, EncTypes
<1>2. DOMAIN p = EncFields /\ Alike(p, x, PrepareFields)
  BY <1>1, PrepareIs
<1>3. y = IF p.dead THEN p ELSE [p EXCEPT !.node = a, !.headers = 0]
  BY DEF StartNode
<1> HIDE DEF p
<1>4. /\ p.alg = x.alg /\ p.setup = x.setup /\ p.bitrate = x.bitrate
      /\ p.max_bitrate = x.max_bitrate /\ p.ibs = x.ibs /\ p.skip_hack_2 = x.skip_hack_2
      /\ p.chosen = x.chosen /\ p.width = x.width /\ p.height = x.height /\ p.rate = x.rate
      /\ p.sink = x.sink /\ p.src = x.src /\ p.color = x.color /\ p.bytestream = x.bytestream
      /\ p.node = x.node /\ p.out = x.out /\ p.left = x.left /\ p.draining = x.draining
      /\ p.sps = x.sps /\ p.pps = x.pps /\ p.codec_data_done = x.codec_data_done
      /\ p.kept = x.kept /\ p.raced = x.raced /\ p.short = x.short
      /\ p.skipping = x.skipping /\ p.lost = x.lost
      /\ p.asked = x.asked /\ p.crossing = x.crossing /\ p.crossed = x.crossed
  BY <1>2 DEF Alike, EncFields, PrepareFields
<1>5. Ready(p, color) /\ p.sink = x.sink
  BY <1>2, <1>4 DEF Ready, EncTypes, EncSized, Bounded, Blank
<1>6. p.sink # NoCaps
  BY <1>5 DEF Ready, EncSized, RawCaps, NoCaps
<1>7. Formatted(p)
  BY <1>5 DEF Ready, EncSized, Formatted
<1>8. CASE p.dead
  BY <1>3, <1>5, <1>7, <1>8
     DEF Ready, Blank, EncInv, EncIdle, EncNode, Headers, LeftWell, Settled
<1>9. CASE ~p.dead
  <2>1. /\ a # NoEnc /\ a.w = p.width /\ a.h = p.height /\ a.color = p.color
        /\ a.apart <=> IsAvc(p)
    BY <1>5, EncArgsAre DEF Ready, EncTypes
  <2> HIDE DEF a
  <2>2. DOMAIN y = EncFields /\ Alike(y, p, {"node", "headers"}) /\ y.node = a /\ y.headers = 0
    BY <1>2, <1>3, <1>9 DEF Alike, EncFields
  <2> HIDE DEF y
  <2>3. /\ y.alg = p.alg /\ y.setup = p.setup /\ y.bitrate = p.bitrate
        /\ y.max_bitrate = p.max_bitrate /\ y.ibs = p.ibs /\ y.skip_hack_2 = p.skip_hack_2
        /\ y.chosen = p.chosen /\ y.width = p.width /\ y.height = p.height /\ y.rate = p.rate
        /\ y.sink = p.sink /\ y.src = p.src /\ y.color = p.color /\ y.bytestream = p.bytestream
        /\ y.out = p.out /\ y.left = p.left /\ y.draining = p.draining
        /\ y.sps = p.sps /\ y.pps = p.pps /\ y.codec_data_done = p.codec_data_done
        /\ y.kept = p.kept /\ y.raced = p.raced /\ y.short = p.short
        /\ y.skipping = p.skipping /\ y.lost = p.lost
        /\ y.asked = p.asked /\ y.crossing = p.crossing /\ y.crossed = p.crossed
    BY <2>2 DEF Alike, EncFields
  <2>4. EncTypes(y) /\ EncSized(y) /\ Bounded(y)
    BY <1>5, <2>2, <2>3 DEF Ready, EncTypes, EncSized, Bounded
  <2>5. Formatted(y) /\ EncIdle(y)
    BY <1>7, <2>1, <2>2, <2>3 DEF Formatted, EncIdle
  <2>6. /\ y.out = <<>> /\ y.left = Nothing /\ ~y.raced /\ y.skip_hack_2 = 0
        /\ ~y.sps /\ ~y.pps /\ ~y.codec_data_done /\ y.skipping = 0
    BY <1>5, <2>3 DEF Ready, Blank
  <2>7. EncNode(y, color)
    BY <1>5, <2>1, <2>2, <2>3, <2>4, <2>6 DEF EncNode, Ready, EncSized, IsAvc
  <2>8. Headers(y)
    <3>1. Counted(y)
      BY <2>6 DEF Counted, Waiting
    <3> QED
      BY <2>2, <2>6, <3>1 DEF Headers
  <2>9. ~y.short /\ ~y.draining /\ y.sink = x.sink
    BY <1>5, <2>3 DEF Ready, Blank
  <2>10. EncInv(y, color)
    BY <2>4, <2>5, <2>6, <2>7, <2>8, <2>9 DEF EncInv, LeftWell
  <2> QED
    BY <2>1, <2>2, <2>9, <2>10 DEF Settled, y
<1> QED
  BY <1>8, <1>9

-----------------------------------------------------------------------------
(* The encoder gets caps, drains and stops. *)

(* What touches neither the headers nor the frames that wait *)
QuietFields == {"queue", "short", "bitrate", "dead", "asked", "crossing", "crossed"}

(* leaves the encoder as it should be. *)
LEMMA UntouchedKeeps ==
  ASSUME NEW x, NEW color, EncInv(x, color), NEW y, DOMAIN y = EncFields,
         Alike(y, x, QuietFields), ~y.short, x.dead => y.dead,
         y.bitrate \in Nat, y.asked \in Nat \cup {NotAsked}, Bounded(x) => Bounded(y)
  PROVE  EncInv(y, color) /\ y.node = x.node /\ y.draining = x.draining
<1>1. /\ y.alg = x.alg /\ y.setup = x.setup
      /\ y.max_bitrate = x.max_bitrate /\ y.ibs = x.ibs /\ y.skip_hack_2 = x.skip_hack_2
      /\ y.chosen = x.chosen /\ y.width = x.width /\ y.height = x.height /\ y.rate = x.rate
      /\ y.sink = x.sink /\ y.src = x.src /\ y.color = x.color /\ y.bytestream = x.bytestream
      /\ y.node = x.node /\ y.out = x.out /\ y.left = x.left /\ y.draining = x.draining
      /\ y.sps = x.sps /\ y.pps = x.pps /\ y.codec_data_done = x.codec_data_done
      /\ y.kept = x.kept /\ y.raced = x.raced /\ y.headers = x.headers
      /\ y.skipping = x.skipping /\ y.lost = x.lost
  BY DEF Alike, EncFields, QuietFields
<1>2. EncTypes(y) /\ Formatted(y) /\ EncIdle(y)
  BY <1>1 DEF EncInv, EncTypes, Formatted, EncIdle, Blank
<1>3. EncNode(y, color)
  BY <1>1 DEF EncInv, EncNode, EncSized, IsAvc
<1>4. Headers(y) /\ LeftWell(y)
  BY <1>1 DEF EncInv, Headers, LeftWell, IsAvc, Counted, Waiting
<1> QED
  BY <1>1, <1>2, <1>3, <1>4 DEF EncInv

(* What gstdsp_base stops with the node of the encoder *)
StopFields ==
  {"node", "queue", "out", "skip_hack_2", "skipping", "lost", "sps", "pps",
   "codec_data_done", "kept", "raced", "draining", "left"}

(* is blank again. *)
LEMMA StopEncIs ==
  ASSUME NEW x, DOMAIN x = EncFields
  PROVE  /\ DOMAIN StopEnc(x) = EncFields /\ Blank(StopEnc(x))
         /\ Alike(StopEnc(x), x, StopFields)
  BY DEF StopEnc, EncFields, Alike, Blank, StopFields

(* After the drain the node is created for the new caps. *)
LEMMA EndDrainKeeps ==
  ASSUME NEW x, NEW color, EncInv(x, color), x.draining
  PROVE  EncInv(EndDrain(x), color) /\ ~EndDrain(x).draining
<1> DEFINE s == StopEnc(x)
<1>1. DOMAIN x = EncFields /\ x.node # NoEnc
  BY DEF EncInv, EncTypes, EncIdle, Blank
<1>2. /\ DOMAIN s = EncFields /\ Blank(s)
      /\ Alike(s, x, StopFields)
  BY <1>1, StopEncIs
<1> HIDE DEF s
<1>3. /\ s.alg = x.alg /\ s.setup = x.setup /\ s.bitrate = x.bitrate /\ s.short = x.short
      /\ s.max_bitrate = x.max_bitrate /\ s.ibs = x.ibs /\ s.chosen = x.chosen
      /\ s.width = x.width /\ s.height = x.height /\ s.rate = x.rate /\ s.color = x.color
      /\ s.sink = x.sink /\ s.src = x.src /\ s.bytestream = x.bytestream
      /\ s.asked = x.asked /\ s.crossing = x.crossing /\ s.crossed = x.crossed
  BY <1>2 DEF Alike, EncFields, StopFields
<1>4. EncTypes(x) /\ EncSized(x) /\ Bounded(x) /\ x.sink.color = color /\ ~x.short
      /\ x.bytestream \in BOOLEAN
  BY <1>1 DEF EncInv, EncNode, Formatted
<1>5. EncTypes(s) /\ EncSized(s) /\ Bounded(s)
  BY <1>2, <1>3, <1>4 DEF EncTypes, EncSized, Bounded, Blank
<1>6. Ready(s, color)
  BY <1>2, <1>3, <1>4, <1>5 DEF Ready
<1> QED
  BY <1>6, StartNodeKeeps DEF EndDrain, Settled, s

(* To READY and back *)
Restarted(x) == [StopEnc(x) EXCEPT !.sink = NoCaps, !.src = NoCaps, !.dead = FALSE]

(* The encoder goes to READY and back. *)
LEMMA RestartKeeps ==
  ASSUME NEW x, NEW color, EncInv(x, color)
  PROVE  EncInv(Restarted(x), color) /\ ~Restarted(x).draining
<1> DEFINE s == StopEnc(x)
           y == [s EXCEPT !.sink = NoCaps, !.src = NoCaps, !.dead = FALSE]
<1>1. DOMAIN x = EncFields
  BY DEF EncInv, EncTypes
<1>2. /\ DOMAIN s = EncFields /\ Blank(s)
      /\ Alike(s, x, StopFields)
  BY <1>1, StopEncIs
<1> HIDE DEF s
<1>3. DOMAIN y = EncFields /\ Alike(y, s, {"sink", "src", "dead"}) /\ y.sink = NoCaps
  BY <1>2 DEF Alike, EncFields
<1> HIDE DEF y
<1>4. /\ y.node = NoEnc /\ y.out = <<>> /\ y.left = Nothing /\ ~y.draining
      /\ ~y.sps /\ ~y.pps /\ ~y.codec_data_done /\ y.skip_hack_2 = 0 /\ ~y.kept /\ ~y.raced
      /\ y.skipping = 0 /\ ~y.lost
  BY <1>2, <1>3 DEF Alike, EncFields, Blank
<1>5. /\ y.alg = x.alg /\ y.setup = x.setup /\ y.bitrate = x.bitrate /\ y.short = x.short
      /\ y.max_bitrate = x.max_bitrate /\ y.ibs = x.ibs /\ y.bytestream = x.bytestream
      /\ y.asked = x.asked
  BY <1>2, <1>3 DEF Alike, EncFields, StopFields
<1>6. EncTypes(y) /\ Formatted(y) /\ ~y.short
  BY <1>3, <1>4, <1>5 DEF EncInv, EncTypes, Formatted
<1>7. EncIdle(y) /\ EncNode(y, color) /\ Headers(y) /\ LeftWell(y)
  BY <1>3, <1>4 DEF EncIdle, Blank, EncNode, Headers, LeftWell
<1> QED
  BY <1>4, <1>6, <1>7 DEF EncInv, Restarted, y, s

(* The encoder fails, drains, or has a node that fits the caps. *)
Answered(y, caps, color) ==
  EncInv(y, color) /\ (y.dead \/ y.draining \/ (y.node # NoEnc /\ y.sink = caps))

(* New caps: to fail, to drain, to create a node or to keep it. *)
LEMMA EncSetCapsKeeps ==
  ASSUME NEW x, NEW color, EncInv(x, color), ~x.draining, NEW caps \in RawCaps,
         caps.color = color
  PROVE  Answered(EncSetCaps(x, caps), caps, color)
<1> DEFINE t == TakeCaps(x, caps)
           y == EncSetCaps(x, caps)
           odd == x.alg = "JPEGENC" /\ (caps.w % 2 # 0 \/ caps.h % 2 # 0)
<1>1. EncTypes(x) /\ DOMAIN x = EncFields /\ Formatted(x)
  BY DEF EncInv, EncTypes
<1>2. y = IF odd THEN [x EXCEPT !.dead = TRUE]
          ELSE IF MustReset(x, caps) THEN [t EXCEPT !.draining = TRUE]
          ELSE IF x.node = NoEnc THEN StartNode(t)
          ELSE [t EXCEPT !.kept = TRUE]
  BY DEF EncSetCaps
<1> HIDE DEF odd
<1>3. CASE odd
  <2>1. DOMAIN y = EncFields /\ Alike(y, x, {"dead"}) /\ y.dead
    BY <1>1, <1>2, <1>3 DEF Alike, EncFields
  <2> HIDE DEF y
  <2>2. EncInv(y, color)
    <3>1. /\ ~y.short /\ y.bitrate = x.bitrate /\ y.alg = x.alg /\ y.max_bitrate = x.max_bitrate
          /\ y.chosen = x.chosen /\ y.width = x.width /\ y.height = x.height /\ y.rate = x.rate
          /\ y.asked = x.asked /\ y.crossing = x.crossing /\ y.crossed = x.crossed
      BY <2>1 DEF Alike, EncFields, EncInv
    <3>2. Alike(y, x, QuietFields)
      BY <2>1 DEF Alike, QuietFields
    <3>3. y.bitrate \in Nat /\ y.asked \in Nat \cup {NotAsked} /\ (Bounded(x) => Bounded(y))
      BY <1>1, <3>1 DEF EncTypes, Bounded
    <3> QED
      BY <2>1, <3>1, <3>2, <3>3, UntouchedKeeps
  <2> QED
    BY <2>1, <2>2 DEF Answered, y
<1>4. CASE ~odd
  <2>1. Taken(t, x, caps)
    BY <1>1, TakeCapsIs DEF Formatted
  <2> HIDE DEF t
  <2>2. /\ EncTypes(t) /\ DOMAIN t = EncFields /\ EncSized(t) /\ Bounded(t) /\ t.sink = caps
        /\ Formatted(t)
    BY <2>1 DEF Taken, EncTypes, EncSized, Formatted
  <2>3. /\ t.alg = x.alg /\ t.setup = x.setup /\ t.skip_hack_2 = x.skip_hack_2
        /\ t.node = x.node /\ t.out = x.out /\ t.left = x.left /\ t.draining = x.draining
        /\ t.sps = x.sps /\ t.pps = x.pps /\ t.codec_data_done = x.codec_data_done
        /\ t.kept = x.kept /\ t.raced = x.raced /\ t.short = x.short /\ t.headers = x.headers
        /\ t.skipping = x.skipping /\ t.lost = x.lost
    BY <2>1 DEF Taken, Alike, EncFields, SizesFields
  <2>4. t.width = caps.w /\ t.height = caps.h
    BY <2>2 DEF EncSized
  <2>5. CASE x.node = NoEnc
    <3>1. y = StartNode(t)
      BY <1>2, <1>4, <2>5 DEF MustReset
    <3>2. Blank(t) /\ ~t.short
      BY <2>3, <2>5 DEF EncInv, EncIdle, Blank
    <3>3. Ready(t, color)
      BY <2>2, <3>2 DEF Ready, EncSized
    <3> QED
      BY <2>2, <3>1, <3>3, StartNodeKeeps DEF Settled, Answered
  <2>6. CASE x.node # NoEnc
    <3>1. EncNode(x, color) /\ EncSized(x)
      BY <2>6 DEF EncInv, EncNode
    <3>2. t.bytestream <=> x.bytestream
      BY <2>2, <2>3, <3>1 DEF EncSized
    <3>3. ASSUME NEW z, DOMAIN z = EncFields, Alike(z, t, {"kept", "draining"}),
                 z.draining \/ (z.kept /\ ~z.draining /\ ~MustReset(x, caps)),
                 x.kept => z.kept
          PROVE  EncInv(z, color) /\ z.node # NoEnc /\ z.sink = caps
      <4>1. /\ z.alg = t.alg /\ z.setup = t.setup /\ z.bitrate = t.bitrate
            /\ z.max_bitrate = t.max_bitrate /\ z.ibs = t.ibs /\ z.skip_hack_2 = t.skip_hack_2
            /\ z.chosen = t.chosen /\ z.width = t.width /\ z.height = t.height /\ z.rate = t.rate
            /\ z.sink = t.sink /\ z.src = t.src /\ z.color = t.color /\ z.bytestream = t.bytestream
            /\ z.node = t.node /\ z.out = t.out /\ z.left = t.left
            /\ z.sps = t.sps /\ z.pps = t.pps /\ z.codec_data_done = t.codec_data_done
            /\ z.raced = t.raced /\ z.short = t.short /\ z.headers = t.headers
            /\ z.skipping = t.skipping /\ z.lost = t.lost
            /\ z.asked = t.asked /\ z.crossing = t.crossing /\ z.crossed = t.crossed
        BY <3>3 DEF Alike, EncFields
      <4>2. EncTypes(z) /\ EncSized(z) /\ Bounded(z) /\ z.node # NoEnc /\ ~z.short
        BY <2>2, <2>3, <2>6, <3>3, <4>1 DEF EncTypes, EncSized, Bounded, EncInv
      <4>3. (IsAvc(z) <=> IsAvc(x)) /\ z.alg = x.alg
        BY <2>3, <3>2, <4>1 DEF IsAvc
      <4>4. Formatted(z)
        BY <4>2 DEF Formatted, EncSized
      <4>5. EncIdle(z)
        BY <4>2 DEF EncIdle
      <4>6. EncNode(z, color)
        <5>1. ~z.draining => z.node.w = z.width /\ z.node.h = z.height
          BY <2>3, <2>4, <2>6, <3>1, <3>3, <4>1 DEF MustReset, EncNode
        <5> QED
          BY <2>2, <2>3, <2>6, <3>1, <4>1, <4>2, <4>3, <5>1 DEF EncNode
      <4>7. Headers(z) /\ LeftWell(z)
        BY <2>3, <2>6, <3>3, <4>1, <4>3 DEF EncInv, Headers, LeftWell, Counted, Waiting
      <4> QED
        BY <2>2, <4>1, <4>2, <4>4, <4>5, <4>6, <4>7 DEF EncInv
    <3>4. CASE MustReset(x, caps)
      <4>1. y = [t EXCEPT !.draining = TRUE]
        BY <1>2, <1>4, <3>4
      <4> HIDE DEF y
      <4>2. DOMAIN y = EncFields /\ Alike(y, t, {"kept", "draining"}) /\ y.draining
            /\ y.kept = x.kept
        BY <2>2, <2>3, <4>1 DEF Alike, EncFields
      <4> QED
        BY <3>3, <4>2 DEF Answered, y
    <3>5. CASE ~MustReset(x, caps)
      <4>1. y = [t EXCEPT !.kept = TRUE]
        BY <1>2, <1>4, <2>6, <3>5
      <4> HIDE DEF y
      <4>2. DOMAIN y = EncFields /\ Alike(y, t, {"kept", "draining"}) /\ y.kept /\ ~y.draining
        BY <2>2, <2>3, <4>1 DEF Alike, EncFields
      <4> QED
        BY <3>3, <3>5, <4>2 DEF Answered, y
    <3> QED
      BY <3>4, <3>5
  <2> QED
    BY <2>5, <2>6
<1> QED
  BY <1>3, <1>4

-----------------------------------------------------------------------------
(* The bitrate is set, and a frame comes in. *)

(* set_property clamps the bitrate once a level is known, *)
LEMMA TestBitrateKeeps ==
  ASSUME NEW x, NEW color, EncInv(x, color), NEW bitrate \in Nat
  PROVE  EncInv(TestBitrate(x, bitrate), color) /\ TestBitrate(x, bitrate).draining = x.draining
<1> DEFINE new == IF x.max_bitrate # 0 /\ bitrate > x.max_bitrate THEN x.max_bitrate
                  ELSE bitrate
           y == TestBitrate(x, bitrate)
<1>1. EncTypes(x) /\ DOMAIN x = EncFields
  BY DEF EncInv, EncTypes
<1>2. y = [x EXCEPT !.asked = new]
  BY DEF TestBitrate
<1>3. new \in Nat /\ (x.max_bitrate # 0 => new <= x.max_bitrate)
  BY <1>1 DEF EncTypes
<1> HIDE DEF new, y
<1>4. DOMAIN y = EncFields /\ Alike(y, x, {"asked"}) /\ y.asked = new
  BY <1>1, <1>2 DEF Alike, EncFields
<1>5. /\ ~y.short /\ (x.dead => y.dead) /\ y.alg = x.alg /\ y.max_bitrate = x.max_bitrate
      /\ y.chosen = x.chosen /\ y.width = x.width /\ y.height = x.height /\ y.rate = x.rate
      /\ y.bitrate = x.bitrate /\ y.crossed = x.crossed /\ y.crossing = x.crossing
  BY <1>4 DEF Alike, EncFields, EncInv
<1>6. Bounded(x) => Bounded(y)
  BY <1>3, <1>4, <1>5 DEF Bounded
<1>7. Alike(y, x, QuietFields)
  BY <1>4 DEF Alike, QuietFields
<1>8. y.bitrate \in Nat
  BY <1>1, <1>5 DEF EncTypes
<1> QED
  BY <1>3, <1>4, <1>5, <1>6, <1>7, <1>8, UntouchedKeeps DEF y

(* and stores what it has asked for. *)
LEMMA StoreBitrateKeeps ==
  ASSUME NEW x, NEW color, EncInv(x, color), x.asked # NotAsked
  PROVE  EncInv(StoreBitrate(x), color) /\ StoreBitrate(x).draining = x.draining
<1> DEFINE y == StoreBitrate(x)
<1>1. EncTypes(x) /\ DOMAIN x = EncFields /\ x.asked \in Nat
  BY DEF EncInv, EncTypes
<1>2. /\ DOMAIN y = EncFields
      /\ Alike(y, x, {"bitrate", "asked", "crossing", "crossed"})
      /\ y.bitrate = x.asked /\ y.asked = NotAsked /\ y.crossed = x.crossing
  BY <1>1 DEF StoreBitrate, Alike, EncFields
<1> HIDE DEF y
<1>3. /\ ~y.short /\ (x.dead => y.dead) /\ y.alg = x.alg /\ y.max_bitrate = x.max_bitrate
      /\ y.chosen = x.chosen /\ y.width = x.width /\ y.height = x.height /\ y.rate = x.rate
  BY <1>2 DEF Alike, EncFields, EncInv
<1>4. Bounded(x) => Bounded(y)
  BY <1>1, <1>2, <1>3 DEF Bounded, NotAsked, EncTypes
<1>5. Alike(y, x, QuietFields)
  BY <1>2 DEF Alike, QuietFields
<1> QED
  BY <1>1, <1>2, <1>3, <1>4, <1>5, UntouchedKeeps DEF y

(* A frame comes in that is as long as the caps say: the node gets the     *)
(* whole picture.                                                          *)
LEMMA EncChainKeeps ==
  ASSUME NEW x, NEW color, EncInv(x, color), x.node # NoEnc, ~x.draining,
         NEW len \in Nat, Bytes(color, x.sink.w, x.sink.h) <= len
  PROVE  EncInv(EncChain(x, len), color) /\ ~EncChain(x, len).draining
<1> DEFINE given == IF len >= x.ibs THEN len ELSE x.ibs
           needed == Bytes(x.node.color, x.node.w, x.node.h)
           queue == Append(x.queue, <<x.node.w, x.node.h>>)
           short == x.short \/ given < needed
           y == EncChain(x, len)
<1>1. EncTypes(x) /\ DOMAIN x = EncFields /\ x.ibs \in Nat /\ ~x.short
  BY DEF EncInv, EncTypes
<1>2. y = [x EXCEPT !.queue = queue, !.short = short]
  BY DEF EncChain
<1>3. /\ x.node.color = color /\ x.node.w = x.sink.w /\ x.node.h = x.sink.h
      /\ x.sink.w \in Nat /\ x.sink.h \in Nat
  BY DEF EncInv, EncNode, EncSized, RawCaps
<1>4. needed \in Nat /\ needed <= len
  BY <1>3, BytesMonotonic
<1>5. ~short
  <2> HIDE DEF needed
  <2> QED
    BY <1>1, <1>4
<1> HIDE DEF short, queue, y
<1>6. DOMAIN y = EncFields /\ Alike(y, x, {"queue", "short"}) /\ y.short = short
  BY <1>1, <1>2 DEF Alike, EncFields
<1>7. /\ y.bitrate = x.bitrate /\ (x.dead => y.dead) /\ y.alg = x.alg
      /\ y.max_bitrate = x.max_bitrate /\ y.draining = x.draining
      /\ y.chosen = x.chosen /\ y.width = x.width /\ y.height = x.height /\ y.rate = x.rate
      /\ y.asked = x.asked /\ y.crossing = x.crossing /\ y.crossed = x.crossed
  BY <1>6 DEF Alike, EncFields
<1>8. y.bitrate \in Nat /\ y.asked \in Nat \cup {NotAsked} /\ (Bounded(x) => Bounded(y))
  BY <1>1, <1>7 DEF EncTypes, Bounded
<1>9. Alike(y, x, QuietFields)
  BY <1>6 DEF Alike, QuietFields
<1> QED
  BY <1>5, <1>6, <1>7, <1>8, <1>9, UntouchedKeeps DEF y

-----------------------------------------------------------------------------
(* The node returns something. *)

RecvFields == {"sps", "pps", "skip_hack_2", "src", "codec_data_done", "raced"}

(* What a recv_cb may do to an encoder: the caps of the source pad only    *)
(* gain codec_data.                                                        *)
Received(r, x) ==
  /\ DOMAIN r = EncFields /\ Alike(r, x, RecvFields)
  /\ r.skip_hack_2 \in Nat
  /\ r.src \in EncCaps /\ r.src.w = x.src.w /\ r.src.h = x.src.h
  /\ x.src.data => r.src.data

(* With the second header codec_data is in the caps. *)
LEMMA StoreHeaderIs ==
  ASSUME NEW x, EncTypes(x), x.src \in EncCaps
  PROVE  LET r == StoreHeader(x) IN
         /\ Received(r, x)
         /\ r.sps /\ (r.pps <=> x.pps \/ x.sps)
         /\ r.skip_hack_2 = x.skip_hack_2 + 1 /\ r.raced = x.raced
         /\ r.codec_data_done <=> x.codec_data_done \/ x.pps \/ x.sps
         /\ x.pps \/ x.sps => r.src.data
<1> DEFINE pps == x.pps \/ x.sps
           n == x.skip_hack_2 + 1
           s == [x EXCEPT !.pps = pps, !.sps = TRUE, !.skip_hack_2 = n]
           src == [s.src EXCEPT !.data = TRUE]
           r == StoreHeader(x)
<1>1. DOMAIN x = EncFields /\ n \in Nat
  BY DEF EncTypes
<1>2. r = IF s.pps THEN [s EXCEPT !.src = src, !.codec_data_done = TRUE] ELSE s
  BY DEF StoreHeader
<1> HIDE DEF pps, n
<1>3. /\ DOMAIN s = EncFields /\ Alike(s, x, {"sps", "pps", "skip_hack_2"})
      /\ s.pps = pps /\ s.sps = TRUE /\ s.skip_hack_2 = n
  BY <1>1 DEF Alike, EncFields
<1> HIDE DEF s
<1>4. /\ s.src = x.src /\ s.codec_data_done = x.codec_data_done /\ s.raced = x.raced
  BY <1>3 DEF Alike, EncFields
<1>5. src \in EncCaps /\ src.w = x.src.w /\ src.h = x.src.h /\ src.data
  BY <1>4 DEF EncCaps
<1> HIDE DEF src, r
<1>6. CASE pps
  <2>1. /\ DOMAIN r = EncFields /\ Alike(r, s, {"src", "codec_data_done"})
        /\ r.src = src /\ r.codec_data_done = TRUE
    BY <1>2, <1>3, <1>6 DEF Alike, EncFields
  <2>2. Alike(r, x, RecvFields)
    BY <1>3, <2>1 DEF Alike, RecvFields
  <2>3. r.sps = TRUE /\ r.pps = pps /\ r.skip_hack_2 = n /\ r.raced = x.raced
    BY <1>3, <1>4, <2>1 DEF Alike, EncFields
  <2> QED
    BY <1>1, <1>5, <1>6, <2>1, <2>2, <2>3 DEF Received, pps, n, r
<1>7. CASE ~pps
  <2>1. r = s
    BY <1>2, <1>3, <1>7
  <2>2. Alike(r, x, RecvFields)
    BY <1>3, <2>1 DEF Alike, RecvFields
  <2> QED
    BY <1>1, <1>3, <1>4, <1>7, <2>1, <2>2 DEF Received, pps, n, r
<1> QED
  BY <1>6, <1>7

(* A header that comes again is counted, and may have raced. *)
LEMMA IgnoreHeaderIs ==
  ASSUME NEW x, EncTypes(x), x.src \in EncCaps, NEW kind
  PROVE  LET r == IgnoreHeader(x, kind) IN
         /\ Received(r, x)
         /\ r.sps = x.sps /\ r.pps = x.pps /\ r.codec_data_done = x.codec_data_done
         /\ r.src = x.src
         /\ IF kind \in {"sps", "pps"}
            THEN /\ r.skip_hack_2 = x.skip_hack_2 + 1
                 /\ r.raced <=> x.raced \/ x.out # <<>>
            ELSE r.skip_hack_2 = x.skip_hack_2 /\ r.raced = x.raced
<1> DEFINE n == x.skip_hack_2 + 1
           raced == x.raced \/ x.out # <<>>
           r == IgnoreHeader(x, kind)
<1>1. DOMAIN x = EncFields /\ n \in Nat /\ x.skip_hack_2 \in Nat
  BY DEF EncTypes
<1>2. r = IF kind \notin {"sps", "pps"} THEN x ELSE [x EXCEPT !.skip_hack_2 = n, !.raced = raced]
  BY DEF IgnoreHeader
<1> HIDE DEF n, raced, r
<1>3. /\ DOMAIN r = EncFields /\ Alike(r, x, {"skip_hack_2", "raced"})
      /\ IF kind \in {"sps", "pps"} THEN r.skip_hack_2 = n /\ r.raced = raced ELSE r = x
  BY <1>1, <1>2 DEF Alike, EncFields
<1>4. r.src = x.src /\ r.sps = x.sps /\ r.pps = x.pps /\ r.codec_data_done = x.codec_data_done
  BY <1>3 DEF Alike, EncFields
<1>5. Alike(r, x, RecvFields)
  BY <1>3 DEF Alike, RecvFields
<1> QED
  BY <1>1, <1>3, <1>4, <1>5 DEF Received, n, raced, r

(* codec_data of MPEG-4 is put into the caps once. *)
LEMMA ExtractIs ==
  ASSUME NEW x, EncTypes(x), x.src \in EncCaps
  PROVE  Received(ExtractExtraData(x), x)
<1> DEFINE data == x.src.data \/ (~x.codec_data_done /\ x.setup.mode = 0)
           src == [x.src EXCEPT !.data = data]
           r == ExtractExtraData(x)
<1>1. DOMAIN x = EncFields /\ x.skip_hack_2 \in Nat
  BY DEF EncTypes
<1>2. r = [x EXCEPT !.codec_data_done = TRUE, !.src = src]
  BY <1>1 DEF ExtractExtraData, EncFields
<1>3. data \in BOOLEAN /\ (x.src.data => data)
  BY DEF EncCaps
<1> HIDE DEF data
<1>4. src \in EncCaps /\ src.w = x.src.w /\ src.h = x.src.h /\ src.data = data
  BY <1>3 DEF EncCaps
<1> HIDE DEF src
<1>5. DOMAIN r = EncFields /\ Alike(r, x, {"codec_data_done", "src"}) /\ r.src = src
  BY <1>1, <1>2 DEF Alike, EncFields
<1> HIDE DEF r
<1>6. Alike(r, x, RecvFields) /\ r.skip_hack_2 = x.skip_hack_2
  BY <1>5 DEF Alike, RecvFields, EncFields
<1> QED
  BY <1>1, <1>3, <1>4, <1>5, <1>6 DEF Received, r

Recv(x, kind) ==
  CASE x.alg = "H264ENC" -> H264EncRecv(x, kind)
    [] x.alg = "HDH264ENC" -> HdH264EncRecv(x, kind)
    [] x.alg \in HdMp4Algs -> HdMp4EncRecv(x, kind)
    [] x.alg \in Mp4Algs -> Mp4EncRecv(x)
    [] OTHER -> x

(* All recv_cb leave the node, the sizes and what waits alone. *)
LEMMA RecvIs ==
  ASSUME NEW x, EncTypes(x), x.src \in EncCaps, NEW kind
  PROVE  Received(Recv(x, kind), x)
<1>1. Received(x, x)
  BY DEF Received, Alike, EncTypes
<1>2. Received(StoreHeader(x), x) /\ Received(IgnoreHeader(x, kind), x)
      /\ Received(ExtractExtraData(x), x)
  BY StoreHeaderIs, IgnoreHeaderIs, ExtractIs
<1>3. Received(H264EncRecv(x, kind), x)
  BY <1>1, <1>2 DEF H264EncRecv
<1>4. Received(HdH264EncRecv(x, kind), x)
  BY <1>1, <1>3 DEF HdH264EncRecv
<1>5. Received(HdMp4EncRecv(x, kind), x) /\ Received(Mp4EncRecv(x), x)
  BY <1>1, <1>2 DEF HdMp4EncRecv, Mp4EncRecv
<1> QED
  BY <1>1, <1>3, <1>4, <1>5 DEF Recv

(* With headers apart, SPS and PPS come first, and are stored. *)
LEMMA RecvAvc ==
  ASSUME NEW x, IsAvc(x), x.node.apart, Headers(x), x.node # NoEnc, NEW kind \in NodeOutput(x)
  PROVE  /\ kind \in Kinds
         /\ IF x.headers < 2 THEN kind \in {"sps", "pps"} /\ Recv(x, kind) = StoreHeader(x)
            ELSE /\ Recv(x, kind) = IgnoreHeader(x, kind)
                 /\ kind \in {"sps", "pps"} => x.headers = 2
<1>1. x.headers \in 0 .. 3 /\ (x.codec_data_done <=> x.headers > 1)
  BY DEF Headers
<1>2. /\ kind \in Kinds
      /\ IF x.headers < 2 THEN kind \in {"sps", "pps"}
         ELSE kind \in {"sps", "pps"} => x.headers = 2
      /\ kind = "skip" => x.headers > 1
  BY <1>1 DEF NodeOutput, Kinds
<1>3. kind = "skip" => IgnoreHeader(x, kind) = x
  BY DEF IgnoreHeader
<1>4. Recv(x, kind) = IF x.codec_data_done THEN IgnoreHeader(x, kind) ELSE StoreHeader(x)
  <2>1. x.alg \in {"H264ENC", "HDH264ENC"}
    BY DEF IsAvc, H264Algs
  <2>2. H264EncRecv(x, kind) = IF x.codec_data_done THEN IgnoreHeader(x, kind)
                               ELSE StoreHeader(x)
    BY DEF H264EncRecv
  <2>3. HdH264EncRecv(x, kind) = H264EncRecv(x, kind)
    BY <1>1, <1>2, <1>3, <2>2 DEF HdH264EncRecv
  <2>4. Recv(x, kind) = IF x.alg = "H264ENC" THEN H264EncRecv(x, kind)
                        ELSE HdH264EncRecv(x, kind)
    BY <2>1 DEF Recv, HdMp4Algs, Mp4Algs
  <2> QED
    BY <2>2, <2>3, <2>4
<1> QED
  BY <1>1, <1>2, <1>4

(* The node returns a header, a frame or nothing. *)
LEMMA EncReceiveKeeps ==
  ASSUME NEW x, NEW color, EncInv(x, color), x.node # NoEnc, NEW kind \in NodeOutput(x)
  PROVE  EncInv(EncReceive(x, kind), color) /\ EncReceive(x, kind).draining = x.draining
<1> DEFINE header == kind \in {"sps", "pps"}
           r == Recv(x, kind)
           b == [kind |-> kind, size |-> <<x.node.w, x.node.h>>]
           headers == IF header THEN x.headers + 1 ELSE x.headers
           queue == IF header THEN x.queue ELSE Tail(x.queue)
           out == Append(x.out, b)
           y == EncReceive(x, kind)
<1>1. EncTypes(x) /\ DOMAIN x = EncFields /\ EncNode(x, color)
  BY DEF EncInv, EncTypes
<1>2. /\ EncSized(x) /\ Bounded(x) /\ (x.node.apart <=> IsAvc(x))
      /\ x.out \in Seq([kind : Kinds, size : {<<x.node.w, x.node.h>>}])
  BY <1>1 DEF EncNode
<1>3. Received(r, x)
  BY <1>1, <1>2, RecvIs DEF EncSized
<1>4. r.headers = x.headers /\ r.queue = x.queue /\ r.out = x.out /\ DOMAIN r = EncFields
  BY <1>3 DEF Received, Alike, EncFields, RecvFields
<1>5. y = [r EXCEPT !.headers = headers, !.queue = queue, !.out = out]
  <2>1. y = [r EXCEPT !.headers = IF header THEN @ + 1 ELSE @,
                      !.queue = IF header THEN @ ELSE Tail(@),
                      !.out = Append(@, b)]
    BY DEF EncReceive, Recv
  <2> HIDE DEF r, y
  <2> QED
    BY <1>4, <2>1 DEF EncFields
<1>6. kind \in Kinds
  BY DEF NodeOutput, Kinds
<1>7. /\ Len(out) = Len(x.out) + 1 /\ Len(x.out) \in Nat
      /\ out \in Seq([kind : Kinds, size : {<<x.node.w, x.node.h>>}])
      /\ \A i \in 1 .. Len(out) : out[i] = IF i <= Len(x.out) THEN x.out[i] ELSE b
  <2>1. b \in [kind : Kinds, size : {<<x.node.w, x.node.h>>}]
    BY <1>6
  <2> HIDE DEF b
  <2> QED
    BY <1>2, <2>1
<1> HIDE DEF r, headers, queue, out, y
<1>8. /\ DOMAIN y = EncFields /\ Alike(y, r, {"headers", "queue", "out"})
      /\ y.headers = headers /\ y.out = out
  BY <1>4, <1>5 DEF Alike, EncFields
<1>9. /\ y.alg = x.alg /\ y.setup = x.setup /\ y.bitrate = x.bitrate
      /\ y.max_bitrate = x.max_bitrate /\ y.ibs = x.ibs
      /\ y.chosen = x.chosen /\ y.width = x.width /\ y.height = x.height /\ y.rate = x.rate
      /\ y.sink = x.sink /\ y.color = x.color /\ y.bytestream = x.bytestream
      /\ y.node = x.node /\ y.left = x.left /\ y.draining = x.draining
      /\ y.kept = x.kept /\ y.short = x.short /\ y.skipping = x.skipping /\ y.lost = x.lost
      /\ y.asked = x.asked /\ y.crossing = x.crossing /\ y.crossed = x.crossed
  BY <1>3, <1>8 DEF Received, Alike, EncFields, RecvFields
<1>10. /\ y.src = r.src /\ y.skip_hack_2 = r.skip_hack_2 /\ y.sps = r.sps /\ y.pps = r.pps
       /\ y.codec_data_done = r.codec_data_done /\ y.raced = r.raced
       /\ y.src \in EncCaps /\ y.src.w = x.src.w /\ y.src.h = x.src.h
       /\ x.src.data => y.src.data
       /\ y.skip_hack_2 \in Nat
  BY <1>3, <1>8 DEF Received, Alike, EncFields
<1>11. EncTypes(y) /\ Formatted(y) /\ EncIdle(y) /\ ~y.short
  BY <1>8, <1>9, <1>10 DEF EncInv, EncTypes, Formatted, EncIdle
<1>12. EncNode(y, color)
  BY <1>1, <1>7, <1>8, <1>9, <1>10 DEF EncNode, EncSized, Bounded, IsAvc
<1>13. IsAvc(y) <=> IsAvc(x)
  BY <1>9 DEF IsAvc
<1>14. ASSUME IsAvc(x)
       PROVE  Headers(y) /\ (x.raced => y.raced)
  <2>1. /\ IF x.headers < 2 THEN header /\ r = StoreHeader(x)
           ELSE r = IgnoreHeader(x, kind) /\ (header => x.headers = 2)
    BY <1>2, <1>14, RecvAvc DEF EncInv, r
  <2>2. /\ x.headers \in 0 .. 3
        /\ x.sps <=> x.headers > 0
        /\ x.pps <=> x.headers > 1
        /\ x.codec_data_done <=> x.headers > 1
        /\ x.headers > 1 => x.src.data \/ x.kept \/ x.draining
        /\ x.headers < 2 => ~x.raced /\ \A i \in 1 .. Len(x.out) : IsHeader(x.out[i])
        /\ Counted(x)
    BY <1>14 DEF EncInv, Headers
  <2>3. /\ Waiting(x) \in Int
        /\ Waiting(y) = r.skip_hack_2 - x.skip_hack_2 + Waiting(x)
    BY <1>1, <1>9, <1>10 DEF EncTypes, Waiting
  <2>4. IsHeader(b) <=> header
    BY DEF IsHeader
  <2>5. CASE x.headers < 2
    <3>1. /\ r.sps /\ (r.pps <=> x.pps \/ x.sps)
          /\ r.skip_hack_2 = x.skip_hack_2 + 1 /\ r.raced = x.raced
          /\ r.codec_data_done <=> x.codec_data_done \/ x.pps \/ x.sps
          /\ x.pps \/ x.sps => r.src.data
      BY <1>1, <1>2, <2>1, <2>5, StoreHeaderIs DEF EncSized
    <3>2. headers = x.headers + 1
      BY <2>1, <2>5 DEF headers
    <3>3. ~x.lost => Waiting(x) = Len(x.out)
      <4>1. SUFFICES ASSUME ~x.lost PROVE Waiting(x) = Len(x.out)
        OBVIOUS
      <4>2. /\ Waiting(x) \in 0 .. Len(x.out)
            /\ \A i \in 1 .. Len(x.out) : i <= Waiting(x)
        BY <2>2, <2>5, <4>1 DEF Counted
      <4>3. Len(x.out) > 0 => Len(x.out) <= Waiting(x)
        BY <1>7, <4>2
      <4> QED
        BY <1>7, <4>2, <4>3
    <3>4. \A i \in 1 .. Len(out) : IsHeader(out[i])
      BY <1>7, <2>1, <2>2, <2>4, <2>5
    <3>5. Counted(y)
      <4>1. ~y.lost => Waiting(y) = Len(out)
        <5>1. r.skip_hack_2 - x.skip_hack_2 = 1
          BY <1>1, <3>1 DEF EncTypes
        <5> QED
          BY <1>7, <1>9, <2>3, <3>3, <5>1
      <4> QED
        BY <1>7, <1>8, <3>4, <4>1 DEF Counted
    <3> QED
      BY <1>8, <1>9, <1>10, <2>2, <2>5, <3>1, <3>2, <3>4, <3>5 DEF Headers
  <2>6. CASE ~(x.headers < 2)
    <3>1. /\ r.sps = x.sps /\ r.pps = x.pps /\ r.codec_data_done = x.codec_data_done
          /\ r.src = x.src
          /\ IF header
             THEN r.skip_hack_2 = x.skip_hack_2 + 1 /\ (r.raced <=> x.raced \/ x.out # <<>>)
             ELSE r.skip_hack_2 = x.skip_hack_2 /\ r.raced = x.raced
      BY <1>1, <1>2, <2>1, <2>6, IgnoreHeaderIs DEF EncSized
    <3>2. headers \in 2 .. 3 /\ headers >= x.headers
      BY <2>1, <2>2, <2>6 DEF headers
    <3>3. Counted(y)
      <4>1. CASE header /\ x.out = <<>>
        <5>1. ~x.raced /\ ~x.lost => Waiting(x) = 0
          BY <2>2, <4>1 DEF Counted
        <5>2. Len(out) = 1 /\ out[1] = b /\ IsHeader(out[1])
          BY <1>7, <2>4, <4>1
        <5>3. Waiting(y) = Waiting(x) + 1
          <6>1. r.skip_hack_2 - x.skip_hack_2 = 1
            BY <1>1, <3>1, <4>1 DEF EncTypes
          <6> QED
            BY <2>3, <6>1
        <5> QED
          BY <1>8, <1>9, <1>10, <3>1, <4>1, <5>1, <5>2, <5>3 DEF Counted
      <4>2. CASE header /\ x.out # <<>>
        BY <1>10, <3>1, <4>2 DEF Counted
      <4>3. CASE ~header
        <5>1. Waiting(y) = Waiting(x)
          <6>1. r.skip_hack_2 - x.skip_hack_2 = 0
            BY <1>1, <3>1, <4>3 DEF EncTypes
          <6> QED
            BY <2>3, <6>1
        <5> QED
          BY <1>7, <1>8, <1>9, <1>10, <2>2, <2>3, <2>4, <3>1, <4>3, <5>1 DEF Counted
      <4> QED
        BY <4>1, <4>2, <4>3
    <3>4. y.raced \/ ~x.raced
      BY <1>10, <3>1
    <3> QED
      BY <1>8, <1>9, <1>10, <2>2, <2>6, <3>1, <3>2, <3>3, <3>4 DEF Headers
  <2> QED
    <3>1. x.raced => y.raced
      BY <1>1, <1>2, <1>10, <2>1, <2>2, IgnoreHeaderIs DEF EncSized
    <3> QED
      BY <2>5, <2>6, <3>1
<1>15. Headers(y)
  BY <1>13, <1>14 DEF Headers
<1>16. LeftWell(y)
  BY <1>9, <1>13, <1>14 DEF EncInv, LeftWell
<1> QED
  BY <1>9, <1>11, <1>12, <1>15, <1>16 DEF EncInv, y

(* A queue without its head. *)
LEMMA TailIs ==
  ASSUME NEW S, NEW s \in Seq(S), s # <<>>
  PROVE  /\ Tail(s) \in Seq(S) /\ Len(Tail(s)) = Len(s) - 1 /\ Len(s) \in Nat \ {0}
         /\ \A i \in 1 .. Len(Tail(s)) : i + 1 \in 1 .. Len(s) /\ Tail(s)[i] = s[i + 1]
         /\ Head(s) = s[1] /\ s[1] \in S
  OBVIOUS

(* output_loop pushes, or begins to skip: skip_hack_2 is the number of     *)
(* headers at the front.                                                   *)
LEMMA EncPushKeeps ==
  ASSUME NEW x, NEW color, EncInv(x, color), x.out # <<>>, x.skipping = 0
  PROVE  EncInv(EncPush(x), color) /\ EncPush(x).draining = x.draining
<1> DEFINE b == Head(x.out)
           out == Tail(x.out)
           o == [x EXCEPT !.out = out]
           left == [kind |-> b.kind, data |-> x.src.data, size |-> b.size,
                    caps |-> <<x.src.w, x.src.h>>, drained |-> x.draining]
           y == EncPush(x)
<1>1. EncTypes(x) /\ DOMAIN x = EncFields /\ x.node # NoEnc /\ x.skip_hack_2 \in Nat
  BY DEF EncInv, EncTypes, EncIdle, Blank
<1>2. /\ EncNode(x, color) /\ EncSized(x) /\ Bounded(x)
      /\ x.out \in Seq([kind : Kinds, size : {<<x.node.w, x.node.h>>}])
      /\ ~x.draining => x.node.w = x.width /\ x.node.h = x.height
  BY <1>1 DEF EncInv, EncNode
<1>3. /\ Len(out) = Len(x.out) - 1 /\ Len(x.out) \in Nat \ {0}
      /\ out \in Seq([kind : Kinds, size : {<<x.node.w, x.node.h>>}])
      /\ \A i \in 1 .. Len(out) : i + 1 \in 1 .. Len(x.out) /\ out[i] = x.out[i + 1]
      /\ b = x.out[1] /\ b.kind \in Kinds /\ b.size = <<x.node.w, x.node.h>>
  <2> DEFINE S == [kind : Kinds, size : {<<x.node.w, x.node.h>>}]
  <2>1. x.out \in Seq(S)
    BY <1>2
  <2>2. \A c \in S : c.kind \in Kinds /\ c.size = <<x.node.w, x.node.h>>
    OBVIOUS
  <2> HIDE DEF S
  <2>3. /\ out \in Seq(S) /\ Len(out) = Len(x.out) - 1 /\ Len(x.out) \in Nat \ {0}
        /\ \A i \in 1 .. Len(out) : i + 1 \in 1 .. Len(x.out) /\ out[i] = x.out[i + 1]
        /\ b = x.out[1] /\ b \in S
    BY <2>1, TailIs
  <2> QED
    BY <2>2, <2>3 DEF S
<1>4. y = IF x.skip_hack_2 > 0 THEN [o EXCEPT !.skipping = x.skip_hack_2]
          ELSE IF b.kind = "skip" THEN o ELSE [o EXCEPT !.left = left]
  BY DEF EncPush
<1>5. left # Nothing /\ left.kind = b.kind /\ left.size = b.size
      /\ left.caps = <<x.src.w, x.src.h>> /\ left.drained = x.draining /\ left.data = x.src.data
  BY DEF Nothing
<1> HIDE DEF left, out, b, y
<1>6. DOMAIN o = EncFields /\ Alike(o, x, {"out"}) /\ o.out = out
  BY <1>1 DEF Alike, EncFields
<1> HIDE DEF o
<1>7. /\ DOMAIN y = EncFields /\ Alike(y, o, {"skipping", "left"})
      /\ y.skipping = IF x.skip_hack_2 > 0 THEN x.skip_hack_2 ELSE o.skipping
      /\ y.left = IF x.skip_hack_2 > 0 \/ b.kind = "skip" THEN o.left ELSE left
  BY <1>4, <1>6 DEF Alike, EncFields
<1>8. /\ y.alg = x.alg /\ y.setup = x.setup /\ y.bitrate = x.bitrate
      /\ y.max_bitrate = x.max_bitrate /\ y.ibs = x.ibs
      /\ y.chosen = x.chosen /\ y.width = x.width /\ y.height = x.height /\ y.rate = x.rate
      /\ y.sink = x.sink /\ y.src = x.src /\ y.color = x.color /\ y.bytestream = x.bytestream
      /\ y.node = x.node /\ y.draining = x.draining /\ y.out = out
      /\ y.sps = x.sps /\ y.pps = x.pps /\ y.codec_data_done = x.codec_data_done
      /\ y.kept = x.kept /\ y.raced = x.raced /\ y.short = x.short /\ y.headers = x.headers
      /\ y.skip_hack_2 = x.skip_hack_2 /\ y.lost = x.lost
      /\ y.asked = x.asked /\ y.crossing = x.crossing /\ y.crossed = x.crossed
  BY <1>6, <1>7 DEF Alike, EncFields
<1>9. /\ y.skipping = x.skip_hack_2
      /\ y.left = IF x.skip_hack_2 > 0 \/ b.kind = "skip" THEN x.left ELSE left
      /\ Waiting(x) = x.skip_hack_2
      /\ Waiting(y) = IF x.skip_hack_2 > 0 THEN x.skip_hack_2 - 1 ELSE 0
  BY <1>1, <1>6, <1>7, <1>8 DEF Alike, EncFields, Waiting
<1>10. EncTypes(y) /\ Formatted(y) /\ EncIdle(y) /\ ~y.short
  BY <1>1, <1>7, <1>8, <1>9 DEF EncInv, EncTypes, Formatted, EncIdle
<1>11. EncNode(y, color)
  BY <1>2, <1>3, <1>8 DEF EncNode, EncSized, Bounded, IsAvc
<1>12. IsAvc(y) <=> IsAvc(x)
  BY <1>8 DEF IsAvc
<1>13. Counted(x) => Counted(y)
  <2>1. SUFFICES ASSUME Counted(x), ~y.raced, ~y.lost
                 PROVE  /\ Waiting(y) \in 0 .. Len(out)
                        /\ \A i \in 1 .. Len(out) : IsHeader(out[i]) <=> i <= Waiting(y)
    BY <1>8 DEF Counted
  <2>2. /\ x.skip_hack_2 \in 0 .. Len(x.out)
        /\ \A i \in 1 .. Len(x.out) : IsHeader(x.out[i]) <=> i <= x.skip_hack_2
    BY <1>8, <1>9, <2>1 DEF Counted
  <2>3. Waiting(y) \in 0 .. Len(out)
    BY <1>1, <1>3, <1>9, <2>2
  <2>4. ASSUME NEW i \in 1 .. Len(out)
        PROVE  IsHeader(out[i]) <=> i <= Waiting(y)
    <3>1. i + 1 \in 1 .. Len(x.out) /\ out[i] = x.out[i + 1] /\ i \in Nat \ {0}
      BY <1>3
    <3>2. IsHeader(out[i]) <=> i + 1 <= x.skip_hack_2
      BY <2>2, <3>1
    <3>3. i + 1 <= x.skip_hack_2 <=> i <= Waiting(y)
      BY <1>1, <1>9, <3>1
    <3> QED
      BY <3>2, <3>3
  <2> QED
    BY <2>3, <2>4
(* A header that leaves has raced, or has not been counted. *)
<1>14. ASSUME IsAvc(x), x.skip_hack_2 = 0, b.kind # "skip"
       PROVE  IF b.kind = "frame" THEN x.src.data \/ x.kept \/ x.draining
              ELSE x.raced \/ x.lost
  <2>1. /\ x.headers \in 0 .. 3 /\ Counted(x)
        /\ x.headers > 1 => x.src.data \/ x.kept \/ x.draining
        /\ x.headers < 2 => ~x.raced /\ \A i \in 1 .. Len(x.out) : IsHeader(x.out[i])
    BY <1>1, <1>14 DEF EncInv, Headers
  <2>2. ~x.raced /\ ~x.lost => ~IsHeader(b)
    BY <1>3, <1>9, <1>14, <2>1 DEF Counted
  <2>3. x.headers < 2 => IsHeader(b)
    BY <1>3, <2>1
  <2> QED
    BY <1>3, <1>14, <2>1, <2>2, <2>3 DEF IsHeader, Kinds
<1>15. Headers(y)
  <2>1. SUFFICES ASSUME IsAvc(x) PROVE Headers(y)
    BY <1>12 DEF Headers
  <2>2. /\ x.headers \in 0 .. 3
        /\ x.sps <=> x.headers > 0
        /\ x.pps <=> x.headers > 1
        /\ x.codec_data_done <=> x.headers > 1
        /\ x.headers > 1 => x.src.data \/ x.kept \/ x.draining
        /\ x.headers < 2 => ~x.raced /\ \A i \in 1 .. Len(x.out) : IsHeader(x.out[i])
        /\ Counted(y)
    BY <1>1, <1>13, <2>1 DEF EncInv, Headers
  <2>3. x.headers < 2 => \A i \in 1 .. Len(out) : IsHeader(out[i])
    BY <1>3, <2>2
  <2> QED
    BY <1>8, <2>2, <2>3 DEF Headers
<1>16. LeftWell(y)
  <2>1. CASE y.left = x.left
    BY <1>8, <1>12, <2>1 DEF EncInv, LeftWell
  <2>2. CASE y.left = left /\ x.skip_hack_2 = 0 /\ b.kind # "skip"
    <3>1. left.size = left.caps \/ left.drained
      BY <1>2, <1>3, <1>5 DEF EncSized
    <3> QED
      BY <1>5, <1>8, <1>12, <1>14, <2>2, <3>1 DEF LeftWell
  <2> QED
    BY <1>1, <1>9, <2>1, <2>2
<1> QED
  BY <1>8, <1>10, <1>11, <1>15, <1>16 DEF EncInv, y

(* output_loop counts down: unless a step is lost, the headers that wait   *)
(* are as many as before.                                                  *)
LEMMA EncSkippedKeeps ==
  ASSUME NEW x, NEW color, EncInv(x, color), x.skipping # 0, NEW left \in CountedDown(x)
  PROVE  EncInv(EncSkipped(x, left), color) /\ EncSkipped(x, left).draining = x.draining
<1> DEFINE y == EncSkipped(x, left)
<1>1. /\ EncTypes(x) /\ DOMAIN x = EncFields /\ x.node # NoEnc
      /\ x.skip_hack_2 \in Nat /\ x.skipping \in Nat \ {0}
  BY DEF EncInv, EncTypes, EncIdle, Blank
<1>2. left \in Nat
  BY <1>1 DEF CountedDown
<1>3. /\ DOMAIN y = EncFields /\ Alike(y, x, {"skip_hack_2", "skipping", "lost"})
      /\ y.skip_hack_2 = left /\ y.skipping = 0
      /\ y.lost <=> x.lost \/ left # x.skip_hack_2 - 1
  BY <1>1 DEF EncSkipped, Alike, EncFields
<1> HIDE DEF y
<1>4. /\ y.alg = x.alg /\ y.setup = x.setup /\ y.bitrate = x.bitrate
      /\ y.max_bitrate = x.max_bitrate /\ y.ibs = x.ibs
      /\ y.chosen = x.chosen /\ y.width = x.width /\ y.height = x.height /\ y.rate = x.rate
      /\ y.sink = x.sink /\ y.src = x.src /\ y.color = x.color /\ y.bytestream = x.bytestream
      /\ y.node = x.node /\ y.draining = x.draining /\ y.out = x.out /\ y.left = x.left
      /\ y.sps = x.sps /\ y.pps = x.pps /\ y.codec_data_done = x.codec_data_done
      /\ y.kept = x.kept /\ y.raced = x.raced /\ y.short = x.short /\ y.headers = x.headers
      /\ y.asked = x.asked /\ y.crossing = x.crossing /\ y.crossed = x.crossed
  BY <1>3 DEF Alike, EncFields
<1>5. EncTypes(y) /\ Formatted(y) /\ EncIdle(y) /\ ~y.short
  BY <1>1, <1>2, <1>3, <1>4 DEF EncInv, EncTypes, Formatted, EncIdle
<1>6. EncNode(y, color)
  BY <1>4 DEF EncInv, EncNode, EncSized, Bounded, IsAvc
<1>7. (IsAvc(y) <=> IsAvc(x)) /\ (x.lost => y.lost)
  BY <1>3, <1>4 DEF IsAvc
<1>8. Counted(x) => Counted(y)
  <2>1. ~y.lost => ~x.lost /\ Waiting(y) = Waiting(x)
    BY <1>1, <1>3 DEF Waiting
  <2> QED
    BY <1>4, <2>1 DEF Counted
<1>9. Headers(y) /\ LeftWell(y)
  BY <1>4, <1>7, <1>8 DEF EncInv, Headers, LeftWell
<1> QED
  BY <1>4, <1>5, <1>6, <1>9 DEF EncInv, y

-----------------------------------------------------------------------------
(* The two together *)

Inv ==
  /\ DecInv /\ EncInv(e, ColorOf(d.board))
  /\ e.draining => up # NoStream

(* A new encoder. *)
LEMMA NewEncKeeps ==
  ASSUME NEW alg \in Algs, NEW interval, NEW setup \in Properties, NEW color
  PROVE  EncInv(NewEnc(alg, interval, setup), color) /\ ~NewEnc(alg, interval, setup).draining
<1> DEFINE x == NewEnc(alg, interval, setup)
<1>1. /\ DOMAIN x = EncFields /\ x.alg = alg /\ x.setup = setup /\ x.bitrate = 0
      /\ x.max_bitrate = 0 /\ x.ibs = 0 /\ x.skip_hack_2 = 0 /\ x.bytestream = TRUE
      /\ x.node = NoEnc /\ x.out = <<>> /\ x.left = Nothing /\ ~x.draining
      /\ ~x.sps /\ ~x.pps /\ ~x.codec_data_done /\ ~x.kept /\ ~x.raced
      /\ x.sink = NoCaps /\ ~x.short /\ x.skipping = 0 /\ ~x.lost /\ x.asked = NotAsked
  BY DEF NewEnc, EncFields
<1> HIDE DEF x
<1>2. EncTypes(x) /\ Formatted(x)
  <2>1. EncTypes(x)
    BY <1>1 DEF EncTypes
  <2>2. Formatted(x)
    BY <1>1 DEF Formatted
  <2> QED
    BY <2>1, <2>2
<1>3. EncIdle(x) /\ EncNode(x, color) /\ Headers(x) /\ LeftWell(x)
  BY <1>1 DEF EncIdle, Blank, EncNode, Headers, LeftWell
<1> QED
  BY <1>1, <1>2, <1>3 DEF EncInv, x

(* The invariant holds at first, *)
LEMMA InvInit == Init => Inv
<1> SUFFICES ASSUME Init PROVE Inv
  OBVIOUS
<1>1. PICK setup \in Setups : e = setup.enc
  BY DEF Init
<1>2. /\ setup.enc.alg \in Algs /\ setup.enc.setup \in Properties
      /\ e = NewEnc(setup.enc.alg, setup.enc.interval, setup.enc.setup)
  BY <1>1, SetupsAssumption
<1>3. EncInv(e, ColorOf(d.board)) /\ ~e.draining
  BY <1>2, NewEncKeeps
<1> QED
  BY <1>3, DecInit DEF Inv

(* A frame of the decoder's node comes with caps of its board's colour,    *)
(* and is as long as the picture these caps speak of.                      *)
LEMMA FrameFollowsCaps ==
  ASSUME DecInv, d.done # <<>>
  PROVE  /\ d.src \in RawCaps /\ d.src.color = ColorOf(d.board) /\ up # NoStream
         /\ Head(d.done).len \in Nat
         /\ Bytes(d.src.color, d.src.w, d.src.h) <= Head(d.done).len
<1>1. d.node # NoNode
  BY DEF DecInv, Base, Idle
<1>2. /\ d.src \in RawCaps /\ d.src.color = ColorOf(d.board)
  BY <1>1 DEF DecInv, Base, NodeSizes
<1>3. /\ d.done \in Seq([len : Nat, room : Nat])
      /\ \A i \in DOMAIN d.done : Picture(d) <= d.done[i].len
  BY <1>1 DEF DecInv, Base, Frames
<1>4. 1 \in DOMAIN d.done /\ Head(d.done) = d.done[1] /\ d.done[1].len \in Nat
  <2> DEFINE S == [len : Nat, room : Nat]
  <2>1. \A f \in S : f.len \in Nat
    OBVIOUS
  <2> HIDE DEF S
  <2>2. 1 \in DOMAIN d.done /\ Head(d.done) = d.done[1] /\ d.done[1] \in S
    <3>1. d.done \in Seq(S) /\ d.done # <<>>
      BY <1>3 DEF S
    <3>2. Len(d.done) \in Nat \ {0} /\ DOMAIN d.done = 1 .. Len(d.done)
      BY <3>1
    <3> QED
      BY <3>1, <3>2
  <2> QED
    BY <2>1, <2>2
<1>5. up # NoStream
  BY <1>1 DEF DecInv, Linked
<1> QED
  BY <1>2, <1>3, <1>4, <1>5 DEF Picture

(* and every step preserves it. *)
LEMMA InvStep == Inv /\ [Next]_vars => Inv'
<1> SUFFICES ASSUME Inv, [Next]_vars PROVE Inv'
  OBVIOUS
<1>1. DecInv' /\ d'.board = d.board
  BY DecStep DEF Inv
<1> DEFINE color == ColorOf(d.board)
<1>2. SUFFICES EncInv(e', color) /\ (e'.draining => up' # NoStream)
  BY <1>1 DEF Inv
<1>3. EncInv(e, color) /\ DecInv /\ (e.draining => up # NoStream)
  BY DEF Inv
<1> HIDE DEF color
<1>4. CASE NewStream
  BY <1>3, <1>4 DEF NewStream, Alive
<1>5. CASE DecChain
  BY <1>3, <1>5 DEF DecChain, Alive
<1>6. CASE DecReceive
  BY <1>3, <1>6 DEF DecReceive
<1>7. CASE DecPush
  <2> DEFINE s == IF e.sink = d.src THEN e ELSE EncSetCaps(e, d.src)
             len == Head(d.done).len
  <2>1. /\ d.done # <<>> /\ ~e.draining /\ up' = up
        /\ \/ (s.draining \/ s.dead) /\ e' = s
           \/ ~s.draining /\ ~s.dead /\ e' = EncChain(s, len)
    BY <1>7 DEF DecPush, Alive
  <2>2. /\ d.src \in RawCaps /\ d.src.color = color /\ up # NoStream
        /\ len \in Nat /\ Bytes(color, d.src.w, d.src.h) <= len
    BY <1>3, <2>1, FrameFollowsCaps DEF color
  <2>3. EncInv(s, color) /\ (s.dead \/ s.draining \/ (s.node # NoEnc /\ s.sink = d.src))
    <3>1. CASE e.sink = d.src
      <4>1. e.sink # NoCaps
        BY <2>2, <3>1 DEF RawCaps, NoCaps
      <4> QED
        BY <1>3, <3>1, <4>1 DEF EncInv, EncIdle
    <3>2. CASE e.sink # d.src
      BY <1>3, <2>1, <2>2, <3>2, EncSetCapsKeeps DEF Answered
    <3> QED
      BY <3>1, <3>2
  <2> HIDE DEF s, len
  <2>4. CASE e' = s
    BY <2>1, <2>2, <2>3, <2>4
  <2>5. CASE ~s.draining /\ ~s.dead /\ e' = EncChain(s, len)
    BY <2>1, <2>2, <2>3, <2>5, EncChainKeeps
  <2> QED
    BY <2>1, <2>4, <2>5
<1>8. CASE EncDrained
  BY <1>3, <1>8, EndDrainKeeps DEF EncDrained
<1>9. CASE EncReturn
  <2>1. PICK kind \in NodeOutput(e) : e' = EncReceive(e, kind)
    BY <1>9 DEF EncReturn
  <2>2. e.node # NoEnc /\ up' = up
    BY <1>9 DEF EncReturn
  <2> QED
    BY <1>3, <2>1, <2>2, EncReceiveKeeps
<1>10. CASE EncOutput
  <2>1. \/ e.out # <<>> /\ e.skipping = 0 /\ e' = EncPush(e) /\ up' = up
        \/ /\ e.skipping # 0 /\ up' = up
           /\ \E left \in CountedDown(e) : e' = EncSkipped(e, left)
    BY <1>10 DEF EncOutput
  <2> QED
    BY <1>3, <2>1, EncPushKeeps, EncSkippedKeeps
<1>11. CASE AskBitrate
  <2>1. PICK bitrate \in Bitrates : e' = TestBitrate(e, bitrate)
    BY <1>11 DEF AskBitrate
  <2>2. bitrate \in Nat /\ up' = up
    BY <1>11, SetupsAssumption DEF AskBitrate
  <2> QED
    BY <1>3, <2>1, <2>2, TestBitrateKeeps
<1>12. CASE SetBitrate
  BY <1>3, <1>12, StoreBitrateKeeps DEF SetBitrate
<1>13. CASE Restart
  BY <1>3, <1>13, RestartKeeps DEF Restart, Restarted
<1>14. CASE UNCHANGED vars
  BY <1>3, <1>14 DEF vars
<1> QED
  BY <1>4, <1>5, <1>6, <1>7, <1>8, <1>9, <1>10, <1>11, <1>12, <1>13, <1>14 DEF Next

(* In every state the decoder's sizes, its node and what it reads go       *)
(* together with the caps of its stream, and the encoder's node, its       *)
(* headers and the frames that wait with the caps of the decoder           *)
(* (gstdspvdec.c, gstdspparse.c, gstdspvenc.c and the codecs under         *)
(* tidsp/).                                                                *)
THEOREM TranscoderInvariant == Spec => []Inv
  BY InvInit, InvStep, PTL DEF Spec

(* No frame is longer than the buffer its node has filled,                 *)
(* gstdsp_vdec_len_fixup gives it the length of the caps, and the          *)
(* encoder's node gets the whole picture.                                  *)
THEOREM TranscoderFramesFit == Spec => []FramesFit
<1>1. Inv => FramesFit
  <2> SUFFICES ASSUME Inv PROVE FramesFit
    OBVIOUS
  <2>1. ~e.short
    BY DEF Inv, EncInv
  <2>2. ASSUME ~d.recrop, NEW i \in 1 .. Len(d.done)
        PROVE  /\ d.done[i].len <= d.done[i].room
               /\ HasLenFixup(d.node.codec) =>
                    d.done[i].len = Bytes(d.src.color, d.src.w, d.src.h)
    <3>1. Base(d)
      BY DEF Inv, DecInv
    <3>2. d.node # NoNode
      BY <2>2, <3>1 DEF Base, Idle
    <3>3. /\ d.done \in Seq([len : Nat, room : Nat])
          /\ Needed(d) <= d.done[i].room
          /\ IF HasLenFixup(d.node.codec) THEN d.done[i].len = Picture(d)
             ELSE d.done[i].len = Needed(d)
      BY <2>2, <3>1, <3>2 DEF Base, Frames
    <3>4. Needed(d) \in Nat /\ Picture(d) \in Nat /\ Picture(d) <= Needed(d)
      BY <3>1, <3>2, NodeNeeds
    <3>5. d.done[i].len \in Nat /\ d.done[i].room \in Nat
      <4> DEFINE S == [len : Nat, room : Nat]
      <4>1. \A f \in S : f.len \in Nat /\ f.room \in Nat
        OBVIOUS
      <4> HIDE DEF S
      <4>2. d.done \in Seq(S)
        BY <3>3 DEF S
      <4>3. d.done[i] \in S
        BY <2>2, <4>2
      <4> QED
        BY <4>1, <4>3
    <3>6. d.done[i].len <= d.done[i].room
      BY <3>3, <3>4, <3>5
    <3> QED
      BY <3>3, <3>6 DEF Picture
  <2> QED
    BY <2>1, <2>2 DEF FramesFit
<1> QED
  BY <1>1, TranscoderInvariant, PTL

(* A running decoder has a node of the size in the last SPS, which reads   *)
(* what send_cb passes on, but for what the code leaves open               *)
(* (gstdspvdec.c: sink_setcaps, init_node, check_stream_params, and the    *)
(* send_cb of the codecs).                                                 *)
THEOREM TranscoderNodeFollowsStream == Spec => []NodeFollowsStream
<1>1. Inv => NodeFollowsStream
  <2> SUFFICES ASSUME Inv, d.node # NoNode PROVE NodeFollowsStream
    BY DEF NodeFollowsStream
  <2>1. Seen(d) /\ Misread(d)
    BY DEF Inv, DecInv, Base
  <2> QED
    BY <2>1 DEF NodeFollowsStream, Seen, Misread, Excused, Foreign
<1> QED
  BY <1>1, TranscoderInvariant, PTL

(* Frames of AVC leave after codec_data is in the caps and headers do not  *)
(* leave unless a step of skip_hack_2 is lost or one came again behind a   *)
(* frame, frames leave with the caps of their size, the bitrate stays      *)
(* below the maximum unless it was tested before the last caps and stored  *)
(* after them, and the level is enough or the last one (gstdspvenc.c:      *)
(* sink_setcaps, check_supported_levels, set_property; out_recv_cb of the  *)
(* H.264 encoders; output_loop).                                           *)
THEOREM TranscoderEncoderKeepsPromises == Spec => []EncoderKeepsPromises
<1>1. Inv => EncoderKeepsPromises
  <2> SUFFICES ASSUME Inv PROVE EncoderKeepsPromises
    OBVIOUS
  <2>1. LeftWell(e) /\ EncNode(e, ColorOf(d.board))
    BY DEF Inv, EncInv
  <2> QED
    BY <2>1 DEF EncoderKeepsPromises, LeftWell, EncNode, Bounded
<1> QED
  BY <1>1, TranscoderInvariant, PTL
=============================================================================
