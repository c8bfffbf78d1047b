---------------------------- MODULE MCTranscoder ----------------------------
(***************************************************************************)
(* Streams, boards and encoders for TLC: not every product of the fields,  *)
(* but one of each kind the code treats apart.                             *)
(***************************************************************************)
EXTENDS Transcoder

Sps(profile, mbw, mbh, crop_y, refs) ==
  [profile |-> profile, chroma |-> 1, planes |-> FALSE, mbw |-> mbw, mbh |-> mbh,
   frame_mbs |-> TRUE, crop_x |-> 0, crop_y |-> crop_y, refs |-> refs, poc |-> 0]
Config(sps) == [lol |-> 4] @@ sps
H263Head(size, w9, h9) ==
  [size |-> size, esize |-> 6, ufep |-> 1, w9 |-> w9, h9 |-> h9, cpm |-> FALSE,
   epar |-> FALSE, pb |-> FALSE, bits |-> 200]
Mpeg4Head(w, h, divx) ==
  [start |-> "sequence", defect |-> FALSE, w |-> w, h |-> h, divx |-> divx, xvid |-> FALSE]

Buf(form, head) == [form |-> form, head |-> head]
Caps(name, w, h, rate, data) ==
  [name |-> name, w |-> w, h |-> h, rate |-> rate, data |-> data, vc1 |-> FALSE]
Stream(caps, bufs, tagged) == [caps |-> caps, bufs |-> bufs, tagged |-> tagged]

NoRate == <<0, 1>>
Pal == <<25, 1>>
Fast == <<60, 1>>
Ntsc == <<30000, 1001>>

HighSps == Sps(100, 40, 30, 0, 4)           \* 640x480
MainSps == Sps(77, 40, 23, 4, 2)            \* 640x368, cropped to 640x360
BaseSps == Sps(66, 20, 15, 0, 1)            \* 320x240

AvcHigh == Stream(Caps("h264", 640, 480, Fast, Buf("avcC", Config(HighSps))),
                  {Buf("len", NoHead)}, FALSE)
NalBase == Stream(Caps("h264", 320, 240, Ntsc, NoBuf),
                  {Buf("nal", BaseSps), Buf("nal", MainSps), Buf("nal", NoHead)}, FALSE)
Divx == Stream(Caps("divx", 640, 368, NoRate, Buf("mpeg4", Mpeg4Head(640, 368, TRUE))),
               {Buf("mpeg4", NoHead)}, FALSE)
Vc1 == Stream([Caps("wmv", 320, 240, Pal, Buf("seq", NoHead)) EXCEPT !.vc1 = TRUE],
              {Buf("vc1", NoHead), Buf("seq+vc1", NoHead)}, FALSE)
Wmv3 == Stream(Caps("wmv", 176, 144, Pal, Buf("seq", NoHead)), {Buf("wmv3", NoHead)}, FALSE)

(* One of every kind, and those that make a difference to the encoder.     *)
MCDecStreams ==
  { AvcHigh, NalBase, Divx, Vc1, Wmv3,
    Stream(Caps("h264", 640, 480, Pal, NoBuf), {Buf("nal", BaseSps)}, FALSE),
    Stream(Caps("h264", 640, 360, Pal, NoBuf),
           {Buf("nal", MainSps), Buf("nal", BaseSps)}, TRUE),
    Stream(Caps("h263", 0, 0, Pal, NoBuf),
           {Buf("h263", H263Head(2, 0, 0)), Buf("h263", H263Head(7, 79, 60))}, FALSE),
    Stream(Caps("mpeg4", 180, 100, Pal, NoBuf),
           {Buf("mpeg4", Mpeg4Head(180, 100, FALSE)), Buf("mpeg4", NoHead)}, FALSE) }

(* For the encoder: two sizes in a byte stream, and two streams of one     *)
(* size, with which it keeps its node, one of them without a rate.         *)
MCEncStreams ==
  { [NalBase EXCEPT !.bufs = {Buf("nal", BaseSps), Buf("nal", MainSps)}],
    Stream(Caps("mpeg4", 180, 100, Pal, NoBuf), {Buf("mpeg4", NoHead)}, FALSE),
    Stream(Caps("divx", 180, 100, NoRate, NoBuf), {Buf("mpeg4", NoHead)}, FALSE) }

MCStreams == MCDecStreams \cup MCEncStreams

AllLibs == {"hdmp4vdec", "hdh264dec_hp", "hdh264dec_bp"}
Board(force, libs, down, mode) ==
  [force |-> force, libs |-> libs, down |-> down, mode |-> mode]

Hd == Board("unset", AllLibs, "UYVY", 0)
Plain == Board("unset", {}, "I420", 0)
ForcedHd == Board("HD", AllLibs, "UYVY", 1)
ForcedSd == Board("other", AllLibs, "I420", 1)

Props(max, level, avc, mode) ==
  [max_bitrate |-> max, level |-> level, avc |-> avc, mode |-> mode, quality |-> 90]

Setup(board, alg, interval, properties) ==
  [board |-> board, enc |-> NewEnc(alg, interval, properties)]

(* The boards, each with an encoder; those of H.264 can send byte streams  *)
(* and AVC.                                                                *)
H264Setups(avc) ==
  { Setup(Hd, "H264ENC", 1, Props(0, -1, avc, 0)),
    Setup(Plain, "HDH264ENC", 10, Props(100000, 20, avc, 0)) }

MCSetups ==
  { Setup(Hd, "MP4VENC", 1, Props(0, 2, FALSE, 0)),
    Setup(ForcedHd, "H263P0ENC", 1, Props(0, -1, FALSE, 1)),
    Setup(ForcedSd, "HDMP4VENC", 1, Props(0, -1, FALSE, 0)),
    Setup(Plain, "JPEGENC", 1, Props(0, -1, FALSE, 0)) }
  \cup H264Setups(FALSE) \cup H264Setups(TRUE)

(* The bounds: encoders that send AVC have the streams made for them, and  *)
(* one of them has its bitrate set.                                        *)
Scope ==
  /\ up = NoStream \/ up \in IF e.setup.avc THEN MCEncStreams ELSE MCDecStreams
  /\ e.asked # NotAsked => e.setup.avc /\ e.alg = "H264ENC"
=============================================================================
