---------------------------- MODULE VideoLevels ----------------------------
(***************************************************************************)
(* The levels of the video encoders and check_supported_levels             *)
(* (gstdspvenc.c), which chooses one for a size, a frame rate and a        *)
(* bitrate.                                                                *)
(***************************************************************************)
EXTENDS Integers, Sequences, SequencesExt

Level(id, mbpf, mbps, bitrate) ==
  [id |-> id, mbpf |-> mbpf, mbps |-> mbps, bitrate |-> bitrate]

LevelsH264 == <<
  Level(10, 99, 1485, 64000), Level(10, 99, 1485, 128000), Level(11, 396, 3000, 192000),
  Level(12, 396, 6000, 384000), Level(13, 396, 11880, 768000), Level(20, 396, 11880, 2000000),
  Level(21, 792, 19800, 4000000), Level(22, 1620, 20250, 4000000),
  Level(30, 1620, 40500, 8000000), Level(31, 3600, 48600, 8000000)>>

LevelsHdH264 == <<
  Level(10, 99, 1485, 76800), Level(9, 99, 1485, 153600), Level(11, 396, 3000, 230400),
  Level(12, 396, 6000, 460800), Level(13, 396, 11880, 921600), Level(20, 396, 11880, 2400000),
  Level(21, 792, 19800, 4800000), Level(22, 1620, 20250, 4800000),
  Level(30, 1620, 40500, 8000000), Level(31, 3600, 108000, 8000000)>>

LevelsH263 == <<
  Level(10, 99, 1485, 64000), Level(20, 396, 5940, 128000), Level(30, 396, 11880, 384000),
  Level(40, 396, 11880, 2048000), Level(45, 99, 1485, 128000), Level(50, 396, 19800, 4096000),
  Level(60, 810, 40500, 8192000), Level(70, 1620, 81000, 16384000)>>

LevelsMp4 == <<
  Level(0, 99, 1485, 64000), Level(0, 99, 1485, 128000), Level(1, 99, 1485, 64000),
  Level(2, 396, 5940, 128000), Level(3, 396, 11880, 384000), Level(4, 1200, 36000, 4000000),
  Level(5, 1620, 47700, 5000000)>>

LevelsHdMp4 == <<
  Level(0, 99, 1485, 64000), Level(0, 99, 1485, 128000), Level(1, 99, 1485, 64000),
  Level(2, 396, 5940, 128000), Level(3, 396, 11880, 384000), Level(4, 1200, 36000, 4000000),
  Level(5, 1620, 40500, 8000000), Level(6, 3600, 108000, 12000000)>>

LevelsOf(alg) ==
  CASE alg = "H264ENC" -> LevelsH264
    [] alg = "HDH264ENC" -> LevelsHdH264
    [] alg \in {"H263ENC", "H263P0ENC"} -> LevelsH263
    [] alg = "MP4VENC" -> LevelsMp4
    [] alg = "HDMP4VENC" -> LevelsHdMp4
    [] OTHER -> <<>>            \* JPEG

MbUp(n) == (n + 15) \div 16
Mbpf(w, h) == MbUp(w) * MbUp(h)

(* Does cur replace the level found so far? *)
Better(level, cur, bitrate, mbps, mbpf) ==
  \/ bitrate # 0 /\ cur.bitrate >= bitrate /\ level.bitrate < bitrate
  \/ cur.mbps >= mbps /\ level.mbps < mbps
  \/ cur.mbps >= mbps /\ cur.mbps = level.mbps /\ bitrate = 0 /\ cur.bitrate >= level.bitrate
  \/ cur.mbpf >= mbpf /\ level.mbpf < mbpf

(* tgt is the level downstream asks for, at most 0 for none; found[i] is    *)
(* what the search has after i levels of the table.                        *)
SearchLevel(levels, tgt, bitrate, mbps, mbpf) ==
  LET found[i \in 0 .. Len(levels)] ==
        IF i = 0 THEN Head(levels)
        ELSE IF /\ tgt > 0 => tgt = levels[i].id
                /\ Better(found[i - 1], levels[i], bitrate, mbps, mbpf)
             THEN levels[i] ELSE found[i - 1]
  IN found[Len(levels)]

SelectLevel(levels, tgt, bitrate, mbps, mbpf) ==
  LET beyond(l) == (bitrate # 0 /\ l.bitrate < bitrate) \/ l.mbps < mbps
      asked == SearchLevel(levels, tgt, bitrate, mbps, mbpf)
      any == SearchLevel(levels, -1, bitrate, mbps, mbpf)
  IN IF tgt > 0 /\ asked.id = tgt /\ ~beyond(asked) THEN asked
     ELSE IF beyond(any) THEN Last(levels) ELSE any
=============================================================================
