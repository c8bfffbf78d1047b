---------------------------- MODULE DspBaseOrder ----------------------------
(***************************************************************************)
(* Theorems about what DspBase sends downstream, and in which order: EOS   *)
(* overtakes one frame at most; since the element uses the ring as TsRing  *)
(* says, what is proved about the ring holds in the element; and a frame   *)
(* goes downstream with the time it arrived with.                          *)
(***************************************************************************)
EXTENDS DspBaseProofs, SequenceTheorems

-----------------------------------------------------------------------------
(* EosOvertakesOne *)

(* EOS goes downstream, or is about to, only when no frame is in flight or  *)
(* when output_loop will not push one any more: check_status comes first.   *)
Silent == status # "OK" \/ ts_count = 0
SilentAtEos ==
  eosDown > 0 \/ up.at = "eos"
    \/ (loop.eos /\ loop.at \in {"push", "leave", "unlock", "last"}) => Silent

(* The frame that EOS has overtaken was beyond check_status and the check   *)
(* for too many buffers; the pass after it does not get to a push.          *)
LateOnce ==
  /\ late <= 1
  /\ eosDown = 0 => late = 0
  /\ late > 0 => loop.at # "push" /\ (loop.at \in {"work", "data", "take"} => ts_count = 0)

(* A frame that output_loop works on has been counted up. *)
WorkCounts ==
  /\ ts_count \in Nat /\ late \in Nat
  /\ loop.at = "data" /\ HasLen(loop.tb) => ts_count > 0
  /\ loop.at = "take" => ts_count > 0
SkipCounts == loop.at = "data" /\ loop.tb.data /\ IsSkip(loop.tb) => ts_count > 0

NothingAfterEos ==
  /\ eosUp => up.at \notin {"pop", "check", "store"}
  /\ app \in {"mark", "ok", "start"} => eosDown = 0

LateInv == SilentAtEos /\ LateOnce /\ WorkCounts /\ NothingAfterEos

LEMMA LateStart == Init => LateInv
BY DEF Init, RingInit, LateInv, SilentAtEos, LateOnce, WorkCounts, NothingAfterEos, NoBuffer

(* A step that neither pushes nor counts anything *)
LEMMA LateUntouched ==
  ASSUME LateInv, UNCHANGED <<ts_count, late, eosDown, eosUp>>,
         status' = status \/ status' # "OK",
         up \in UpLocals, up' = up \/ up' = Signalled(up),
         loop \in LoopLocals, loop' = loop \/ loop' = Signalled(loop),
         app' \in {"mark", "ok", "start"} => eosDown = 0
  PROVE  LateInv'
<1>1. up'.at = up.at /\ loop'.at = loop.at /\ loop'.eos = loop.eos /\ loop'.tb = loop.tb
  BY SignalledUp, SignalledLoop
<1>2. Silent => Silent'
  BY DEF Silent
<1>3. SilentAtEos' /\ LateOnce'
  BY <1>1, <1>2 DEF LateInv, SilentAtEos, LateOnce
<1>4. WorkCounts' /\ NothingAfterEos'
  BY <1>1 DEF LateInv, WorkCounts, NothingAfterEos, HasLen
<1> QED
  BY <1>3, <1>4 DEF LateInv

LEMMA UpKeepsLate ==
  ASSUME Shapes, Quiet, EosInv, LateInv, Up
  PROVE  LateInv'
<1> USE DEF histVars
<1>1. /\ up \in UpLocals /\ eosDown \in Nat /\ inq \in Nat
      /\ UNCHANGED <<loop, status, app>>
  BY UpFrame DEF Shapes
<1>2. ASSUME UNCHANGED <<ts_count, late, eosDown>>, up'.at = "eos" => Silent,
             eosUp' => up'.at \notin {"pop", "check", "store"}
      PROVE  LateInv'
  <2>1. SilentAtEos'
    BY <1>1, <1>2 DEF LateInv, SilentAtEos, Silent
  <2>2. LateOnce' /\ WorkCounts' /\ NothingAfterEos'
    BY <1>1, <1>2 DEF LateInv, LateOnce, WorkCounts, NothingAfterEos
  <2> QED
    BY <2>1, <2>2 DEF LateInv
<1>3. CASE ChainPop
  <2>1. UNCHANGED <<ts_count, late, eosDown, eosUp>> /\ (MayArrive \/ up.at = "pop")
    BY <1>3 DEF ChainPop, ringVars
  <2>2. ~eosUp
    BY <2>1 DEF MayArrive, LateInv, NothingAfterEos
  <2>3. "check" \in UpPlaces /\ "pop" \in UpPlaces
    BY DEF UpPlaces
  <2>4. up'.at \in {"check", "pop"}
    BY <1>1, <1>3, <2>3, PopInputParts, WaitInputParts DEF ChainPop
  <2> QED
    BY <1>2, <2>1, <2>2, <2>4
<1>4. CASE ChainCheck
  <2>1. UNCHANGED <<ts_count, late, eosDown, eosUp>>
    BY <1>4 DEF ChainCheck, ringVars
  <2>2. up.at = "check" /\ up'.at \in {"idle", "store", "crash"}
    BY <1>1, <1>4, ChainCheckParts
  <2>3. ~eosUp
    BY <2>2 DEF LateInv, NothingAfterEos
  <2> QED
    BY <1>2, <2>1, <2>2, <2>3
<1>5. CASE ChainStore
  <2>1. UNCHANGED <<late, eosDown, eosUp>> /\ ts_count' = ts_count + 1
    BY <1>5 DEF ChainStore, StoreFrame
  <2>2. up.at = "store" /\ up'.at = "send"
    BY <1>1, <1>5, ChainStoreParts
  <2>3. ~eosUp /\ eosDown = 0 /\ late = 0
    BY <1>1, <2>2 DEF LateInv, NothingAfterEos, EosInv, EosPlaces, LateOnce
  <2>4. ~(loop.eos /\ loop.at \in {"push", "leave", "unlock", "last"})
    BY <2>3 DEF EosInv, LoopEosPlaces, EosPlaces, EosInLoop
  <2>5. SilentAtEos'
    BY <1>1, <2>1, <2>2, <2>3, <2>4 DEF SilentAtEos
  <2>6. LateOnce'
    BY <1>1, <2>1, <2>3 DEF LateOnce
  <2>7. WorkCounts' /\ NothingAfterEos'
    BY <1>1, <2>1, <2>2, <2>3 DEF LateInv, WorkCounts, NothingAfterEos
  <2> QED
    BY <2>5, <2>6, <2>7 DEF LateInv
<1>6. CASE ChainSend
  <2>1. UNCHANGED <<ts_count, late, eosDown, eosUp>>
    BY <1>6 DEF ChainSend, ringVars
  <2> QED
    BY <1>1, <1>2, <1>6, <2>1, ChainSendParts
<1>7. CASE SerializedEvent
  BY <1>2, <1>7 DEF SerializedEvent, MayArrive, StoreEvent
<1>8. CASE EosArrives
  <2>1. UNCHANGED <<ts_count, late, eosDown>>
    BY <1>8 DEF EosArrives, ringVars
  <2>2. up'.at = "clock" \/ (up'.at = "eos" /\ deferred_eos' = FALSE)
    BY <1>1, <1>8, EosArrivesParts
  <2>3. deferred_eos' = FALSE => Silent
    BY <1>8 DEF EosArrives, DefersEos, Silent
  <2> QED
    BY <1>2, <2>1, <2>2, <2>3
<1>9. CASE EosNow
  <2>1. UNCHANGED <<ts_count, late, eosUp>>
    BY <1>9 DEF EosNow, ringVars
  <2>2. /\ up.at = "eos" /\ up'.at = "idle"
        /\ eosDown' = eosDown \/ eosDown' = eosDown + 1
    BY <1>1, <1>9, EosNowParts
  <2>3. Silent /\ Silent'
    BY <1>1, <2>1, <2>2 DEF LateInv, SilentAtEos, Silent
  <2>4. eosDown = 0 /\ late = 0 /\ app \notin {"mark", "ok", "start"}
    BY <2>2 DEF EosInv, EosPlaces, LateInv, LateOnce, Quiet
  <2>5. SilentAtEos' /\ LateOnce'
    BY <2>1, <2>3, <2>4 DEF SilentAtEos, LateOnce
  <2>6. WorkCounts' /\ NothingAfterEos'
    BY <1>1, <2>1, <2>2, <2>4 DEF LateInv, WorkCounts, NothingAfterEos
  <2> QED
    BY <2>5, <2>6 DEF LateInv
<1>10. CASE EosClock
  <2>1. UNCHANGED <<ts_count, late, eosDown, eosUp>>
    BY <1>10 DEF EosClock, ringVars
  <2>2. up'.at \in {"flushbuf", "idle"}
    BY <1>1, <1>10, EosClockParts
  <2> QED
    BY <1>2, <2>1, <2>2
<1>11. CASE FlushBufferPop
  <2>1. UNCHANGED <<ts_count, late, eosDown, eosUp>>
    BY <1>11 DEF FlushBufferPop, ringVars
  <2>2. "flushsend" \in UpPlaces /\ "flushbuf" \in UpPlaces
    BY DEF UpPlaces
  <2>3. up'.at \in {"flushsend", "flushbuf"}
    BY <1>1, <1>11, <2>2, PopInputParts, WaitInputParts DEF FlushBufferPop
  <2> QED
    BY <1>2, <2>1, <2>3
<1>12. CASE FlushBufferSend
  <2>1. UNCHANGED <<ts_count, late, eosDown, eosUp>>
    BY <1>12 DEF FlushBufferSend, ringVars
  <2> QED
    BY <1>1, <1>2, <1>12, <2>1, FlushBufferSendParts
<1> QED
  BY <1>3, <1>4, <1>5, <1>6, <1>7, <1>8, <1>9, <1>10, <1>11, <1>12 DEF Up

(* loop: a pass that does not take, push or count a frame, and whose EOS was *)
(* waiting before                                                            *)
LEMMA PassKeepsLate ==
  ASSUME LateInv, UNCHANGED <<ts_count, status, late, eosDown, eosUp, app>>, up'.at = up.at,
         loop'.at \notin {"work", "data", "take", "push"},
         loop'.eos /\ loop'.at \in {"leave", "unlock", "last"}
           => loop.eos /\ loop.at \in {"push", "leave", "unlock", "last"}
  PROVE  LateInv'
<1>1. Silent' <=> Silent
  BY DEF Silent
<1>2. SilentAtEos'
  BY <1>1 DEF LateInv, SilentAtEos
<1>3. LateOnce' /\ WorkCounts' /\ NothingAfterEos'
  BY DEF LateInv, LateOnce, WorkCounts, NothingAfterEos
<1> QED
  BY <1>2, <1>3 DEF LateInv

(* ... and one that goes on with a frame *)
LEMMA WorkKeepsLate ==
  ASSUME LateInv, UNCHANGED <<ts_count, status, late, eosDown, eosUp, app>>, up'.at = up.at,
         loop'.at \in {"work", "data", "take"}, late > 0 => ts_count = 0,
         loop'.at = "data" /\ HasLen(loop'.tb) => ts_count > 0,
         loop'.at = "take" => ts_count > 0
  PROVE  LateInv'
<1>1. Silent' <=> Silent
  BY DEF Silent
<1>2. SilentAtEos'
  BY <1>1 DEF LateInv, SilentAtEos
<1>3. LateOnce'
  BY DEF LateInv, LateOnce
<1>4. WorkCounts' /\ NothingAfterEos'
  BY DEF LateInv, WorkCounts, NothingAfterEos, HasLen
<1> QED
  BY <1>2, <1>3, <1>4 DEF LateInv

(* ... and one that counts a frame down: the last one may let EOS go *)
LEMMA CountKeepsLate ==
  ASSUME LateInv, UNCHANGED <<status, late, eosDown, eosUp, app>>, up'.at = up.at,
         ts_count > 0, ts_count' = ts_count - 1, loop.at \in {"data", "take"},
         loop'.at \in {"leave", "push"}, loop'.eos => ts_count' = 0
  PROVE  LateInv'
<1>1. ts_count \in Nat /\ late \in Nat
  BY DEF LateInv, WorkCounts
<1>2. late = 0
  BY <1>1 DEF LateInv, LateOnce
<1>3. Silent => Silent'
  BY <1>1 DEF Silent
<1>4. SilentAtEos'
  BY <1>3 DEF LateInv, SilentAtEos, Silent
<1>5. LateOnce'
  BY <1>2 DEF LateOnce
<1>6. WorkCounts' /\ NothingAfterEos'
  BY <1>1 DEF LateInv, WorkCounts, NothingAfterEos
<1> QED
  BY <1>4, <1>5, <1>6 DEF LateInv

LEMMA LoopKeepsLate ==
  ASSUME Shapes, LoopHolders, Quiet, LoopDisabled, EosInv, SkipCounts, LateInv, Loop
  PROVE  LateInv'
<1> USE DEF selfVars, histVars, ringVars
<1>1. /\ loop \in LoopLocals /\ outq \in Seq(Buffer) /\ status \in Flow /\ RingTypeOK
      /\ up \in UpLocals /\ deferred_eos \in BOOLEAN /\ eosDown \in Nat
      /\ ts_count \in Nat /\ late \in Nat
  BY DEF Shapes, LateInv, WorkCounts
<1>2. up'.at = up.at /\ UNCHANGED <<eosUp, app>>
  BY <1>1, OutputLoopFrame, SignalledUp
<1>3. app \notin {"mark", "ok", "start"}
  BY LoopComesIn DEF Quiet
<1>4. loop.at \in {"out", "pop", "null", "check", "work", "data", "hack", "take"} => ~loop.eos
  BY DEF EosInv, LoopEosPlaces
<1>5. CASE LoopPop
  <2>1. UNCHANGED <<ts_count, status, late, eosDown>>
    BY <1>5 DEF LoopPop
  <2>2. loop'.at \in {"check", "null", "pop"}
    BY <1>1, <1>5, LoopPopParts
  <2> QED
    BY <1>2, <2>1, <2>2, PassKeepsLate
<1>6. CASE LoopNull
  <2>1. UNCHANGED <<ts_count, status, late, eosDown>>
    BY <1>6 DEF LoopNull
  <2>2. loop'.at \in {"out", "pause"}
    BY <1>1, <1>6, LoopNullParts, PassEndLocals
  <2> QED
    BY <1>2, <2>1, <2>2, PassKeepsLate
<1>7. CASE LoopCheck
  <2>1. UNCHANGED <<ts_count, status, late, eosDown>>
    BY <1>7 DEF LoopCheck
  <2>2. CASE loop'.at = "pause"
    BY <1>2, <2>1, <2>2, PassKeepsLate
  <2>3. CASE loop'.at = "work" /\ status = "OK"
    <3>1. late > 0 => ts_count = 0
      BY <1>1, <2>3 DEF LateInv, LateOnce, SilentAtEos, Silent
    <3> QED
      BY <1>2, <2>1, <2>3, <3>1, WorkKeepsLate
  <2>4. loop'.at = "work" => status = "OK"
    BY <1>1, <1>7 DEF LoopCheck, PauseWith, LoopLocals
  <2> QED
    BY <1>1, <1>7, <2>2, <2>3, <2>4, LoopCheckParts
<1>8. CASE LoopUnexpected \/ LoopEmpty
  <2>1. /\ UNCHANGED <<ts_count, status, late, eosDown>> /\ loop' = At("leave")
        /\ loop.at \in {"work", "data"}
    BY <1>8 DEF LoopUnexpected, LoopEmpty
  <2>2. loop'.at = "leave" /\ ~loop'.eos
    BY <1>1, <1>4, <2>1, LoopAtParts DEF LoopPlaces
  <2> QED
    BY <1>2, <2>1, <2>2, PassKeepsLate
<1>9. CASE LoopEvents
  <2>1. /\ UNCHANGED <<ts_count, status, late, eosDown>> /\ loop' = At("data")
        /\ loop.at = "work" /\ ~(HasLen(loop.tb) /\ ts_count = 0)
    BY <1>9 DEF LoopEvents, ClearEvents
  <2>2. loop'.at = "data" /\ loop'.tb = loop.tb
    BY <1>1, <2>1, LoopAtParts DEF LoopPlaces
  <2>3. late > 0 => ts_count = 0
    BY <2>1 DEF LateInv, LateOnce
  <2> QED
    BY <1>1, <1>2, <2>1, <2>2, <2>3, WorkKeepsLate
<1>10. CASE LoopRealloc
  <2>1. UNCHANGED <<ts_count, status, late, eosDown>>
    BY <1>10 DEF LoopRealloc
  <2>2. loop'.at = "out"
    BY <1>10, LoopReallocParts, PassEndLocals
  <2> QED
    BY <1>2, <2>1, <2>2, PassKeepsLate
<1>11. CASE LoopSkip \/ LoopDrop
  <2>1. /\ UNCHANGED <<status, late, eosDown>> /\ ts_count' = ts_count - 1
        /\ loop.at = "data" /\ loop' = [loop EXCEPT !.at = "leave", !.eos = LastBeforeEos]
        /\ HasLen(loop.tb) \/ (loop.tb.data /\ IsSkip(loop.tb))
    BY <1>11 DEF LoopSkip, LoopDrop, SkipFrame, DropFrame, Advance
  <2>2. ts_count > 0
    BY <2>1 DEF LateInv, WorkCounts, SkipCounts
  <2>3. loop'.at = "leave"
    BY <1>1, <2>1, LoopCountParts
  <2>4. loop'.eos => ts_count' = 0
    BY <1>1, <2>1 DEF LoopLocals, LastBeforeEos
  <2> QED
    BY <1>2, <2>1, <2>2, <2>3, <2>4, CountKeepsLate
<1>12. CASE LoopAlloc
  <2>1. /\ UNCHANGED <<ts_count, status, late, eosDown>>
        /\ loop.at = "data" /\ HasLen(loop.tb) /\ loop.tb.kind # "none"
    BY <1>12 DEF LoopAlloc, HasLen
  <2>2. CASE loop'.at \in {"pause", "hack"}
    BY <1>2, <2>1, <2>2, PassKeepsLate
  <2>3. CASE loop'.at = "take"
    <3>1. ts_count > 0 /\ (late > 0 => ts_count = 0)
      BY <2>1 DEF LateInv, WorkCounts, LateOnce
    <3> QED
      BY <1>2, <2>1, <2>3, <3>1, WorkKeepsLate
  <2> QED
    BY <1>1, <1>12, <2>1, <2>2, <2>3, LoopAllocParts
<1>13. CASE LoopHack
  <2>1. UNCHANGED <<ts_count, status, late, eosDown>>
    BY <1>13 DEF LoopHack
  <2>2. loop'.at = "leave" /\ ~loop'.eos
    BY <1>1, <1>4, <1>13, LoopHackParts DEF GoesOn
  <2> QED
    BY <1>2, <2>1, <2>2, PassKeepsLate
<1>14. CASE LoopTake
  <2>1. /\ UNCHANGED <<status, late, eosDown>> /\ ts_count' = ts_count - 1
        /\ loop' = [loop EXCEPT !.at = "push", !.eos = LastBeforeEos, !.time = FrameTime]
    BY <1>14 DEF LoopTake, TakeFrame, Advance
  <2>2. loop.at = "take" /\ loop'.at = "push"
    BY <1>1, <1>14, LoopTakeParts
  <2>3. ts_count > 0
    BY <2>2 DEF LateInv, WorkCounts
  <2>4. loop'.eos => ts_count' = 0
    BY <1>1, <2>1 DEF LoopLocals, LastBeforeEos
  <2> QED
    BY <1>2, <2>1, <2>2, <2>3, <2>4, CountKeepsLate
<1>15. CASE LoopPush
  <2>1. /\ UNCHANGED <<ts_count, status, eosDown>>
        /\ late' = late \/ (late' = late + 1 /\ eosDown > 0)
    BY <1>15 DEF LoopPush
  <2>2. loop.at = "push" /\ loop'.at = "leave" /\ loop'.eos = loop.eos
    BY <1>1, <1>15, LoopPushParts DEF GoesOn
  <2>3. late = 0 /\ (late' = 0 \/ (late' = 1 /\ eosDown > 0))
    BY <1>1, <2>1, <2>2 DEF LateInv, LateOnce
  <2>4. Silent' <=> Silent
    BY <2>1 DEF Silent
  <2>5. SilentAtEos'
    BY <1>2, <2>1, <2>2, <2>4 DEF LateInv, SilentAtEos
  <2>6. LateOnce'
    BY <1>1, <2>1, <2>2, <2>3 DEF LateOnce
  <2>7. WorkCounts' /\ NothingAfterEos'
    BY <1>1, <1>2, <2>1, <2>2, <2>3 DEF LateInv, WorkCounts, NothingAfterEos
  <2> QED
    BY <2>5, <2>6, <2>7 DEF LateInv
<1>16. CASE LoopEos
  <2>1. UNCHANGED <<ts_count, status, late>>
    BY <1>16 DEF LoopEos
  <2>2. /\ loop.at = "leave" /\ loop.eos /\ loop'.at \in {"keep", "leave"}
        /\ loop'.eos = FALSE
        /\ eosDown' = eosDown \/ eosDown' = eosDown + 1
    BY <1>1, <1>16, LoopEosParts
  <2>3. Silent' /\ eosDown = 0 /\ late = 0
    BY <2>1, <2>2 DEF LateInv, SilentAtEos, Silent, LateOnce, EosInv, LoopEosPlaces, EosPlaces
  <2>4. SilentAtEos' /\ LateOnce'
    BY <2>1, <2>3 DEF SilentAtEos, LateOnce
  <2>5. WorkCounts' /\ NothingAfterEos'
    BY <1>1, <1>2, <1>3, <2>1, <2>2 DEF LateInv, WorkCounts, NothingAfterEos
  <2> QED
    BY <2>4, <2>5 DEF LateInv
<1>17. CASE LoopKeep
  <2>1. UNCHANGED <<ts_count, status, late, eosDown>>
    BY <1>17 DEF LoopKeep
  <2>2. loop'.at = "pause"
    BY <1>1, <1>17, LoopKeepParts
  <2> QED
    BY <1>2, <2>1, <2>2, PassKeepsLate
<1>18. CASE LoopLeave
  <2>1. UNCHANGED <<ts_count, status, late, eosDown>>
    BY <1>18 DEF LoopLeave
  <2>2. loop'.at \in {"out", "pause"}
    BY <1>1, <1>18, LoopLeaveParts, PassEndLocals
  <2> QED
    BY <1>2, <2>1, <2>2, PassKeepsLate
<1>19. CASE PauseSync
  <2>1. UNCHANGED <<ts_count, late, eosDown>>
    BY <1>19 DEF PauseSync
  <2>2. /\ loop.at = "pause" /\ loop'.at = "unlock"
        /\ status = "OK" => status' = loop.ret
        /\ status # "OK" => status' = status
    BY <1>1, <1>19, PauseSyncParts
  <2>3. Silent'
    BY <2>2 DEF LoopDisabled, Silent
  <2>4. SilentAtEos' /\ LateOnce'
    BY <2>1, <2>2, <2>3 DEF LateInv, SilentAtEos, LateOnce
  <2>5. WorkCounts' /\ NothingAfterEos'
    BY <1>1, <1>2, <2>1, <2>2 DEF LateInv, WorkCounts, NothingAfterEos
  <2> QED
    BY <2>4, <2>5 DEF LateInv
<1>20. CASE PauseUnlock
  <2>1. UNCHANGED <<ts_count, status, late, eosDown>>
    BY <1>20 DEF PauseUnlock
  <2>2. loop.at = "unlock" /\ loop'.at = "last" /\ loop'.eos = loop.eos
    BY <1>1, <1>20, PauseUnlockParts
  <2> QED
    BY <1>2, <2>1, <2>2, PassKeepsLate
<1>21. CASE PauseEos
  <2>1. UNCHANGED <<ts_count, status, late>>
    BY <1>21 DEF PauseEos
  <2>2. /\ loop.at = "last" /\ loop'.at \in {"pause", "out"}
        /\ loop.eos => (eosDown' = eosDown \/ eosDown' = eosDown + 1)
        /\ ~loop.eos => eosDown' = eosDown
    BY <1>1, <1>21, PauseEosParts, PassEndLocals
  <2>3. CASE eosDown' = eosDown
    BY <1>2, <2>1, <2>2, <2>3, PassKeepsLate
  <2>4. CASE loop.eos
    <3>1. Silent' /\ eosDown = 0 /\ late = 0
      BY <2>1, <2>2, <2>4
         DEF LateInv, SilentAtEos, Silent, LateOnce, EosInv, EosPlaces, EosInLoop
    <3>2. SilentAtEos' /\ LateOnce'
      BY <2>1, <3>1 DEF SilentAtEos, LateOnce
    <3>3. WorkCounts' /\ NothingAfterEos'
      BY <1>1, <1>2, <1>3, <2>1, <2>2 DEF LateInv, WorkCounts, NothingAfterEos
    <3> QED
      BY <3>2, <3>3 DEF LateInv
  <2> QED
    BY <2>2, <2>3, <2>4
<1> QED
  BY <1>5, <1>6, <1>7, <1>8, <1>9, <1>10, <1>11, <1>12, <1>13, <1>14, <1>15, <1>16,
     <1>17, <1>18, <1>19, <1>20, <1>21 DEF Loop

LEMMA AppKeepsLate ==
  ASSUME Shapes, Quiet, EosInv, LateInv, App
  PROVE  LateInv'
<1> USE DEF selfVars, histVars, ringVars
<1>1. up \in UpLocals /\ loop \in LoopLocals
  BY DEF Shapes
<1>2. CASE FlushStart
  BY <1>1, <1>2, LateUntouched DEF FlushStart
<1>3. CASE FlushStartStatus
  BY <1>1, <1>3, LateUntouched DEF FlushStartStatus
<1>4. CASE FlushStartUnlock
  BY <1>1, <1>4, LateUntouched DEF FlushStartUnlock
<1>5. CASE FlushStartPause
  BY <1>1, <1>5, LateUntouched DEF FlushStartPause
<1>6. CASE FlushStop
  <2>1. /\ up.at = "idle" /\ loop.at = "out" /\ UNCHANGED <<up, loop, eosUp, ts_count>>
        /\ eosDown' = 0 /\ late' = 0
    BY <1>6 DEF FlushStop
  <2> QED
    BY <2>1 DEF LateInv, SilentAtEos, LateOnce, WorkCounts, NothingAfterEos
<1>7. CASE FlushStopMark \/ FlushStopStatus
  <2>1. /\ app \in {"mark", "ok"} /\ UNCHANGED <<up, loop, eosDown, late, ts_count>>
    BY <1>7 DEF FlushStopMark, FlushStopStatus, MarkFlush
  <2>2. up.at = "idle" /\ loop.at = "out" /\ eosDown = 0 /\ late = 0
    BY <2>1 DEF Quiet, LateInv, NothingAfterEos, LateOnce
  <2> QED
    BY <2>1, <2>2 DEF LateInv, SilentAtEos, LateOnce, WorkCounts, NothingAfterEos
<1>8. CASE FlushStopStart
  BY <1>1, <1>8, LateUntouched DEF FlushStopStart
<1> QED
  BY <1>2, <1>3, <1>4, <1>5, <1>6, <1>7, <1>8 DEF App

LEMMA OthersKeepLate ==
  ASSUME Shapes, LateInv, Dsp \/ Release \/ SpuriousWakeup \/ UNCHANGED vars
  PROVE  LateInv'
<1>1. /\ UNCHANGED <<ts_count, late, eosDown, eosUp, app>>
      /\ up' = up \/ up' = Signalled(up)
      /\ loop' = loop \/ loop' = Signalled(loop)
      /\ status' = status \/ status' # "OK"
  <2>1. CASE Dsp
    BY <2>1, DspFrame
       DEF Dsp, DspInput, DspOutput, DspLose, DspHeader, DspError, DspErrorUnlock,
           EosTimeout, EosTimeoutUnlock, dspKeeps, ringVars, selfVars
  <2>2. CASE Release \/ SpuriousWakeup \/ UNCHANGED vars
    BY <2>2 DEF Release, SpuriousWakeup, vars, histVars, ringVars, selfVars
  <2> QED
    BY <2>1, <2>2
<1> QED
  BY <1>1, LateUntouched DEF Shapes, LateInv, NothingAfterEos

LEMMA LateStep ==
  ASSUME KeptInv, Quiet, LoopDisabled, EosInv, SkipCounts, LateInv, [Next]_vars
  PROVE  LateInv'
BY UpKeepsLate, LoopKeepsLate, AppKeepsLate, OthersKeepLate DEF KeptInv, Next

LEMMA DisabledStart == Init => LoopDisabled
BY DEF Init, LoopDisabled

LEMMA DisabledStep ==
  ASSUME KeptInv, Quiet, LoopDisabled, [Next]_vars
  PROVE  LoopDisabled'
<1> USE DEF selfVars
<1>1. Shapes /\ LoopHolders /\ loop \in LoopLocals
  BY DEF KeptInv, Shapes
<1>2. ASSUME loop' = loop \/ loop' = Signalled(loop), status' = status \/ status' # "OK"
      PROVE  LoopDisabled'
  <2>1. loop'.at = loop.at /\ loop'.ret = loop.ret
    BY <1>1, <1>2, SignalledLoop
  <2> QED
    BY <1>2, <2>1 DEF LoopDisabled
<1>3. CASE Up
  BY <1>2, <1>3, UpFrame
<1>4. CASE PauseSync
  <2>1. /\ loop.at = "pause" /\ loop'.at = "unlock" /\ loop'.ret = loop.ret
        /\ status = "OK" => status' = loop.ret
        /\ status # "OK" => status' = status
    BY <1>1, <1>4, PauseSyncParts DEF Shapes
  <2> QED
    BY <2>1 DEF LoopDisabled
<1>5. CASE PauseUnlock
  <2>1. loop.at = "unlock" /\ loop'.at = "last" /\ loop'.ret = loop.ret
    BY <1>1, <1>5, PauseUnlockParts
  <2> QED
    BY <2>1 DEF LoopDisabled
<1>6. CASE Loop
  BY <1>1, <1>4, <1>5, <1>6, LoopKeepsRet
<1>7. CASE App
  <2>1. CASE FlushStopStatus
    <3>1. loop' = loop /\ loop.at = "out"
      BY <2>1 DEF FlushStopStatus, Quiet
    <3> QED
      BY <3>1 DEF LoopDisabled
  <2>2. CASE ~FlushStopStatus
    BY <1>2, <1>7, <2>2
       DEF App, FlushStart, FlushStartStatus, FlushStartUnlock, FlushStartPause, FlushStop,
           FlushStopMark, FlushStopStart
  <2> QED
    BY <2>1, <2>2
<1>8. CASE Dsp
  BY <1>2, <1>8, DspFrame
     DEF Dsp, DspInput, DspOutput, DspLose, DspHeader, DspError, DspErrorUnlock,
         EosTimeout, EosTimeoutUnlock
<1>9. CASE Release \/ SpuriousWakeup \/ UNCHANGED vars
  BY <1>2, <1>9 DEF Release, SpuriousWakeup, vars
<1> QED
  BY <1>3, <1>6, <1>7, <1>8, <1>9 DEF Next

(* What a pass does with its buffer: it takes one from the queue, keeps it,  *)
(* has done with it, gives it other memory, or puts it back.                 *)
LoopPops ==
  /\ loop.at \in {"out", "pop"} /\ loop'.at = "check"
  /\ outq # <<>> /\ outq' = Tail(outq) /\ loop'.tb = Head(outq)
LoopPutsBack ==
  /\ outq' = Append(outq, loop.tb) /\ loop.tb.kind # "none"
  /\ loop'.tb = NoBuffer /\ loop'.at \in {"pause", "out"}
  /\ loop'.at = "out" => loop.at = "last" /\ status' = status
LoopHolds ==
  /\ outq' = outq
  /\ \/ loop'.tb = loop.tb
     \/ loop'.tb = NoBuffer
     \/ loop.at = "data" /\ loop'.tb = [loop.tb EXCEPT !.data = UsePadAlloc]

LEMMA LoopMovesBuffer ==
  ASSUME Shapes, LoopHolders, Loop
  PROVE  LoopPops \/ LoopPutsBack \/ LoopHolds
<1> USE DEF queueVars, selfVars
<1>1. loop \in LoopLocals /\ outq \in Seq(Buffer) /\ status \in Flow /\ RingTypeOK
  BY DEF Shapes
<1>2. CASE LoopPop
  BY <1>1, <1>2 DEF LoopPop, LoopPops, LoopHolds, LoopLocals
<1>3. CASE LoopNull
  BY <1>1, <1>3, LoopNullParts, PassEndLocals DEF LoopNull, LoopHolds
<1>4. CASE LoopCheck
  BY <1>1, <1>4, LoopCheckParts DEF LoopCheck, LoopHolds
<1>5. CASE LoopUnexpected \/ LoopEvents \/ LoopEmpty \/ PauseUnlock
  <2>1. outq' = outq
    BY <1>5 DEF LoopUnexpected, LoopEvents, LoopEmpty, PauseUnlock
  <2>2. loop' = At("leave") \/ loop' = At("data") \/ loop' = At("last")
    BY <1>5 DEF LoopUnexpected, LoopEvents, LoopEmpty, PauseUnlock
  <2>3. loop'.tb = loop.tb
    BY <1>1, <2>2 DEF At, LoopLocals
  <2> QED
    BY <2>1, <2>3 DEF LoopHolds
<1>6. CASE LoopRealloc
  BY <1>6, PassEndLocals DEF LoopRealloc, LoopHolds
<1>7. CASE LoopSkip \/ LoopDrop
  <2>1. outq' = outq /\ loop' = [loop EXCEPT !.at = "leave", !.eos = LastBeforeEos]
    BY <1>7 DEF LoopSkip, LoopDrop
  <2> QED
    BY <1>1, <2>1, LoopCountParts DEF LoopHolds
<1>8. CASE LoopAlloc
  <2>1. CASE \E r \in {"WRONG_STATE", "UNEXPECTED"} :
               loop' = PauseWith([loop EXCEPT !.tb = NoBuffer], r)
             /\ outq' = Append(outq, loop.tb)
    <3>1. loop'.tb = NoBuffer /\ loop'.at = "pause" /\ outq' = Append(outq, loop.tb)
      BY <1>1, <2>1 DEF PauseWith, LoopLocals
    <3>2. loop.tb.kind # "none"
      BY <1>8 DEF LoopAlloc, HasLen
    <3> QED
      BY <3>1, <3>2 DEF LoopPutsBack
  <2>2. CASE /\ outq' = outq /\ loop.at = "data"
             /\ loop' = [loop EXCEPT !.at = IF skip_hack > 0 THEN "hack" ELSE "take",
                                     !.tb.data = UsePadAlloc]
    <3>1. loop'.tb = [loop.tb EXCEPT !.data = UsePadAlloc]
      BY <1>1, <2>2 DEF LoopLocals
    <3> QED
      BY <2>2, <3>1 DEF LoopHolds
  <2> QED
    BY <1>8, <2>1, <2>2 DEF LoopAlloc
<1>9. CASE LoopHack \/ LoopPush
  <2>1. outq' = outq
    BY <1>9 DEF LoopHack, LoopPush
  <2> QED
    BY <1>1, <1>9, <2>1, LoopHackParts, LoopPushParts DEF GoesOn, LoopHolds
<1>10. CASE LoopTake
  BY <1>1, <1>10, LoopTakeParts DEF LoopTake, LoopHolds
<1>11. CASE LoopEos
  BY <1>1, <1>11, LoopEosParts DEF LoopEos, LoopHolds
<1>12. CASE LoopKeep
  BY <1>1, <1>12, LoopKeepParts DEF LoopKeep, LoopHolders, LoopPutsBack
<1>13. CASE LoopLeave
  BY <1>1, <1>13, LoopLeaveParts, PassEndLocals DEF LoopLeave, LoopHolds
<1>14. CASE PauseSync
  BY <1>1, <1>14, PauseSyncParts DEF PauseSync, Shapes, LoopHolds
<1>15. CASE PauseEos
  <2>1. \/ /\ loop'.at = "pause" /\ loop'.tb = loop.tb /\ outq' = outq
        \/ loop' = PassEnd /\ loop.tb.kind = "none" /\ outq' = outq
        \/ loop' = PassEnd /\ loop.tb.kind # "none" /\ outq' = Append(outq, loop.tb)
    BY <1>1, <1>15, PauseEosParts
  <2>2. loop.at = "last" /\ status' = status
    BY <1>15 DEF PauseEos
  <2> QED
    BY <2>1, <2>2, PassEndLocals DEF LoopHolds, LoopPutsBack
<1> QED
  BY <1>2, <1>3, <1>4, <1>5, <1>6, <1>7, <1>8, <1>9, <1>10, <1>11, <1>12, <1>13, <1>14,
     <1>15 DEF Loop

(* A DSP that returns every frame with data never makes a skipped one. *)
NoSkips == ~IsSkip(loop.tb) /\ \A i \in 1 .. Len(outq) : ~IsSkip(outq[i])

LEMMA NoSkipsStep ==
  ASSUME MaySkip = FALSE, KeptInv, NoSkips, [Next]_vars
  PROVE  NoSkips'
<1>1. /\ Shapes /\ LoopHolders /\ loop \in LoopLocals /\ outq \in Seq(Buffer)
      /\ ~IsSkip(NoBuffer)
  BY DEF KeptInv, Shapes, IsSkip, NoBuffer
<1>2. ASSUME NEW b \in Buffer, ~IsSkip(b), outq' = Append(outq, b)
      PROVE  \A i \in 1 .. Len(outq') : ~IsSkip(outq'[i])
  <2>1. /\ Len(outq') = Len(outq) + 1 /\ Len(outq) \in Nat /\ outq'[Len(outq) + 1] = b
        /\ \A i \in 1 .. Len(outq) : outq'[i] = outq[i]
    BY <1>1, <1>2
  <2> QED
    BY <1>2, <2>1 DEF NoSkips
<1>3. ASSUME outq' = outq, ~IsSkip(loop'.tb)
      PROVE  NoSkips'
  BY <1>3 DEF NoSkips, IsSkip
<1>4. ASSUME loop' = loop \/ loop' = Signalled(loop)
      PROVE  ~IsSkip(loop'.tb)
  BY <1>1, <1>4, SignalledLoop DEF NoSkips
<1>5. CASE Loop
  <2>1. CASE LoopPops
    <3>1. /\ Head(outq) = outq[1] /\ 1 \in 1 .. Len(outq)
          /\ \A i \in 1 .. Len(Tail(outq)) : Tail(outq)[i] = outq[i + 1] /\ i + 1 \in 1 .. Len(outq)
      BY <1>1, <2>1 DEF LoopPops
    <3> QED
      BY <2>1, <3>1 DEF NoSkips, LoopPops, IsSkip
  <2>2. CASE LoopPutsBack
    <3>1. loop.tb \in Buffer
      BY <1>1, <2>2 DEF LoopPutsBack, LoopLocals, NoBuffer
    <3>2. \A i \in 1 .. Len(outq') : ~IsSkip(outq'[i])
      BY <1>2, <2>2, <3>1 DEF NoSkips, LoopPutsBack
    <3> QED
      BY <1>1, <2>2, <3>2 DEF NoSkips, LoopPutsBack, IsSkip
  <2>3. CASE LoopHolds
    <3>1. outq' = outq /\ ~IsSkip(loop'.tb)
      BY <1>1, <2>3 DEF NoSkips, LoopHolds, IsSkip, LoopLocals, Buffer, NoBuffer
    <3> QED
      BY <1>3, <3>1
  <2> QED
    BY <1>1, <1>5, <2>1, <2>2, <2>3, LoopMovesBuffer
<1>6. ASSUME NEW b \in Buffer, ~IsSkip(b), PutOutput(b)
      PROVE  NoSkips'
  BY <1>2, <1>4, <1>6 DEF PutOutput, NoSkips, IsSkip
<1>7. CASE DspOutput
  <2>1. PICK b \in Buffer : outq' = Append(outq, b) /\ loop' = Signalled(loop) /\ SkipFits(b)
    BY <1>1, <1>7, OutputCarries
  <2> QED
    BY <1>6, <2>1 DEF PutOutput, SkipFits, IsSkip
<1>8. CASE DspHeader
  <2> DEFINE h == [kind |-> "header", nr |-> NoFrame, data |-> TRUE]
  <2>1. h \in Buffer /\ ~IsSkip(h) /\ PutOutput(h)
    BY <1>8, Constants DEF DspHeader, Buffer, Kinds, IsSkip
  <2> QED
    BY <1>6, <2>1
<1>9. CASE outq' = outq /\ (loop' = loop \/ loop' = Signalled(loop))
  BY <1>3, <1>4, <1>9
<1>10. CASE Dsp
  <2>1. CASE ~DspOutput /\ ~DspHeader
    BY <1>9, <1>10, <2>1, DspFrame
       DEF Dsp, DspInput, DspLose, DspError, DspErrorUnlock, EosTimeout, EosTimeoutUnlock,
           queueVars
  <2> QED
    BY <1>7, <1>8, <2>1
<1>11. CASE Up
  BY <1>9, <1>11, UpFlightFrame
<1>12. CASE App
  BY <1>9, <1>12
     DEF App, FlushStart, FlushStartStatus, FlushStartUnlock, FlushStartPause, FlushStop,
         FlushStopMark, FlushStopStatus, FlushStopStart, queueVars
<1>13. CASE Release \/ SpuriousWakeup \/ UNCHANGED vars
  BY <1>9, <1>13 DEF Release, SpuriousWakeup, vars, queueVars
<1> QED
  BY <1>5, <1>10, <1>11, <1>12, <1>13 DEF Next

(* EOS overtakes one frame at most, the one that output_loop had counted     *)
(* down when sink_event found no frame in flight, or worked on when the      *)
(* element failed; in an element whose DSP returns every frame with data,    *)
(* whatever else it does, and in a decoder, where it may skip frames.        *)
THEOREM BaseEosOvertakesOne ==
  ASSUME \/ MaySkip = FALSE
         \/ MayLose = FALSE /\ CodecData = FALSE /\ MaxHeaders = 0
  PROVE  Spec => []EosOvertakesOne
<1> DEFINE Skips == \/ MaySkip = FALSE /\ NoSkips
                    \/ MayLose = FALSE /\ CodecData = FALSE /\ MaxHeaders = 0 /\ FlightInv
           Inv == KeptInv /\ Quiet /\ LoopDisabled /\ EosInv /\ Skips /\ LateInv
<1>1. Init => Inv
  <2> SUFFICES ASSUME Init PROVE Inv
    OBVIOUS
  <2>1. loop.tb = NoBuffer /\ outq = <<>>
    BY DEF Init
  <2>2. NoSkips
    BY <2>1 DEF NoSkips, NoBuffer, IsSkip
  <2> QED
    BY <2>2, KeptStart, QuietStart, DisabledStart, EosStart, FlightsStart, LateStart
<1>2. Inv /\ [Next]_vars => Inv'
  <2> SUFFICES ASSUME Inv, [Next]_vars PROVE Inv'
    OBVIOUS
  <2>1. Shapes /\ LoopHolders /\ loop \in LoopLocals
    BY DEF KeptInv, Shapes
  <2>2. KeptInv' /\ Quiet' /\ LoopDisabled' /\ EosInv' /\ Shapes'
    BY <2>1, KeptStep, QuietStep, DisabledStep, EosStep DEF KeptInv
  <2>3. Skips'
    <3>1. CASE MaySkip = FALSE /\ NoSkips
      BY <3>1, NoSkipsStep
    <3>2. CASE MayLose = FALSE /\ CodecData = FALSE /\ MaxHeaders = 0 /\ FlightInv
      <4>1. FlightInv'
        BY <3>2, FlightsStep
      <4> QED
        BY <3>2, <4>1
    <3> QED
      BY <3>1, <3>2
  <2>4. SkipCounts
    <3>1. CASE MaySkip = FALSE /\ NoSkips
      BY <3>1 DEF NoSkips, SkipCounts
    <3>2. CASE MaxHeaders = 0 /\ FlightInv
      <4>1. SUFFICES ASSUME loop.at = "data", loop.tb.data, IsSkip(loop.tb)
                     PROVE  ts_count > 0
        BY DEF SkipCounts
      <4>2. loop.tb \in Carriers
        BY <2>1, <4>1, NoCarrier DEF IsSkip, LoopLocals
      <4>3. LoopFlight = 1
        BY <4>1, <4>2, LoopFlightOf
      <4>4. ts_count = Flights
        BY <3>2 DEF FlightInv, Balance
      <4> QED
        BY <2>1, <2>2, <4>3, <4>4, FlightsCounted DEF Flights, KeptInv
    <3> QED
      BY <3>1, <3>2
  <2> QED
    BY <2>2, <2>3, <2>4, LateStep
<1>3. Inv => EosOvertakesOne
  BY DEF LateInv, LateOnce, EosOvertakesOne
<1> HIDE DEF Inv
<1> QED
  BY <1>1, <1>2, <1>3, PTL DEF Spec

-----------------------------------------------------------------------------
(* What is proved about the ring                                           *)

(* Ring, with the theorems about it *)
Proved == INSTANCE TsRingProofs WITH
  ready <- loop.at \in {"data", "take"} /\ loop.tb.kind # "empty"

LEMMA RingConstants ==
  RingSize \in Nat \ {0} /\ Capacity \in Nat /\ Capacity < RingSize /\ MaxArrivals \in Nat
<1>1. InBufs \in Nat /\ OutBufs \in Nat /\ DspDepth \in Nat
  BY Constants
<1> QED
  BY <1>1, Constants, BaseAssumption DEF Capacity

LEMMA RingIsProved == IsRing => Proved!Spec
<1>1. Ring!Init => Proved!Init
  BY DEF Ring!Init, Ring!RingInit, Ring!Positions, Proved!Init, Proved!RingInit,
         Proved!Positions
<1>2. UNCHANGED Ring!vars => UNCHANGED Proved!vars
  BY DEF Ring!vars, Ring!ringVars, Proved!vars, Proved!ringVars
<1>3. Ring!Next => Proved!Next
  BY DEF Ring!Next, Ring!ChainFrame, Ring!SinkEvent, Ring!FlushStop, Ring!PushEvents,
         Ring!Push, Ring!Skip, Ring!Drop, Ring!Leave, Ring!Stop,
         Ring!StoreFrame, Ring!StoreEvent, Ring!MarkFlush, Ring!ClearEvents,
         Ring!EventsToPush, Ring!Flushing, Ring!TakeFrame, Ring!SkipFrame, Ring!DropFrame,
         Ring!Advance, Ring!NextPos, Ring!FrameTime, Ring!ResetRing, Ring!Positions,
         Ring!ringVars,
         Proved!Next, Proved!ChainFrame, Proved!SinkEvent, Proved!FlushStop,
         Proved!PushEvents, Proved!Push, Proved!Skip, Proved!Drop, Proved!Leave,
         Proved!Stop, Proved!StoreFrame, Proved!StoreEvent, Proved!MarkFlush,
         Proved!ClearEvents, Proved!EventsToPush, Proved!Flushing, Proved!TakeFrame,
         Proved!SkipFrame, Proved!DropFrame, Proved!Advance, Proved!NextPos,
         Proved!FrameTime, Proved!ResetRing, Proved!Positions, Proved!ringVars
<1> QED
  BY <1>1, <1>2, <1>3, PTL DEF IsRing, Ring!Spec, Proved!Spec

LEMMA RingHolds == IsRing => [](Proved!RingInv /\ Proved!OrderInv)
BY RingConstants, RingIsProved, Proved!RingAlways, Proved!OrderAlways, PTL

-----------------------------------------------------------------------------
(* TypeOK *)

(* The parts of TypeOK that no proof has needed so far *)
FlagsOK ==
  /\ eos \in BOOLEAN /\ eos_start \in BOOLEAN /\ outOn \in BOOLEAN /\ srcFlush \in BOOLEAN
  /\ task \in {"started", "paused"}
  /\ late \in Nat
HeadersOK ==
  /\ skip_hack_2 \in Nat /\ headers \in Nat
  /\ skip_hack_2 <= headers /\ headers <= MaxHeaders
TimesOK == shown \in 0 .. MaxArrivals /\ loop.time \in 0 .. MaxArrivals

LEMMA RestStart == Init => FlagsOK /\ HeadersOK /\ TimesOK
<1> SUFFICES ASSUME Init PROVE FlagsOK /\ HeadersOK /\ TimesOK
  OBVIOUS
<1>1. FlagsOK
  BY DEF Init, FlagsOK
<1>2. MaxHeaders \in Nat /\ MaxArrivals \in Nat
  BY BaseAssumption
<1>3. HeadersOK /\ TimesOK
  BY <1>2 DEF Init, HeadersOK, TimesOK
<1> QED
  BY <1>1, <1>3

LEMMA UpKeepsFlags ==
  ASSUME FlagsOK, Up
  PROVE  FlagsOK'
<1> USE DEF selfVars, queueVars, padVars, histVars
<1>1. UNCHANGED <<outOn, srcFlush, task, late>>
  BY DEF Up, ChainPop, ChainCheck, ChainStore, ChainSend, SerializedEvent, EosArrives,
         EosNow, EosClock, FlushBufferPop, FlushBufferSend
<1>2. eos' \in {eos, TRUE} /\ eos_start' \in {eos_start, TRUE}
  BY DEF Up, ChainPop, ChainCheck, ChainStore, ChainSend, SerializedEvent, EosArrives,
         EosNow, PushEos, EosClock, FlushBufferPop, FlushBufferSend
<1> QED
  BY <1>1, <1>2 DEF FlagsOK

LEMMA LoopKeepsFlags ==
  ASSUME FlagsOK, Loop
  PROVE  FlagsOK'
<1> USE DEF selfVars, queueVars, padVars, loopKeeps
<1>1. /\ outOn' \in {outOn, FALSE} /\ srcFlush' = srcFlush /\ task' \in {task, "paused"}
      /\ late' \in {late, late + 1}
  BY DEF Loop, LoopPop, LoopNull, LoopCheck, LoopUnexpected, LoopEvents, LoopRealloc,
         LoopEmpty, LoopSkip, LoopDrop, LoopAlloc, LoopHack, LoopTake, LoopPush, LoopEos,
         LoopKeep, LoopLeave, PauseSync, PauseUnlock, DisableQueues, PauseEos
<1>2. eos' \in {eos, TRUE} /\ eos_start' \in {eos_start, FALSE}
  BY DEF Loop, LoopPop, LoopNull, LoopCheck, LoopUnexpected, LoopEvents, LoopRealloc,
         LoopEmpty, LoopSkip, LoopDrop, LoopAlloc, LoopHack, LoopTake, LoopPush, LoopEos,
         LoopKeep, LoopLeave, PauseSync, PauseUnlock, PauseEos, PushEos
<1>3. late' \in Nat
  BY <1>1 DEF FlagsOK
<1> QED
  BY <1>1, <1>2, <1>3, Zenon DEF FlagsOK

LEMMA AppKeepsFlags ==
  ASSUME FlagsOK, App
  PROVE  FlagsOK'
<1> USE DEF selfVars, queueVars, padVars, histVars
<1>1. /\ outOn' \in {outOn, TRUE, FALSE} /\ srcFlush' \in {srcFlush, TRUE, FALSE}
      /\ task' \in {task, "paused", "started"} /\ late' \in {late, 0}
  BY DEF App, FlushStart, FlushStartStatus, FlushStartUnlock, FlushStartPause, FlushStop,
         FlushStopMark, FlushStopStatus, FlushStopStart, EnableQueues, DisableQueues
<1>2. eos' \in {eos, FALSE} /\ eos_start' = eos_start
  BY DEF App, FlushStart, FlushStartStatus, FlushStartUnlock, FlushStartPause, FlushStop,
         FlushStopMark, FlushStopStatus, FlushStopStart
<1>3. late' \in Nat
  BY <1>1 DEF FlagsOK
<1> QED
  BY <1>1, <1>2, <1>3, Zenon DEF FlagsOK

LEMMA OthersKeepFlags ==
  ASSUME FlagsOK, Dsp \/ Release \/ SpuriousWakeup \/ UNCHANGED vars
  PROVE  FlagsOK'
<1> USE DEF selfVars, queueVars, padVars, histVars
<1>1. outOn' \in {outOn, FALSE} /\ UNCHANGED <<eos, eos_start, srcFlush, task, late>>
  <2>1. CASE Dsp
    BY <2>1 DEF Dsp, DspInput, DspOutput, DspLose, DspHeader, DspError, DspErrorUnlock,
                DisableQueues, EosTimeout, EosTimeoutUnlock, dspKeeps
  <2>2. CASE Release \/ SpuriousWakeup \/ UNCHANGED vars
    BY <2>2 DEF Release, SpuriousWakeup, vars
  <2> QED
    BY <2>1, <2>2
<1> QED
  BY <1>1 DEF FlagsOK

(* What the recv_cb counts up, output_loop counts down. *)
LEMMA HeadersStep ==
  ASSUME HeadersOK, [Next]_vars
  PROVE  HeadersOK'
<1> USE DEF selfVars, histVars
<1>1. CASE LoopUnexpected
  BY <1>1 DEF LoopUnexpected, loopKeeps, HeadersOK
<1>2. CASE DspHeader
  BY <1>2, BaseAssumption DEF DspHeader, HeadersOK
<1>3. CASE UNCHANGED <<skip_hack_2, headers>>
  BY <1>3 DEF HeadersOK
<1>4. CASE Up
  BY <1>3, <1>4, UpFlightFrame
<1>5. CASE Loop
  <2>1. LoopUnexpected \/ UNCHANGED <<skip_hack_2, headers>>
    BY <1>5
       DEF Loop, LoopPop, LoopNull, LoopCheck, LoopEvents, LoopRealloc, LoopEmpty, LoopSkip,
           LoopDrop, LoopAlloc, LoopHack, LoopTake, LoopPush, LoopEos, LoopKeep, LoopLeave,
           PauseSync, PauseUnlock, PauseEos, loopKeeps
  <2> QED
    BY <1>1, <1>3, <2>1
<1>6. CASE App
  BY <1>3, <1>6
     DEF App, FlushStart, FlushStartStatus, FlushStartUnlock, FlushStartPause, FlushStop,
         FlushStopMark, FlushStopStatus, FlushStopStart
<1>7. CASE Dsp
  BY <1>2, <1>3, <1>7
     DEF Dsp, DspInput, DspOutput, DspLose, DspError, DspErrorUnlock, EosTimeout,
         EosTimeoutUnlock
<1>8. CASE Release \/ SpuriousWakeup \/ UNCHANGED vars
  BY <1>3, <1>8 DEF Release, SpuriousWakeup, vars
<1> QED
  BY <1>4, <1>5, <1>6, <1>7, <1>8 DEF Next

(* The time that output_loop has is that of the last frame it has taken. *)
LoopTimeless ==
  /\ UNCHANGED <<shown, down>>
  /\ loop'.at # "push"
  /\ loop'.time = loop.time \/ loop'.time = 0

LEMMA LoopTimes ==
  ASSUME Shapes, LoopHolders, Loop
  PROVE  LoopTake \/ LoopEvents \/ LoopPush \/ LoopTimeless
<1> USE DEF LoopTimeless
<1>1. /\ loop \in LoopLocals /\ outq \in Seq(Buffer) /\ status \in Flow /\ RingTypeOK
      /\ PassEnd.at = "out" /\ PassEnd.time = 0
  BY DEF Shapes, PassEnd
<1>2. CASE LoopPop
  BY <1>1, <1>2 DEF LoopPop, LoopLocals
<1>3. CASE LoopNull
  BY <1>1, <1>3 DEF LoopNull, PauseWith, LoopLocals
<1>4. CASE LoopCheck
  BY <1>1, <1>4 DEF LoopCheck, At, PauseWith, LoopLocals
<1>5. CASE LoopUnexpected \/ LoopEmpty
  BY <1>1, <1>5 DEF LoopUnexpected, LoopEmpty, At, LoopLocals
<1>6. CASE LoopRealloc
  BY <1>1, <1>6 DEF LoopRealloc
<1>7. CASE LoopSkip \/ LoopDrop
  BY <1>1, <1>7 DEF LoopSkip, LoopDrop, LoopLocals
<1>8. CASE LoopAlloc
  BY <1>1, <1>8 DEF LoopAlloc, PauseWith, LoopLocals
<1>9. CASE LoopHack
  <2>1. loop' = [Handled(loop) EXCEPT !.at = "leave"] /\ UNCHANGED <<shown, down>>
    BY <1>9 DEF LoopHack
  <2>2. loop'.at = "leave" /\ loop'.time = loop.time
    BY <1>1, <2>1 DEF Handled, LoopLocals
  <2> QED
    BY <2>1, <2>2
<1>10. CASE LoopEos
  <2>1. UNCHANGED <<shown, down>>
    BY <1>10 DEF LoopEos
  <2>2. loop'.time = loop.time
    BY <1>1, <1>10 DEF LoopEos, LoopLocals
  <2> QED
    BY <1>1, <1>10, <2>1, <2>2, LoopEosParts
<1>11. CASE LoopKeep
  BY <1>1, <1>11 DEF LoopKeep, PauseWith, LoopLocals
<1>12. CASE LoopLeave
  BY <1>1, <1>12 DEF LoopLeave, PauseWith, LoopLocals
<1>13. CASE PauseSync
  BY <1>1, <1>13 DEF PauseSync, LoopLocals
<1>14. CASE PauseUnlock
  BY <1>1, <1>14 DEF PauseUnlock, At, LoopLocals
<1>15. CASE PauseEos
  BY <1>1, <1>15 DEF PauseEos, LoopLocals
<1> QED
  BY <1>2, <1>3, <1>4, <1>5, <1>6, <1>7, <1>8, <1>9, <1>10, <1>11, <1>12, <1>13, <1>14,
     <1>15 DEF Loop

(* What the ring says of the order downstream *)
RingOrder ==
  /\ mark \in Nat /\ arrived \in Nat /\ mark <= arrived /\ arrived <= MaxArrivals
  /\ down \in Seq(Nat)
  /\ \A i \in DOMAIN down : mark < down[i] /\ down[i] <= arrived
  /\ \A i, j \in DOMAIN down : i < j => down[i] < down[j]

LEMMA RingOrdered == Proved!RingInv /\ Proved!OrderInv => RingOrder
<1> SUFFICES ASSUME Proved!RingInv, Proved!OrderInv PROVE RingOrder
  OBVIOUS
<1>1. arrived \in 0 .. MaxArrivals /\ mark \in 0 .. arrived /\ down \in Seq(Nat)
  BY DEF Proved!RingInv, Proved!TypeOK
<1>2. MaxArrivals \in Nat
  BY Constants
<1>3. \A i \in DOMAIN down : down[i] > mark
  BY DEF Proved!OrderInv, Proved!NothingStale
<1>4. \A i, j \in DOMAIN down : i < j => down[i] < down[j]
  BY DEF Proved!OrderInv, Proved!InOrder
<1>5. \A i \in DOMAIN down : down[i] <= arrived
  BY DEF Proved!OrderInv, Proved!CellsFresh
<1>6. \A i \in DOMAIN down : down[i] \in Nat
  BY <1>1
<1> QED
  BY <1>1, <1>2, <1>3, <1>4, <1>5, <1>6 DEF RingOrder

(* What downstream has accepted is among what was sent since the last flush, *)
(* or older; and a frame that is about to be pushed is the last of all.      *)
Behind == shown <= mark \/ \E d \in DOMAIN down : shown <= down[d]
Pushing ==
  loop.at = "push" =>
    /\ down # <<>> /\ loop.time = down[Len(down)]
    /\ shown <= mark \/ \E d \in 1 .. Len(down) - 1 : shown <= down[d]
ShownInv == TimesOK /\ Behind /\ Pushing

LEMMA ShownStart == Init => ShownInv
<1> SUFFICES ASSUME Init PROVE ShownInv
  OBVIOUS
<1>1. shown = 0 /\ mark = 0 /\ loop.at = "out"
  BY DEF Init
<1> QED
  BY <1>1, RestStart DEF ShownInv, Behind, Pushing

(* A sequence that goes on, and its last element *)
LEMMA LastAppended ==
  ASSUME NEW s \in Seq(Nat), NEW e \in Nat, NEW t, t = Append(s, e)
  PROVE  /\ t # <<>> /\ t[Len(t)] = e /\ Len(t) = Len(s) + 1 /\ DOMAIN s = 1 .. Len(t) - 1
         /\ Len(t) \in DOMAIN t
         /\ \A d \in DOMAIN s : d \in DOMAIN t /\ t[d] = s[d]
OBVIOUS

LEMMA LastJoined ==
  ASSUME NEW s \in Seq(Nat), NEW r \in Seq(Nat), NEW t, t = s \o r
  PROVE  /\ \A d \in DOMAIN s : d \in DOMAIN t /\ t[d] = s[d]
         /\ r # <<>> => /\ Last(r) = t[Len(t)] /\ Len(t) \in DOMAIN t
                        /\ \A d \in DOMAIN s : d < Len(t)
<1>1. /\ Len(t) = Len(s) + Len(r) /\ Len(s) \in Nat /\ Len(r) \in Nat
      /\ \A i \in 1 .. Len(s) : t[i] = s[i]
      /\ \A i \in 1 .. Len(r) : t[Len(s) + i] = r[i]
      /\ DOMAIN s = 1 .. Len(s) /\ DOMAIN t = 1 .. Len(t)
  OBVIOUS
<1>2. r # <<>> => Len(r) \in 1 .. Len(r)
  OBVIOUS
<1> QED
  BY <1>1, <1>2 DEF Last

LEMMA LoopTakeTimes ==
  ASSUME Shapes, RingOrder, LoopTake
  PROVE  /\ loop.at = "take" /\ loop'.at = "push" /\ shown' = shown
         /\ loop'.time \in Nat /\ down' = Append(down, loop'.time)
<1>1. loop \in LoopLocals /\ RingTypeOK
  BY DEF Shapes
<1>2. FrameTime \in Nat
  BY <1>1 DEF RingTypeOK, FrameTime, Item
<1>3. loop'.time = FrameTime /\ down' = Append(down, FrameTime) /\ shown' = shown
  <2>1. PICK e : e = LastBeforeEos
    OBVIOUS
  <2>2. loop' = [loop EXCEPT !.at = "push", !.eos = e, !.time = FrameTime]
    BY <2>1 DEF LoopTake
  <2> QED
    BY <1>1, <2>2 DEF LoopTake, LoopLocals
<1> QED
  BY <1>1, <1>2, <1>3, LoopTakeParts

LEMMA LoopEventsTimes ==
  ASSUME Shapes, RingOrder, LoopEvents
  PROVE  /\ loop'.at = "data" /\ loop'.time = loop.time
         /\ \E r \in Seq(Nat) :
              /\ down' = down \o r
              /\ \/ shown' = shown
                 \/ r # <<>> /\ shown' = down'[Len(down')]
<1>1. loop \in LoopLocals /\ RingTypeOK /\ down \in Seq(Nat)
  BY DEF Shapes, RingOrder
<1>2. loop'.at = "data" /\ loop'.time = loop.time
  BY <1>1 DEF LoopEvents, At, LoopLocals
<1>3. EventsToPush \in Seq(Nat)
  BY <1>1 DEF RingTypeOK, EventsToPush, Item
<1>4. /\ down' = down \o EventsToPush
      /\ shown' = shown \/ (EventsToPush # <<>> /\ shown' = Last(EventsToPush))
  BY DEF LoopEvents
<1> HIDE DEF EventsToPush
<1>5. EventsToPush # <<>> => Last(EventsToPush) = down'[Len(down')]
  BY <1>1, <1>3, <1>4, LastJoined
<1> QED
  BY <1>2, <1>3, <1>4, <1>5

LEMMA LoopPushTimes ==
  ASSUME Shapes, LoopPush
  PROVE  /\ loop.at = "push" /\ loop'.at = "leave" /\ loop'.time = loop.time
         /\ shown' = shown \/ shown' = loop.time
         /\ UNCHANGED <<down, mark, arrived>>
<1>1. loop \in LoopLocals
  BY DEF Shapes
<1>2. /\ loop.at = "push" /\ UNCHANGED <<down, mark, arrived>>
      /\ shown' = shown \/ shown' = loop.time
  BY DEF LoopPush, loopKeeps
<1>3. Handled(loop).time = loop.time /\ DOMAIN Handled(loop) = DOMAIN loop
  BY <1>1 DEF Handled, LoopLocals
<1>4. \/ loop' = [Handled(loop) EXCEPT !.at = "leave"]
      \/ \E r : loop' = [Handled(loop) EXCEPT !.at = "leave", !.ret = r]
      \/ loop' = At("leave")
  BY DEF LoopPush
<1>5. Handled(loop) \in LoopLocals
  BY <1>1 DEF Handled, LoopLocals
<1>6. loop'.at = "leave" /\ loop'.time = loop.time
  BY <1>1, <1>3, <1>4, <1>5 DEF At, LoopLocals
<1> QED
  BY <1>2, <1>6

(* Another thread only wakes output_loop. *)
LEMMA WokenShown ==
  ASSUME Shapes, ShownInv, UNCHANGED <<shown, down, mark>>,
         loop' = loop \/ loop' = Signalled(loop)
  PROVE  ShownInv'
<1>1. loop'.at = loop.at /\ loop'.time = loop.time
  BY SignalledLoop DEF Shapes, Signalled, LoopLocals
<1> QED
  BY <1>1 DEF ShownInv, TimesOK, Behind, Pushing

LEMMA LoopKeepsShown ==
  ASSUME Shapes, LoopHolders, RingOrder, RingOrder', ShownInv, Loop
  PROVE  ShownInv'
<1>1. /\ UNCHANGED <<mark, arrived>> /\ MaxArrivals \in Nat /\ arrived \in Nat
      /\ arrived <= MaxArrivals /\ down \in Seq(Nat) /\ down' \in Seq(Nat)
      /\ \A d \in DOMAIN down' : down'[d] \in Nat /\ down'[d] <= arrived
  BY LoopFlightFrame, Constants DEF RingOrder
<1>2. shown \in 0 .. MaxArrivals /\ loop.time \in 0 .. MaxArrivals
  BY DEF ShownInv, TimesOK
<1>3. CASE LoopTake
  <2>1. /\ loop'.at = "push" /\ shown' = shown
        /\ loop'.time \in Nat /\ down' = Append(down, loop'.time)
    BY <1>3, LoopTakeTimes
  <2>2. /\ down' # <<>> /\ down'[Len(down')] = loop'.time
        /\ DOMAIN down = 1 .. Len(down') - 1 /\ Len(down') \in DOMAIN down'
        /\ \A d \in DOMAIN down : d \in DOMAIN down' /\ down'[d] = down[d]
    BY <1>1, <2>1, LastAppended
  <2>3. TimesOK'
    BY <1>1, <1>2, <2>1, <2>2 DEF TimesOK
  <2>4. Behind' /\ Pushing'
    BY <1>1, <2>1, <2>2 DEF ShownInv, Behind, Pushing
  <2> QED
    BY <2>3, <2>4 DEF ShownInv
<1>4. CASE LoopEvents
  <2>1. PICK r \in Seq(Nat) :
          /\ loop'.at = "data" /\ loop'.time = loop.time /\ down' = down \o r
          /\ shown' = shown \/ (r # <<>> /\ shown' = down'[Len(down')])
    BY <1>4, LoopEventsTimes
  <2>2. /\ \A d \in DOMAIN down : d \in DOMAIN down' /\ down'[d] = down[d]
        /\ r # <<>> => Len(down') \in DOMAIN down'
    <3>1. down \in Seq(Nat) /\ down' = down \o r
      BY <1>1, <2>1 DEF RingOrder
    <3> QED
      BY <3>1, LastJoined, Zenon
  <2>3. TimesOK'
    <3>1. CASE shown' = shown
      BY <1>2, <2>1, <3>1 DEF TimesOK
    <3>2. CASE r # <<>> /\ shown' = down'[Len(down')]
      <4>1. shown' \in Nat /\ shown' <= arrived
        BY <1>1, <2>2, <3>2
      <4>2. shown' \in 0 .. MaxArrivals
        BY <1>1, <4>1
      <4> QED
        BY <1>2, <2>1, <4>2 DEF TimesOK
    <3> QED
      BY <2>1, <3>1, <3>2
  <2>4. Behind'
    <3>1. CASE shown' = shown
      BY <1>1, <2>2, <3>1 DEF ShownInv, Behind
    <3>2. CASE r # <<>> /\ shown' = down'[Len(down')]
      BY <1>1, <2>2, <3>2 DEF Behind
    <3> QED
      BY <2>1, <3>1, <3>2
  <2> QED
    BY <2>1, <2>3, <2>4 DEF ShownInv, Pushing
<1>5. CASE LoopPush
  <2>1. /\ loop.at = "push" /\ loop'.at = "leave" /\ loop'.time = loop.time
        /\ shown' = shown \/ shown' = loop.time
        /\ UNCHANGED down
    BY <1>5, LoopPushTimes
  <2>2. down # <<>> /\ loop.time = down[Len(down)]
    BY <2>1 DEF ShownInv, Pushing
  <2>3. Len(down) \in DOMAIN down /\ down[Len(down)] \in Nat
    BY <1>1, <2>2
  <2>4. Behind'
    BY <1>1, <2>1, <2>2, <2>3 DEF ShownInv, Behind
  <2> QED
    BY <1>2, <2>1, <2>4 DEF ShownInv, TimesOK, Pushing
<1>6. CASE LoopTimeless
  BY <1>1, <1>2, <1>6 DEF LoopTimeless, ShownInv, TimesOK, Behind, Pushing
<1> QED
  BY <1>3, <1>4, <1>5, <1>6, LoopTimes

LEMMA ShownStep ==
  ASSUME KeptInv, Quiet, RingOrder, RingOrder', ShownInv, [Next]_vars
  PROVE  ShownInv'
<1> USE DEF histVars
<1>1. Shapes /\ LoopHolders
  BY DEF KeptInv
<1>2. CASE Up
  <2>1. shown' = shown
    BY <1>2 DEF Up, ChainPop, ChainCheck, ChainStore, ChainSend, SerializedEvent,
                EosArrives, EosNow, EosClock, FlushBufferPop, FlushBufferSend
  <2> QED
    BY <1>1, <1>2, <2>1, UpFlightFrame, WokenShown
<1>3. CASE Loop
  BY <1>1, <1>3, LoopKeepsShown
<1>4. CASE FlushStopMark
  <2>1. mark' = arrived /\ shown' = shown /\ loop' = loop /\ loop.at = "out"
    BY <1>4 DEF FlushStopMark, Quiet
  <2>2. shown \in Nat /\ shown <= arrived
    <3>1. shown \in Nat
      BY Constants DEF ShownInv, TimesOK
    <3>2. CASE shown <= mark
      BY <3>1, <3>2 DEF RingOrder
    <3>3. CASE \E d \in DOMAIN down : shown <= down[d]
      BY <3>1, <3>3 DEF RingOrder
    <3> QED
      BY <3>2, <3>3 DEF ShownInv, Behind
  <2> QED
    BY <2>1, <2>2 DEF ShownInv, TimesOK, Behind, Pushing
<1>5. CASE App
  <2>1. CASE ~FlushStopMark
    BY <1>1, <1>5, <2>1, WokenShown
       DEF App, FlushStart, FlushStartStatus, FlushStartUnlock, FlushStartPause, FlushStop,
           FlushStopStatus, FlushStopStart
  <2> QED
    BY <1>4, <2>1
<1>6. CASE Dsp
  <2>1. UNCHANGED <<shown, down, mark>>
    BY <1>6 DEF Dsp, DspInput, DspOutput, DspLose, DspHeader, DspError, DspErrorUnlock,
                EosTimeout, EosTimeoutUnlock, dspKeeps
  <2> QED
    BY <1>1, <1>6, <2>1, DspFrame, WokenShown
<1>7. CASE Release \/ SpuriousWakeup \/ UNCHANGED vars
  BY <1>1, <1>7, WokenShown DEF Release, SpuriousWakeup, vars
<1> QED
  BY <1>2, <1>3, <1>5, <1>6, <1>7 DEF Next

(* Everything about the order downstream, together *)
LEMMA ShownAlways ==
  ASSUME MayLose = FALSE, CodecData = FALSE, MaySkip = FALSE \/ MaxHeaders = 0
  PROVE  Spec => [](KeptInv /\ Quiet /\ FlightInv /\ Proved!RingInv /\ RingOrder /\ ShownInv)
<1>1. Spec => [](KeptInv /\ Quiet /\ FlightInv)
  BY FlightsAlways
<1>2. Spec => [](Proved!RingInv /\ RingOrder)
  <2>1. Spec => [](Proved!RingInv /\ Proved!OrderInv)
    BY BaseIsRing, RingHolds
  <2> QED
    BY <2>1, RingOrdered, PTL
<1>3. KeptInv /\ Quiet /\ RingOrder /\ RingOrder' /\ ShownInv /\ [Next]_vars => ShownInv'
  BY ShownStep
<1> QED
  BY <1>1, <1>2, <1>3, ShownStart, PTL DEF Spec

(* Downstream sees frames and events in the order they arrived in, none of   *)
(* them twice, and none that arrived before the last FLUSH_STOP, in an       *)
(* element whose DSP returns the frames: what output_loop pushes is the last *)
(* that it took from the ring, and FLUSH_STOP waits for the pass that may    *)
(* still have one to push.                                                   *)
THEOREM BaseShownInOrder ==
  ASSUME MayLose = FALSE, CodecData = FALSE, MaySkip = FALSE \/ MaxHeaders = 0
  PROVE  Spec => ShownInOrder
<1> DEFINE Inv == KeptInv /\ RingOrder /\ ShownInv
           Later == shown' > shown /\ shown' > mark
<1>1. Inv /\ RingOrder' /\ [Next]_vars => [shown' # shown => Later]_vars
  <2> SUFFICES ASSUME Inv, RingOrder', Next, shown' # shown PROVE Later
    OBVIOUS
  <2> USE DEF histVars
  <2>1. /\ Shapes /\ LoopHolders /\ shown \in Nat /\ mark \in Nat /\ down \in Seq(Nat)
        /\ down' \in Seq(Nat)
    BY Constants DEF KeptInv, ShownInv, TimesOK, RingOrder
  <2>2. Loop
    <3>1. ~Up
      BY DEF Up, ChainPop, ChainCheck, ChainStore, ChainSend, SerializedEvent, EosArrives,
             EosNow, EosClock, FlushBufferPop, FlushBufferSend
    <3>2. ~App
      BY DEF App, FlushStart, FlushStartStatus, FlushStartUnlock, FlushStartPause,
             FlushStop, FlushStopMark, FlushStopStatus, FlushStopStart
    <3>3. ~Dsp
      BY DEF Dsp, DspInput, DspOutput, DspLose, DspHeader, DspError, DspErrorUnlock,
             EosTimeout, EosTimeoutUnlock, dspKeeps
    <3>4. ~Release /\ ~SpuriousWakeup
      BY DEF Release, SpuriousWakeup
    <3> QED
      BY <3>1, <3>2, <3>3, <3>4 DEF Next
  <2>3. mark' = mark
    BY <2>2, LoopFlightFrame
  <2>4. CASE LoopPush
    <3>1. shown' = loop.time /\ loop.at = "push"
      BY <2>1, <2>4, LoopPushTimes
    <3>2. /\ down # <<>> /\ shown' = down[Len(down)]
          /\ shown <= mark \/ \E d \in 1 .. Len(down) - 1 : shown <= down[d]
      BY <3>1 DEF ShownInv, Pushing
    <3>3. /\ Len(down) \in DOMAIN down /\ DOMAIN down = 1 .. Len(down) /\ Len(down) \in Nat
          /\ \A d \in DOMAIN down : down[d] \in Nat
      BY <2>1, <3>2
    <3>4. shown' > mark /\ shown' \in Nat
      BY <3>2, <3>3 DEF RingOrder
    <3>5. CASE shown <= mark
      BY <2>1, <3>4, <3>5
    <3>6. ASSUME NEW d \in 1 .. Len(down) - 1, shown <= down[d] PROVE Later
      <4>1. d \in DOMAIN down /\ d < Len(down)
        BY <3>3, <3>6
      <4>2. down[d] < down[Len(down)] /\ down[d] \in Nat /\ down[Len(down)] \in Nat
        BY <3>3, <4>1 DEF RingOrder
      <4> QED
        BY <2>1, <3>2, <3>4, <3>6, <4>2
    <3> QED
      BY <3>2, <3>5, <3>6
  <2>5. CASE LoopEvents
    <3>1. PICK r \in Seq(Nat) :
            down' = down \o r /\ r # <<>> /\ shown' = down'[Len(down')]
      BY <2>1, <2>5, LoopEventsTimes
    <3>2. /\ \A d \in DOMAIN down : /\ d \in DOMAIN down' /\ down'[d] = down[d]
                                    /\ d < Len(down')
          /\ Len(down') \in DOMAIN down'
          /\ \A d \in DOMAIN down' : down'[d] \in Nat
      <4>1. down \in Seq(Nat) /\ down' = down \o r
        BY <2>1, <3>1 DEF RingOrder
      <4>2. /\ \A d \in DOMAIN down : d \in DOMAIN down' /\ down'[d] = down[d]
            /\ r # <<>> => Len(down') \in DOMAIN down' /\ (\A d \in DOMAIN down : d < Len(down'))
        BY <4>1, LastJoined, Zenon
      <4>3. \A d \in DOMAIN down' : down'[d] \in Nat
        BY <2>1 DEF RingOrder
      <4> QED
        BY <3>1, <4>2, <4>3
    <3>3. shown' > mark /\ shown' \in Nat
      BY <2>3, <3>1, <3>2 DEF RingOrder
    <3>4. CASE shown <= mark
      BY <2>1, <3>3, <3>4
    <3>5. ASSUME NEW d \in DOMAIN down, shown <= down[d] PROVE Later
      <4>1. down'[d] < down'[Len(down')] /\ down'[d] \in Nat /\ down'[Len(down')] \in Nat
        BY <3>2 DEF RingOrder
      <4> QED
        BY <2>1, <3>1, <3>2, <3>3, <3>5, <4>1
    <3> QED
      BY <3>4, <3>5 DEF ShownInv, Behind
  <2> QED
    BY <2>1, <2>2, <2>4, <2>5, LoopTimes, LoopTakeTimes DEF LoopTimeless
<1> HIDE DEF Later
<1>2. Spec => []Inv
  BY ShownAlways, PTL
<1>3. Inv => RingOrder
  OBVIOUS
<1> HIDE DEF Inv
<1>4. Spec => [][shown' # shown => Later]_vars
  BY <1>1, <1>2, <1>3, PTL DEF Spec
<1> QED
  BY <1>4 DEF ShownInOrder, Later

(* The variables of the element keep their types and bounds: in particular   *)
(* no more frames are in flight than the ring has slots, and no more         *)
(* headers wait to be skipped than the DSP has sent.                         *)
THEOREM BaseTypeCorrect ==
  ASSUME MayLose = FALSE, CodecData = FALSE, MaySkip = FALSE \/ MaxHeaders = 0
  PROVE  Spec => []TypeOK
<1> DEFINE Base == KeptInv /\ Quiet /\ FlightInv /\ Proved!RingInv /\ RingOrder /\ ShownInv
           Inv == FlagsOK /\ HeadersOK
<1>1. Init => Inv
  BY RestStart
<1>2. Inv /\ [Next]_vars => Inv'
  BY UpKeepsFlags, LoopKeepsFlags, AppKeepsFlags, OthersKeepFlags, HeadersStep DEF Next
<1>3. Base /\ Inv => TypeOK
  <2> SUFFICES ASSUME Base, Inv PROVE TypeOK
    OBVIOUS
  <2>1. Shapes /\ BuffersKept
    BY DEF KeptInv
  <2>2. ts_count \in 0 .. Capacity /\ skip_hack \in 0 .. 1
    BY DEF Proved!RingInv, Proved!TypeOK, FlightInv, OutputsFit
  <2>3. skip_hack_2 \in 0 .. MaxHeaders /\ headers \in Nat
    BY BaseAssumption DEF HeadersOK
  <2>4. inq \in 0 .. InBufs /\ dspFree \in 0 .. OutBufs /\ lent \in 0 .. OutBufs
    <3>1. /\ UpHas \in {0, 1} /\ LoopHas \in {0, 1} /\ Len(dspIn) \in Nat /\ Len(outq) \in Nat
          /\ inq \in Nat /\ dspFree \in Nat /\ lent \in Nat
      BY <2>1 DEF UpHas, LoopHas, Shapes
    <3> QED
      BY <2>1, <3>1, Constants DEF BuffersKept
  <2>5. /\ arrived \in 0 .. MaxArrivals /\ mark \in 0 .. MaxArrivals
        /\ shown \in 0 .. MaxArrivals
    BY Constants DEF RingOrder, ShownInv, TimesOK
  <2>6. down \in Seq(1 .. MaxArrivals)
    <3>1. \A i \in 1 .. Len(down) : down[i] \in 1 .. MaxArrivals
      BY Constants DEF RingOrder
    <3>2. /\ Len(down) \in Nat /\ DOMAIN down = 1 .. Len(down)
          /\ down = [i \in 1 .. Len(down) |-> down[i]]
      BY DEF RingOrder
    <3>3. down \in [1 .. Len(down) -> 1 .. MaxArrivals]
      BY <3>1, <3>2
    <3> QED
      BY <3>2, <3>3, SeqDef
  <2>7. {arrived, mark, shown} \subseteq 0 .. MaxArrivals
    BY <2>5
  <2>8. {eosDown, late, flushes, headers} \subseteq Nat
    BY <2>1, <2>3 DEF Shapes, FlagsOK
  <2>9. {deferred_eos, eos, eos_start, inOn, outOn, srcFlush, eosUp} \subseteq BOOLEAN
    BY <2>1 DEF Shapes, FlagsOK
  <2>10. /\ RingTypeOK /\ status \in Flow /\ outq \in Seq(Buffer)
         /\ dspIn \in Seq(Codec .. MaxArrivals) /\ inside \in Seq(Codec .. MaxArrivals)
         /\ task \in {"started", "paused"}
         /\ up \in UpLocals /\ loop \in LoopLocals
         /\ app \in AppPlaces /\ dsp \in DspPlaces
    BY <2>1 DEF Shapes, FlagsOK
  <2> QED
    BY <2>2, <2>3, <2>4, <2>6, <2>7, <2>8, <2>9, <2>10 DEF TypeOK
<1>4. Spec => []Base
  BY ShownAlways
<1> HIDE DEF Base, Inv
<1> QED
  BY <1>1, <1>2, <1>3, <1>4, PTL DEF Spec

-----------------------------------------------------------------------------
(* OwnTimestamp                                                            *)

(* The frames in flight are on a line from pad_chain to output_loop: about  *)
(* to be sent, sent to the DSP, taken by it, queued, held by output_loop.   *)
Members(s) == {n \in Frames : \E i \in DOMAIN s : s[i] = n}
CarriedBy(s) == {n \in Codec .. MaxArrivals : \E i \in DOMAIN s : s[i] \in Carriers /\ s[i].nr = n}
Held == IF LoopFlight = 1 THEN {loop.tb.nr} ELSE {}
Returned == Held \cup CarriedBy(outq)
Taken == Members(inside)
Sent == Members(dspIn)
Storing == IF up.at = "send" THEN {arrived} ELSE {}
OnLine == Returned \cup Taken \cup Sent \cup Storing

(* The later a frame has arrived, the further back it is ... *)
Earlier(A, B) == \A a \in A, b \in B : a < b
Increasing(s) ==
  \A i, j \in DOMAIN s : i < j /\ s[i] \in Frames /\ s[j] \in Frames => s[i] < s[j]
StagesOrdered ==
  /\ Earlier(Returned, Taken \cup Sent \cup Storing)
  /\ Earlier(Taken, Sent \cup Storing)
  /\ Earlier(Sent, Storing)
  /\ Increasing(inside) /\ Increasing(dspIn)
  /\ Earlier({mark}, Storing)
  /\ \A n \in OnLine : n <= arrived

(* ... also among the outputs, as far as no flush has made them stale,      *)
(* unless one was put back behind others: then the task is on its way to    *)
(* its pause, and it pushes nothing before FLUSH_STOP makes them all stale. *)
InLine(s, m) == \A i, j \in DOMAIN s :
  i < j /\ s[i] \in Carriers /\ s[j] \in Carriers => s[i].nr <= m \/ s[i].nr < s[j].nr
OutputsInOrder ==
  InLine(outq, mark) /\ \A a \in Held, b \in CarriedBy(outq) : a <= mark \/ a < b
Halted ==
  /\ loop.at \in {"out", "pop", "null", "check", "pause", "unlock", "last"}
  /\ loop.at = "pause" \/ status # "OK"
  /\ app # "ok"
LineOrder == (OutputsInOrder \/ Halted) /\ (loop.at = "last" => status # "OK")

(* The ring holds the times of the frames on the line, those that a flush   *)
(* has made stale in whatever order.                                        *)
StaleFrames == {n \in Frames : n <= mark}
StaleCarriers == {b \in Carriers : b.nr <= mark}
LoopStale == IF LoopFlight = 1 /\ loop.tb.nr <= mark THEN 1 ELSE 0
StaleFlights ==
  Count(dspIn, StaleFrames) + Count(inside, StaleFrames) + Count(outq, StaleCarriers) + LoopStale
Match ==
  /\ {n \in OnLine : n > mark} = Proved!FreshTimes
  /\ StaleFlights = Proved!StaleCount

LineInv == StagesOrdered /\ LineOrder /\ Match

(* What a sequence has, when it gets another element or loses the first *)
LEMMA AppendParts ==
  ASSUME NEW T, NEW s \in Seq(T), NEW x \in T
  PROVE  /\ Len(s) \in Nat /\ DOMAIN s = 1 .. Len(s)
         /\ DOMAIN Append(s, x) = 1 .. Len(s) + 1 /\ Append(s, x)[Len(s) + 1] = x
         /\ \A i \in 1 .. Len(s) : Append(s, x)[i] = s[i]
         /\ \A i \in 1 .. Len(s) + 1 : i \in 1 .. Len(s) \/ i = Len(s) + 1
         /\ Len(s) + 1 \in 1 .. Len(s) + 1
         /\ \A i \in 1 .. Len(s) : i \in 1 .. Len(s) + 1 /\ i < Len(s) + 1 /\ s[i] \in T
OBVIOUS

LEMMA TailParts ==
  ASSUME NEW T, NEW s \in Seq(T), s # <<>>
  PROVE  /\ Len(s) \in Nat /\ DOMAIN s = 1 .. Len(s) /\ 1 \in 1 .. Len(s) /\ s[1] = Head(s)
         /\ DOMAIN Tail(s) = 1 .. Len(s) - 1
         /\ \A i \in 1 .. Len(s) - 1 : /\ i + 1 \in 1 .. Len(s) /\ Tail(s)[i] = s[i + 1]
                                       /\ 1 < i + 1
         /\ \A i \in 1 .. Len(s) : /\ s[i] \in T
                                   /\ i = 1 \/ (i - 1 \in 1 .. Len(s) - 1 /\ Tail(s)[i - 1] = s[i])
OBVIOUS

LEMMA MembersAppend ==
  ASSUME NEW s \in Seq(Codec .. MaxArrivals), NEW x \in Codec .. MaxArrivals
  PROVE  /\ Members(Append(s, x)) = Members(s) \cup ({x} \cap Frames)
         /\ Increasing(s) /\ Earlier(Members(s), {x} \cap Frames) => Increasing(Append(s, x))
<1> DEFINE t == Append(s, x)
<1>1. /\ DOMAIN s = 1 .. Len(s) /\ DOMAIN t = 1 .. Len(s) + 1 /\ t[Len(s) + 1] = x
      /\ Len(s) \in Nat
      /\ \A i \in 1 .. Len(s) : t[i] = s[i] /\ i \in 1 .. Len(s) + 1
      /\ \A i \in 1 .. Len(s) + 1 : i \in 1 .. Len(s) \/ i = Len(s) + 1
      /\ Len(s) + 1 \in 1 .. Len(s) + 1
  BY AppendParts
<1> HIDE DEF t
<1>2. Members(t) = Members(s) \cup ({x} \cap Frames)
  BY <1>1 DEF Members
<1>3. ASSUME Increasing(s), Earlier(Members(s), {x} \cap Frames)
      PROVE  Increasing(t)
  <2>1. SUFFICES ASSUME NEW i \in 1 .. Len(s) + 1, NEW j \in 1 .. Len(s) + 1, i < j,
                        t[i] \in Frames, t[j] \in Frames
                 PROVE  t[i] < t[j]
    BY <1>1 DEF Increasing
  <2>2. i \in 1 .. Len(s) /\ t[i] = s[i]
    BY <1>1, <2>1
  <2>3. CASE j \in 1 .. Len(s)
    BY <1>1, <1>3, <2>1, <2>2, <2>3 DEF Increasing
  <2>4. CASE j = Len(s) + 1
    <3>1. s[i] \in Members(s) /\ t[j] = x /\ x \in {x} \cap Frames
      BY <1>1, <2>1, <2>2, <2>4 DEF Members
    <3> QED
      BY <1>3, <2>2, <3>1 DEF Earlier
  <2> QED
    BY <1>1, <2>1, <2>3, <2>4
<1> QED
  BY <1>2, <1>3 DEF t

LEMMA MembersTail ==
  ASSUME NEW s \in Seq(Codec .. MaxArrivals), s # <<>>
  PROVE  /\ Members(s) = Members(Tail(s)) \cup ({Head(s)} \cap Frames)
         /\ Increasing(s) => /\ Increasing(Tail(s))
                             /\ Earlier({Head(s)} \cap Frames, Members(Tail(s)))
<1> DEFINE t == Tail(s)
<1>1. /\ Len(s) \in Nat /\ DOMAIN s = 1 .. Len(s) /\ 1 \in 1 .. Len(s) /\ s[1] = Head(s)
      /\ DOMAIN t = 1 .. Len(s) - 1
      /\ \A i \in 1 .. Len(s) - 1 : i + 1 \in 1 .. Len(s) /\ t[i] = s[i + 1] /\ 1 < i + 1
      /\ \A i \in 1 .. Len(s) :
           i = 1 \/ (i - 1 \in 1 .. Len(s) - 1 /\ t[i - 1] = s[i])
  BY TailParts
<1> HIDE DEF t
<1>2. Members(s) = Members(t) \cup ({Head(s)} \cap Frames)
  BY <1>1 DEF Members
<1>3. ASSUME Increasing(s)
      PROVE  Increasing(t) /\ Earlier({Head(s)} \cap Frames, Members(t))
  <2>1. Increasing(t)
    <3>1. SUFFICES ASSUME NEW i \in 1 .. Len(s) - 1, NEW j \in 1 .. Len(s) - 1, i < j,
                          t[i] \in Frames, t[j] \in Frames
                   PROVE  t[i] < t[j]
      BY <1>1 DEF Increasing
    <3>2. i + 1 < j + 1 /\ i + 1 \in 1 .. Len(s) /\ j + 1 \in 1 .. Len(s)
      BY <1>1, <3>1
    <3> QED
      BY <1>1, <1>3, <3>1, <3>2 DEF Increasing
  <2>2. Earlier({Head(s)} \cap Frames, Members(t))
    BY <1>1, <1>3 DEF Increasing, Earlier, Members
  <2> QED
    BY <2>1, <2>2
<1> QED
  BY <1>2, <1>3 DEF t

(* ... and the same for the outputs *)
LEMMA CarrierNumber ==
  \A b \in Buffer \cup {NoBuffer} : b.nr \in Codec .. MaxArrivals /\ b.nr \in Int
BY Constants DEF Buffer, NoBuffer

LEMMA CarriedAppend ==
  ASSUME NEW s \in Seq(Buffer), NEW b \in Buffer, NEW m \in Nat
  PROVE  /\ b \in Carriers => CarriedBy(Append(s, b)) = CarriedBy(s) \cup {b.nr}
         /\ b \notin Carriers => CarriedBy(Append(s, b)) = CarriedBy(s)
         /\ InLine(s, m) /\ (b \in Carriers => Earlier(CarriedBy(s), {b.nr}))
              => InLine(Append(s, b), m)
<1> DEFINE t == Append(s, b)
<1>1. /\ DOMAIN s = 1 .. Len(s) /\ DOMAIN t = 1 .. Len(s) + 1 /\ t[Len(s) + 1] = b
      /\ Len(s) \in Nat
      /\ \A i \in 1 .. Len(s) : t[i] = s[i] /\ i \in 1 .. Len(s) + 1 /\ s[i] \in Buffer
      /\ \A i \in 1 .. Len(s) + 1 : i \in 1 .. Len(s) \/ i = Len(s) + 1
      /\ Len(s) + 1 \in 1 .. Len(s) + 1
  BY AppendParts
<1>2. b.nr \in Codec .. MaxArrivals
  BY CarrierNumber
<1> HIDE DEF t
<1>3. b \in Carriers => CarriedBy(t) = CarriedBy(s) \cup {b.nr}
  BY <1>1, <1>2 DEF CarriedBy
<1>4. b \notin Carriers => CarriedBy(t) = CarriedBy(s)
  BY <1>1 DEF CarriedBy
<1>5. ASSUME InLine(s, m), b \in Carriers => Earlier(CarriedBy(s), {b.nr})
      PROVE  InLine(t, m)
  <2>1. SUFFICES ASSUME NEW i \in 1 .. Len(s) + 1, NEW j \in 1 .. Len(s) + 1, i < j,
                        t[i] \in Carriers, t[j] \in Carriers
                 PROVE  t[i].nr <= m \/ t[i].nr < t[j].nr
    BY <1>1 DEF InLine
  <2>2. i \in 1 .. Len(s) /\ t[i] = s[i]
    BY <1>1, <2>1
  <2>3. CASE j \in 1 .. Len(s)
    BY <1>1, <1>5, <2>1, <2>2, <2>3 DEF InLine
  <2>4. CASE j = Len(s) + 1
    <3>1. s[i].nr \in CarriedBy(s) /\ t[j] = b
      BY <1>1, <2>1, <2>2, <2>4, CarrierNumber DEF CarriedBy
    <3> QED
      BY <1>5, <2>1, <2>2, <3>1 DEF Earlier
  <2> QED
    BY <1>1, <2>1, <2>3, <2>4
<1> QED
  BY <1>3, <1>4, <1>5 DEF t

LEMMA CarriedTail ==
  ASSUME NEW s \in Seq(Buffer), s # <<>>, NEW m \in Nat
  PROVE  /\ Head(s) \in Carriers => CarriedBy(s) = CarriedBy(Tail(s)) \cup {Head(s).nr}
         /\ Head(s) \notin Carriers => CarriedBy(s) = CarriedBy(Tail(s))
         /\ InLine(s, m) =>
              /\ InLine(Tail(s), m)
              /\ Head(s) \in Carriers =>
                   \A n \in CarriedBy(Tail(s)) : Head(s).nr <= m \/ Head(s).nr < n
<1> DEFINE t == Tail(s)
<1>1. /\ Len(s) \in Nat /\ DOMAIN s = 1 .. Len(s) /\ 1 \in 1 .. Len(s) /\ s[1] = Head(s)
      /\ DOMAIN t = 1 .. Len(s) - 1
      /\ \A i \in 1 .. Len(s) - 1 : i + 1 \in 1 .. Len(s) /\ t[i] = s[i + 1] /\ 1 < i + 1
      /\ \A i \in 1 .. Len(s) :
           i = 1 \/ (i - 1 \in 1 .. Len(s) - 1 /\ t[i - 1] = s[i])
  BY TailParts
<1>2. Head(s).nr \in Codec .. MaxArrivals
  BY HeadAndTail, CarrierNumber
<1> HIDE DEF t
<1>3. Head(s) \in Carriers => CarriedBy(s) = CarriedBy(t) \cup {Head(s).nr}
  BY <1>1, <1>2 DEF CarriedBy
<1>4. Head(s) \notin Carriers => CarriedBy(s) = CarriedBy(t)
  BY <1>1 DEF CarriedBy
<1>5. ASSUME InLine(s, m)
      PROVE  /\ InLine(t, m)
             /\ Head(s) \in Carriers =>
                  \A n \in CarriedBy(t) : Head(s).nr <= m \/ Head(s).nr < n
  <2>1. InLine(t, m)
    <3>1. SUFFICES ASSUME NEW i \in 1 .. Len(s) - 1, NEW j \in 1 .. Len(s) - 1, i < j,
                          t[i] \in Carriers, t[j] \in Carriers
                   PROVE  t[i].nr <= m \/ t[i].nr < t[j].nr
      BY <1>1 DEF InLine
    <3>2. i + 1 < j + 1 /\ i + 1 \in DOMAIN s /\ j + 1 \in DOMAIN s
      BY <1>1, <3>1
    <3>3. t[i] = s[i + 1] /\ t[j] = s[j + 1]
      BY <1>1, <3>1
    <3>4. s[i + 1].nr <= m \/ s[i + 1].nr < s[j + 1].nr
      BY <1>5, <3>1, <3>2, <3>3 DEF InLine
    <3> QED
      BY <3>3, <3>4
  <2>2. ASSUME Head(s) \in Carriers, NEW n \in CarriedBy(t)
        PROVE  Head(s).nr <= m \/ Head(s).nr < n
    <3>1. PICK j \in 1 .. Len(s) - 1 : t[j] \in Carriers /\ t[j].nr = n
      BY <1>1, <2>2 DEF CarriedBy
    <3>2. 1 \in DOMAIN s /\ j + 1 \in DOMAIN s /\ 1 < j + 1 /\ t[j] = s[j + 1]
      BY <1>1, <3>1
    <3>3. s[1].nr <= m \/ s[1].nr < s[j + 1].nr
      BY <1>1, <1>5, <2>2, <3>1, <3>2 DEF InLine
    <3> QED
      BY <1>1, <3>1, <3>2, <3>3
  <2> QED
    BY <2>1, <2>2
<1> QED
  BY <1>3, <1>4, <1>5 DEF t

(* What output_loop holds of the line *)
LEMMA HeldNow ==
  /\ LoopFlight = 0 => Held = {} /\ LoopStale = 0
  /\ LoopFlight = 1 => /\ Held = {loop.tb.nr}
                       /\ loop.tb.nr <= mark => LoopStale = 1
                       /\ ~(loop.tb.nr <= mark) => LoopStale = 0
BY DEF Held, LoopStale

LEMMA HeldThen ==
  /\ LoopFlight' = 0 => Held' = {} /\ LoopStale' = 0
  /\ LoopFlight' = 1 => /\ Held' = {loop'.tb.nr}
                        /\ loop'.tb.nr <= mark' => LoopStale' = 1
                        /\ ~(loop'.tb.nr <= mark') => LoopStale' = 0
BY DEF Held, LoopStale

LEMMA LineTypes ==
  ASSUME Shapes
  PROVE  /\ OnLine \subseteq Int /\ Held \subseteq Int
         /\ loop.tb.nr \in Int /\ LoopFlight \in {0, 1} /\ LoopStale \in {0, 1}
         /\ Taken \subseteq Frames /\ Sent \subseteq Frames
         /\ Frames \subseteq Int /\ arrived \in Nat
<1>1. /\ loop.tb \in Buffer \cup {NoBuffer} /\ arrived \in Nat /\ LoopFlight \in {0, 1}
      /\ Frames \subseteq Int /\ Codec .. MaxArrivals \subseteq Int
  BY Constants, FlightsCounted DEF Shapes, LoopLocals, Frames
<1>2. loop.tb.nr \in Int /\ LoopStale \in {0, 1}
  BY <1>1, CarrierNumber DEF LoopStale
<1>3. Taken \subseteq Frames /\ Sent \subseteq Frames
  BY DEF Taken, Sent, Members
<1>4. Held \subseteq Int /\ CarriedBy(outq) \subseteq Int /\ Storing \subseteq Int
  BY <1>1, <1>2 DEF Held, CarriedBy, Storing
<1> QED
  BY <1>1, <1>2, <1>3, <1>4 DEF OnLine, Returned

LEMMA StaleThen ==
  ASSUME mark' = mark
  PROVE  StaleFlights' = Count(dspIn', StaleFrames) + Count(inside', StaleFrames)
                         + Count(outq', StaleCarriers) + LoopStale'
BY DEF StaleFlights, Count, StaleFrames, StaleCarriers, Frames, Carriers, Buffer, Kinds,
       Codec, NoFrame

LEMMA StaleTypes ==
  ASSUME Shapes
  PROVE  /\ Count(dspIn, StaleFrames) \in Nat /\ Count(inside, StaleFrames) \in Nat
         /\ Count(outq, StaleCarriers) \in Nat /\ LoopStale \in {0, 1}
BY CountBound, LineTypes DEF Shapes

LEMMA RingSame ==
  ASSUME UNCHANGED ringVars
  PROVE  Proved!FreshTimes' = Proved!FreshTimes /\ Proved!StaleCount' = Proved!StaleCount
BY DEF Proved!FreshTimes, Proved!StaleCount, Proved!Cell, Proved!Slot, ringVars

LEMMA RingEvents ==
  ASSUME Proved!RingInv, NEW e \in Nat, StoreEvent(e) \/ ClearEvents
  PROVE  Proved!FreshTimes' = Proved!FreshTimes /\ Proved!StaleCount' = Proved!StaleCount
<1>1. Proved!StoreEvent(e) \/ Proved!ClearEvents
  BY DEF Proved!StoreEvent, Proved!ClearEvents, StoreEvent, ClearEvents
<1> QED
  BY <1>1, RingConstants, Proved!FreshEvents

(* up *)
LEMMA UpKeepsLine ==
  ASSUME Shapes, Shapes', InputsFit, RingOrder, Proved!RingInv, LineInv, Up
  PROVE  LineInv'
<1> USE DEF LineInv
<1>1. /\ UNCHANGED <<outq, inside, loop, mark, status, app>>
      /\ up \in UpLocals /\ dspIn \in Seq(Codec .. MaxArrivals)
      /\ arrived \in 0 .. MaxArrivals
      /\ arrived \in Nat /\ mark \in Nat /\ mark <= arrived
  BY UpFlightFrame, UpFrame DEF Shapes, RingOrder
<1>2. /\ Returned' = Returned /\ Taken' = Taken /\ Held' = Held /\ LoopStale' = LoopStale
      /\ CarriedBy(outq)' = CarriedBy(outq)
  BY <1>1 DEF Returned, Held, LoopFlight, LoopStale, Taken, Members, CarriedBy, Carriers,
              Frames, Buffer, Kinds
<1>3. LineOrder'
  <2>1. OutputsInOrder => OutputsInOrder'
    BY <1>1, <1>2 DEF OutputsInOrder, InLine, Carriers, Buffer, Kinds
  <2>2. Halted => Halted'
    BY <1>1 DEF Halted
  <2> QED
    BY <1>1, <2>1, <2>2 DEF LineOrder
<1>4. Increasing(inside)' /\ OnLine \subseteq Int
  BY <1>1, LineTypes DEF StagesOrdered, Increasing, Frames
<1>5. StaleFlights' = Count(dspIn', StaleFrames) + Count(inside, StaleFrames)
                      + Count(outq, StaleCarriers) + LoopStale
  BY <1>1, <1>2, StaleThen
<1>6. CASE ChainStore
  <2>1. /\ up.at = "store" /\ up'.at = "send" /\ arrived' = arrived + 1 /\ dspIn' = dspIn
        /\ StoreFrame(arrived + 1)
    BY <1>1, <1>6, ChainStoreParts DEF ChainStore, dspVars
  <2>2. /\ Storing = {} /\ Storing' = {arrived + 1} /\ Sent' = Sent
        /\ Increasing(dspIn)' = Increasing(dspIn)
    BY <2>1 DEF Storing, Sent, Members, Frames, Increasing
  <2>3. /\ Proved!FreshTimes' = Proved!FreshTimes \cup {arrived + 1}
        /\ Proved!StaleCount' = Proved!StaleCount
    <3>1. Proved!StoreFrame(arrived + 1)
      BY <2>1 DEF Proved!StoreFrame, Proved!NextPos, StoreFrame, NextPos
    <3>2. arrived + 1 \in Nat
      BY <1>1
    <3> QED
      BY <3>1, <3>2, RingConstants, Proved!FreshStored
  <2>4. OnLine' = OnLine \cup {arrived + 1}
    BY <1>2, <2>2 DEF OnLine
  <2>5. StagesOrdered'
    <3>1. \A n \in OnLine : n <= arrived /\ n < arrived + 1 /\ n <= arrived + 1
      BY <1>1, <1>4 DEF StagesOrdered
    <3>2. /\ Earlier(Returned, Taken \cup Sent) /\ Earlier(Taken, Sent)
      BY DEF StagesOrdered, Earlier
    <3>3. Earlier(OnLine, {arrived + 1}) /\ Earlier({mark}, {arrived + 1})
      BY <1>1, <3>1 DEF Earlier
    <3>4. /\ Earlier(Returned', Taken' \cup Sent' \cup Storing')
          /\ Earlier(Taken', Sent' \cup Storing') /\ Earlier(Sent', Storing')
      BY <1>2, <2>2, <3>2, <3>3 DEF Earlier, OnLine
    <3>5. Increasing(dspIn)' /\ Earlier({mark'}, Storing')
      BY <1>1, <2>2, <3>3 DEF StagesOrdered
    <3>6. \A n \in OnLine' : n <= arrived'
      BY <1>1, <2>1, <2>4, <3>1
    <3> QED
      BY <1>4, <3>4, <3>5, <3>6 DEF StagesOrdered, Earlier
  <2>6. Match'
    <3>1. arrived + 1 > mark
      BY <1>1
    <3>2. {n \in OnLine' : n > mark'} = {n \in OnLine : n > mark} \cup {arrived + 1}
      BY <1>1, <2>4, <3>1
    <3> QED
      BY <1>5, <2>1, <2>3, <3>2 DEF Match, StaleFlights
  <2> QED
    BY <1>3, <2>5, <2>6
<1>7. CASE ChainSend
  <2>1. /\ up.at = "send" /\ up'.at = "idle" /\ dspIn' = Append(dspIn, arrived)
        /\ UNCHANGED <<ringVars, arrived>>
    BY <1>1, <1>7, ChainSendParts DEF ChainSend, histVars
  <2>2. arrived \in Frames /\ arrived \in Codec .. MaxArrivals
    BY <1>1, <2>1, Constants DEF InputsFit, Frames
  <2>3. Storing = {arrived} /\ Storing' = {}
    BY <2>1 DEF Storing
  <2>4. Sent' = Sent \cup {arrived}
    <3>1. Members(Append(dspIn, arrived)) = Members(dspIn) \cup ({arrived} \cap Frames)
      BY <1>1, <2>2, MembersAppend
    <3>2. {arrived} \cap Frames = {arrived}
      BY <2>2
    <3> QED
      BY <2>1, <3>1, <3>2 DEF Sent, Members, Frames
  <2>5. Increasing(dspIn)'
    <3>1. Earlier(Members(dspIn), {arrived} \cap Frames) /\ Increasing(dspIn)
      BY <2>3 DEF StagesOrdered, Sent, Earlier
    <3>2. Increasing(Append(dspIn, arrived))
      BY <1>1, <2>2, <3>1, MembersAppend
    <3> QED
      BY <2>1, <3>2 DEF Increasing, Frames
  <2>6. OnLine' = OnLine
    BY <1>2, <2>3, <2>4 DEF OnLine
  <2>7. StagesOrdered'
    <3>1. /\ Earlier(Returned', Taken' \cup Sent') /\ Earlier(Taken', Sent')
          /\ \A n \in OnLine' : n <= arrived'
      BY <1>2, <2>1, <2>3, <2>4, <2>6 DEF StagesOrdered, Earlier
    <3> QED
      BY <1>4, <2>3, <2>5, <3>1 DEF StagesOrdered, Earlier
  <2>8. Match'
    <3>1. arrived \notin StaleFrames
      BY <1>1, <2>3 DEF StagesOrdered, Earlier, StaleFrames
    <3>2. Count(dspIn', StaleFrames) = Count(dspIn, StaleFrames)
      BY <1>1, <2>1, <2>2, <3>1, CountAppend
    <3>3. Proved!FreshTimes' = Proved!FreshTimes /\ Proved!StaleCount' = Proved!StaleCount
      BY <2>1, RingSame
    <3> QED
      BY <1>1, <1>5, <2>6, <3>2, <3>3 DEF Match, StaleFlights
  <2> QED
    BY <1>3, <2>7, <2>8
<1>8. ASSUME Storing = {}, Storing' = {}, Sent' = Sent, Increasing(dspIn)',
             Count(dspIn', StaleFrames) = Count(dspIn, StaleFrames),
             arrived' = arrived \/ arrived' = arrived + 1,
             Proved!FreshTimes' = Proved!FreshTimes, Proved!StaleCount' = Proved!StaleCount
      PROVE  LineInv'
  <2>1. OnLine' = OnLine
    BY <1>2, <1>8 DEF OnLine
  <2>2. \A n \in OnLine' : n <= arrived'
    BY <1>1, <1>4, <1>8, <2>1 DEF StagesOrdered
  <2>3. StagesOrdered'
    BY <1>2, <1>4, <1>8, <2>2 DEF StagesOrdered, Earlier
  <2>4. Match'
    BY <1>1, <1>5, <1>8, <2>1 DEF Match, StaleFlights
  <2> QED
    BY <1>3, <2>3, <2>4
<1>9. CASE FlushBufferSend
  <2>1. /\ up.at = "flushsend" /\ up'.at = "idle" /\ UNCHANGED <<ringVars, arrived>>
        /\ dspIn' = Append(dspIn, NoFrame) \/ dspIn' = dspIn
    BY <1>1, <1>9, FlushBufferSendParts DEF FlushBufferSend, histVars
  <2>2. NoFrame \in Codec .. MaxArrivals /\ NoFrame \notin Frames /\ NoFrame \notin StaleFrames
    BY Constants DEF Frames, StaleFrames
  <2>3. /\ Members(dspIn') = Members(dspIn)
        /\ Increasing(dspIn')
        /\ Count(dspIn', StaleFrames) = Count(dspIn, StaleFrames)
    <3>1. CASE dspIn' = Append(dspIn, NoFrame)
      <4>1. {NoFrame} \cap Frames = {}
        BY <2>2
      <4>2. /\ Members(Append(dspIn, NoFrame)) = Members(dspIn)
            /\ Increasing(Append(dspIn, NoFrame))
        <5>1. /\ Members(Append(dspIn, NoFrame)) = Members(dspIn) \cup ({NoFrame} \cap Frames)
              /\ Increasing(dspIn) /\ Earlier(Members(dspIn), {NoFrame} \cap Frames)
                   => Increasing(Append(dspIn, NoFrame))
          BY <1>1, <2>2, MembersAppend
        <5> QED
          BY <4>1, <5>1 DEF StagesOrdered, Earlier
      <4>3. Count(Append(dspIn, NoFrame), StaleFrames) = Count(dspIn, StaleFrames)
        BY <1>1, <2>2, CountAppend
      <4> QED
        BY <3>1, <4>2, <4>3
    <3>2. CASE dspIn' = dspIn
      BY <3>2 DEF StagesOrdered
    <3> QED
      BY <2>1, <3>1, <3>2
  <2>4. Sent' = Sent /\ Increasing(dspIn)' /\ Storing = {} /\ Storing' = {}
    BY <2>1, <2>3 DEF Sent, Members, Increasing, Frames, Storing
  <2> QED
    BY <1>8, <2>1, <2>3, <2>4, RingSame
<1>10. CASE up.at # "send" /\ up'.at # "send" /\ UNCHANGED dspIn
  <2>1. /\ Storing = {} /\ Storing' = {} /\ Sent' = Sent
        /\ Increasing(dspIn)' /\ Count(dspIn', StaleFrames) = Count(dspIn, StaleFrames)
    BY <1>10 DEF Storing, Sent, Members, Frames, Increasing, StagesOrdered
  <2>2. CASE SerializedEvent
    <3>1. StoreEvent(arrived + 1) /\ arrived' = arrived + 1 /\ arrived + 1 \in Nat
      BY <1>1, <2>2 DEF SerializedEvent
    <3> QED
      BY <1>8, <2>1, <3>1, RingEvents
  <2>3. CASE ~SerializedEvent /\ ~ChainStore
    <3>1. UNCHANGED <<ringVars, arrived>>
      BY <2>3
         DEF Up, ChainPop, ChainCheck, ChainSend, EosArrives, EosNow, EosClock,
             FlushBufferPop, FlushBufferSend, histVars
    <3> QED
      BY <1>8, <2>1, <3>1, RingSame
  <2> QED
    BY <1>6, <2>2, <2>3
<1> QED
  BY <1>6, <1>7, <1>9, <1>10, UpQuietly
(* A step that only wakes the threads, or makes the element fail *)
LEMMA WokenLine ==
  ASSUME Shapes, LineInv, UNCHANGED <<ringVars, dspIn, inside, outq, arrived, mark>>,
         up' = up \/ up' = Signalled(up), loop' = loop \/ loop' = Signalled(loop),
         status' = status \/ status' # "OK", app' = app \/ app' # "ok"
  PROVE  LineInv'
<1> USE DEF LineInv
<1>1. /\ LoopFlight' = LoopFlight /\ up'.at = up.at
      /\ loop'.at = loop.at /\ loop'.tb = loop.tb
  BY WokenFlights
<1>2. /\ Held' = Held /\ LoopStale' = LoopStale /\ CarriedBy(outq)' = CarriedBy(outq)
      /\ Taken' = Taken /\ Sent' = Sent /\ Storing' = Storing
  BY <1>1 DEF Held, LoopStale, CarriedBy, Taken, Sent, Storing, Members, Carriers,
              Frames, Buffer, Kinds
<1>3. Returned' = Returned /\ OnLine' = OnLine
  BY <1>2 DEF Returned, OnLine
<1>4. StagesOrdered'
  BY <1>2, <1>3 DEF StagesOrdered, Earlier, Increasing, Frames
<1>5. LineOrder'
  <2>1. OutputsInOrder => OutputsInOrder'
    BY <1>2 DEF OutputsInOrder, InLine, Carriers, Buffer, Kinds
  <2>2. Halted => Halted'
    BY <1>1 DEF Halted
  <2>3. loop'.at = "last" => status' # "OK"
    BY <1>1 DEF LineOrder
  <2> QED
    BY <2>1, <2>2, <2>3 DEF LineOrder
<1>6. Match'
  BY <1>2, <1>3, StaleThen, RingSame DEF Match, StaleFlights
<1> QED
  BY <1>4, <1>5, <1>6

(* dsp *)
LEMMA DspInputKeepsLine ==
  ASSUME Shapes, LineInv, DspInput
  PROVE  LineInv'
<1> USE DEF LineInv
<1> DEFINE x == Head(dspIn)
           X == {x} \cap Frames
<1>1. /\ dspIn # <<>> /\ dspIn' = Tail(dspIn) /\ inside' = Append(inside, x)
      /\ UNCHANGED <<ringVars, outq, arrived, mark, status, app, loop>>
      /\ up' = Signalled(up)
  BY DEF DspInput, dspKeeps, selfVars, PutInput
<1>2. /\ dspIn \in Seq(Codec .. MaxArrivals) /\ inside \in Seq(Codec .. MaxArrivals)
      /\ x \in Codec .. MaxArrivals
  BY <1>1, HeadAndTail DEF Shapes
<1>3. LoopFlight' = LoopFlight /\ up'.at = up.at
  BY <1>1, WokenFlights
<1>4. /\ Held' = Held /\ LoopStale' = LoopStale /\ CarriedBy(outq)' = CarriedBy(outq)
      /\ Storing' = Storing
  BY <1>1, <1>3 DEF Held, LoopStale, CarriedBy, Storing, Carriers, Buffer, Kinds
<1>5. /\ Sent = Members(Tail(dspIn)) \cup X /\ Increasing(Tail(dspIn))
      /\ Earlier(X, Members(Tail(dspIn)))
  BY <1>1, <1>2, MembersTail DEF Sent, StagesOrdered
<1> HIDE DEF x, X
<1>6. Earlier(Members(inside), X)
  BY <1>5 DEF StagesOrdered, Earlier, Taken
<1>7. Members(Append(inside, x)) = Taken \cup X /\ Increasing(Append(inside, x))
  BY <1>2, <1>6, MembersAppend DEF Taken, StagesOrdered, X
<1>8. /\ Sent' = Members(Tail(dspIn)) /\ Taken' = Taken \cup X
      /\ Increasing(dspIn)' /\ Increasing(inside)'
  BY <1>1, <1>5, <1>7 DEF Sent, Taken, Members, Increasing, Frames
<1>9. Returned' = Returned /\ OnLine' = OnLine /\ Sent = Sent' \cup X
  BY <1>4, <1>5, <1>8 DEF Returned, OnLine
<1>10. StagesOrdered'
  <2>1. Earlier(Returned, Taken \cup X \cup Sent' \cup Storing)
    BY <1>9 DEF StagesOrdered, Earlier
  <2>2. Earlier(Taken \cup X, Sent' \cup Storing)
    BY <1>5, <1>8, <1>9 DEF StagesOrdered, Earlier
  <2>3. Earlier(Sent', Storing)
    BY <1>9 DEF StagesOrdered, Earlier
  <2>4. Earlier({mark}, Storing) /\ \A n \in OnLine : n <= arrived
    BY DEF StagesOrdered
  <2>5. /\ Earlier(Returned', Taken' \cup Sent' \cup Storing')
        /\ Earlier(Taken', Sent' \cup Storing') /\ Earlier(Sent', Storing')
        /\ Earlier({mark'}, Storing') /\ \A n \in OnLine' : n <= arrived'
    BY <1>1, <1>4, <1>8, <1>9, <2>1, <2>2, <2>3, <2>4
  <2> QED
    BY <1>8, <2>5 DEF StagesOrdered, Earlier
<1>11. LineOrder'
  <2>1. OutputsInOrder => OutputsInOrder'
    BY <1>1, <1>4 DEF OutputsInOrder, InLine, Carriers, Buffer, Kinds
  <2>2. Halted => Halted'
    BY <1>1 DEF Halted
  <2> QED
    BY <1>1, <2>1, <2>2 DEF LineOrder
<1>12. Match'
  <2>1. /\ Count(Tail(dspIn), StaleFrames) \in Nat /\ Count(inside, StaleFrames) \in Nat
        /\ Count(outq, StaleCarriers) \in Nat /\ LoopStale \in {0, 1}
    BY <1>1, <1>2, HeadAndTail, CountBound, StaleTypes
  <2>2. /\ x \in StaleFrames =>
             /\ Count(dspIn, StaleFrames) = Count(Tail(dspIn), StaleFrames) + 1
             /\ Count(Append(inside, x), StaleFrames) = Count(inside, StaleFrames) + 1
        /\ x \notin StaleFrames =>
             /\ Count(dspIn, StaleFrames) = Count(Tail(dspIn), StaleFrames)
             /\ Count(Append(inside, x), StaleFrames) = Count(inside, StaleFrames)
    BY <1>1, <1>2, CountTail, CountAppend DEF x
  <2>3. StaleFlights' = Count(Tail(dspIn), StaleFrames)
                        + Count(Append(inside, x), StaleFrames)
                        + Count(outq, StaleCarriers) + LoopStale
    BY <1>1, <1>4, StaleThen
  <2>4. StaleFlights' = StaleFlights
    BY <2>1, <2>2, <2>3 DEF StaleFlights
  <2> QED
    BY <1>1, <1>9, <2>4, RingSame DEF Match
<1> QED
  BY <1>10, <1>11, <1>12

LEMMA DspOutputKeepsLine ==
  ASSUME Shapes, LineInv, DspOutput, mark \in Nat
  PROVE  LineInv'
<1> USE DEF LineInv
<1> DEFINE x == Head(inside)
           X == {x} \cap Frames
<1>1. /\ inside # <<>> /\ inside' = Tail(inside)
      /\ UNCHANGED <<ringVars, dspIn, arrived, mark, status, app, up>>
  BY DEF DspOutput, dspKeeps, selfVars
<1>2. /\ inside \in Seq(Codec .. MaxArrivals) /\ x \in Codec .. MaxArrivals
      /\ outq \in Seq(Buffer)
  BY <1>1, HeadAndTail DEF Shapes
<1>3. PICK b \in Buffer :
        /\ outq' = Append(outq, b) /\ loop' = Signalled(loop) /\ b.nr = x
        /\ b \in Carriers <=> x \in Frames
  BY OutputCarries
<1>4. /\ LoopFlight' = LoopFlight /\ loop'.at = loop.at /\ loop'.tb = loop.tb
  BY <1>1, <1>3, WokenFlights
<1>5. /\ Held' = Held /\ LoopStale' = LoopStale /\ Sent' = Sent /\ Storing' = Storing
  BY <1>1, <1>4 DEF Held, LoopStale, Sent, Storing, Members, Frames
<1>6. /\ Taken = Members(Tail(inside)) \cup X /\ Increasing(Tail(inside))
      /\ Earlier(X, Members(Tail(inside)))
  BY <1>1, <1>2, MembersTail DEF Taken, StagesOrdered
<1> HIDE DEF x, X
<1>7. CarriedBy(Append(outq, b)) = CarriedBy(outq) \cup X
  <2>1. CASE x \in Frames
    <3>1. CarriedBy(Append(outq, b)) = CarriedBy(outq) \cup {x} /\ X = {x}
      BY <1>2, <1>3, <2>1, CarriedAppend DEF X
    <3> QED
      BY <3>1
  <2>2. CASE x \notin Frames
    <3>1. CarriedBy(Append(outq, b)) = CarriedBy(outq) /\ X = {}
      BY <1>2, <1>3, <2>2, CarriedAppend DEF X
    <3> QED
      BY <3>1
  <2> QED
    BY <2>1, <2>2
<1>8. CarriedBy(outq)' = CarriedBy(Append(outq, b))
  BY <1>3 DEF CarriedBy, Carriers, Buffer, Kinds
<1>9. Taken' = Members(Tail(inside)) /\ Increasing(inside)' /\ Increasing(dspIn)'
  BY <1>1, <1>6 DEF Taken, Members, Increasing, Frames, StagesOrdered
<1>10. Returned' = Returned \cup X /\ Taken = Taken' \cup X
  BY <1>5, <1>6, <1>7, <1>8, <1>9 DEF Returned
<1>11. OnLine' = OnLine
  BY <1>5, <1>10 DEF OnLine
<1>12. StagesOrdered'
  <2>1. Earlier(Returned \cup X, Taken' \cup Sent \cup Storing)
    BY <1>6, <1>9, <1>10 DEF StagesOrdered, Earlier
  <2>2. Earlier(Taken', Sent \cup Storing)
    BY <1>10 DEF StagesOrdered, Earlier
  <2>3. /\ Earlier(Sent, Storing) /\ Earlier({mark}, Storing)
        /\ \A n \in OnLine : n <= arrived
    BY DEF StagesOrdered
  <2>4. /\ Earlier(Returned', Taken' \cup Sent' \cup Storing')
        /\ Earlier(Taken', Sent' \cup Storing') /\ Earlier(Sent', Storing')
        /\ Earlier({mark'}, Storing') /\ \A n \in OnLine' : n <= arrived'
    BY <1>1, <1>5, <1>10, <1>11, <2>1, <2>2, <2>3
  <2> QED
    BY <1>9, <2>4 DEF StagesOrdered, Earlier
<1>13. LineOrder'
  <2>1. ASSUME OutputsInOrder PROVE OutputsInOrder'
    <3>1. b \in Carriers => b.nr \in Taken
      BY <1>3, <1>10 DEF X
    <3>2. b \in Carriers => Earlier(CarriedBy(outq), {b.nr})
      BY <3>1 DEF StagesOrdered, Earlier, Returned
    <3>3. InLine(Append(outq, b), mark)
      BY <1>2, <2>1, <3>2, CarriedAppend DEF OutputsInOrder
    <3>4. \A a \in Held, n \in CarriedBy(outq) \cup X : a <= mark \/ a < n
      BY <1>10, <2>1 DEF OutputsInOrder, StagesOrdered, Earlier, Returned
    <3>5. InLine(outq, mark)'
      BY <1>1, <1>3, <3>3 DEF InLine, Carriers, Buffer, Kinds
    <3> QED
      BY <1>1, <1>5, <1>7, <1>8, <3>4, <3>5 DEF OutputsInOrder
  <2>2. Halted => Halted'
    BY <1>1, <1>4 DEF Halted
  <2> QED
    BY <1>1, <1>4, <2>1, <2>2 DEF LineOrder
<1>14. Match'
  <2>1. /\ Count(Tail(inside), StaleFrames) \in Nat /\ Count(dspIn, StaleFrames) \in Nat
        /\ Count(outq, StaleCarriers) \in Nat /\ LoopStale \in {0, 1}
    BY <1>1, <1>2, HeadAndTail, CountBound, StaleTypes
  <2>2. b \in StaleCarriers <=> x \in StaleFrames
    BY <1>3 DEF StaleCarriers, StaleFrames
  <2>3. /\ x \in StaleFrames =>
             /\ Count(inside, StaleFrames) = Count(Tail(inside), StaleFrames) + 1
             /\ Count(Append(outq, b), StaleCarriers) = Count(outq, StaleCarriers) + 1
        /\ x \notin StaleFrames =>
             /\ Count(inside, StaleFrames) = Count(Tail(inside), StaleFrames)
             /\ Count(Append(outq, b), StaleCarriers) = Count(outq, StaleCarriers)
    BY <1>1, <1>2, <2>2, CountTail, CountAppend DEF x
  <2>4. StaleFlights' = Count(dspIn, StaleFrames) + Count(Tail(inside), StaleFrames)
                        + Count(Append(outq, b), StaleCarriers) + LoopStale
    BY <1>1, <1>3, <1>5, StaleThen
  <2>5. StaleFlights' = StaleFlights
    BY <2>1, <2>3, <2>4 DEF StaleFlights
  <2> QED
    BY <1>1, <1>11, <2>5, RingSame DEF Match
<1> QED
  BY <1>12, <1>13, <1>14

LEMMA DspKeepsLine ==
  ASSUME MayLose = FALSE, MaxHeaders = 0, Shapes, FlightInv, mark \in Nat, LineInv, Dsp
  PROVE  LineInv'
<1>1. CASE DspInput \/ DspOutput
  BY <1>1, DspInputKeepsLine, DspOutputKeepsLine
<1>2. ~DspLose
  BY DEF DspLose
<1>3. ~DspHeader
  BY DEF DspHeader, FlightInv, Balance
<1>4. CASE ~DspInput /\ ~DspOutput
  <2>1. UNCHANGED <<ringVars, dspIn, inside, outq, arrived, mark, app>>
    BY <1>2, <1>3, <1>4
       DEF Dsp, DspError, DspErrorUnlock, EosTimeout, EosTimeoutUnlock, dspKeeps, queueVars,
           dspVars
  <2>2. status' = status \/ status' # "OK"
    BY <1>2, <1>3, <1>4
       DEF Dsp, DspError, DspErrorUnlock, EosTimeout, EosTimeoutUnlock, selfVars
  <2>3. /\ up' = up \/ up' = Signalled(up)
        /\ loop' = loop \/ loop' = Signalled(loop)
    BY DspFrame
  <2> QED
    BY <2>1, <2>2, <2>3, WokenLine
<1> QED
  BY <1>1, <1>4
(* loop: what is put back in the wrong place stays there until a flush is    *)
(* over: check_status pauses the task before another frame is pushed.        *)
LEMMA LoopHalts ==
  ASSUME Shapes, LoopHolders, LoopDisabled, Loop
  PROVE  /\ loop'.at = "last" => status' # "OK"
         /\ Halted => Halted'
<1> USE DEF Halted
<1>1. /\ loop \in LoopLocals /\ outq \in Seq(Buffer) /\ status \in Flow /\ RingTypeOK
      /\ deferred_eos \in BOOLEAN /\ app' = app
  BY DEF Shapes, Loop, LoopPop, LoopNull, LoopCheck, LoopUnexpected, LoopEvents, LoopRealloc,
         LoopEmpty, LoopSkip, LoopDrop, LoopAlloc, LoopHack, LoopTake, LoopPush, LoopEos,
         LoopKeep, LoopLeave, PauseSync, PauseUnlock, PauseEos, loopKeeps
<1>2. CASE PauseSync
  <2>1. /\ loop.at = "pause" /\ loop'.at = "unlock"
        /\ status = "OK" => status' = loop.ret
        /\ status # "OK" => status' = status
    BY <1>1, <1>2, PauseSyncParts
  <2>2. status' # "OK"
    BY <2>1 DEF LoopDisabled
  <2> QED
    BY <1>1, <2>1, <2>2
<1>3. CASE PauseUnlock
  <2>1. loop.at = "unlock" /\ loop'.at = "last"
    BY <1>1, <1>3, PauseUnlockParts
  <2>2. status' = status /\ status # "OK"
    BY <1>3, <2>1 DEF PauseUnlock, selfVars, LoopDisabled
  <2> QED
    BY <1>1, <2>1, <2>2
<1>4. status' = status \/ PauseSync \/ PauseUnlock
  BY LoopKeepsRet
<1>5. CASE LoopPop
  <2>1. loop'.at \in {"check", "null", "pop"} /\ loop.at \in {"out", "pop"}
    BY <1>1, <1>5, LoopPopParts
  <2>2. status' = status
    BY <1>5 DEF LoopPop, selfVars
  <2> QED
    BY <1>1, <2>1, <2>2
<1>6. CASE LoopNull
  <2>1. loop'.at = "out" \/ loop'.at = "pause"
    BY <1>1, <1>6, LoopNullParts, PassEndLocals
  <2>2. status' = status /\ loop.at = "null"
    BY <1>6 DEF LoopNull, selfVars
  <2> QED
    BY <1>1, <2>1, <2>2
<1>7. CASE LoopCheck
  <2>1. status' = status /\ loop.at = "check"
    BY <1>7 DEF LoopCheck, selfVars
  <2>2. loop'.at = "pause" \/ (loop'.at = "work" /\ status = "OK")
    <3>1. CASE status = "OK"
      BY <1>1, <1>7, <3>1, LoopCheckParts
    <3>2. CASE status # "OK"
      BY <1>1, <1>7, <3>2 DEF LoopCheck, PauseWith, LoopLocals
    <3> QED
      BY <3>1, <3>2
  <2> QED
    BY <1>1, <2>1, <2>2
<1>8. CASE PauseEos
  <2>1. loop'.at = "pause" \/ loop'.at = "out"
    BY <1>1, <1>8, PauseEosParts, PassEndLocals
  <2>2. status' = status /\ loop.at = "last"
    BY <1>8 DEF PauseEos
  <2> QED
    BY <1>1, <2>1, <2>2
<1>9. ASSUME loop.at \in {"work", "data", "hack", "take", "push", "leave", "keep"},
             loop'.at # "last"
      PROVE  /\ loop'.at = "last" => status' # "OK"
             /\ Halted => Halted'
  BY <1>9
<1>10. CASE LoopUnexpected \/ LoopEvents \/ LoopEmpty
  <2>1. loop' = At("leave") \/ loop' = At("data")
    BY <1>10 DEF LoopUnexpected, LoopEvents, LoopEmpty
  <2>2. loop'.at \in {"leave", "data"}
    BY <1>1, <2>1, LoopAtParts DEF LoopPlaces
  <2>3. loop.at \in {"work", "data"}
    BY <1>10 DEF LoopUnexpected, LoopEvents, LoopEmpty
  <2> QED
    BY <1>9, <2>2, <2>3
<1>11. CASE LoopRealloc
  BY <1>9, <1>11, LoopReallocParts, PassEndLocals
<1>12. CASE LoopSkip \/ LoopDrop
  <2>1. loop.at = "data" /\ loop' = [loop EXCEPT !.at = "leave", !.eos = LastBeforeEos]
    BY <1>12 DEF LoopSkip, LoopDrop
  <2> QED
    BY <1>1, <1>9, <2>1, LoopCountParts
<1>13. CASE LoopAlloc
  <2>1. loop.tb.kind # "none"
    BY <1>13 DEF LoopAlloc, LoopHolders
  <2> QED
    BY <1>1, <1>9, <1>13, <2>1, LoopAllocParts
<1>14. CASE LoopHack \/ LoopPush
  BY <1>1, <1>9, <1>14, LoopHackParts, LoopPushParts DEF GoesOn
<1>15. CASE LoopTake
  BY <1>1, <1>9, <1>15, LoopTakeParts
<1>16. CASE LoopEos
  BY <1>1, <1>9, <1>16, LoopEosParts
<1>17. CASE LoopKeep
  BY <1>1, <1>9, <1>17, LoopKeepParts
<1>18. CASE LoopLeave
  BY <1>1, <1>9, <1>18, LoopLeaveParts, PassEndLocals
<1> QED
  BY <1>2, <1>3, <1>5, <1>6, <1>7, <1>8, <1>10, <1>11, <1>12, <1>13, <1>14, <1>15, <1>16,
     <1>17, <1>18 DEF Loop

(* The steps that count a frame down, and those that leave the times alone *)
LEMMA LoopRing ==
  ASSUME Loop
  PROVE  LoopSkip \/ LoopDrop \/ LoopTake \/ ClearEvents \/ UNCHANGED ringVars
BY DEF Loop, LoopPop, LoopNull, LoopCheck, LoopUnexpected, LoopEvents, LoopRealloc,
       LoopEmpty, LoopAlloc, LoopHack, LoopPush, LoopEos, LoopKeep, LoopLeave, PauseSync,
       PauseUnlock, PauseEos

(* With no headers, what has been stored is what is in flight. *)
LEMMA LoopMovesFlights ==
  ASSUME MaxHeaders = 0, Shapes, Shapes', FlightInv, FlightInv', Loop
  PROVE  /\ Count(outq', Carriers) + LoopFlight' + ts_count
              = Count(outq, Carriers) + LoopFlight + ts_count'
         /\ Count(outq, Carriers) \in Nat /\ Count(outq', Carriers) \in Nat
         /\ LoopFlight \in {0, 1} /\ LoopFlight' \in {0, 1}
         /\ ts_count \in Nat /\ ts_count' \in Nat
<1>1. /\ UNCHANGED <<dspIn, inside>> /\ up'.at = up.at
  BY LoopFlightFrame, SignalledUp DEF Shapes
<1>2. UpFlight' = UpFlight
  BY <1>1 DEF UpFlight
<1>3. ts_count = Flights /\ ts_count' = Flights' /\ ts_count \in Nat /\ ts_count' \in Nat
  BY DEF FlightInv, Balance
<1>4. /\ Count(dspIn, Frames) \in Nat /\ Count(inside, Frames) \in Nat
      /\ Count(outq, Carriers) \in Nat /\ UpFlight \in {0, 1} /\ LoopFlight \in {0, 1}
  BY FlightsCounted
<1>5. Count(outq', Carriers) \in Nat /\ LoopFlight' \in {0, 1}
  BY CountBound DEF Shapes, LoopFlight
<1>6. Flights' = UpFlight + Count(dspIn, Frames) + Count(inside, Frames)
                 + Count(outq', Carriers) + LoopFlight'
  BY <1>1, <1>2, CountThen DEF Flights
<1> QED
  BY <1>3, <1>4, <1>5, <1>6 DEF Flights
(* What a pass leaves of the line *)
LEMMA LoopLine ==
  ASSUME Shapes, LineInv, Loop
  PROVE  /\ UNCHANGED <<dspIn, inside, arrived, mark>>
         /\ Taken' = Taken /\ Sent' = Sent /\ Storing' = Storing
         /\ CarriedBy(outq)' = CarriedBy(outq')
         /\ Increasing(inside)' /\ Increasing(dspIn)'
<1>1. UNCHANGED <<dspIn, inside, arrived, mark>> /\ up'.at = up.at
  BY LoopFlightFrame, SignalledUp DEF Shapes
<1> QED
  BY <1>1 DEF Taken, Sent, Storing, Members, CarriedBy, Carriers, Frames, Buffer, Kinds,
              LineInv, StagesOrdered, Increasing

(* A pass that counts nothing may move its buffer. *)
QuietLine ==
  /\ Returned' = Returned
  /\ Count(outq', StaleCarriers) + LoopStale' = Count(outq, StaleCarriers) + LoopStale
  /\ OutputsInOrder => OutputsInOrder' \/ Halted'

LEMMA PopsKeepsLine ==
  ASSUME Shapes, LoopHolders, LineInv, Loop, mark \in Nat, LoopPops
  PROVE  QuietLine
<1> USE DEF LoopPops
<1> DEFINE h == Head(outq)
<1>1. /\ loop.at \in {"out", "pop"} /\ loop.tb.kind = "none" /\ loop'.at = "check"
      /\ loop.tb \in Buffer \cup {NoBuffer} /\ loop'.tb = h /\ outq' = Tail(outq)
      /\ outq \in Seq(Buffer) /\ outq # <<>> /\ mark' = mark
      /\ CarriedBy(outq)' = CarriedBy(Tail(outq))
  BY LoopLine DEF Shapes, LoopLocals, LoopHolders
<1>2. h \in Buffer /\ Tail(outq) \in Seq(Buffer)
  BY <1>1, HeadAndTail
<1>3. LoopFlight = 0 /\ Held = {} /\ LoopStale = 0
  BY <1>1, NoCarrier, LoopFlightOf, HeldNow
<1>4. InLine(outq, mark) => InLine(Tail(outq), mark)
  BY <1>1, CarriedTail
<1>5. InLine(outq, mark)' <=> InLine(Tail(outq), mark)
  BY <1>1 DEF InLine, Carriers, Buffer, Kinds
<1>6. Count(Tail(outq), StaleCarriers) \in Nat /\ Count(outq, StaleCarriers) \in Nat
  BY <1>1, <1>2, CountBound
<1>7. CASE h \in Carriers
  <2>1. LoopFlight' = 1 /\ Held' = {h.nr}
    BY <1>1, <1>7, LoopFlightThen, HeldThen
  <2>2. CarriedBy(outq) = CarriedBy(Tail(outq)) \cup {h.nr}
    BY <1>1, <1>7, CarriedTail
  <2>3. Returned' = Returned
    BY <1>1, <1>3, <2>1, <2>2 DEF Returned
  <2>4. OutputsInOrder => OutputsInOrder'
    <3>1. InLine(outq, mark) =>
            \A n \in CarriedBy(Tail(outq)) : h.nr <= mark \/ h.nr < n
      BY <1>1, <1>7, CarriedTail
    <3> QED
      BY <1>1, <1>4, <1>5, <2>1, <3>1 DEF OutputsInOrder
  <2>5. Count(Tail(outq), StaleCarriers) + LoopStale' = Count(outq, StaleCarriers)
    <3>1. CASE h.nr <= mark
      <4>1. h \in StaleCarriers /\ LoopStale' = 1
        BY <1>1, <1>7, <2>1, <3>1, HeldThen DEF StaleCarriers
      <4> QED
        BY <1>1, <4>1, CountTail
    <3>2. CASE ~(h.nr <= mark)
      <4>1. h \notin StaleCarriers /\ LoopStale' = 0
        BY <1>1, <2>1, <3>2, HeldThen DEF StaleCarriers
      <4> QED
        BY <1>1, <1>6, <4>1, CountTail
    <3> QED
      BY <3>1, <3>2
  <2> QED
    BY <1>1, <1>3, <1>6, <2>3, <2>4, <2>5 DEF QuietLine
<1>8. CASE h \notin Carriers
  <2>1. LoopFlight' = 0 /\ Held' = {} /\ LoopStale' = 0
    BY <1>1, <1>8, LoopFlightThen, HeldThen
  <2>2. CarriedBy(outq) = CarriedBy(Tail(outq))
    BY <1>1, <1>8, CarriedTail
  <2>3. Returned' = Returned
    BY <1>1, <1>3, <2>1, <2>2 DEF Returned
  <2>4. OutputsInOrder => OutputsInOrder'
    BY <1>1, <1>4, <1>5, <2>1 DEF OutputsInOrder
  <2>5. Count(Tail(outq), StaleCarriers) = Count(outq, StaleCarriers)
    BY <1>1, <1>8, CountTail DEF StaleCarriers
  <2> QED
    BY <1>1, <1>3, <1>6, <2>1, <2>3, <2>4, <2>5 DEF QuietLine
<1> QED
  BY <1>7, <1>8

LEMMA PutsBackKeepsLine ==
  ASSUME MaxHeaders = 0, Shapes, Shapes', LoopHolders, Quiet, FlightInv, FlightInv', LineInv,
         Loop, mark \in Nat, ts_count' = ts_count, LoopPutsBack
  PROVE  QuietLine
<1> USE DEF LoopPutsBack
<1> DEFINE b == loop.tb
<1>1. /\ loop'.at \in {"pause", "out"} /\ b.kind # "none" /\ loop'.tb = NoBuffer
      /\ b \in Buffer /\ outq \in Seq(Buffer) /\ outq' = Append(outq, b)
      /\ CarriedBy(outq)' = CarriedBy(Append(outq, b)) /\ mark' = mark
      /\ app' = app
  BY LoopLine, OutputLoopFrame DEF Shapes, LoopLocals, NoBuffer
<1>2. LoopFlight' = 0 /\ Held' = {} /\ LoopStale' = 0
  BY <1>1, NoCarrier, LoopFlightThen, HeldThen
<1>3. Halted'
  <2>1. app # "ok"
    BY <1>1 DEF Quiet, LoopHolders
  <2>2. loop'.at = "out" => status' # "OK"
    BY DEF LineInv, LineOrder
  <2> QED
    BY <1>1, <2>1, <2>2 DEF Halted
<1>4. Count(Append(outq, b), Carriers) = Count(outq, Carriers) + LoopFlight
  <2>1. /\ Count(outq', Carriers) + LoopFlight' + ts_count
             = Count(outq, Carriers) + LoopFlight + ts_count
        /\ Count(outq, Carriers) \in Nat /\ Count(outq', Carriers) \in Nat
        /\ LoopFlight \in {0, 1} /\ ts_count \in Nat
    BY LoopMovesFlights
  <2> QED
    BY <1>1, <1>2, <2>1
<1>5. /\ LoopFlight \in {0, 1} /\ Count(outq, Carriers) \in Nat
      /\ Count(outq, StaleCarriers) \in Nat
  BY FlightsCounted, StaleTypes
<1>6. CASE b \in Carriers
  <2>1. LoopFlight = 1 /\ Held = {b.nr}
    BY <1>1, <1>4, <1>5, <1>6, CountAppend, HeldNow
  <2>2. CarriedBy(Append(outq, b)) = CarriedBy(outq) \cup {b.nr}
    BY <1>1, <1>6, CarriedAppend
  <2>3. Returned' = Returned
    BY <1>1, <1>2, <2>1, <2>2 DEF Returned
  <2>4. Count(Append(outq, b), StaleCarriers) = Count(outq, StaleCarriers) + LoopStale
    <3>1. CASE b.nr <= mark
      <4>1. b \in StaleCarriers /\ LoopStale = 1
        BY <1>6, <2>1, <3>1, HeldNow DEF StaleCarriers
      <4> QED
        BY <1>1, <4>1, CountAppend
    <3>2. CASE ~(b.nr <= mark)
      <4>1. b \notin StaleCarriers /\ LoopStale = 0
        BY <2>1, <3>2, HeldNow DEF StaleCarriers
      <4> QED
        BY <1>1, <1>5, <4>1, CountAppend
    <3> QED
      BY <3>1, <3>2
  <2>5. LoopStale \in {0, 1}
    BY DEF LoopStale
  <2> QED
    BY <1>1, <1>2, <1>3, <1>5, <2>3, <2>4, <2>5 DEF QuietLine
<1>7. CASE b \notin Carriers
  <2>1. LoopFlight = 0 /\ Held = {} /\ LoopStale = 0
    BY <1>1, <1>4, <1>5, <1>7, CountAppend, HeldNow
  <2>2. CarriedBy(Append(outq, b)) = CarriedBy(outq)
    BY <1>1, <1>7, CarriedAppend
  <2>3. Returned' = Returned
    BY <1>1, <1>2, <2>1, <2>2 DEF Returned
  <2>4. Count(Append(outq, b), StaleCarriers) = Count(outq, StaleCarriers)
    BY <1>1, <1>7, CountAppend DEF StaleCarriers
  <2> QED
    BY <1>1, <1>2, <1>3, <1>5, <2>1, <2>3, <2>4 DEF QuietLine
<1> QED
  BY <1>6, <1>7

LEMMA HoldsKeepsLine ==
  ASSUME MaxHeaders = 0, Shapes, Shapes', FlightInv, FlightInv', LineInv,
         Loop, mark \in Nat, ts_count' = ts_count, LoopHolds
  PROVE  QuietLine
<1>1. /\ outq' = outq /\ mark' = mark /\ CarriedBy(outq)' = CarriedBy(outq)
      /\ loop \in LoopLocals /\ loop.tb \in Buffer \cup {NoBuffer}
  BY LoopLine DEF LoopHolds, Shapes, LoopLocals
<1>2. LoopFlight' = LoopFlight /\ LoopFlight \in {0, 1}
  <2>1. /\ Count(outq', Carriers) + LoopFlight' + ts_count
             = Count(outq, Carriers) + LoopFlight + ts_count
        /\ Count(outq, Carriers) \in Nat /\ Count(outq', Carriers) \in Nat
        /\ LoopFlight \in {0, 1} /\ LoopFlight' \in {0, 1} /\ ts_count \in Nat
    BY LoopMovesFlights
  <2> QED
    BY <1>1, <2>1
<1>3. Held' = Held /\ LoopStale' = LoopStale
  <2>1. CASE LoopFlight = 0
    BY <1>2, <2>1, HeldNow, HeldThen
  <2>2. CASE LoopFlight = 1
    <3>1. loop'.tb.nr = loop.tb.nr
      <4>1. CASE loop'.tb = loop.tb
        BY <4>1
      <4>2. CASE loop'.tb = [loop.tb EXCEPT !.data = UsePadAlloc]
        BY <1>1, <4>2 DEF Buffer, NoBuffer
      <4>3. loop'.tb # NoBuffer
        <5>1. SUFFICES ASSUME loop'.tb = NoBuffer PROVE FALSE
          OBVIOUS
        <5>2. loop'.at = "take"
          BY <1>2, <2>2, <5>1, NoCarrier, LoopFlightThen
        <5> QED
          BY <5>1, <5>2 DEF FlightInv, OutputsFit, HasLen, NoBuffer
      <4> QED
        BY <4>1, <4>2, <4>3 DEF LoopHolds
    <3>2. loop.tb.nr <= mark <=> loop'.tb.nr <= mark'
      BY <1>1, <3>1
    <3> QED
      BY <1>2, <2>2, <3>1, <3>2, HeldNow, HeldThen
  <2> QED
    BY <1>2, <2>1, <2>2
<1>4. OutputsInOrder => OutputsInOrder'
  BY <1>1, <1>3 DEF OutputsInOrder, InLine, Carriers, Buffer, Kinds
<1> QED
  BY <1>1, <1>3, <1>4 DEF QuietLine, Returned

LEMMA QuietKeepsLine ==
  ASSUME MaxHeaders = 0, Shapes, Shapes', LoopHolders, LoopDisabled, Quiet, FlightInv,
         FlightInv', Proved!RingInv, mark \in Nat, LineInv, Loop,
         ClearEvents \/ UNCHANGED ringVars
  PROVE  LineInv'
<1>1. ts_count' = ts_count
  BY DEF ClearEvents, ringVars
<1>2. QuietLine
  BY <1>1, LoopMovesBuffer, PopsKeepsLine, PutsBackKeepsLine, HoldsKeepsLine
<1>3. /\ UNCHANGED <<dspIn, inside, arrived, mark>>
      /\ Taken' = Taken /\ Sent' = Sent /\ Storing' = Storing
      /\ Increasing(inside)' /\ Increasing(dspIn)' /\ Returned' = Returned
  BY <1>2, LoopLine DEF QuietLine
<1>4. OnLine' = OnLine
  BY <1>3 DEF OnLine
<1>5. StagesOrdered'
  BY <1>3, <1>4 DEF LineInv, StagesOrdered, Earlier
<1>6. LineOrder'
  BY <1>2, LoopHalts DEF LineInv, LineOrder, QuietLine
<1>7. Match'
  <2>1. /\ Count(dspIn, StaleFrames) \in Nat /\ Count(inside, StaleFrames) \in Nat
        /\ Count(outq, StaleCarriers) \in Nat /\ LoopStale \in {0, 1}
    BY StaleTypes
  <2>2. Count(outq', StaleCarriers) \in Nat /\ LoopStale' \in {0, 1}
    BY CountBound DEF Shapes, LoopStale
  <2>3. StaleFlights' = StaleFlights
    <3>1. StaleFlights' = Count(dspIn, StaleFrames) + Count(inside, StaleFrames)
                          + Count(outq', StaleCarriers) + LoopStale'
      BY <1>3, StaleThen
    <3> QED
      BY <1>2, <2>1, <2>2, <3>1 DEF StaleFlights, QuietLine
  <2>4. Proved!FreshTimes' = Proved!FreshTimes /\ Proved!StaleCount' = Proved!StaleCount
    <3>1. 0 \in Nat
      OBVIOUS
    <3> QED
      BY <3>1, RingSame, RingEvents
  <2> QED
    BY <1>3, <1>4, <2>3, <2>4 DEF LineInv, Match
<1> QED
  BY <1>5, <1>6, <1>7 DEF LineInv
LEMMA CountNone ==
  ASSUME NEW s, NEW S, \A i \in 1 .. Len(s) : s[i] \notin S
  PROVE  Count(s, S) = 0
<1>1. {i \in 1 .. Len(s) : s[i] \in S} = {}
  OBVIOUS
<1> QED
  BY <1>1, FS_EmptySet DEF Count

(* A frame that output_loop counts down is the first of the line; and if it  *)
(* is from after the flush, no stale one is left.                            *)
LEMMA FirstOnLine ==
  ASSUME Shapes, StagesOrdered, OutputsInOrder, LoopFlight = 1, mark \in Nat,
         loop.tb.nr > mark
  PROVE  /\ \A n \in CarriedBy(outq) \cup Taken \cup Sent \cup Storing : loop.tb.nr < n
         /\ StaleFlights = 0
<1> DEFINE h == loop.tb.nr
<1>1. h \in Int /\ Held = {h} /\ LoopStale = 0 /\ h \in Returned
  BY LineTypes, HeldNow DEF Returned
<1>2. /\ outq \in Seq(Buffer) /\ inside \in Seq(Codec .. MaxArrivals)
      /\ dspIn \in Seq(Codec .. MaxArrivals)
  BY DEF Shapes
<1>3. \A n \in CarriedBy(outq) : h < n
  <2>1. SUFFICES ASSUME NEW n \in CarriedBy(outq) PROVE h < n
    OBVIOUS
  <2>2. h <= mark \/ h < n
    BY <1>1, <2>1 DEF OutputsInOrder
  <2> QED
    BY <1>1, <2>2
<1>4. \A n \in Taken \cup Sent \cup Storing : h < n
  BY <1>1 DEF StagesOrdered, Earlier
<1>5. Count(dspIn, StaleFrames) = 0
  <2>1. SUFFICES ASSUME NEW i \in 1 .. Len(dspIn), dspIn[i] \in StaleFrames PROVE FALSE
    BY CountNone
  <2>2. dspIn[i] \in Sent
    BY <1>2, <2>1 DEF Sent, Members, StaleFrames
  <2>3. h < dspIn[i] /\ dspIn[i] <= mark /\ dspIn[i] \in Int
    BY <1>4, <2>1, <2>2, LineTypes DEF StaleFrames
  <2> QED
    BY <1>1, <2>3
<1>6. Count(inside, StaleFrames) = 0
  <2>1. SUFFICES ASSUME NEW i \in 1 .. Len(inside), inside[i] \in StaleFrames PROVE FALSE
    BY CountNone
  <2>2. inside[i] \in Taken
    BY <1>2, <2>1 DEF Taken, Members, StaleFrames
  <2>3. h < inside[i] /\ inside[i] <= mark /\ inside[i] \in Int
    BY <1>4, <2>1, <2>2, LineTypes DEF StaleFrames
  <2> QED
    BY <1>1, <2>3
<1>7. Count(outq, StaleCarriers) = 0
  <2>1. SUFFICES ASSUME NEW i \in 1 .. Len(outq), outq[i] \in StaleCarriers PROVE FALSE
    BY CountNone
  <2>2. outq[i] \in Carriers /\ outq[i].nr <= mark /\ outq[i] \in Buffer
    BY <1>2, <2>1 DEF StaleCarriers
  <2>3. outq[i].nr \in Int /\ outq[i].nr \in CarriedBy(outq)
    BY <1>2, <2>2, CarrierNumber DEF CarriedBy
  <2> QED
    BY <1>1, <1>3, <2>2, <2>3
<1> QED
  BY <1>1, <1>3, <1>4, <1>5, <1>6, <1>7 DEF StaleFlights

LEMMA OneLess ==
  ASSUME NEW a \in Nat, NEW b \in Nat, NEW c \in {0, 1}, a + c = b
  PROVE  (b = 0 => a = 0 /\ c = 0) /\ (c = 1 => a = b - 1)
OBVIOUS

LEMMA CountingSteps ==
  ASSUME MaxHeaders = 0, Shapes, LoopHolders, FlightInv, LoopSkip \/ LoopDrop \/ LoopTake
  PROVE  /\ loop.at \in {"data", "take"} /\ LoopFlight = 1 /\ LoopFlight' = 0
         /\ outq' = outq /\ ts_count > 0 /\ Advance /\ loop'.tb = loop.tb
         /\ loop'.at \notin {"take", "last"}
         /\ \/ Flushing /\ ts_push_pos' = ts_push_pos
            \/ ~Flushing /\ ts_push_pos' = NextPos(ts_out_pos)
<1> USE DEF queueVars
<1>1. /\ loop \in LoopLocals /\ loop.tb \in Buffer \cup {NoBuffer} /\ RingTypeOK
      /\ OutputsFit
  BY DEF Shapes, LoopLocals, FlightInv
<1>2. ASSUME LoopFlight = 1 PROVE ts_count > 0
  <2>1. ts_count = Flights
    BY DEF FlightInv, Balance
  <2> QED
    BY <1>2, <2>1, FlightsCounted DEF Flights
<1>3. CASE LoopSkip \/ LoopDrop
  <2>1. /\ loop' = [loop EXCEPT !.at = "leave", !.eos = LastBeforeEos]
        /\ loop.at = "data" /\ loop.tb.data = TRUE /\ Advance /\ outq' = outq
        /\ loop.tb.kind = "skip" \/ HasLen(loop.tb)
        /\ \/ Flushing /\ ts_push_pos' = ts_push_pos
           \/ ~Flushing /\ ts_push_pos' = NextPos(ts_out_pos)
    BY <1>1, <1>3, NoCarrier DEF LoopSkip, LoopDrop, SkipFrame, DropFrame, IsSkip
  <2>2. loop'.at = "leave" /\ loop'.tb = loop.tb
    BY <1>1, <2>1, LoopCountParts
  <2>3. LoopFlight = 1 /\ LoopFlight' = 0
    BY <1>1, <2>1, <2>2, NoCarrier, LoopFlightOf, LoopFlightThen DEF HasLen
  <2> QED
    BY <1>2, <2>1, <2>2, <2>3
<1>4. CASE LoopTake
  <2>1. /\ loop.at = "take" /\ Advance /\ outq' = outq
        /\ ts_push_pos' = NextPos(ts_out_pos)
    BY <1>4 DEF LoopTake, TakeFrame
  <2>2. ~Flushing
    BY <1>1, <2>1 DEF OutputsFit
  <2>3. loop'.at = "push" /\ loop'.tb = loop.tb
    BY <1>1, <1>4, LoopTakeParts
  <2>4. LoopFlight = 1 /\ LoopFlight' = 0
    BY <2>1, <2>3, LoopFlightOf, LoopFlightThen
  <2> QED
    BY <1>2, <2>1, <2>2, <2>3, <2>4
<1> QED
  BY <1>3, <1>4

(* ... whose time the ring has at ts_out_pos. *)
LEMMA CountingKeepsLine ==
  ASSUME MaxHeaders = 0, Shapes, Shapes', LoopHolders, FlightInv, Proved!RingInv,
         Proved!CellsInOrder, mark \in Nat, LineInv, Loop,
         LoopSkip \/ LoopDrop \/ LoopTake
  PROVE  LineInv' /\ (LoopTake => loop.tb.nr = FrameTime)
<1> DEFINE h == loop.tb.nr
           Rest == CarriedBy(outq) \cup Taken \cup Sent \cup Storing
<1>1. /\ loop.at \in {"data", "take"} /\ LoopFlight = 1 /\ LoopFlight' = 0
      /\ outq' = outq /\ ts_count > 0 /\ Advance
      /\ loop'.at \notin {"take", "last"}
      /\ \/ Flushing /\ ts_push_pos' = ts_push_pos
         \/ ~Flushing /\ ts_push_pos' = NextPos(ts_out_pos)
  BY CountingSteps
<1>2. /\ UNCHANGED <<dspIn, inside, arrived, mark>>
      /\ Taken' = Taken /\ Sent' = Sent /\ Storing' = Storing
      /\ Increasing(inside)' /\ Increasing(dspIn)'
      /\ CarriedBy(outq)' = CarriedBy(outq)
  BY <1>1, LoopLine
<1>3. Held = {h} /\ Held' = {} /\ LoopStale' = 0 /\ h \in Int /\ OnLine \subseteq Int
  BY <1>1, HeldNow, HeldThen, LineTypes
<1>4. Returned' = CarriedBy(outq) /\ Returned = Returned' \cup {h}
      /\ OnLine' = Rest /\ OnLine = Rest \cup {h}
  BY <1>2, <1>3 DEF Returned, OnLine
<1>5. StagesOrdered'
  BY <1>2, <1>4 DEF LineInv, StagesOrdered, Earlier
<1>6. OutputsInOrder
  BY <1>1 DEF LineInv, LineOrder, Halted
<1>7. LineOrder'
  BY <1>1, <1>2, <1>3, <1>6
     DEF OutputsInOrder, InLine, Carriers, Buffer, Kinds, LineOrder
<1>8. /\ StaleFlights' + LoopStale = StaleFlights /\ LoopStale \in {0, 1}
      /\ StaleFlights \in Nat /\ StaleFlights' \in Nat
  <2>1. StaleFlights' = Count(dspIn, StaleFrames) + Count(inside, StaleFrames)
                        + Count(outq, StaleCarriers) + 0
    BY <1>1, <1>2, <1>3, StaleThen
  <2> QED
    BY <2>1, StaleTypes DEF StaleFlights
<1>9. h > mark => (\A n \in Rest : h < n) /\ StaleFlights = 0
  BY <1>1, <1>6, FirstOnLine DEF LineInv
<1>10. Proved!Advance /\ (Flushing <=> Proved!Flushing)
       /\ NextPos(ts_out_pos) = Proved!NextPos(ts_out_pos) /\ FrameTime = Proved!FrameTime
  BY <1>1 DEF Advance, NextPos, Flushing, FrameTime, Proved!Advance, Proved!NextPos,
              Proved!Flushing, Proved!FrameTime
<1>11. /\ {n \in OnLine : n > mark} = Proved!FreshTimes
       /\ StaleFlights = Proved!StaleCount
  BY DEF LineInv, Match
<1> HIDE DEF Rest
<1>12. CASE Flushing /\ ts_push_pos' = ts_push_pos
  <2>1. /\ Proved!FreshTimes' = Proved!FreshTimes /\ Proved!StaleCount > 0
        /\ Proved!StaleCount' = Proved!StaleCount - 1
    BY <1>10, <1>12, RingConstants, Proved!FreshDropped
  <2>2. h <= mark
    BY <1>3, <1>8, <1>9, <1>11, <2>1
  <2>3. LoopStale = 1
    BY <1>1, <2>2, HeldNow
  <2>4. {n \in OnLine' : n > mark'} = {n \in OnLine : n > mark}
    BY <1>2, <1>3, <1>4, <2>2
  <2>5. Match'
    <3>1. StaleFlights' = StaleFlights - 1
      BY <1>8, <2>3, OneLess
    <3>2. StaleFlights' = Proved!StaleCount'
      BY <1>11, <2>1, <3>1
    <3> QED
      BY <1>11, <2>1, <2>4, <3>2 DEF Match
  <2>6. ~LoopTake
    BY <1>12 DEF LoopTake, FlightInv, OutputsFit
  <2> QED
    BY <1>5, <1>7, <2>5, <2>6 DEF LineInv
<1>13. CASE ~Flushing /\ ts_push_pos' = NextPos(ts_out_pos)
  <2>1. /\ Proved!StaleCount = 0 /\ Proved!StaleCount' = 0
        /\ FrameTime \in Proved!FreshTimes /\ \A t \in Proved!FreshTimes : FrameTime <= t
        /\ Proved!FreshTimes' = Proved!FreshTimes \ {FrameTime}
    BY <1>1, <1>10, <1>13, RingConstants, Proved!FreshTaken
  <2>2. StaleFlights = 0 /\ LoopStale = 0 /\ StaleFlights' = 0
    <3>1. StaleFlights = 0
      BY <1>11, <2>1
    <3> QED
      BY <1>8, <3>1, OneLess
  <2>3. h > mark
    BY <1>1, <1>3, <2>2, HeldNow
  <2>4. h = FrameTime
    <3>1. FrameTime \in OnLine /\ FrameTime \in Int
      BY <1>3, <1>11, <2>1
    <3>2. h \in OnLine /\ FrameTime <= h
      BY <1>4, <1>11, <2>1, <2>3
    <3> QED
      BY <1>3, <1>4, <1>9, <2>3, <3>1, <3>2
  <2>5. {n \in OnLine' : n > mark'} = {n \in OnLine : n > mark} \ {h}
    <3>1. h \notin Rest
      BY <1>3, <1>9, <2>3
    <3> QED
      BY <1>2, <1>4, <3>1
  <2>6. Match'
    BY <1>11, <2>1, <2>2, <2>4, <2>5 DEF Match
  <2> QED
    BY <1>5, <1>7, <2>4, <2>6 DEF LineInv
<1> QED
  BY <1>1, <1>12, <1>13

LEMMA LoopKeepsLine ==
  ASSUME MaxHeaders = 0, Shapes, Shapes', LoopHolders, LoopDisabled, Quiet, FlightInv,
         FlightInv', Proved!RingInv, Proved!CellsInOrder, mark \in Nat, LineInv, Loop
  PROVE  LineInv' /\ (LoopTake => loop.tb.nr = FrameTime)
<1>1. CASE LoopSkip \/ LoopDrop \/ LoopTake
  BY <1>1, CountingKeepsLine
<1>2. CASE ~LoopTake /\ (ClearEvents \/ UNCHANGED ringVars)
  BY <1>2, QuietKeepsLine
<1> QED
  BY <1>1, <1>2, LoopRing
(* app: FLUSH_STOP makes all that is on the line stale. *)
LEMMA MarkKeepsLine ==
  ASSUME MaxHeaders = 0, Shapes, LoopHolders, Quiet, FlightInv, Proved!RingInv, LineInv,
         FlushStopMark
  PROVE  LineInv'
<1> USE DEF LineInv
<1>1. /\ loop.at = "out" /\ up.at = "idle" /\ mark' = arrived
      /\ UNCHANGED <<dspIn, inside, outq, arrived, up, loop, status>> /\ MarkFlush
      /\ loop.tb.kind = "none" /\ loop.tb \in Buffer \cup {NoBuffer}
      /\ outq \in Seq(Buffer) /\ inside \in Seq(Codec .. MaxArrivals)
      /\ dspIn \in Seq(Codec .. MaxArrivals)
  BY DEF FlushStopMark, Quiet, LoopHolders, Shapes, LoopLocals, dspVars, queueVars
<1>2. LoopFlight = 0 /\ LoopFlight' = 0 /\ UpFlight = 0
  BY <1>1, NoCarrier, LoopFlightOf, LoopFlightThen DEF UpFlight
<1>3. Held = {} /\ Held' = {} /\ LoopStale' = 0 /\ Storing = {} /\ Storing' = {}
  BY <1>1, <1>2, HeldNow, HeldThen DEF Storing
<1>4. Taken' = Taken /\ Sent' = Sent /\ CarriedBy(outq)' = CarriedBy(outq)
  BY <1>1 DEF Taken, Sent, Members, CarriedBy, Carriers, Frames, Buffer, Kinds
<1>5. Returned' = Returned /\ OnLine' = OnLine
  BY <1>3, <1>4 DEF Returned, OnLine
<1>6. \A n \in OnLine : n <= arrived /\ n \in Int
  BY LineTypes DEF StagesOrdered
<1>7. StagesOrdered'
  BY <1>1, <1>3, <1>4, <1>5 DEF StagesOrdered, Earlier, Increasing, Frames
<1>8. LineOrder'
  <2>1. \A i \in DOMAIN outq : outq[i] \in Carriers => outq[i].nr <= arrived
    <3>1. SUFFICES ASSUME NEW i \in DOMAIN outq, outq[i] \in Carriers
                   PROVE  outq[i].nr <= arrived
      OBVIOUS
    <3>2. outq[i].nr \in CarriedBy(outq)
      BY <1>1, <3>1, CarrierNumber DEF CarriedBy
    <3> QED
      BY <1>6, <3>2 DEF OnLine, Returned
  <2>2. OutputsInOrder'
    BY <1>1, <1>3, <2>1 DEF OutputsInOrder, InLine, Carriers, Buffer, Kinds
  <2> QED
    BY <1>1, <2>2 DEF LineOrder
<1>9. Match'
  <2>1. Proved!FreshTimes' = {} /\ Proved!StaleCount' = ts_count
    <3>1. Proved!MarkFlush
      BY <1>1 DEF MarkFlush, Proved!MarkFlush
    <3> QED
      BY <3>1, RingConstants, Proved!FreshMarked
  <2>2. {n \in OnLine' : n > mark'} = {}
    BY <1>1, <1>5, <1>6, LineTypes
  <2>3. Count(dspIn, StaleFrames)' = Count(dspIn, Frames)
    <3>1. \A i \in 1 .. Len(dspIn) : dspIn[i] \in Frames => dspIn[i] \in Sent
      BY <1>1 DEF Sent, Members
    <3>2. \A i \in 1 .. Len(dspIn) : dspIn[i] \in Frames => dspIn[i] <= arrived
      BY <1>6, <3>1 DEF OnLine
    <3> QED
      BY <1>1, <3>2 DEF Count, StaleFrames, Frames
  <2>4. Count(inside, StaleFrames)' = Count(inside, Frames)
    <3>1. \A i \in 1 .. Len(inside) : inside[i] \in Frames => inside[i] \in Taken
      BY <1>1 DEF Taken, Members
    <3>2. \A i \in 1 .. Len(inside) : inside[i] \in Frames => inside[i] <= arrived
      BY <1>6, <3>1 DEF OnLine
    <3> QED
      BY <1>1, <3>2 DEF Count, StaleFrames, Frames
  <2>5. Count(outq, StaleCarriers)' = Count(outq, Carriers)
    <3>1. \A i \in 1 .. Len(outq) : outq[i] \in Carriers => outq[i].nr \in CarriedBy(outq)
      BY <1>1, CarrierNumber DEF CarriedBy
    <3>2. \A i \in 1 .. Len(outq) : outq[i] \in Carriers => outq[i].nr <= arrived
      BY <1>6, <3>1 DEF OnLine, Returned
    <3> QED
      BY <1>1, <3>2 DEF Count, StaleCarriers, Carriers, Buffer, Kinds
  <2>6. StaleFlights' = ts_count
    <3>1. ts_count = Flights
      BY DEF FlightInv, Balance
    <3>2. /\ Count(dspIn, Frames) \in Nat /\ Count(inside, Frames) \in Nat
          /\ Count(outq, Carriers) \in Nat
      BY FlightsCounted
    <3>3. StaleFlights' = Count(dspIn, Frames) + Count(inside, Frames)
                          + Count(outq, Carriers) + 0
      BY <1>3, <2>3, <2>4, <2>5 DEF StaleFlights
    <3>4. Flights = 0 + Count(dspIn, Frames) + Count(inside, Frames)
                    + Count(outq, Carriers) + 0
      BY <1>2 DEF Flights
    <3> QED
      BY <3>1, <3>2, <3>3, <3>4
  <2> QED
    BY <2>1, <2>2, <2>6 DEF Match
<1> QED
  BY <1>7, <1>8, <1>9

(* ... before it lets the task run again. *)
LEMMA StatusKeepsLine ==
  ASSUME Shapes, Quiet, LineInv, FlushStopStatus
  PROVE  LineInv'
<1> USE DEF LineInv
<1>1. /\ app = "ok" /\ loop.at = "out"
      /\ UNCHANGED <<ringVars, dspIn, inside, outq, arrived, mark, up, loop>>
  BY DEF FlushStopStatus, Quiet, dspVars, queueVars, histVars
<1>2. /\ Held' = Held /\ LoopStale' = LoopStale /\ CarriedBy(outq)' = CarriedBy(outq)
      /\ Taken' = Taken /\ Sent' = Sent /\ Storing' = Storing
  BY <1>1 DEF Held, LoopFlight, LoopStale, CarriedBy, Taken, Sent, Storing, Members,
              Carriers, Frames, Buffer, Kinds
<1>3. Returned' = Returned /\ OnLine' = OnLine
  BY <1>2 DEF Returned, OnLine
<1>4. StagesOrdered'
  BY <1>1, <1>2, <1>3 DEF StagesOrdered, Earlier, Increasing, Frames
<1>5. LineOrder'
  <2>1. OutputsInOrder
    BY <1>1 DEF LineOrder, Halted
  <2> QED
    BY <1>1, <1>2, <2>1 DEF LineOrder, OutputsInOrder, InLine, Carriers, Buffer, Kinds
<1>6. Match'
  BY <1>1, <1>2, <1>3, StaleThen, RingSame DEF Match, StaleFlights
<1> QED
  BY <1>4, <1>5, <1>6

LEMMA AppKeepsLine ==
  ASSUME MaxHeaders = 0, Shapes, LoopHolders, Quiet, FlightInv, Proved!RingInv, LineInv, App
  PROVE  LineInv'
<1>1. CASE FlushStopMark \/ FlushStopStatus
  BY <1>1, MarkKeepsLine, StatusKeepsLine
<1>2. CASE ~FlushStopMark /\ ~FlushStopStatus
  <2>1. UNCHANGED <<ringVars, dspIn, inside, outq, arrived, mark>>
    BY <1>2
       DEF App, FlushStart, FlushStartStatus, FlushStartUnlock, FlushStartPause, FlushStop,
           FlushStopStart, dspVars, queueVars, histVars
  <2>2. /\ up' = up \/ up' = Signalled(up)
        /\ loop' = loop \/ loop' = Signalled(loop)
        /\ status' = status \/ status' # "OK"
        /\ app' # "ok"
    BY <1>2
       DEF App, FlushStart, FlushStartStatus, FlushStartUnlock, FlushStartPause, FlushStop,
           FlushStopStart, selfVars
  <2> QED
    BY <2>1, <2>2, WokenLine
<1> QED
  BY <1>1, <1>2

LEMMA OthersKeepLine ==
  ASSUME Shapes, LineInv, Release \/ SpuriousWakeup \/ UNCHANGED vars
  PROVE  LineInv'
<1>1. /\ UNCHANGED <<ringVars, dspIn, inside, outq, arrived, mark, status, app>>
      /\ up' = up \/ up' = Signalled(up)
      /\ loop' = loop \/ loop' = Signalled(loop)
  BY DEF Release, SpuriousWakeup, vars, selfVars, queueVars, dspVars, histVars
<1> QED
  BY <1>1, WokenLine

LEMMA LineStart ==
  ASSUME CodecData = FALSE, Init
  PROVE  LineInv
<1>1. /\ ts_count = 0 /\ ts_out_pos = 0 /\ ts_push_pos = 0 /\ mark = 0 /\ arrived = 0
      /\ dspIn = <<>> /\ inside = <<>> /\ outq = <<>> /\ up.at = "idle"
      /\ loop.at = "out" /\ loop.tb = NoBuffer
  BY DEF Init, RingInit
<1>2. LoopFlight = 0 /\ Held = {} /\ LoopStale = 0
  BY <1>1, NoCarrier, LoopFlightOf, HeldNow
<1>3. DOMAIN <<>> = {}
  OBVIOUS
<1>4. Members(<<>>) = {} /\ CarriedBy(<<>>) = {}
  BY <1>3 DEF Members, CarriedBy
<1>5. Taken = {} /\ Sent = {} /\ CarriedBy(outq) = {} /\ Storing = {}
  BY <1>1, <1>4 DEF Taken, Sent, Storing
<1>6. Returned = {} /\ OnLine = {}
  BY <1>2, <1>5 DEF Returned, OnLine
<1>7. StagesOrdered
  BY <1>1, <1>3, <1>5, <1>6 DEF StagesOrdered, Earlier, Increasing
<1>8. LineOrder
  BY <1>1, <1>2, <1>3 DEF LineOrder, OutputsInOrder, InLine
<1>9. Match
  <2>1. Proved!StaleCount = 0
    BY <1>1, RingConstants DEF Proved!StaleCount
  <2>2. Proved!FreshTimes = {}
    BY <1>1, <2>1 DEF Proved!FreshTimes
  <2>3. \A S : Count(<<>>, S) = 0
    BY CountNone
  <2>4. StaleFlights = 0
    BY <1>1, <1>2, <2>3 DEF StaleFlights
  <2> QED
    BY <1>6, <2>1, <2>2, <2>4 DEF Match
<1> QED
  BY <1>7, <1>8, <1>9 DEF LineInv
LEMMA LineStep ==
  ASSUME MayLose = FALSE, MaxHeaders = 0, KeptInv, KeptInv', Quiet, LoopDisabled, FlightInv,
         FlightInv', RingOrder, Proved!RingInv, Proved!OrderInv, LineInv, OwnTimestamp,
         [Next]_vars
  PROVE  LineInv' /\ OwnTimestamp'
<1>1. /\ Shapes /\ Shapes' /\ LoopHolders /\ mark \in Nat /\ Proved!CellsInOrder /\ InputsFit
      /\ loop \in LoopLocals /\ RingTypeOK
  BY DEF KeptInv, RingOrder, Proved!OrderInv, FlightInv, Shapes
<1>2. ASSUME loop' = loop \/ loop' = Signalled(loop) PROVE OwnTimestamp'
  <2>1. loop'.at = loop.at /\ loop'.time = loop.time /\ loop'.tb = loop.tb
    BY <1>1, <1>2, SignalledLoop DEF Signalled, LoopLocals
  <2> QED
    BY <2>1 DEF OwnTimestamp
<1>3. CASE Up
  BY <1>1, <1>2, <1>3, UpKeepsLine, UpFlightFrame
<1>4. CASE Loop
  <2>1. LineInv' /\ (LoopTake => loop.tb.nr = FrameTime)
    BY <1>1, <1>4, LoopKeepsLine
  <2>2. CASE LoopTake
    <3>1. loop'.tb = loop.tb
      BY <1>1, <2>2, LoopTakeParts
    <3>2. loop'.time = FrameTime
      <4>1. PICK e : e = LastBeforeEos
        OBVIOUS
      <4>2. loop' = [loop EXCEPT !.at = "push", !.eos = e, !.time = FrameTime]
        BY <2>2, <4>1 DEF LoopTake
      <4> QED
        BY <1>1, <4>2 DEF LoopLocals
    <3> QED
      BY <2>1, <2>2, <3>1, <3>2 DEF OwnTimestamp
  <2>3. CASE ~LoopTake
    <3>1. loop'.at # "push"
      BY <1>1, <1>4, <2>3, LoopTimes, LoopEventsTimes, LoopPushTimes DEF LoopTimeless
    <3> QED
      BY <2>1, <3>1 DEF OwnTimestamp
  <2> QED
    BY <2>2, <2>3
<1>5. CASE App
  BY <1>1, <1>2, <1>5, AppKeepsLine
     DEF App, FlushStart, FlushStartStatus, FlushStartUnlock, FlushStartPause, FlushStop,
         FlushStopMark, FlushStopStatus, FlushStopStart
<1>6. CASE Dsp
  BY <1>1, <1>2, <1>6, DspKeepsLine, DspFrame
<1>7. CASE Release \/ SpuriousWakeup \/ UNCHANGED vars
  BY <1>1, <1>2, <1>7, OthersKeepLine DEF Release, SpuriousWakeup, vars
<1> QED
  BY <1>3, <1>4, <1>5, <1>6, <1>7 DEF Next

(* A frame goes downstream with the time it arrived with, in a decoder whose *)
(* DSP returns every frame, with data or without, whatever is flushed, put   *)
(* back, refused or fails: the times that the ring has and the frames that   *)
(* are in flight are the same ones, and the first of both are one frame.     *)
THEOREM BaseOwnTimestamp ==
  ASSUME MayLose = FALSE, CodecData = FALSE, MaxHeaders = 0
  PROVE  Spec => []OwnTimestamp
<1> DEFINE Base == /\ KeptInv /\ Quiet /\ FlightInv /\ RingOrder
                   /\ Proved!RingInv /\ Proved!OrderInv
           Inv == LoopDisabled /\ LineInv /\ OwnTimestamp
<1>1. Init => Inv
  <2>1. Init => OwnTimestamp
    <3>1. Init => loop.at = "out"
      BY DEF Init
    <3> QED
      BY <3>1 DEF OwnTimestamp
  <2> QED
    BY <2>1, DisabledStart, LineStart
<1>2. Base /\ Base' /\ Inv /\ [Next]_vars => Inv'
  <2> SUFFICES ASSUME Base, Base', Inv, [Next]_vars PROVE Inv'
    OBVIOUS
  <2>1. LoopDisabled'
    BY DisabledStep
  <2>2. LineInv' /\ OwnTimestamp'
    BY LineStep
  <2> QED
    BY <2>1, <2>2
<1>3. Spec => []Base
  <2>1. Spec => [](KeptInv /\ Quiet /\ FlightInv)
    BY FlightsAlways
  <2>2. Spec => [](Proved!RingInv /\ Proved!OrderInv)
    BY BaseIsRing, RingHolds
  <2>3. Proved!RingInv /\ Proved!OrderInv => RingOrder
    BY RingOrdered
  <2> QED
    BY <2>1, <2>2, <2>3, PTL
<1> HIDE DEF Base
<1>4. Inv => OwnTimestamp
  OBVIOUS
<1> HIDE DEF Inv
<1> QED
  BY <1>1, <1>2, <1>3, <1>4, PTL DEF Spec
=============================================================================
