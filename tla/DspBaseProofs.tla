---------------------------- MODULE DspBaseProofs ----------------------------
(***************************************************************************)
(* Theorems about DspBase for any number of buffers, frames and flushes,   *)
(* and their proofs.  The first lemmas say of each action where it leaves  *)
(* the thread that takes it and what that thread then holds; the proofs of *)
(* the invariants use nothing else of it: the types, that no buffer is     *)
(* lost, that pad_chain never goes on without one, that one EOS at most    *)
(* goes downstream between two flushes, and that the element runs after a  *)
(* flush, which rest on what FLUSH_STOP waits for; and that the element    *)
(* uses the timestamp ring as TsRing says, which rests on a count of the   *)
(* frames in flight.                                                       *)
(***************************************************************************)
EXTENDS DspBase, TsArrayProofs, FiniteSetTheorems

LEMMA Constants ==
  /\ InBufs \in Nat \ {0} /\ OutBufs \in Nat \ {0} /\ DspDepth \in Nat \ {0}
  /\ MaxArrivals \in Nat /\ MaxFlushes \in Nat
  /\ RingSize \in Nat \ {0}
  /\ Codec = -1 /\ NoFrame = 0
  /\ Codec \in Codec .. MaxArrivals /\ NoFrame \in Codec .. MaxArrivals
BY BaseAssumption, RingAssumption DEF Codec, NoFrame

-----------------------------------------------------------------------------
(* g_cond_signal and g_cond_broadcast only end a wait. *)
LEMMA SignalledUp ==
  ASSUME NEW t \in UpLocals
  PROVE  /\ Signalled(t) \in UpLocals
         /\ Signalled(t).at = t.at /\ Signalled(t).tb = t.tb
         /\ t.wait # "waiting" => Signalled(t).wait = t.wait
         /\ t.wait = "waiting" => Signalled(t).wait = "woken"
BY DEF Signalled, UpLocals, Wait

LEMMA SignalledLoop ==
  ASSUME NEW t \in LoopLocals
  PROVE  /\ Signalled(t) \in LoopLocals
         /\ Signalled(t).at = t.at /\ Signalled(t).tb = t.tb
         /\ Signalled(t).ret = t.ret /\ Signalled(t).eos = t.eos
BY DEF Signalled, LoopLocals, Wait

-----------------------------------------------------------------------------
(* up *)

LEMMA PopInputParts ==
  ASSUME up \in UpLocals, inq \in Nat, NEW p \in UpPlaces, PopInput(p)
  PROVE  /\ up' \in UpLocals /\ up'.at = p /\ up'.wait = "no"
         /\ up.wait # "waiting" /\ inOn' = inOn /\ inq' \in Nat
         /\ \/ up'.tb = TRUE /\ inq > 0 /\ inq' = inq - 1
            \/ /\ up'.tb = FALSE /\ inq' = inq
               /\ ~inOn \/ (up.wait = "woken" /\ inq = 0)
<1>1. CASE inq > 0 /\ inq' = inq - 1 /\ up' = [at |-> p, wait |-> "no", tb |-> TRUE]
  BY <1>1 DEF PopInput, UpLocals, Wait
<1>2. CASE /\ ~inOn \/ (up.wait = "woken" /\ inq = 0)
           /\ up' = [at |-> p, wait |-> "no", tb |-> FALSE]
           /\ inq' = inq
  BY <1>2 DEF PopInput, UpLocals, Wait
<1> QED
  BY <1>1, <1>2 DEF PopInput

LEMMA WaitInputParts ==
  ASSUME NEW p \in UpPlaces, WaitInput(p)
  PROVE  /\ up' \in UpLocals /\ up'.at = p /\ up'.wait = "waiting" /\ up'.tb = FALSE
         /\ inq' = inq /\ inOn' = inOn
BY DEF WaitInput, UpLocals, Wait

LEMMA ChainCheckParts ==
  ASSUME up \in UpLocals, inq \in Nat, ChainCheck
  PROVE  /\ up' \in UpLocals /\ up.at = "check" /\ up'.wait = up.wait /\ inq' \in Nat
         /\ \/ /\ status # "OK" /\ up'.at = "idle" /\ up'.tb = FALSE
               /\ \/ up.tb = TRUE /\ inq' = inq + 1
                  \/ up.tb = FALSE /\ inq' = inq
            \/ /\ status = "OK" /\ up'.tb = up.tb /\ inq' = inq
               /\ \/ up.tb = TRUE /\ up'.at = "store"
                  \/ up.tb = FALSE /\ up'.at = "crash"
<1>1. up.at = "check" /\ (inq' = inq + 1 \/ inq' = inq)
  BY DEF ChainCheck
<1>2. inq' \in Nat
  BY <1>1
<1>3. CASE up.tb = TRUE
  BY <1>1, <1>2, <1>3 DEF ChainCheck, UpLocals, UpPlaces
<1>4. CASE up.tb = FALSE
  BY <1>1, <1>2, <1>4 DEF ChainCheck, UpLocals, UpPlaces
<1> QED
  BY <1>3, <1>4 DEF UpLocals

LEMMA ChainStoreParts ==
  ASSUME up \in UpLocals, ChainStore
  PROVE  /\ up' \in UpLocals /\ up.at = "store" /\ up'.at = "send"
         /\ up'.tb = up.tb /\ up'.wait = up.wait
BY DEF ChainStore, UpLocals, UpPlaces

LEMMA ChainSendParts ==
  ASSUME up \in UpLocals, ChainSend
  PROVE  /\ up' \in UpLocals /\ up.at = "send" /\ up'.at = "idle"
         /\ up'.tb = FALSE /\ up'.wait = up.wait
BY DEF ChainSend, UpLocals, UpPlaces

LEMMA EosArrivesParts ==
  ASSUME up \in UpLocals, EosArrives
  PROVE  /\ up' \in UpLocals /\ up.at = "idle" /\ app = "idle" /\ ~eosUp
         /\ up'.tb = up.tb /\ up'.wait = up.wait
         /\ deferred_eos' \in BOOLEAN
         /\ \/ up'.at = "clock"
            \/ up'.at = "eos" /\ deferred_eos' = FALSE
<1>1. DefersEos \in BOOLEAN
  BY DEF DefersEos
<1>2. CASE DefersEos = TRUE
  BY <1>2 DEF EosArrives, MayArrive, UpLocals, UpPlaces
<1>3. CASE DefersEos = FALSE
  BY <1>3 DEF EosArrives, MayArrive, UpLocals, UpPlaces
<1> QED
  BY <1>1, <1>2, <1>3

LEMMA EosNowParts ==
  ASSUME up \in UpLocals, EosNow
  PROVE  /\ up' \in UpLocals /\ up.at = "eos" /\ up'.at = "idle"
         /\ up'.tb = up.tb /\ up'.wait = up.wait
         /\ eosDown' = eosDown \/ eosDown' = eosDown + 1
BY DEF EosNow, PushEos, UpLocals, UpPlaces

LEMMA EosClockParts ==
  ASSUME up \in UpLocals, EosClock
  PROVE  /\ up' \in UpLocals /\ up.at = "clock" /\ up'.at \in {"flushbuf", "idle"}
         /\ up'.tb = up.tb /\ up'.wait = up.wait
BY DEF EosClock, UpLocals, UpPlaces

LEMMA FlushBufferSendParts ==
  ASSUME up \in UpLocals, FlushBufferSend
  PROVE  /\ up' \in UpLocals /\ up.at = "flushsend" /\ up'.at = "idle"
         /\ up'.tb = FALSE /\ up'.wait = up.wait
         /\ \/ up.tb = TRUE /\ dspIn' = Append(dspIn, NoFrame)
            \/ up.tb = FALSE /\ dspIn' = dspIn
<1>1. up.at = "flushsend" /\ up.tb \in BOOLEAN
  BY DEF FlushBufferSend, UpLocals
<1>2. CASE up.tb = TRUE
  BY <1>1, <1>2 DEF FlushBufferSend, UpLocals, UpPlaces
<1>3. CASE up.tb = FALSE
  BY <1>1, <1>3 DEF FlushBufferSend, UpLocals, UpPlaces
<1> QED
  BY <1>1, <1>2, <1>3

-----------------------------------------------------------------------------
(* loop *)

LEMMA PassEndLocals ==
  /\ PassEnd \in LoopLocals
  /\ PassEnd.at = "out" /\ PassEnd.tb = NoBuffer /\ PassEnd.tb.kind = "none"
  /\ PassEnd.ret = "OK" /\ PassEnd.eos = FALSE
BY DEF PassEnd, NoBuffer, LoopLocals, LoopPlaces, Wait, Flow

LEMMA LoopPopParts ==
  ASSUME loop \in LoopLocals, outq \in Seq(Buffer), LoopPop
  PROVE  /\ loop' \in LoopLocals /\ loop'.ret = loop.ret /\ loop'.eos = loop.eos
         /\ (loop.at = "out" /\ task = "started") \/ loop.at = "pop"
         /\ \/ /\ outq # <<>> /\ outq' = Tail(outq)
               /\ loop'.at = "check" /\ loop'.tb \in Buffer
            \/ outq' = outq /\ loop'.at \in {"null", "pop"} /\ loop'.tb = loop.tb
<1>1. (loop.at = "out" /\ task = "started") \/ loop.at = "pop"
  BY DEF LoopPop
<1>2. ASSUME outq # <<>>, outq' = Tail(outq),
             loop' = [loop EXCEPT !.at = "check", !.wait = "no", !.tb = Head(outq)]
      PROVE  /\ loop' \in LoopLocals /\ loop'.ret = loop.ret /\ loop'.eos = loop.eos
             /\ loop'.at = "check" /\ loop'.tb \in Buffer
  <2>1. PICK b \in Buffer : b = Head(outq)
    BY <1>2
  <2> QED
    BY <1>2, <2>1 DEF LoopLocals, LoopPlaces, Wait
<1>3. ASSUME \/ loop' = [loop EXCEPT !.at = "null", !.wait = "no"]
             \/ loop' = [loop EXCEPT !.at = "pop", !.wait = "waiting"]
      PROVE  /\ loop' \in LoopLocals /\ loop'.ret = loop.ret /\ loop'.eos = loop.eos
             /\ loop'.at \in {"null", "pop"} /\ loop'.tb = loop.tb
  BY <1>3 DEF LoopLocals, LoopPlaces, Wait
<1> QED
  BY <1>1, <1>2, <1>3 DEF LoopPop

LEMMA LoopNullParts ==
  ASSUME loop \in LoopLocals, status \in Flow, LoopNull
  PROVE  /\ loop' \in LoopLocals /\ loop.at = "null"
         /\ \/ loop' = PassEnd
            \/ /\ status # "OK" /\ loop'.at = "pause" /\ loop'.ret = status
               /\ loop'.tb = loop.tb /\ loop'.eos = loop.eos
BY PassEndLocals DEF LoopNull, LoopLocals, LoopPlaces, PauseWith

LEMMA LoopCheckParts ==
  ASSUME loop \in LoopLocals, status \in Flow, LoopCheck
  PROVE  /\ loop' \in LoopLocals /\ loop.at = "check"
         /\ loop'.tb = loop.tb /\ loop'.eos = loop.eos
         /\ \/ loop'.at = "work"
            \/ status # "OK" /\ loop'.at = "pause" /\ loop'.ret = status
BY DEF LoopCheck, At, LoopLocals, LoopPlaces, PauseWith

(* the steps that only go on to p *)
LEMMA LoopAtParts ==
  ASSUME loop \in LoopLocals, NEW p \in LoopPlaces, loop' = At(p)
  PROVE  /\ loop' \in LoopLocals /\ loop'.at = p
         /\ loop'.tb = loop.tb /\ loop'.ret = loop.ret /\ loop'.eos = loop.eos
BY DEF At, LoopLocals

(* LoopSkip and LoopDrop *)
LEMMA LoopCountParts ==
  ASSUME loop \in LoopLocals, loop' = [loop EXCEPT !.at = "leave", !.eos = LastBeforeEos]
  PROVE  /\ loop' \in LoopLocals /\ loop'.at = "leave"
         /\ loop'.tb = loop.tb /\ loop'.ret = loop.ret
         /\ loop'.eos => deferred_eos
<1>1. PICK e \in BOOLEAN : e = LastBeforeEos
  BY DEF LastBeforeEos
<1>2. loop' = [loop EXCEPT !.at = "leave", !.eos = e]
  BY <1>1
<1>3. /\ loop' \in LoopLocals /\ loop'.at = "leave"
      /\ loop'.tb = loop.tb /\ loop'.ret = loop.ret /\ loop'.eos = e
  BY <1>2 DEF LoopLocals, LoopPlaces
<1>4. e => deferred_eos
  BY <1>1 DEF LastBeforeEos
<1> QED
  BY <1>3, <1>4

LEMMA LoopTakeParts ==
  ASSUME loop \in LoopLocals, RingTypeOK, LoopTake
  PROVE  /\ loop' \in LoopLocals /\ loop.at = "take" /\ loop'.at = "push"
         /\ loop'.tb = loop.tb /\ loop'.ret = loop.ret
         /\ loop'.eos => deferred_eos
<1>1. FrameTime \in Nat
  BY DEF RingTypeOK, FrameTime, Item
<1>2. PICK e \in BOOLEAN : e = LastBeforeEos
  BY DEF LastBeforeEos
<1>3. loop' = [loop EXCEPT !.at = "push", !.eos = e, !.time = FrameTime]
  BY <1>2 DEF LoopTake
<1>4. /\ loop' \in LoopLocals /\ loop'.at = "push"
      /\ loop'.tb = loop.tb /\ loop'.ret = loop.ret /\ loop'.eos = e
  BY <1>1, <1>3 DEF LoopLocals, LoopPlaces
<1>5. e => deferred_eos
  BY <1>2 DEF LastBeforeEos
<1> QED
  BY <1>4, <1>5 DEF LoopTake

LEMMA LoopEosParts ==
  ASSUME loop \in LoopLocals, LoopEos
  PROVE  /\ loop' \in LoopLocals /\ loop.at = "leave" /\ loop.eos
         /\ loop'.tb = loop.tb /\ loop'.ret # "OK" /\ loop'.eos = FALSE
         /\ \/ loop'.at = "keep" /\ loop.tb.kind # "none"
            \/ loop'.at = "leave"
         /\ eosDown' = eosDown \/ eosDown' = eosDown + 1
<1> DEFINE p == IF loop.tb.kind # "none" /\ ~loop.tb.data THEN "keep" ELSE "leave"
<1>1. /\ loop' = [loop EXCEPT !.eos = FALSE, !.ret = "UNEXPECTED", !.at = p]
      /\ loop.at = "leave" /\ loop.eos
      /\ eosDown' = eosDown \/ eosDown' = eosDown + 1
  BY DEF LoopEos, PushEos
<1>2. (p = "keep" /\ loop.tb.kind # "none") \/ p = "leave"
  OBVIOUS
<1> HIDE DEF p
<1> QED
  BY <1>1, <1>2 DEF LoopLocals, LoopPlaces, Flow

LEMMA LoopKeepParts ==
  ASSUME loop \in LoopLocals, LoopKeep
  PROVE  /\ loop' \in LoopLocals /\ loop.at = "keep" /\ loop'.at = "pause"
         /\ loop'.tb = NoBuffer /\ loop'.ret = loop.ret /\ loop'.eos = loop.eos
BY DEF LoopKeep, LoopLocals, LoopPlaces, PauseWith

LEMMA LoopLeaveParts ==
  ASSUME loop \in LoopLocals, LoopLeave
  PROVE  /\ loop' \in LoopLocals /\ loop.at = "leave" /\ ~loop.eos
         /\ \/ loop.tb.kind = "none" /\ dspFree' = dspFree
            \/ loop.tb.kind # "none" /\ dspFree' = dspFree + 1
         /\ \/ loop' = PassEnd
            \/ /\ loop'.at = "pause" /\ loop'.ret # "OK"
               /\ loop'.tb = NoBuffer /\ loop'.eos = FALSE
BY PassEndLocals DEF LoopLeave, LoopLocals, LoopPlaces, PauseWith

LEMMA LoopReallocParts ==
  ASSUME LoopRealloc
  PROVE  loop' = PassEnd /\ loop.at = "data" /\ dspFree' = dspFree + 1
BY DEF LoopRealloc

(* Whatever is done to the memory of a buffer, it stays one. *)
LEMMA BufferKinds ==
  /\ \A b \in Buffer : b.kind # "none"
  /\ \A b \in Buffer, d \in BOOLEAN :
       [b EXCEPT !.data = d] \in Buffer /\ [b EXCEPT !.data = d].kind = b.kind
  /\ NoBuffer.kind = "none"
BY DEF Buffer, Kinds, NoBuffer

LEMMA LoopAllocParts ==
  ASSUME loop \in LoopLocals, outq \in Seq(Buffer), loop.tb.kind # "none", LoopAlloc
  PROVE  /\ loop' \in LoopLocals /\ loop.at = "data" /\ loop'.eos = loop.eos
         /\ \/ /\ outq' = Append(outq, loop.tb) /\ loop'.tb = NoBuffer
               /\ loop'.at = "pause" /\ loop'.ret # "OK"
            \/ /\ outq' = outq /\ loop'.tb.kind = loop.tb.kind
               /\ loop'.at \in {"hack", "take"} /\ loop'.ret = loop.ret
<1>1. PICK b \in Buffer : b = loop.tb
  BY BufferKinds DEF LoopLocals
<1>2. ASSUME NEW r \in {"WRONG_STATE", "UNEXPECTED"},
             loop' = PauseWith([loop EXCEPT !.tb = NoBuffer], r)
      PROVE  /\ loop' \in LoopLocals /\ loop'.eos = loop.eos /\ loop'.tb = NoBuffer
             /\ loop'.at = "pause" /\ loop'.ret # "OK"
  BY <1>2 DEF PauseWith, LoopLocals, LoopPlaces, Flow
<1>3. ASSUME NEW p \in {"hack", "take"}, NEW c \in Buffer, c.kind = b.kind,
             loop' = [loop EXCEPT !.at = p, !.tb = c]
      PROVE  /\ loop' \in LoopLocals /\ loop'.eos = loop.eos
             /\ loop'.tb.kind = loop.tb.kind /\ loop'.at = p /\ loop'.ret = loop.ret
  BY <1>1, <1>3 DEF LoopLocals, LoopPlaces
<1>4. loop.at = "data"
  BY DEF LoopAlloc
<1>5. CASE /\ outq' = outq
           /\ loop' = [loop EXCEPT !.at = IF skip_hack > 0 THEN "hack" ELSE "take",
                                   !.tb.data = UsePadAlloc]
  <2>1. PICK d \in BOOLEAN : d = UsePadAlloc
    BY BaseAssumption
  <2>2. PICK c : c = [b EXCEPT !.data = d]
    OBVIOUS
  <2>3. c \in Buffer /\ c.kind = b.kind
    BY <2>2, BufferKinds
  <2>4. PICK p \in {"hack", "take"} : p = IF skip_hack > 0 THEN "hack" ELSE "take"
    OBVIOUS
  <2>5. loop' = [loop EXCEPT !.at = p, !.tb = c]
    BY <1>1, <1>5, <2>1, <2>2, <2>4
  <2> QED
    BY <1>3, <1>4, <1>5, <2>3, <2>4, <2>5
<1>6. CASE /\ outq' = Append(outq, loop.tb)
           /\ \E r \in {"WRONG_STATE", "UNEXPECTED"} :
                loop' = PauseWith([loop EXCEPT !.tb = NoBuffer], r)
  BY <1>2, <1>4, <1>6
<1> QED
  BY <1>5, <1>6 DEF LoopAlloc

(* What is done with a buffer that has been wrapped, and with the GstBuffer *)
(* around it when nobody wants that one.                                    *)
LEMMA HandledParts ==
  ASSUME NEW t \in LoopLocals, NEW r \in Flow, NEW u,
         \/ u = [Handled(t) EXCEPT !.at = "leave", !.ret = r]
         \/ u = [Handled(t) EXCEPT !.at = "leave"]
  PROVE  /\ u \in LoopLocals /\ u.at = "leave" /\ u.eos = t.eos
         /\ UsePinned = TRUE => u.tb = NoBuffer
         /\ UsePinned = FALSE => u.tb = t.tb
<1>1. CASE UsePinned = TRUE
  BY <1>1 DEF Handled, LoopLocals, LoopPlaces
<1>2. CASE UsePinned = FALSE
  BY <1>2 DEF Handled, LoopLocals, LoopPlaces
<1> QED
  BY <1>1, <1>2, BaseAssumption

(* LoopHack and LoopPush: who has the buffer afterwards *)
GoesOn ==
  /\ loop' \in LoopLocals /\ loop'.at = "leave" /\ loop'.eos = loop.eos
  /\ \/ loop'.tb = loop.tb /\ dspFree' = dspFree /\ lent' = lent
     \/ loop'.tb = NoBuffer /\ dspFree' = dspFree + 1 /\ lent' = lent
     \/ loop'.tb = NoBuffer /\ dspFree' = dspFree /\ lent' = lent + 1

LEMMA UnrefParts ==
  ASSUME loop \in LoopLocals, Unref, NEW r \in Flow,
         \/ loop' = [Handled(loop) EXCEPT !.at = "leave", !.ret = r]
         \/ loop' = [Handled(loop) EXCEPT !.at = "leave"]
  PROVE  GoesOn
<1>1. /\ loop' \in LoopLocals /\ loop'.at = "leave" /\ loop'.eos = loop.eos
      /\ UsePinned = TRUE => loop'.tb = NoBuffer
      /\ UsePinned = FALSE => loop'.tb = loop.tb
  BY HandledParts
<1>2. CASE UsePinned = TRUE
  BY <1>1, <1>2 DEF Unref, GoesOn
<1>3. CASE UsePinned = FALSE
  BY <1>1, <1>3 DEF Unref, GoesOn
<1> QED
  BY <1>2, <1>3, BaseAssumption

LEMMA LoopHackParts ==
  ASSUME loop \in LoopLocals, LoopHack
  PROVE  GoesOn /\ loop.at = "hack"
<1>1. Unref /\ loop' = [Handled(loop) EXCEPT !.at = "leave"] /\ loop.at = "hack"
  BY DEF LoopHack
<1>2. "OK" \in Flow
  BY DEF Flow
<1> QED
  BY <1>1, <1>2, UnrefParts

LEMMA LoopPushParts ==
  ASSUME loop \in LoopLocals, LoopPush
  PROVE  GoesOn /\ loop.at = "push"
<1>1. /\ "leave" \in LoopPlaces /\ "OK" \in Flow
      /\ "WRONG_STATE" \in Flow /\ "UNEXPECTED" \in Flow
  BY DEF LoopPlaces, Flow
<1>2. loop.at = "push"
  BY DEF LoopPush
<1>3. CASE /\ lent' = IF UsePinned THEN lent + 1 ELSE lent
           /\ loop' = [Handled(loop) EXCEPT !.at = "leave"]
           /\ dspFree' = dspFree
  <2>1. /\ loop' \in LoopLocals /\ loop'.at = "leave" /\ loop'.eos = loop.eos
        /\ UsePinned = TRUE => loop'.tb = NoBuffer
        /\ UsePinned = FALSE => loop'.tb = loop.tb
    BY <1>1, <1>3, HandledParts
  <2>2. CASE UsePinned = TRUE
    BY <1>2, <1>3, <2>1, <2>2 DEF GoesOn
  <2>3. CASE UsePinned = FALSE
    BY <1>2, <1>3, <2>1, <2>3 DEF GoesOn
  <2> QED
    BY <2>2, <2>3, BaseAssumption
<1>4. ASSUME Unref, NEW r \in {"WRONG_STATE", "UNEXPECTED"},
             loop' = [Handled(loop) EXCEPT !.at = "leave", !.ret = r]
      PROVE  GoesOn
  BY <1>1, <1>4, UnrefParts
<1>5. CASE loop' = At("leave") /\ UNCHANGED <<dspFree, lent>>
  BY <1>1, <1>2, <1>5, LoopAtParts DEF GoesOn
<1> QED
  BY <1>2, <1>3, <1>4, <1>5 DEF LoopPush

LEMMA PauseSyncParts ==
  ASSUME loop \in LoopLocals, deferred_eos \in BOOLEAN, PauseSync
  PROVE  /\ loop' \in LoopLocals /\ loop.at = "pause" /\ loop'.at = "unlock"
         /\ loop'.tb = loop.tb /\ loop'.ret = loop.ret /\ loop'.eos = deferred_eos
         /\ deferred_eos' = FALSE
         /\ status = "OK" => status' = loop.ret
         /\ status # "OK" => status' = status
BY DEF PauseSync, LoopLocals, LoopPlaces

LEMMA PauseUnlockParts ==
  ASSUME loop \in LoopLocals, PauseUnlock
  PROVE  /\ loop' \in LoopLocals /\ loop.at = "unlock" /\ loop'.at = "last"
         /\ loop'.tb = loop.tb /\ loop'.ret = loop.ret /\ loop'.eos = loop.eos
         /\ up' = Signalled(up)
BY DEF PauseUnlock, At, LoopLocals, LoopPlaces

LEMMA PauseEosParts ==
  ASSUME loop \in LoopLocals, PauseEos
  PROVE  /\ loop' \in LoopLocals /\ loop.at = "last"
         /\ \/ /\ loop'.at = "pause" /\ loop'.ret = loop.ret /\ loop'.tb = loop.tb
               /\ loop'.eos = loop.eos /\ outq' = outq
            \/ loop' = PassEnd /\ loop.tb.kind = "none" /\ outq' = outq
            \/ loop' = PassEnd /\ loop.tb.kind # "none" /\ outq' = Append(outq, loop.tb)
         /\ loop.eos => (eosDown' = eosDown \/ eosDown' = eosDown + 1)
         /\ ~loop.eos => eosDown' = eosDown
<1>1. loop.at = "last"
  BY DEF PauseEos
<1>2. /\ loop.eos => (eosDown' = eosDown \/ eosDown' = eosDown + 1)
      /\ ~loop.eos => eosDown' = eosDown
  BY DEF PauseEos, PushEos
<1>3. CASE loop.twice
  <2>1. loop' = [loop EXCEPT !.at = "pause", !.twice = FALSE] /\ outq' = outq
    BY <1>3 DEF PauseEos
  <2>2. /\ loop' \in LoopLocals /\ loop'.at = "pause" /\ loop'.ret = loop.ret
        /\ loop'.tb = loop.tb /\ loop'.eos = loop.eos
    BY <2>1 DEF LoopLocals, LoopPlaces
  <2> QED
    BY <1>1, <1>2, <2>1, <2>2
<1>4. CASE ~loop.twice
  BY <1>1, <1>2, <1>4, PassEndLocals DEF PauseEos
<1> QED
  BY <1>3, <1>4

-----------------------------------------------------------------------------
(* Shapes holds at the start, and every step keeps it. *)

LEMMA ShapesStart == Init => Shapes
<1> SUFFICES ASSUME Init PROVE Shapes
  OBVIOUS
<1>1. RingTypeOK
  BY Constants DEF Init, RingInit, RingTypeOK, Positions, Item
<1>2. inq \in Nat
  <2>1. InBufs - 1 \in Nat
    BY Constants
  <2> QED
    BY <2>1, Constants DEF Init
<1>3. dspIn \in Seq(Codec .. MaxArrivals)
  <2>1. Append(<<>>, Codec) \in Seq(Codec .. MaxArrivals)
    BY Constants
  <2>2. <<>> \in Seq(Codec .. MaxArrivals)
    OBVIOUS
  <2>3. dspIn = Append(<<>>, Codec) \/ dspIn = <<>>
    BY DEF Init
  <2> QED
    BY <2>1, <2>2, <2>3
<1>4. up \in UpLocals
  BY DEF Init, UpLocals, UpPlaces, Wait
<1>5. loop \in LoopLocals
  BY DEF Init, LoopLocals, LoopPlaces, Wait, Flow
<1>6. status \in Flow /\ app \in AppPlaces /\ dsp \in DspPlaces
  BY DEF Init, Flow, AppPlaces, DspPlaces
<1>7. deferred_eos \in BOOLEAN /\ inOn \in BOOLEAN /\ eosUp \in BOOLEAN
  BY DEF Init
<1>8. /\ outq \in Seq(Buffer) /\ inside \in Seq(Codec .. MaxArrivals)
      /\ dspFree \in Nat /\ lent \in Nat /\ arrived \in 0 .. MaxArrivals
      /\ eosDown \in Nat /\ flushes \in Nat
  BY Constants DEF Init
<1>9. up.at = "idle"
  BY DEF Init
<1> QED
  BY <1>1, <1>2, <1>3, <1>4, <1>5, <1>6, <1>7, <1>8, <1>9 DEF Shapes

LEMMA RingKept ==
  ASSUME RingTypeOK, UNCHANGED ringVars
  PROVE  RingTypeOK'
BY DEF RingTypeOK, ringVars

LEMMA UpShapes ==
  ASSUME Shapes, Up
  PROVE  Shapes'
<1> USE DEF selfVars, queueVars, dspVars, padVars, histVars
<1>1. up \in UpLocals /\ inq \in Nat /\ RingTypeOK /\ arrived \in 0 .. MaxArrivals
  BY DEF Shapes
<1>2. ASSUME NEW p \in UpPlaces, PopInput(p) \/ WaitInput(p)
      PROVE  inq' \in Nat /\ inOn' = inOn /\ up' \in UpLocals /\ up'.at = p
  <2>1. CASE PopInput(p)
    BY <1>1, <2>1, PopInputParts
  <2>2. CASE WaitInput(p)
    BY <1>1, <2>2, WaitInputParts
  <2> QED
    BY <1>2, <2>1, <2>2
<1>3. CASE ChainPop
  <2>1. /\ inq' \in Nat /\ inOn' = inOn /\ up' \in UpLocals
        /\ up'.at \in {"check", "pop"}
    BY <1>2, <1>3 DEF ChainPop, UpPlaces
  <2>2. arrived < MaxArrivals
    BY <1>3 DEF ChainPop, Shapes
  <2>3. UNCHANGED <<ringVars, selfVars, outq, outOn, dspVars, histVars, loop, app, dsp>>
    BY <1>3 DEF ChainPop
  <2> QED
    BY <1>1, <2>1, <2>2, <2>3, RingKept DEF Shapes
<1>4. CASE ChainCheck
  <2>1. up' \in UpLocals /\ inq' \in Nat /\ up.at = "check"
    BY <1>1, <1>4, ChainCheckParts
  <2> QED
    BY <1>1, <1>4, <2>1, RingKept DEF ChainCheck, Shapes
<1>5. CASE ChainStore
  <2> arrived' = arrived + 1 /\ arrived \in 0 .. MaxArrivals /\ arrived < MaxArrivals
    BY <1>5 DEF ChainStore, Shapes
  <2>1. arrived + 1 \in Nat /\ arrived' \in 0 .. MaxArrivals
    BY Constants
  <2>2. RingTypeOK'
    BY <1>1, <1>5, <2>1, StoreFrameTypes DEF ChainStore
  <2>3. up' \in UpLocals /\ up'.at = "send"
    BY <1>1, <1>5, ChainStoreParts
  <2> QED
    BY <1>5, <2>1, <2>2, <2>3 DEF ChainStore, Shapes
<1>6. CASE ChainSend
  <2>1. arrived \in Codec .. MaxArrivals
    BY <1>1, Constants
  <2>2. dspIn' \in Seq(Codec .. MaxArrivals)
    BY <1>6, <2>1 DEF ChainSend, Shapes
  <2>3. up' \in UpLocals /\ up'.at = "idle"
    BY <1>1, <1>6, ChainSendParts
  <2> QED
    BY <1>1, <1>6, <2>2, <2>3, RingKept DEF ChainSend, Shapes
<1>7. CASE SerializedEvent
  <2>1. arrived + 1 \in Nat /\ arrived' \in 0 .. MaxArrivals
    BY <1>1, <1>7, Constants DEF SerializedEvent
  <2>2. RingTypeOK'
    BY <1>1, <1>7, <2>1, StoreEventTypes DEF SerializedEvent
  <2>3. up' = up /\ up.at = "idle"
    BY <1>7 DEF SerializedEvent, MayArrive
  <2> QED
    BY <1>7, <2>1, <2>2, <2>3 DEF SerializedEvent, Shapes
<1>8. CASE EosArrives
  <2>1. up' \in UpLocals /\ up'.at \in {"clock", "eos"} /\ deferred_eos' \in BOOLEAN
    BY <1>1, <1>8, EosArrivesParts
  <2> QED
    BY <1>1, <1>8, <2>1, RingKept DEF EosArrives, Shapes
<1>9. CASE EosNow
  <2>1. up' \in UpLocals /\ up'.at = "idle" /\ eosDown' \in Nat
    BY <1>1, <1>9, EosNowParts DEF Shapes
  <2> QED
    BY <1>1, <1>9, <2>1, RingKept DEF EosNow, Shapes
<1>10. CASE EosClock
  <2>1. up' \in UpLocals /\ up'.at \in {"flushbuf", "idle"}
    BY <1>1, <1>10, EosClockParts
  <2> QED
    BY <1>1, <1>10, <2>1, RingKept DEF EosClock, Shapes
<1>11. CASE FlushBufferPop
  <2>1. /\ inq' \in Nat /\ inOn' = inOn /\ up' \in UpLocals
        /\ up'.at \in {"flushsend", "flushbuf"}
    BY <1>2, <1>11 DEF FlushBufferPop, UpPlaces
  <2> QED
    BY <1>1, <1>11, <2>1, RingKept DEF FlushBufferPop, Shapes
<1>12. CASE FlushBufferSend
  <2>1. Append(dspIn, NoFrame) \in Seq(Codec .. MaxArrivals)
    BY Constants DEF Shapes
  <2>2. dspIn' \in Seq(Codec .. MaxArrivals) /\ up' \in UpLocals /\ up'.at = "idle"
    BY <1>1, <1>12, <2>1, FlushBufferSendParts DEF Shapes
  <2> QED
    BY <1>1, <1>12, <2>2, RingKept DEF FlushBufferSend, Shapes
<1> QED
  BY <1>3, <1>4, <1>5, <1>6, <1>7, <1>8, <1>9, <1>10, <1>11, <1>12 DEF Up

(* What output_loop leaves alone, and what it changes, as far as Shapes goes *)
LoopFrame ==
  UNCHANGED <<inq, dspIn, inside, arrived, eosUp, flushes, app, dsp>>
LoopTypes ==
  /\ RingTypeOK' /\ status' \in Flow /\ deferred_eos' \in BOOLEAN /\ inOn' \in BOOLEAN
  /\ outq' \in Seq(Buffer) /\ dspFree' \in Nat /\ lent' \in Nat
  /\ loop' \in LoopLocals /\ up' \in UpLocals /\ up'.at = up.at /\ eosDown' \in Nat

LEMMA LoopShapesFromTypes ==
  ASSUME Shapes, LoopFrame, LoopTypes
  PROVE  Shapes'
BY DEF Shapes, LoopFrame, LoopTypes

LEMMA QueuedBuffer ==
  ASSUME outq \in Seq(Buffer), NEW b, b \in Buffer \cup {NoBuffer}, b.kind # "none"
  PROVE  Append(outq, b) \in Seq(Buffer) /\ Len(Append(outq, b)) = Len(outq) + 1
BY BufferKinds

LEMMA LoopShapes ==
  ASSUME Shapes, LoopHolders, Loop
  PROVE  Shapes'
<1> USE DEF selfVars, queueVars, dspVars, padVars, histVars, loopKeeps
<1>1. /\ loop \in LoopLocals /\ outq \in Seq(Buffer) /\ status \in Flow
      /\ RingTypeOK /\ deferred_eos \in BOOLEAN /\ loop.tb \in Buffer \cup {NoBuffer}
      /\ dspFree \in Nat /\ lent \in Nat /\ eosDown \in Nat
  BY DEF Shapes, LoopLocals
<1>2. CASE LoopPop
  <2>1. loop' \in LoopLocals /\ outq' \in Seq(Buffer)
    BY <1>1, <1>2, LoopPopParts
  <2>2. LoopFrame /\ LoopTypes
    BY <1>1, <1>2, <2>1, RingKept DEF LoopPop, LoopFrame, LoopTypes, Shapes
  <2> QED
    BY <2>2, LoopShapesFromTypes
<1>3. CASE LoopNull
  <2>1. loop' \in LoopLocals
    BY <1>1, <1>3, LoopNullParts
  <2>2. LoopFrame /\ LoopTypes
    BY <1>1, <1>3, <2>1, RingKept DEF LoopNull, LoopFrame, LoopTypes, Shapes
  <2> QED
    BY <2>2, LoopShapesFromTypes
<1>4. CASE LoopCheck
  <2>1. loop' \in LoopLocals
    BY <1>1, <1>4, LoopCheckParts
  <2>2. LoopFrame /\ LoopTypes
    BY <1>1, <1>4, <2>1, RingKept DEF LoopCheck, LoopFrame, LoopTypes, Shapes
  <2> QED
    BY <2>2, LoopShapesFromTypes
<1>5. CASE LoopUnexpected
  <2>1. loop' \in LoopLocals
    BY <1>1, <1>5, LoopAtParts DEF LoopUnexpected, LoopPlaces
  <2>2. LoopFrame /\ LoopTypes
    BY <1>1, <1>5, <2>1, RingKept DEF LoopUnexpected, LoopFrame, LoopTypes, Shapes
  <2> QED
    BY <2>2, LoopShapesFromTypes
<1>6. CASE LoopEvents
  <2>1. loop' \in LoopLocals
    BY <1>1, <1>6, LoopAtParts DEF LoopEvents, LoopPlaces
  <2>2. RingTypeOK'
    BY <1>1, <1>6, ClearEventsTypes DEF LoopEvents
  <2>3. LoopFrame /\ LoopTypes
    BY <1>1, <1>6, <2>1, <2>2 DEF LoopEvents, LoopFrame, LoopTypes, Shapes
  <2> QED
    BY <2>3, LoopShapesFromTypes
<1>7. CASE LoopRealloc
  <2>1. loop' \in LoopLocals /\ dspFree' \in Nat
    BY <1>1, <1>7, LoopReallocParts, PassEndLocals
  <2>2. LoopFrame /\ LoopTypes
    BY <1>1, <1>7, <2>1, RingKept DEF LoopRealloc, LoopFrame, LoopTypes, Shapes
  <2> QED
    BY <2>2, LoopShapesFromTypes
<1>8. CASE LoopEmpty
  <2>1. loop' \in LoopLocals
    BY <1>1, <1>8, LoopAtParts DEF LoopEmpty, LoopPlaces
  <2>2. LoopFrame /\ LoopTypes
    BY <1>1, <1>8, <2>1, RingKept DEF LoopEmpty, LoopFrame, LoopTypes, Shapes
  <2> QED
    BY <2>2, LoopShapesFromTypes
<1>9. CASE LoopSkip
  <2>1. loop' \in LoopLocals
    BY <1>1, <1>9, LoopCountParts DEF LoopSkip
  <2>2. RingTypeOK'
    <3>1. SkipFrame
      BY <1>9 DEF LoopSkip
    <3>2. Advance /\ (UNCHANGED ts_push_pos \/ ts_push_pos' = NextPos(ts_out_pos))
      BY <3>1 DEF SkipFrame
    <3> QED
      BY <1>1, <3>2, AdvanceTypes
  <2>3. LoopFrame /\ LoopTypes
    BY <1>1, <1>9, <2>1, <2>2 DEF LoopSkip, LoopFrame, LoopTypes, Shapes
  <2> QED
    BY <2>3, LoopShapesFromTypes
<1>10. CASE LoopDrop
  <2>1. loop' \in LoopLocals
    BY <1>1, <1>10, LoopCountParts DEF LoopDrop
  <2>2. RingTypeOK'
    <3>1. DropFrame
      BY <1>10 DEF LoopDrop
    <3>2. Advance /\ (UNCHANGED ts_push_pos \/ ts_push_pos' = NextPos(ts_out_pos))
      BY <3>1 DEF DropFrame
    <3> QED
      BY <1>1, <3>2, AdvanceTypes
  <2>3. LoopFrame /\ LoopTypes
    BY <1>1, <1>10, <2>1, <2>2 DEF LoopDrop, LoopFrame, LoopTypes, Shapes
  <2> QED
    BY <2>3, LoopShapesFromTypes
<1>11. CASE LoopAlloc
  <2>1. loop.at = "data" /\ loop.tb.kind # "none"
    BY <1>11 DEF LoopAlloc, LoopHolders
  <2>2. loop' \in LoopLocals /\ outq' \in Seq(Buffer)
    BY <1>1, <1>11, <2>1, LoopAllocParts, QueuedBuffer
  <2>3. LoopFrame /\ LoopTypes
    BY <1>1, <1>11, <2>2, RingKept DEF LoopAlloc, LoopFrame, LoopTypes, Shapes
  <2> QED
    BY <2>3, LoopShapesFromTypes
<1>12. CASE LoopHack
  <2>1. loop' \in LoopLocals /\ dspFree' \in Nat /\ lent' \in Nat
    BY <1>1, <1>12, LoopHackParts DEF GoesOn
  <2>2. LoopFrame /\ LoopTypes
    BY <1>1, <1>12, <2>1, RingKept DEF LoopHack, LoopFrame, LoopTypes, Shapes
  <2> QED
    BY <2>2, LoopShapesFromTypes
<1>13. CASE LoopTake
  <2>1. loop' \in LoopLocals
    BY <1>1, <1>13, LoopTakeParts
  <2>2. RingTypeOK'
    <3>1. TakeFrame
      BY <1>13 DEF LoopTake
    <3>2. Advance /\ (UNCHANGED ts_push_pos \/ ts_push_pos' = NextPos(ts_out_pos))
      BY <3>1 DEF TakeFrame
    <3> QED
      BY <1>1, <3>2, AdvanceTypes
  <2>3. LoopFrame /\ LoopTypes
    BY <1>1, <1>13, <2>1, <2>2 DEF LoopTake, LoopFrame, LoopTypes, Shapes
  <2> QED
    BY <2>3, LoopShapesFromTypes
<1>14. CASE LoopPush
  <2>1. loop' \in LoopLocals /\ dspFree' \in Nat /\ lent' \in Nat
    BY <1>1, <1>14, LoopPushParts DEF GoesOn
  <2>2. LoopFrame /\ LoopTypes
    BY <1>1, <1>14, <2>1, RingKept DEF LoopPush, LoopFrame, LoopTypes, Shapes
  <2> QED
    BY <2>2, LoopShapesFromTypes
<1>15. CASE LoopEos
  <2>1. loop' \in LoopLocals /\ eosDown' \in Nat
    BY <1>1, <1>15, LoopEosParts
  <2>2. LoopFrame /\ LoopTypes
    BY <1>1, <1>15, <2>1, RingKept DEF LoopEos, LoopFrame, LoopTypes, Shapes
  <2> QED
    BY <2>2, LoopShapesFromTypes
<1>16. CASE LoopKeep
  <2>1. loop.tb.kind # "none" /\ outq' = Append(outq, loop.tb)
    BY <1>16 DEF LoopKeep, LoopHolders
  <2>2. loop' \in LoopLocals /\ outq' \in Seq(Buffer)
    BY <1>1, <1>16, <2>1, LoopKeepParts, QueuedBuffer
  <2>3. LoopFrame /\ LoopTypes
    BY <1>1, <1>16, <2>2, RingKept DEF LoopKeep, LoopFrame, LoopTypes, Shapes
  <2> QED
    BY <2>3, LoopShapesFromTypes
<1>17. CASE LoopLeave
  <2>1. loop' \in LoopLocals /\ dspFree' \in Nat
    BY <1>1, <1>17, LoopLeaveParts
  <2>2. LoopFrame /\ LoopTypes
    BY <1>1, <1>17, <2>1, RingKept DEF LoopLeave, LoopFrame, LoopTypes, Shapes
  <2> QED
    BY <2>2, LoopShapesFromTypes
<1>18. CASE PauseSync
  <2>1. loop' \in LoopLocals /\ status' \in Flow /\ deferred_eos' \in BOOLEAN
    <3>1. loop.ret \in Flow
      BY <1>1 DEF LoopLocals
    <3> QED
      BY <1>1, <1>18, <3>1, PauseSyncParts
  <2>2. LoopFrame /\ LoopTypes
    BY <1>1, <1>18, <2>1, RingKept DEF PauseSync, LoopFrame, LoopTypes, Shapes
  <2> QED
    BY <2>2, LoopShapesFromTypes
<1>19. CASE PauseUnlock
  <2>1. loop' \in LoopLocals /\ up' = Signalled(up)
    BY <1>1, <1>19, PauseUnlockParts
  <2>2. up' \in UpLocals /\ up'.at = up.at
    BY <2>1, SignalledUp DEF Shapes
  <2>3. inOn' \in BOOLEAN
    BY <1>19 DEF PauseUnlock, DisableQueues
  <2>4. LoopFrame /\ LoopTypes
    BY <1>1, <1>19, <2>1, <2>2, <2>3, RingKept DEF PauseUnlock, LoopFrame, LoopTypes, Shapes
  <2> QED
    BY <2>4, LoopShapesFromTypes
<1>20. CASE PauseEos
  <2>1. loop' \in LoopLocals /\ outq' \in Seq(Buffer) /\ eosDown' \in Nat
    BY <1>1, <1>20, PauseEosParts, QueuedBuffer
  <2>2. LoopFrame /\ LoopTypes
    BY <1>1, <1>20, <2>1, RingKept DEF PauseEos, LoopFrame, LoopTypes, Shapes
  <2> QED
    BY <2>2, LoopShapesFromTypes
<1> QED
  BY <1>2, <1>3, <1>4, <1>5, <1>6, <1>7, <1>8, <1>9, <1>10, <1>11, <1>12, <1>13,
     <1>14, <1>15, <1>16, <1>17, <1>18, <1>19, <1>20 DEF Loop

LEMMA AppShapes ==
  ASSUME Shapes, App
  PROVE  Shapes'
<1> USE DEF selfVars, queueVars, dspVars, padVars, histVars
<1>1. up \in UpLocals /\ loop \in LoopLocals /\ RingTypeOK
  BY DEF Shapes
<1>2. CASE FlushStart
  <2>1. app' \in AppPlaces /\ flushes' \in Nat
    BY <1>2 DEF FlushStart, AppPlaces, Shapes
  <2> QED
    BY <1>1, <1>2, <2>1, RingKept DEF FlushStart, Shapes
<1>3. CASE FlushStartStatus
  <2>1. app' \in AppPlaces /\ status' \in Flow
    BY <1>3 DEF FlushStartStatus, AppPlaces, Flow
  <2> QED
    BY <1>1, <1>3, <2>1, RingKept DEF FlushStartStatus, Shapes
<1>4. CASE FlushStartUnlock
  <2>1. app' \in AppPlaces /\ inOn' \in BOOLEAN
    BY <1>4 DEF FlushStartUnlock, AppPlaces, DisableQueues
  <2>2. up' \in UpLocals /\ up'.at = up.at /\ loop' \in LoopLocals
    BY <1>1, <1>4, SignalledUp, SignalledLoop DEF FlushStartUnlock
  <2> QED
    BY <1>1, <1>4, <2>1, <2>2, RingKept DEF FlushStartUnlock, Shapes
<1>5. CASE FlushStartPause
  <2>1. app' \in AppPlaces
    BY <1>5 DEF FlushStartPause, AppPlaces
  <2> QED
    BY <1>1, <1>5, <2>1, RingKept DEF FlushStartPause, Shapes
<1>6. CASE FlushStop
  <2>1. app' \in AppPlaces /\ eosDown' \in Nat
    BY <1>6 DEF FlushStop, AppPlaces
  <2> QED
    BY <1>1, <1>6, <2>1, RingKept DEF FlushStop, Shapes
<1>7. CASE FlushStopMark
  <2>1. app' \in AppPlaces /\ deferred_eos' \in BOOLEAN /\ eosUp' \in BOOLEAN
    BY <1>7 DEF FlushStopMark, AppPlaces
  <2>2. RingTypeOK'
    BY <1>1, <1>7, MarkFlushTypes DEF FlushStopMark
  <2> QED
    BY <1>7, <2>1, <2>2 DEF FlushStopMark, Shapes
<1>8. CASE FlushStopStatus
  <2>1. app' \in AppPlaces /\ status' \in Flow
    BY <1>8 DEF FlushStopStatus, AppPlaces, Flow
  <2> QED
    BY <1>1, <1>8, <2>1, RingKept DEF FlushStopStatus, Shapes
<1>9. CASE FlushStopStart
  <2>1. app' \in AppPlaces /\ inOn' \in BOOLEAN
    BY <1>9 DEF FlushStopStart, AppPlaces, EnableQueues
  <2> QED
    BY <1>1, <1>9, <2>1, RingKept DEF FlushStopStart, Shapes
<1> QED
  BY <1>2, <1>3, <1>4, <1>5, <1>6, <1>7, <1>8, <1>9 DEF App

LEMMA HeadAndTail ==
  ASSUME NEW S, NEW s \in Seq(S), s # <<>>
  PROVE  Head(s) \in S /\ Tail(s) \in Seq(S) /\ Len(Tail(s)) = Len(s) - 1
OBVIOUS

(* What the DSP hands to output_loop is a buffer. *)
LEMMA PutOutputParts ==
  ASSUME loop \in LoopLocals, outq \in Seq(Buffer), NEW b \in Buffer, PutOutput(b)
  PROVE  /\ outq' \in Seq(Buffer) /\ Len(outq') = Len(outq) + 1
         /\ loop' \in LoopLocals /\ loop'.at = loop.at /\ loop'.tb = loop.tb
         /\ loop'.ret = loop.ret /\ loop'.eos = loop.eos
<1>1. loop' = Signalled(loop) /\ outq' = Append(outq, b)
  BY DEF PutOutput
<1>2. outq' \in Seq(Buffer) /\ Len(outq') = Len(outq) + 1
  BY <1>1
<1> QED
  BY <1>1, <1>2, SignalledLoop

LEMMA DspOutputParts ==
  ASSUME Shapes, DspOutput
  PROVE  \E b \in Buffer : PutOutput(b)
<1>1. Head(inside) \in Codec .. MaxArrivals
  <2>1. inside # <<>> /\ inside \in Seq(Codec .. MaxArrivals)
    BY DEF DspOutput, Shapes
  <2> QED
    BY <2>1, HeadAndTail
<1>2. PICK k \in KindsOf(Head(inside)) :
        PutOutput([kind |-> k, nr |-> Head(inside), data |-> TRUE])
  BY DEF DspOutput
<1>3. k \in Kinds
  BY <1>2, Constants DEF KindsOf, Kinds
<1>4. [kind |-> k, nr |-> Head(inside), data |-> TRUE] \in Buffer
  BY <1>1, <1>3 DEF Buffer
<1> QED
  BY <1>2, <1>4

LEMMA DspHeaderParts ==
  ASSUME DspHeader
  PROVE  \E b \in Buffer : PutOutput(b)
<1>1. [kind |-> "header", nr |-> NoFrame, data |-> TRUE] \in Buffer
  BY Constants DEF Buffer, Kinds
<1> QED
  BY <1>1 DEF DspHeader

LEMMA DspShapes ==
  ASSUME Shapes, Dsp
  PROVE  Shapes'
<1> USE DEF selfVars, queueVars, dspVars, padVars, histVars, dspKeeps
<1>1. /\ up \in UpLocals /\ loop \in LoopLocals /\ RingTypeOK /\ outq \in Seq(Buffer)
      /\ dspIn \in Seq(Codec .. MaxArrivals) /\ inside \in Seq(Codec .. MaxArrivals)
  BY DEF Shapes
<1>2. CASE DspInput
  <2>1. dspIn # <<>> /\ dspIn' = Tail(dspIn) /\ inside' = Append(inside, Head(dspIn))
    BY <1>2 DEF DspInput
  <2>2. Head(dspIn) \in Codec .. MaxArrivals
    BY <1>1, <2>1, HeadAndTail
  <2>3. dspIn' \in Seq(Codec .. MaxArrivals) /\ inside' \in Seq(Codec .. MaxArrivals)
    BY <1>1, <2>1, <2>2
  <2>4. inq' = inq + 1 /\ up' = Signalled(up) /\ inq \in Nat
    BY <1>2 DEF DspInput, PutInput, Shapes
  <2>5. up' \in UpLocals /\ up'.at = up.at
    BY <1>1, <2>4, SignalledUp
  <2> QED
    BY <1>1, <1>2, <2>3, <2>4, <2>5, RingKept DEF DspInput, Shapes
<1>3. CASE DspOutput
  <2>1. outq' \in Seq(Buffer) /\ loop' \in LoopLocals
    BY <1>1, <1>3, DspOutputParts, PutOutputParts
  <2>2. inside' \in Seq(Codec .. MaxArrivals) /\ dspFree' \in Nat
    BY <1>1, <1>3 DEF DspOutput, Shapes
  <2> QED
    BY <1>1, <1>3, <2>1, <2>2, RingKept DEF DspOutput, Shapes
<1>4. CASE DspLose
  <2>1. inside' \in Seq(Codec .. MaxArrivals)
    BY <1>1, <1>4 DEF DspLose
  <2> QED
    BY <1>1, <1>4, <2>1, RingKept DEF DspLose, Shapes
<1>5. CASE DspHeader
  <2>1. outq' \in Seq(Buffer) /\ loop' \in LoopLocals
    BY <1>1, <1>5, DspHeaderParts, PutOutputParts
  <2>2. dspFree' \in Nat
    BY <1>5 DEF DspHeader, Shapes
  <2> QED
    BY <1>1, <1>5, <2>1, <2>2, RingKept DEF DspHeader, Shapes
<1>6. CASE DspError
  <2>1. status' \in Flow /\ dsp' \in DspPlaces
    BY <1>6 DEF DspError, Flow, DspPlaces
  <2> QED
    BY <1>1, <1>6, <2>1, RingKept DEF DspError, Shapes
<1>7. CASE DspErrorUnlock
  <2>1. inOn' \in BOOLEAN /\ dsp' \in DspPlaces
    BY <1>7 DEF DspErrorUnlock, DisableQueues, DspPlaces
  <2>2. up' \in UpLocals /\ up'.at = up.at /\ loop' \in LoopLocals
    BY <1>1, <1>7, SignalledUp, SignalledLoop DEF DspErrorUnlock
  <2> QED
    BY <1>1, <1>7, <2>1, <2>2, RingKept DEF DspErrorUnlock, Shapes
<1>8. CASE EosTimeout
  <2>1. status' \in Flow /\ dsp' \in DspPlaces
    BY <1>8 DEF EosTimeout, Flow, DspPlaces
  <2> QED
    BY <1>1, <1>8, <2>1, RingKept DEF EosTimeout, Shapes
<1>9. CASE EosTimeoutUnlock
  <2>1. dsp' \in DspPlaces
    BY <1>9 DEF EosTimeoutUnlock, DspPlaces
  <2>2. loop' \in LoopLocals
    BY <1>1, <1>9, SignalledLoop DEF EosTimeoutUnlock
  <2> QED
    BY <1>1, <1>9, <2>1, <2>2, RingKept DEF EosTimeoutUnlock, Shapes
<1> QED
  BY <1>2, <1>3, <1>4, <1>5, <1>6, <1>7, <1>8, <1>9 DEF Dsp

LEMMA OtherShapes ==
  ASSUME Shapes, Release \/ SpuriousWakeup \/ UNCHANGED vars
  PROVE  Shapes'
<1> USE DEF selfVars, queueVars, dspVars, padVars, histVars
<1>1. up \in UpLocals /\ loop \in LoopLocals /\ RingTypeOK
  BY DEF Shapes
<1>2. CASE Release
  <2>1. lent' \in Nat /\ dspFree' \in Nat
    BY <1>2 DEF Release, Shapes
  <2> QED
    BY <1>1, <1>2, <2>1, RingKept DEF Release, Shapes
<1>3. CASE SpuriousWakeup
  <2>1. (up' = Signalled(up) \/ up' = up) /\ (loop' = Signalled(loop) \/ loop' = loop)
    BY <1>3 DEF SpuriousWakeup
  <2>2. up' \in UpLocals /\ up'.at = up.at /\ loop' \in LoopLocals
    BY <1>1, <2>1, SignalledUp, SignalledLoop
  <2> QED
    BY <1>1, <1>3, <2>2, RingKept DEF SpuriousWakeup, Shapes
<1>4. CASE UNCHANGED vars
  BY <1>1, <1>4, RingKept DEF vars, Shapes
<1> QED
  BY <1>2, <1>3, <1>4

-----------------------------------------------------------------------------
(* BuffersKept: where a thread holds a buffer, and that none is lost *)

LEMMA Holding ==
  /\ up \in UpLocals => (up.tb = TRUE => UpHas = 1) /\ (up.tb = FALSE => UpHas = 0)
  /\ up' \in UpLocals => (up'.tb = TRUE => UpHas' = 1) /\ (up'.tb = FALSE => UpHas' = 0)
BY DEF UpHas

LEMMA LoopHolding ==
  /\ (loop.tb.kind = "none" => LoopHas = 0) /\ (loop.tb.kind # "none" => LoopHas = 1)
  /\ (loop'.tb.kind = "none" => LoopHas' = 0) /\ (loop'.tb.kind # "none" => LoopHas' = 1)
BY DEF LoopHas

(* up: the input buffers *)
UpKeeps == UpHolders' /\ inq' + UpHas' + Len(dspIn') = inq + UpHas + Len(dspIn)

LEMMA UpKeepsBuffers ==
  ASSUME Shapes, UpHolders, Up
  PROVE  UpKeeps
<1> USE DEF selfVars, queueVars, dspVars, padVars, histVars
<1>1. /\ up \in UpLocals /\ inq \in Nat /\ Len(dspIn) \in Nat
      /\ dspIn \in Seq(Codec .. MaxArrivals)
      /\ (up.tb = TRUE \/ up.tb = FALSE)
  BY DEF Shapes, UpLocals
<1>2. ASSUME NEW p \in {"check", "flushsend", "pop", "flushbuf"}, up.tb = FALSE,
             dspIn' = dspIn,
             \/ PopInput(p) /\ p \in {"check", "flushsend"}
             \/ WaitInput(p) /\ p \in {"pop", "flushbuf"}
      PROVE  UpKeeps
  <2>1. p \in UpPlaces
    BY DEF UpPlaces
  <2>2. CASE PopInput(p) /\ p \in {"check", "flushsend"}
    <3>1. up' \in UpLocals /\ up'.at = p
      BY <1>1, <2>1, <2>2, PopInputParts
    <3>2. (up'.tb = TRUE /\ inq' = inq - 1) \/ (up'.tb = FALSE /\ inq' = inq)
      BY <1>1, <2>1, <2>2, PopInputParts
    <3>3. UpHolders'
      BY <2>2, <3>1 DEF UpHolders
    <3>4. inq' + UpHas' + Len(dspIn) = inq + UpHas + Len(dspIn)
      BY <1>1, <1>2, <3>1, <3>2, Holding
    <3> QED
      BY <1>2, <3>3, <3>4 DEF UpKeeps
  <2>3. CASE WaitInput(p) /\ p \in {"pop", "flushbuf"}
    <3>1. up' \in UpLocals /\ up'.at = p /\ up'.tb = FALSE /\ inq' = inq
      BY <2>1, <2>3, WaitInputParts
    <3> QED
      BY <1>1, <1>2, <2>3, <3>1, Holding DEF UpKeeps, UpHolders
  <2> QED
    BY <1>2, <2>2, <2>3
<1>3. CASE ChainPop
  <2>1. up.tb = FALSE
    BY <1>1, <1>3 DEF ChainPop, MayArrive, UpHolders
  <2>2. dspIn' = dspIn /\ (PopInput("check") \/ WaitInput("pop"))
    BY <1>3 DEF ChainPop
  <2> QED
    BY <1>2, <2>1, <2>2
<1>4. CASE ChainCheck
  <2>1. dspIn' = dspIn
    BY <1>4 DEF ChainCheck
  <2>2. up' \in UpLocals
    BY <1>1, <1>4, ChainCheckParts
  <2>3. \/ /\ up'.at = "idle" /\ up'.tb = FALSE
           /\ (up.tb = TRUE /\ inq' = inq + 1) \/ (up.tb = FALSE /\ inq' = inq)
        \/ /\ up'.at = "store" /\ up'.tb = TRUE /\ up.tb = TRUE /\ inq' = inq
        \/ /\ up'.at = "crash" /\ up'.tb = FALSE /\ up.tb = FALSE /\ inq' = inq
    BY <1>1, <1>4, ChainCheckParts
  <2>4. UpHolders'
    BY <2>3 DEF UpHolders
  <2>5. inq' + UpHas' + Len(dspIn) = inq + UpHas + Len(dspIn)
    BY <1>1, <2>2, <2>3, Holding
  <2> QED
    BY <2>1, <2>4, <2>5 DEF UpKeeps
<1>5. CASE ChainStore
  <2>1. inq' = inq /\ dspIn' = dspIn
    BY <1>5 DEF ChainStore
  <2>2. up' \in UpLocals /\ up'.at = "send" /\ up'.tb = TRUE /\ up.tb = TRUE
    BY <1>1, <1>5, ChainStoreParts DEF UpHolders
  <2> QED
    BY <1>1, <2>1, <2>2, Holding DEF UpKeeps, UpHolders
<1>6. CASE ChainSend
  <2>1. inq' = inq /\ Len(dspIn') = Len(dspIn) + 1
    BY <1>1, <1>6 DEF ChainSend
  <2>2. up' \in UpLocals /\ up'.at = "idle" /\ up'.tb = FALSE /\ up.tb = TRUE
    BY <1>1, <1>6, ChainSendParts DEF UpHolders
  <2> QED
    BY <1>1, <2>1, <2>2, Holding DEF UpKeeps, UpHolders
<1>7. CASE SerializedEvent
  BY <1>7 DEF SerializedEvent, UpKeeps, UpHolders, UpHas
<1>8. CASE EosArrives
  <2>1. inq' = inq /\ dspIn' = dspIn
    BY <1>8 DEF EosArrives
  <2>2. up' \in UpLocals /\ up'.at \in {"clock", "eos"} /\ up'.tb = FALSE /\ up.tb = FALSE
    BY <1>1, <1>8, EosArrivesParts DEF UpHolders
  <2> QED
    BY <1>1, <2>1, <2>2, Holding DEF UpKeeps, UpHolders
<1>9. CASE EosNow
  <2>1. inq' = inq /\ dspIn' = dspIn
    BY <1>9 DEF EosNow
  <2>2. up' \in UpLocals /\ up'.at = "idle" /\ up'.tb = FALSE /\ up.tb = FALSE
    BY <1>1, <1>9, EosNowParts DEF UpHolders
  <2> QED
    BY <1>1, <2>1, <2>2, Holding DEF UpKeeps, UpHolders
<1>10. CASE EosClock
  <2>1. inq' = inq /\ dspIn' = dspIn
    BY <1>10 DEF EosClock
  <2>2. up' \in UpLocals /\ up'.at \in {"flushbuf", "idle"} /\ up'.tb = FALSE /\ up.tb = FALSE
    BY <1>1, <1>10, EosClockParts DEF UpHolders
  <2> QED
    BY <1>1, <2>1, <2>2, Holding DEF UpKeeps, UpHolders
<1>11. CASE FlushBufferPop
  <2>1. up.tb = FALSE
    BY <1>1, <1>11 DEF FlushBufferPop, UpHolders
  <2>2. dspIn' = dspIn /\ (PopInput("flushsend") \/ WaitInput("flushbuf"))
    BY <1>11 DEF FlushBufferPop
  <2> QED
    BY <1>2, <2>1, <2>2
<1>12. CASE FlushBufferSend
  <2>1. inq' = inq
    BY <1>12 DEF FlushBufferSend
  <2>2. up' \in UpLocals /\ up'.at = "idle" /\ up'.tb = FALSE
    BY <1>1, <1>12, FlushBufferSendParts
  <2>3. \/ up.tb = TRUE /\ dspIn' = Append(dspIn, NoFrame)
        \/ up.tb = FALSE /\ dspIn' = dspIn
    BY <1>1, <1>12, FlushBufferSendParts
  <2>4. \/ up.tb = TRUE /\ Len(dspIn') = Len(dspIn) + 1
        \/ up.tb = FALSE /\ Len(dspIn') = Len(dspIn)
    BY <1>1, <2>3
  <2>5. inq + UpHas' + Len(dspIn') = inq + UpHas + Len(dspIn)
    BY <1>1, <2>2, <2>4, Holding
  <2> QED
    BY <2>1, <2>2, <2>5 DEF UpKeeps, UpHolders
<1> QED
  BY <1>3, <1>4, <1>5, <1>6, <1>7, <1>8, <1>9, <1>10, <1>11, <1>12 DEF Up

(* loop: the output buffers *)
LoopKeepsTotal ==
  Len(outq') + LoopHas' + dspFree' + lent' = Len(outq) + LoopHas + dspFree + lent
LoopKeepsBuffer == LoopHolders' /\ LoopKeepsTotal

(* the steps that hand no buffer on *)
LEMMA SameBuffer ==
  ASSUME UNCHANGED <<outq, dspFree, lent>>, loop'.tb.kind = loop.tb.kind
  PROVE  LoopKeepsTotal
BY LoopHolding DEF LoopKeepsTotal

LEMMA LoopKeepsBuffers ==
  ASSUME Shapes, LoopHolders, Loop
  PROVE  LoopKeepsBuffer
<1> USE DEF selfVars, queueVars, dspVars, padVars, histVars, loopKeeps
<1>1. /\ loop \in LoopLocals /\ outq \in Seq(Buffer) /\ status \in Flow
      /\ RingTypeOK /\ deferred_eos \in BOOLEAN /\ loop.tb \in Buffer \cup {NoBuffer}
      /\ Len(outq) \in Nat /\ dspFree \in Nat /\ lent \in Nat
  BY DEF Shapes, LoopLocals
<1>2. CASE LoopPop
  <2>1. loop.tb.kind = "none" /\ UNCHANGED <<dspFree, lent>>
    BY <1>2 DEF LoopPop, LoopHolders
  <2>2. CASE /\ outq # <<>> /\ outq' = Tail(outq)
             /\ loop'.at = "check" /\ loop'.tb \in Buffer
    <3>1. Len(outq') = Len(outq) - 1
      BY <1>1, <2>2, HeadAndTail
    <3>2. loop'.tb.kind # "none"
      BY <2>2, BufferKinds
    <3>3. LoopKeepsTotal
      BY <1>1, <2>1, <3>1, <3>2, LoopHolding DEF LoopKeepsTotal
    <3> QED
      BY <2>2, <3>2, <3>3 DEF LoopKeepsBuffer, LoopHolders
  <2>3. CASE outq' = outq /\ loop'.at \in {"null", "pop"} /\ loop'.tb = loop.tb
    BY <2>1, <2>3, SameBuffer DEF LoopKeepsBuffer, LoopHolders
  <2> QED
    BY <1>1, <1>2, <2>2, <2>3, LoopPopParts
<1>3. CASE LoopNull
  <2>1. loop.tb.kind = "none" /\ UNCHANGED <<outq, dspFree, lent>>
    BY <1>3 DEF LoopNull, LoopHolders
  <2>2. loop'.at \in {"out", "pause"} /\ loop'.tb.kind = "none"
    BY <1>1, <1>3, <2>1, LoopNullParts, PassEndLocals
  <2> QED
    BY <2>1, <2>2, SameBuffer DEF LoopKeepsBuffer, LoopHolders
<1>4. CASE LoopCheck
  <2>1. loop.tb.kind # "none" /\ UNCHANGED <<outq, dspFree, lent>>
    BY <1>4 DEF LoopCheck, LoopHolders
  <2>2. loop'.at \in {"work", "pause"} /\ loop'.tb = loop.tb
    BY <1>1, <1>4, LoopCheckParts
  <2> QED
    BY <2>1, <2>2, SameBuffer DEF LoopKeepsBuffer, LoopHolders
<1>5. CASE LoopUnexpected
  <2>1. UNCHANGED <<outq, dspFree, lent>> /\ loop' = At("leave")
    BY <1>5 DEF LoopUnexpected
  <2>2. loop'.at = "leave" /\ loop'.tb = loop.tb
    BY <1>1, <2>1, LoopAtParts DEF LoopPlaces
  <2> QED
    BY <2>1, <2>2, SameBuffer DEF LoopKeepsBuffer, LoopHolders
<1>6. CASE LoopEvents
  <2>1. /\ UNCHANGED <<outq, dspFree, lent>> /\ loop' = At("data")
        /\ loop.tb.kind # "none"
    BY <1>6 DEF LoopEvents, LoopHolders
  <2>2. loop'.at = "data" /\ loop'.tb = loop.tb
    BY <1>1, <2>1, LoopAtParts DEF LoopPlaces
  <2> QED
    BY <2>1, <2>2, SameBuffer DEF LoopKeepsBuffer, LoopHolders
<1>7. CASE LoopRealloc
  <2>1. loop.tb.kind # "none" /\ UNCHANGED <<outq, lent>>
    BY <1>7 DEF LoopRealloc, LoopHolders
  <2>2. loop'.at = "out" /\ loop'.tb.kind = "none" /\ dspFree' = dspFree + 1
    BY <1>7, LoopReallocParts, PassEndLocals
  <2>3. LoopKeepsTotal
    BY <1>1, <2>1, <2>2, LoopHolding DEF LoopKeepsTotal
  <2> QED
    BY <2>2, <2>3 DEF LoopKeepsBuffer, LoopHolders
<1>8. CASE LoopEmpty
  <2>1. UNCHANGED <<outq, dspFree, lent>> /\ loop' = At("leave")
    BY <1>8 DEF LoopEmpty
  <2>2. loop'.at = "leave" /\ loop'.tb = loop.tb
    BY <1>1, <2>1, LoopAtParts DEF LoopPlaces
  <2> QED
    BY <2>1, <2>2, SameBuffer DEF LoopKeepsBuffer, LoopHolders
<1>9. CASE LoopSkip \/ LoopDrop
  <2>1. /\ UNCHANGED <<outq, dspFree, lent>>
        /\ loop' = [loop EXCEPT !.at = "leave", !.eos = LastBeforeEos]
    BY <1>9 DEF LoopSkip, LoopDrop
  <2>2. loop'.at = "leave" /\ loop'.tb = loop.tb
    BY <1>1, <2>1, LoopCountParts
  <2> QED
    BY <2>1, <2>2, SameBuffer DEF LoopKeepsBuffer, LoopHolders
<1>10. CASE LoopAlloc
  <2>1. loop.tb.kind # "none" /\ UNCHANGED <<dspFree, lent>>
    BY <1>10 DEF LoopAlloc, LoopHolders
  <2>2. CASE /\ outq' = Append(outq, loop.tb) /\ loop'.tb = NoBuffer /\ loop'.at = "pause"
    <3>1. Len(outq') = Len(outq) + 1 /\ loop'.tb.kind = "none"
      BY <1>1, <2>1, <2>2, QueuedBuffer, BufferKinds
    <3>2. LoopKeepsTotal
      BY <1>1, <2>1, <3>1, LoopHolding DEF LoopKeepsTotal
    <3> QED
      BY <2>2, <3>2 DEF LoopKeepsBuffer, LoopHolders
  <2>3. CASE /\ outq' = outq /\ loop'.tb.kind = loop.tb.kind
             /\ loop'.at \in {"hack", "take"}
    BY <2>1, <2>3, SameBuffer DEF LoopKeepsBuffer, LoopHolders
  <2> QED
    BY <1>1, <1>10, <2>1, <2>2, <2>3, LoopAllocParts
<1>11. CASE LoopHack \/ LoopPush
  <2>1. loop.tb.kind # "none" /\ UNCHANGED outq
    BY <1>11 DEF LoopHack, LoopPush, LoopHolders
  <2>2. GoesOn
    BY <1>1, <1>11, LoopHackParts, LoopPushParts
  <2>3. LoopKeepsTotal
    BY <1>1, <2>1, <2>2, LoopHolding, BufferKinds DEF GoesOn, LoopKeepsTotal
  <2> QED
    BY <2>2, <2>3 DEF GoesOn, LoopKeepsBuffer, LoopHolders
<1>12. CASE LoopTake
  <2>1. UNCHANGED <<outq, dspFree, lent>> /\ loop.tb.kind # "none"
    BY <1>12 DEF LoopTake, LoopHolders
  <2>2. loop'.at = "push" /\ loop'.tb = loop.tb
    BY <1>1, <1>12, LoopTakeParts
  <2> QED
    BY <2>1, <2>2, SameBuffer DEF LoopKeepsBuffer, LoopHolders
<1>13. CASE LoopEos
  <2>1. UNCHANGED <<outq, dspFree, lent>>
    BY <1>13 DEF LoopEos
  <2>2. /\ loop'.tb = loop.tb
        /\ (loop'.at = "keep" /\ loop.tb.kind # "none") \/ loop'.at = "leave"
    BY <1>1, <1>13, LoopEosParts
  <2> QED
    BY <2>1, <2>2, SameBuffer DEF LoopKeepsBuffer, LoopHolders
<1>14. CASE LoopKeep
  <2>1. loop.tb.kind # "none" /\ outq' = Append(outq, loop.tb) /\ UNCHANGED <<dspFree, lent>>
    BY <1>14 DEF LoopKeep, LoopHolders
  <2>2. loop'.at = "pause" /\ loop'.tb.kind = "none"
    BY <1>1, <1>14, LoopKeepParts, BufferKinds
  <2>3. Len(outq') = Len(outq) + 1
    BY <1>1, <2>1, QueuedBuffer
  <2>4. LoopKeepsTotal
    BY <1>1, <2>1, <2>2, <2>3, LoopHolding DEF LoopKeepsTotal
  <2> QED
    BY <2>2, <2>4 DEF LoopKeepsBuffer, LoopHolders
<1>15. CASE LoopLeave
  <2>1. UNCHANGED <<outq, lent>>
    BY <1>15 DEF LoopLeave
  <2>2. loop'.at \in {"out", "pause"} /\ loop'.tb.kind = "none"
    BY <1>1, <1>15, LoopLeaveParts, PassEndLocals, BufferKinds
  <2>3. \/ loop.tb.kind = "none" /\ dspFree' = dspFree
        \/ loop.tb.kind # "none" /\ dspFree' = dspFree + 1
    BY <1>1, <1>15, LoopLeaveParts
  <2>4. LoopKeepsTotal
    BY <1>1, <2>1, <2>2, <2>3, LoopHolding DEF LoopKeepsTotal
  <2> QED
    BY <2>2, <2>4 DEF LoopKeepsBuffer, LoopHolders
<1>16. CASE PauseSync
  <2>1. UNCHANGED <<outq, dspFree, lent>>
    BY <1>16 DEF PauseSync
  <2>2. loop'.at = "unlock" /\ loop'.tb = loop.tb
    BY <1>1, <1>16, PauseSyncParts
  <2> QED
    BY <2>1, <2>2, SameBuffer DEF LoopKeepsBuffer, LoopHolders
<1>17. CASE PauseUnlock
  <2>1. UNCHANGED <<outq, dspFree, lent>>
    BY <1>17 DEF PauseUnlock
  <2>2. loop'.at = "last" /\ loop'.tb = loop.tb
    BY <1>1, <1>17, PauseUnlockParts
  <2> QED
    BY <2>1, <2>2, SameBuffer DEF LoopKeepsBuffer, LoopHolders
<1>18. CASE PauseEos
  <2>1. UNCHANGED <<dspFree, lent>>
    BY <1>18 DEF PauseEos
  <2>2. CASE loop'.at = "pause" /\ loop'.tb = loop.tb /\ outq' = outq
    BY <2>1, <2>2, SameBuffer DEF LoopKeepsBuffer, LoopHolders
  <2>3. CASE loop' = PassEnd /\ loop.tb.kind = "none" /\ outq' = outq
    BY <2>1, <2>3, SameBuffer, PassEndLocals DEF LoopKeepsBuffer, LoopHolders
  <2>4. CASE loop' = PassEnd /\ loop.tb.kind # "none" /\ outq' = Append(outq, loop.tb)
    <3>1. Len(outq') = Len(outq) + 1 /\ loop'.tb.kind = "none" /\ loop'.at = "out"
      BY <1>1, <2>4, QueuedBuffer, PassEndLocals
    <3>2. LoopKeepsTotal
      BY <1>1, <2>1, <2>4, <3>1, LoopHolding DEF LoopKeepsTotal
    <3> QED
      BY <3>1, <3>2 DEF LoopKeepsBuffer, LoopHolders
  <2> QED
    BY <1>1, <1>18, <2>2, <2>3, <2>4, PauseEosParts
<1> QED
  BY <1>2, <1>3, <1>4, <1>5, <1>6, <1>7, <1>8, <1>9, <1>10, <1>11, <1>12, <1>13,
     <1>14, <1>15, <1>16, <1>17, <1>18 DEF Loop

(* A thread that another one wakes holds what it held. *)
LEMMA UpStays ==
  ASSUME up \in UpLocals, up' = up \/ up' = Signalled(up), UpHolders
  PROVE  UpHolders' /\ UpHas' = UpHas
<1>1. up'.at = up.at /\ up'.tb = up.tb
  BY SignalledUp
<1> QED
  BY <1>1 DEF UpHolders, UpHas

LEMMA LoopStays ==
  ASSUME loop \in LoopLocals, loop' = loop \/ loop' = Signalled(loop), LoopHolders
  PROVE  LoopHolders' /\ LoopHas' = LoopHas
<1>1. loop'.at = loop.at /\ loop'.tb = loop.tb
  BY SignalledLoop
<1> QED
  BY <1>1 DEF LoopHolders, LoopHas

KeptInv == Shapes /\ UpHolders /\ LoopHolders /\ BuffersKept

LEMMA KeptStart == Init => KeptInv
<1> SUFFICES ASSUME Init PROVE KeptInv
  OBVIOUS
<1>1. Shapes
  BY ShapesStart
<1>2. /\ up.at = "idle" /\ up.tb = FALSE /\ loop.at = "out" /\ loop.tb.kind = "none"
      /\ Len(outq) = 0 /\ lent = 0 /\ dspFree = OutBufs
  BY DEF Init, NoBuffer
<1>3. inq + Len(dspIn) = InBufs
  <2>1. CASE CodecData
    BY <2>1, Constants DEF Init
  <2>2. CASE ~CodecData
    BY <2>2, Constants DEF Init
  <2> QED
    BY <2>1, <2>2
<1>4. BuffersKept
  <2>1. UpHas = 0 /\ LoopHas = 0
    BY <1>2 DEF UpHas, LoopHas
  <2>2. inq \in Nat /\ Len(dspIn) \in Nat
    BY <1>1 DEF Shapes
  <2> QED
    BY <1>2, <1>3, <2>1, <2>2, Constants DEF BuffersKept
<1> QED
  BY <1>1, <1>2, <1>4 DEF KeptInv, UpHolders, LoopHolders

LEMMA KeptStep == KeptInv /\ [Next]_vars => KeptInv'
<1> SUFFICES ASSUME KeptInv, [Next]_vars PROVE KeptInv'
  OBVIOUS
<1> USE DEF selfVars, queueVars, dspVars, padVars, histVars
<1>1. /\ Shapes /\ UpHolders /\ LoopHolders /\ BuffersKept
      /\ up \in UpLocals /\ loop \in LoopLocals /\ inq \in Nat /\ outq \in Seq(Buffer)
      /\ dspIn \in Seq(Codec .. MaxArrivals)
      /\ Len(dspIn) \in Nat /\ Len(outq) \in Nat /\ dspFree \in Nat /\ lent \in Nat
      /\ UpHas \in {0, 1} /\ LoopHas \in {0, 1}
  BY DEF KeptInv, Shapes, UpHas, LoopHas
<1>2. ASSUME up' = up \/ up' = Signalled(up), loop' = loop \/ loop' = Signalled(loop),
             inq' + Len(dspIn') = inq + Len(dspIn),
             Len(outq') + dspFree' + lent' = Len(outq) + dspFree + lent,
             Shapes'
      PROVE  KeptInv'
  <2>1. UpHolders' /\ UpHas' = UpHas /\ LoopHolders' /\ LoopHas' = LoopHas
    BY <1>1, <1>2, UpStays, LoopStays
  <2>2. /\ inq' \in Nat /\ Len(dspIn') \in Nat /\ Len(outq') \in Nat
        /\ dspFree' \in Nat /\ lent' \in Nat
    <3>1. Shapes'
      BY <1>2
    <3>2. /\ inq' \in Nat /\ dspIn' \in Seq(Codec .. MaxArrivals) /\ outq' \in Seq(Buffer)
          /\ dspFree' \in Nat /\ lent' \in Nat
      BY <3>1, Zenon DEF Shapes
    <3> QED
      BY <3>2
  <2>3. inq' + UpHas + Len(dspIn') = inq + UpHas + Len(dspIn)
    <3>1. inq' + Len(dspIn') = inq + Len(dspIn)
      BY <1>2
    <3>2. /\ inq \in Nat /\ Len(dspIn) \in Nat /\ UpHas \in {0, 1}
          /\ inq' \in Nat /\ Len(dspIn') \in Nat
      BY <1>1, <2>2
    <3> QED
      BY <3>1, <3>2
  <2>4. Len(outq') + LoopHas + dspFree' + lent' = Len(outq) + LoopHas + dspFree + lent
    <3>1. Len(outq') + dspFree' + lent' = Len(outq) + dspFree + lent
      BY <1>2
    <3>2. /\ Len(outq) \in Nat /\ dspFree \in Nat /\ lent \in Nat /\ LoopHas \in {0, 1}
          /\ Len(outq') \in Nat /\ dspFree' \in Nat /\ lent' \in Nat
      BY <1>1, <2>2
    <3>3. CASE LoopHas = 0
      BY <3>1, <3>2, <3>3
    <3>4. CASE LoopHas = 1
      BY <3>1, <3>2, <3>4
    <3> QED
      BY <3>2, <3>3, <3>4
  <2>5. BuffersKept'
    BY <1>1, <2>1, <2>3, <2>4 DEF BuffersKept
  <2> QED
    BY <1>2, <2>1, <2>5 DEF KeptInv
<1>3. CASE Up
  <2>1. Shapes' /\ UpKeeps
    BY <1>1, <1>3, UpShapes, UpKeepsBuffers
  <2>2. UNCHANGED <<loop, outq, dspFree, lent>>
    BY <1>3 DEF Up, ChainPop, ChainCheck, ChainStore, ChainSend, SerializedEvent,
                EosArrives, EosNow, EosClock, FlushBufferPop, FlushBufferSend
  <2>3. LoopHolders' /\ LoopHas' = LoopHas
    BY <1>1, <2>2, LoopStays
  <2>4. BuffersKept'
    BY <1>1, <2>1, <2>2, <2>3 DEF BuffersKept, UpKeeps
  <2> QED
    BY <2>1, <2>3, <2>4 DEF KeptInv, UpKeeps
<1>4. CASE Loop
  <2>1. Shapes' /\ LoopKeepsBuffer
    BY <1>1, <1>4, LoopShapes, LoopKeepsBuffers
  <2>2. UNCHANGED <<inq, dspIn>> /\ (up' = up \/ up' = Signalled(up))
    BY <1>4 DEF Loop, LoopPop, LoopNull, LoopCheck, LoopUnexpected, LoopEvents,
                LoopRealloc, LoopEmpty, LoopSkip, LoopDrop, LoopAlloc, LoopHack,
                LoopTake, LoopPush, LoopEos, LoopKeep, LoopLeave, PauseSync,
                PauseUnlock, PauseEos, loopKeeps
  <2>3. UpHolders' /\ UpHas' = UpHas
    BY <1>1, <2>2, UpStays
  <2>4. BuffersKept'
    BY <1>1, <2>1, <2>2, <2>3 DEF BuffersKept, LoopKeepsBuffer, LoopKeepsTotal
  <2> QED
    BY <2>1, <2>3, <2>4 DEF KeptInv, LoopKeepsBuffer
<1>5. CASE App
  <2>1. Shapes'
    BY <1>1, <1>5, AppShapes
  <2>2. /\ up' = up \/ up' = Signalled(up)
        /\ loop' = loop \/ loop' = Signalled(loop)
        /\ UNCHANGED <<inq, dspIn, outq, dspFree, lent>>
    BY <1>5 DEF App, FlushStart, FlushStartStatus, FlushStartUnlock, FlushStartPause,
                FlushStop, FlushStopMark, FlushStopStatus, FlushStopStart
  <2> QED
    BY <1>1, <1>2, <2>1, <2>2
<1>6. CASE Dsp
  <2>1. Shapes'
    BY <1>1, <1>6, DspShapes
  <2>2. CASE DspInput
    <3>1. Len(dspIn') = Len(dspIn) - 1
      BY <1>1, <2>2, HeadAndTail DEF DspInput
    <3>2. inq' = inq + 1 /\ up' = Signalled(up) /\ UNCHANGED <<loop, outq, dspFree, lent>>
      BY <2>2 DEF DspInput, PutInput
    <3> QED
      BY <1>1, <1>2, <2>1, <3>1, <3>2
  <2>3. CASE DspOutput \/ DspHeader
    <3>1. Len(outq') = Len(outq) + 1 /\ loop' = Signalled(loop)
      BY <1>1, <2>3, DspOutputParts, DspHeaderParts, PutOutputParts DEF PutOutput
    <3>2. dspFree' = dspFree - 1 /\ UNCHANGED <<up, inq, dspIn, lent>>
      BY <2>3 DEF DspOutput, DspHeader
    <3> QED
      BY <1>1, <1>2, <2>1, <3>1, <3>2
  <2>4. CASE DspLose \/ DspError \/ DspErrorUnlock \/ EosTimeout \/ EosTimeoutUnlock
    <3>1. /\ up' = up \/ up' = Signalled(up)
          /\ loop' = loop \/ loop' = Signalled(loop)
          /\ UNCHANGED <<inq, dspIn, outq, dspFree, lent>>
      BY <2>4 DEF DspLose, DspError, DspErrorUnlock, EosTimeout, EosTimeoutUnlock
    <3> QED
      BY <1>1, <1>2, <2>1, <3>1
  <2> QED
    BY <1>6, <2>2, <2>3, <2>4 DEF Dsp
<1>7. CASE Release
  <2>1. Shapes'
    BY <1>1, <1>7, OtherShapes
  <2>2. /\ lent' = lent - 1 /\ dspFree' = dspFree + 1
        /\ UNCHANGED <<up, loop, inq, dspIn, outq>>
    BY <1>7 DEF Release
  <2> QED
    BY <1>1, <1>2, <2>1, <2>2
<1>8. CASE SpuriousWakeup \/ UNCHANGED vars
  <2>1. Shapes'
    BY <1>1, <1>8, OtherShapes
  <2>2. /\ up' = up \/ up' = Signalled(up)
        /\ loop' = loop \/ loop' = Signalled(loop)
        /\ UNCHANGED <<inq, dspIn, outq, dspFree, lent>>
    BY <1>8 DEF SpuriousWakeup, vars
  <2> QED
    BY <1>1, <1>2, <2>1, <2>2
<1> QED
  BY <1>3, <1>4, <1>5, <1>6, <1>7, <1>8 DEF Next

(* No buffer is lost and none is in two places, whatever the numbers of     *)
(* buffers, frames and flushes: on every path of pad_chain, of output_loop  *)
(* with its nine ways to end a pass, and of the DSP thread, also when they  *)
(* fail, a buffer that was popped is sent, queued or put back once.         *)
THEOREM BaseBuffersKept == Spec => []BuffersKept
<1>1. KeptInv => BuffersKept
  BY DEF KeptInv
<1> QED
  BY KeptStart, KeptStep, <1>1, PTL DEF Spec

-----------------------------------------------------------------------------
(* What each thread leaves to the others *)
LEMMA UpFrame ==
  ASSUME Up
  PROVE  UNCHANGED <<status, inOn, loop, app, dsp, task>>
BY DEF Up, ChainPop, ChainCheck, ChainStore, ChainSend, SerializedEvent, EosArrives,
       EosNow, EosClock, FlushBufferPop, FlushBufferSend, PopInput, WaitInput,
       selfVars, queueVars, padVars

LEMMA OutputLoopFrame ==
  ASSUME Loop
  PROVE  UNCHANGED <<inq, eosUp, app, dsp>> /\ (up' = up \/ up' = Signalled(up))
BY DEF Loop, LoopPop, LoopNull, LoopCheck, LoopUnexpected, LoopEvents, LoopRealloc,
       LoopEmpty, LoopSkip, LoopDrop, LoopAlloc, LoopHack, LoopTake, LoopPush, LoopEos,
       LoopKeep, LoopLeave, PauseSync, PauseUnlock, PauseEos, loopKeeps, queueVars

LEMMA DspFrame ==
  ASSUME Dsp
  PROVE  /\ UNCHANGED <<app, task, eosUp, eosDown, deferred_eos>>
         /\ up' = up \/ up' = Signalled(up)
         /\ loop' = loop \/ loop' = Signalled(loop)
BY DEF Dsp, DspInput, DspOutput, DspLose, DspHeader, DspError, DspErrorUnlock,
       EosTimeout, EosTimeoutUnlock, PutInput, PutOutput, dspKeeps, padVars, selfVars

-----------------------------------------------------------------------------
(* Quiet: what FLUSH_STOP has waited for stays so until it is done *)

(* A thread that is outside of the element needs the application, or the    *)
(* task, to let it in.                                                      *)
LEMMA UpComesIn ==
  ASSUME Up, up.at = "idle"
  PROVE  app = "idle"
BY DEF Up, ChainPop, ChainCheck, ChainStore, ChainSend, SerializedEvent, EosArrives,
       EosNow, EosClock, FlushBufferPop, FlushBufferSend, MayArrive

LEMMA LoopComesIn ==
  ASSUME Loop, loop.at = "out"
  PROVE  task = "started"
BY DEF Loop, LoopPop, LoopNull, LoopCheck, LoopUnexpected, LoopEvents, LoopRealloc,
       LoopEmpty, LoopSkip, LoopDrop, LoopAlloc, LoopHack, LoopTake, LoopPush, LoopEos,
       LoopKeep, LoopLeave, PauseSync, PauseUnlock, PauseEos

LEMMA LoopKeepsTask ==
  ASSUME Loop, task = "paused"
  PROVE  task' = "paused"
BY DEF Loop, LoopPop, LoopNull, LoopCheck, LoopUnexpected, LoopEvents, LoopRealloc,
       LoopEmpty, LoopSkip, LoopDrop, LoopAlloc, LoopHack, LoopTake, LoopPush, LoopEos,
       LoopKeep, LoopLeave, PauseSync, PauseUnlock, PauseEos, loopKeeps, padVars

LEMMA QuietStart == Init => Quiet
BY DEF Init, Quiet

LEMMA QuietStep ==
  ASSUME Shapes, Quiet, [Next]_vars
  PROVE  Quiet'
<1>1. up \in UpLocals /\ loop \in LoopLocals
  BY DEF Shapes
<1>2. ASSUME UNCHANGED <<app, task>>, up' = up \/ up' = Signalled(up),
             loop' = loop \/ loop' = Signalled(loop)
      PROVE  Quiet'
  <2>1. up'.at = up.at /\ loop'.at = loop.at
    BY <1>1, <1>2, SignalledUp, SignalledLoop
  <2> QED
    BY <1>2, <2>1 DEF Quiet
<1>3. CASE Up
  BY <1>3, UpFrame, UpComesIn DEF Quiet
<1>4. CASE Loop
  <2>1. app' = app /\ (app \in {"paused", "mark", "ok", "start"} => task' = "paused")
    BY <1>4, OutputLoopFrame, LoopKeepsTask DEF Quiet
  <2>2. ~(app \in {"mark", "ok", "start"})
    BY <1>4, LoopComesIn DEF Quiet
  <2> QED
    BY <2>1, <2>2 DEF Quiet
<1>5. CASE App
  <2>1. CASE FlushStart
    BY <2>1 DEF FlushStart, Quiet
  <2>2. CASE FlushStartStatus
    BY <2>2 DEF FlushStartStatus, Quiet
  <2>3. CASE FlushStartUnlock
    BY <2>3 DEF FlushStartUnlock, Quiet
  <2>4. CASE FlushStartPause
    BY <2>4 DEF FlushStartPause, Quiet
  <2>5. CASE FlushStop
    BY <2>5 DEF FlushStop, Quiet
  <2>6. CASE FlushStopMark
    BY <2>6 DEF FlushStopMark, Quiet, padVars
  <2>7. CASE FlushStopStatus
    BY <2>7 DEF FlushStopStatus, Quiet, padVars
  <2>8. CASE FlushStopStart
    BY <2>8 DEF FlushStopStart, Quiet
  <2> QED
    BY <1>5, <2>1, <2>2, <2>3, <2>4, <2>5, <2>6, <2>7, <2>8 DEF App
<1>6. CASE Dsp
  BY <1>2, <1>6, DspFrame
<1>7. CASE Release \/ SpuriousWakeup \/ UNCHANGED vars
  BY <1>2, <1>7 DEF Release, SpuriousWakeup, vars, padVars
<1> QED
  BY <1>3, <1>4, <1>5, <1>6, <1>7 DEF Next

-----------------------------------------------------------------------------
(* EosOnce *)

(* The pass of output_loop that is under way, as long as it has no part in  *)
(* sending EOS                                                              *)
LoopPlain ==
  /\ loop.at \notin {"unlock", "last"} /\ loop'.at \notin {"unlock", "last"}
  /\ LoopEosPlaces'
  /\ UNCHANGED <<deferred_eos, eosDown>>

LEMMA PlainPasses ==
  ASSUME Shapes, LoopHolders, LoopEosPlaces, Loop
  PROVE  LoopPlain \/ LoopEos \/ PauseSync \/ PauseUnlock \/ PauseEos
<1> USE DEF selfVars, histVars
<1>1. /\ loop \in LoopLocals /\ outq \in Seq(Buffer) /\ status \in Flow /\ RingTypeOK
      /\ loop.eos = TRUE \/ loop.eos = FALSE
  BY DEF Shapes, LoopLocals
<1>2. CASE LoopPop
  <2>1. loop.at \in {"out", "pop"} /\ UNCHANGED <<deferred_eos, eosDown>>
    BY <1>2 DEF LoopPop
  <2>2. loop'.at \in {"check", "null", "pop"} /\ loop'.eos = loop.eos
    BY <1>1, <1>2, LoopPopParts
  <2> QED
    BY <1>1, <2>1, <2>2 DEF LoopPlain, LoopEosPlaces
<1>3. CASE LoopNull
  <2>1. UNCHANGED <<deferred_eos, eosDown>>
    BY <1>3 DEF LoopNull
  <2>2. loop.at = "null" /\ ((loop'.at = "out" /\ loop'.eos = FALSE) \/ loop'.at = "pause")
    BY <1>1, <1>3, LoopNullParts, PassEndLocals
  <2> QED
    BY <2>1, <2>2 DEF LoopPlain, LoopEosPlaces
<1>4. CASE LoopCheck
  <2>1. UNCHANGED <<deferred_eos, eosDown>>
    BY <1>4 DEF LoopCheck
  <2>2. loop.at = "check" /\ loop'.at \in {"work", "pause"} /\ loop'.eos = loop.eos
    BY <1>1, <1>4, LoopCheckParts
  <2> QED
    BY <1>1, <2>1, <2>2 DEF LoopPlain, LoopEosPlaces
<1>5. CASE LoopUnexpected \/ LoopEvents \/ LoopEmpty
  <2>1. /\ UNCHANGED <<deferred_eos, eosDown>> /\ loop.at \in {"work", "data"}
        /\ loop' = At("leave") \/ loop' = At("data")
    BY <1>5 DEF LoopUnexpected, LoopEvents, LoopEmpty
  <2>2. loop'.at \in {"leave", "data"} /\ loop'.eos = loop.eos
    BY <1>1, <2>1, LoopAtParts DEF LoopPlaces
  <2> QED
    BY <1>1, <2>1, <2>2 DEF LoopPlain, LoopEosPlaces
<1>6. CASE LoopRealloc
  <2>1. UNCHANGED <<deferred_eos, eosDown>>
    BY <1>6 DEF LoopRealloc
  <2>2. loop.at = "data" /\ loop'.at = "out" /\ loop'.eos = FALSE
    BY <1>6, LoopReallocParts, PassEndLocals
  <2> QED
    BY <2>1, <2>2 DEF LoopPlain, LoopEosPlaces
<1>7. CASE LoopSkip \/ LoopDrop
  <2>1. /\ UNCHANGED <<deferred_eos, eosDown>> /\ loop.at = "data"
        /\ loop' = [loop EXCEPT !.at = "leave", !.eos = LastBeforeEos]
    BY <1>7 DEF LoopSkip, LoopDrop
  <2>2. loop'.at = "leave" /\ (loop'.eos => deferred_eos)
    BY <1>1, <2>1, LoopCountParts
  <2> QED
    BY <2>1, <2>2 DEF LoopPlain, LoopEosPlaces
<1>8. CASE LoopAlloc
  <2>1. UNCHANGED <<deferred_eos, eosDown>> /\ loop.at = "data" /\ loop.tb.kind # "none"
    BY <1>8 DEF LoopAlloc, LoopHolders
  <2>2. loop'.at \in {"pause", "hack", "take"} /\ loop'.eos = loop.eos
    BY <1>1, <1>8, <2>1, LoopAllocParts
  <2> QED
    BY <1>1, <2>1, <2>2 DEF LoopPlain, LoopEosPlaces
<1>9. CASE LoopHack \/ LoopPush
  <2>1. UNCHANGED <<deferred_eos, eosDown>> /\ loop.at \in {"hack", "push"}
    BY <1>9 DEF LoopHack, LoopPush
  <2>2. loop'.at = "leave" /\ loop'.eos = loop.eos
    BY <1>1, <1>9, LoopHackParts, LoopPushParts DEF GoesOn
  <2> QED
    BY <1>1, <2>1, <2>2 DEF LoopPlain, LoopEosPlaces
<1>10. CASE LoopTake
  <2>1. UNCHANGED <<deferred_eos, eosDown>>
    BY <1>10 DEF LoopTake
  <2>2. loop.at = "take" /\ loop'.at = "push" /\ (loop'.eos => deferred_eos)
    BY <1>1, <1>10, LoopTakeParts
  <2> QED
    BY <2>1, <2>2 DEF LoopPlain, LoopEosPlaces
<1>11. CASE LoopKeep
  <2>1. UNCHANGED <<deferred_eos, eosDown>>
    BY <1>11 DEF LoopKeep
  <2>2. loop.at = "keep" /\ loop'.at = "pause"
    BY <1>1, <1>11, LoopKeepParts
  <2> QED
    BY <2>1, <2>2 DEF LoopPlain, LoopEosPlaces
<1>12. CASE LoopLeave
  <2>1. UNCHANGED <<deferred_eos, eosDown>>
    BY <1>12 DEF LoopLeave
  <2>2. loop.at = "leave" /\ loop'.at \in {"out", "pause"} /\ loop'.eos = FALSE
    BY <1>1, <1>12, LoopLeaveParts, PassEndLocals
  <2> QED
    BY <2>1, <2>2 DEF LoopPlain, LoopEosPlaces
<1> QED
  BY <1>2, <1>3, <1>4, <1>5, <1>6, <1>7, <1>8, <1>9, <1>10, <1>11, <1>12 DEF Loop

EosInv == LoopEosPlaces /\ EosPlaces /\ EosOnce

(* a step that has no part in sending EOS *)
LEMMA EosUntouched ==
  ASSUME EosInv, UNCHANGED <<deferred_eos, eosUp, eosDown, app>>,
         up \in UpLocals, up' = up \/ up' = Signalled(up),
         loop \in LoopLocals, loop' = loop \/ loop' = Signalled(loop)
  PROVE  EosInv'
<1>1. up'.at = up.at /\ loop'.at = loop.at /\ loop'.eos = loop.eos
  BY SignalledUp, SignalledLoop
<1> QED
  BY <1>1 DEF EosInv, LoopEosPlaces, EosPlaces, EosInLoop, EosOnce

LEMMA UpKeepsEos ==
  ASSUME Shapes, Quiet, EosInv, Up
  PROVE  EosInv'
<1> USE DEF selfVars, histVars
<1>1. up \in UpLocals /\ loop' = loop /\ app' = app /\ eosDown \in Nat
  BY UpFrame DEF Shapes
<1>2. ASSUME up.at # "eos", up'.at # "eos", UNCHANGED <<deferred_eos, eosUp, eosDown>>
      PROVE  EosInv'
  BY <1>1, <1>2 DEF EosInv, LoopEosPlaces, EosPlaces, EosInLoop, EosOnce
<1>3. CASE ChainPop
  <2>1. up.at \in {"idle", "pop"} /\ UNCHANGED <<deferred_eos, eosUp, eosDown>>
    BY <1>3 DEF ChainPop, MayArrive
  <2>2. "check" \in UpPlaces /\ "pop" \in UpPlaces /\ inq \in Nat
    BY DEF UpPlaces, Shapes
  <2>3. up'.at = "check" \/ up'.at = "pop"
    BY <1>1, <1>3, <2>2, PopInputParts, WaitInputParts DEF ChainPop
  <2> QED
    BY <1>2, <2>1, <2>3
<1>4. CASE ChainCheck
  <2>1. UNCHANGED <<deferred_eos, eosUp, eosDown>>
    BY <1>4 DEF ChainCheck
  <2>2. up.at = "check" /\ up'.at \in {"idle", "store", "crash"}
    BY <1>1, <1>4, ChainCheckParts DEF Shapes
  <2> QED
    BY <1>2, <2>1, <2>2
<1>5. CASE ChainStore
  <2>1. UNCHANGED <<deferred_eos, eosUp, eosDown>>
    BY <1>5 DEF ChainStore
  <2> QED
    BY <1>1, <1>2, <1>5, <2>1, ChainStoreParts
<1>6. CASE ChainSend
  <2>1. UNCHANGED <<deferred_eos, eosUp, eosDown>>
    BY <1>6 DEF ChainSend
  <2> QED
    BY <1>1, <1>2, <1>6, <2>1, ChainSendParts
<1>7. CASE SerializedEvent
  BY <1>2, <1>7 DEF SerializedEvent, MayArrive
<1>8. CASE EosArrives
  <2>1. /\ up'.at = "clock" \/ (up'.at = "eos" /\ deferred_eos' = FALSE)
        /\ ~eosUp
    BY <1>1, <1>8, EosArrivesParts
  <2>2. eosUp' = TRUE /\ eosDown' = eosDown
    BY <1>8 DEF EosArrives
  <2>3. eosDown = 0 /\ ~EosInLoop /\ ~deferred_eos
    BY <1>1, <2>1 DEF EosInv, EosPlaces
  <2>4. LoopEosPlaces'
    BY <1>1, <2>3 DEF EosInv, LoopEosPlaces
  <2>5. EosPlaces' /\ EosOnce'
    BY <1>1, <2>1, <2>2, <2>3 DEF EosPlaces, EosInLoop, EosOnce
  <2> QED
    BY <2>4, <2>5 DEF EosInv
<1>9. CASE EosNow
  <2>1. /\ up.at = "eos" /\ up'.at = "idle"
        /\ eosDown' = eosDown \/ eosDown' = eosDown + 1
    BY <1>1, <1>9, EosNowParts
  <2>2. UNCHANGED <<deferred_eos, eosUp>>
    BY <1>9 DEF EosNow
  <2>3. eosDown = 0 /\ eosUp /\ ~EosInLoop /\ ~deferred_eos /\ LoopEosPlaces
    BY <2>1 DEF EosInv, EosPlaces
  <2>4. app # "mark"
    BY <2>1 DEF Quiet
  <2>5. LoopEosPlaces'
    BY <1>1, <2>2, <2>3 DEF LoopEosPlaces
  <2>6. EosPlaces' /\ EosOnce'
    BY <1>1, <2>1, <2>2, <2>3, <2>4 DEF EosPlaces, EosInLoop, EosOnce
  <2> QED
    BY <2>5, <2>6 DEF EosInv
<1>10. CASE EosClock
  <2>1. UNCHANGED <<deferred_eos, eosUp, eosDown>>
    BY <1>10 DEF EosClock
  <2>2. up.at = "clock" /\ up'.at \in {"flushbuf", "idle"}
    BY <1>1, <1>10, EosClockParts
  <2> QED
    BY <1>2, <2>1, <2>2
<1>11. CASE FlushBufferPop
  <2>1. up.at = "flushbuf" /\ UNCHANGED <<deferred_eos, eosUp, eosDown>>
    BY <1>11 DEF FlushBufferPop
  <2>2. "flushsend" \in UpPlaces /\ "flushbuf" \in UpPlaces /\ inq \in Nat
    BY DEF UpPlaces, Shapes
  <2>3. up'.at = "flushsend" \/ up'.at = "flushbuf"
    BY <1>1, <1>11, <2>2, PopInputParts, WaitInputParts DEF FlushBufferPop
  <2> QED
    BY <1>2, <2>1, <2>3
<1>12. CASE FlushBufferSend
  <2>1. UNCHANGED <<deferred_eos, eosUp, eosDown>>
    BY <1>12 DEF FlushBufferSend
  <2> QED
    BY <1>1, <1>2, <1>12, <2>1, FlushBufferSendParts
<1> QED
  BY <1>3, <1>4, <1>5, <1>6, <1>7, <1>8, <1>9, <1>10, <1>11, <1>12 DEF Up

LEMMA LoopKeepsEos ==
  ASSUME Shapes, LoopHolders, Quiet, EosInv, Loop
  PROVE  EosInv'
<1>1. /\ up \in UpLocals /\ loop \in LoopLocals /\ eosDown \in Nat
      /\ deferred_eos \in BOOLEAN
  BY DEF Shapes
<1>2. up'.at = up.at /\ UNCHANGED <<eosUp, app>>
  BY <1>1, OutputLoopFrame, SignalledUp
<1>3. app # "mark"
  BY LoopComesIn DEF Quiet
<1>4. CASE LoopPlain
  BY <1>2, <1>4 DEF LoopPlain, EosInv, EosPlaces, EosInLoop, EosOnce
<1>5. CASE LoopEos
  <2>1. /\ loop'.eos = FALSE /\ deferred_eos' = FALSE
        /\ eosDown' = eosDown \/ eosDown' = eosDown + 1
    BY <1>1, <1>5, LoopEosParts DEF LoopEos
  <2>2. deferred_eos /\ eosDown = 0 /\ eosUp /\ up.at # "eos"
    BY <1>5 DEF LoopEos, EosInv, LoopEosPlaces, EosPlaces
  <2>3. LoopEosPlaces'
    BY <2>1 DEF LoopEosPlaces
  <2>4. EosPlaces' /\ EosOnce'
    BY <1>2, <1>3, <2>1, <2>2 DEF EosPlaces, EosInLoop, EosOnce
  <2> QED
    BY <2>3, <2>4 DEF EosInv
<1>6. CASE PauseSync
  <2>1. /\ loop.at = "pause" /\ loop'.at = "unlock" /\ loop'.eos = deferred_eos
        /\ deferred_eos' = FALSE
    BY <1>1, <1>6, PauseSyncParts
  <2>2. eosDown' = eosDown
    BY <1>6 DEF PauseSync
  <2>3. LoopEosPlaces'
    BY <2>1 DEF LoopEosPlaces
  <2>4. EosInLoop' => deferred_eos
    BY <2>1 DEF EosInLoop
  <2>5. EosPlaces' /\ EosOnce'
    BY <1>2, <1>3, <2>1, <2>2, <2>4 DEF EosInv, EosPlaces, EosOnce
  <2> QED
    BY <2>3, <2>5 DEF EosInv
<1>7. CASE PauseUnlock
  <2>1. loop.at = "unlock" /\ loop'.at = "last" /\ loop'.eos = loop.eos
    BY <1>1, <1>7, PauseUnlockParts
  <2>2. UNCHANGED <<eosDown, deferred_eos>>
    BY <1>7 DEF PauseUnlock, selfVars
  <2>3. LoopEosPlaces'
    BY <2>1 DEF LoopEosPlaces
  <2>4. EosInLoop' => EosInLoop
    BY <2>1 DEF EosInLoop
  <2>5. EosPlaces' /\ EosOnce'
    BY <1>2, <1>3, <2>2, <2>4 DEF EosInv, EosPlaces, EosOnce
  <2> QED
    BY <2>3, <2>5 DEF EosInv
<1>8. CASE PauseEos
  <2>1. /\ loop.at = "last"
        /\ loop'.at = "pause" \/ (loop'.at = "out" /\ loop'.eos = FALSE)
        /\ loop.eos => (eosDown' = eosDown \/ eosDown' = eosDown + 1)
        /\ ~loop.eos => eosDown' = eosDown
    BY <1>1, <1>8, PauseEosParts, PassEndLocals
  <2>2. deferred_eos' = deferred_eos
    BY <1>8 DEF PauseEos
  <2>3. LoopEosPlaces'
    BY <2>1 DEF LoopEosPlaces
  <2>4. ~EosInLoop'
    BY <2>1 DEF EosInLoop
  <2>5. CASE loop.eos
    <3>1. EosInLoop
      BY <2>1, <2>5 DEF EosInLoop
    <3>2. eosDown = 0 /\ eosUp /\ ~deferred_eos /\ up.at # "eos"
      BY <3>1 DEF EosInv, EosPlaces
    <3>3. EosPlaces' /\ EosOnce'
      BY <1>2, <1>3, <2>1, <2>2, <2>4, <2>5, <3>2 DEF EosPlaces, EosOnce
    <3> QED
      BY <2>3, <3>3 DEF EosInv
  <2>6. CASE ~loop.eos
    <3>1. eosDown' = eosDown
      BY <2>1, <2>6
    <3>2. EosPlaces' /\ EosOnce'
      BY <1>2, <1>3, <2>2, <2>4, <3>1 DEF EosInv, EosPlaces, EosOnce
    <3> QED
      BY <2>3, <3>2 DEF EosInv
  <2> QED
    BY <2>5, <2>6
<1> QED
  BY <1>4, <1>5, <1>6, <1>7, <1>8, PlainPasses DEF EosInv

LEMMA AppKeepsEos ==
  ASSUME Shapes, Quiet, EosInv, App
  PROVE  EosInv'
<1> USE DEF selfVars, histVars
<1>1. up \in UpLocals /\ loop \in LoopLocals
  BY DEF Shapes
<1>2. ASSUME UNCHANGED <<deferred_eos, eosUp, eosDown>>, app' # "mark",
             up' = up \/ up' = Signalled(up), loop' = loop \/ loop' = Signalled(loop)
      PROVE  EosInv'
  <2>1. up'.at = up.at /\ loop'.at = loop.at /\ loop'.eos = loop.eos
    BY <1>1, <1>2, SignalledUp, SignalledLoop
  <2> QED
    BY <1>2, <2>1 DEF EosInv, LoopEosPlaces, EosPlaces, EosInLoop, EosOnce
<1>3. CASE FlushStart
  BY <1>2, <1>3 DEF FlushStart
<1>4. CASE FlushStartStatus
  BY <1>2, <1>4 DEF FlushStartStatus
<1>5. CASE FlushStartUnlock
  BY <1>2, <1>5 DEF FlushStartUnlock
<1>6. CASE FlushStartPause
  BY <1>2, <1>6 DEF FlushStartPause
<1>7. CASE FlushStop
  <2>1. /\ up.at = "idle" /\ loop.at = "out" /\ UNCHANGED <<deferred_eos, eosUp, up, loop>>
        /\ eosDown' = 0
    BY <1>7 DEF FlushStop
  <2> QED
    BY <2>1 DEF EosInv, LoopEosPlaces, EosPlaces, EosInLoop, EosOnce
<1>8. CASE FlushStopMark
  <2>1. /\ app = "mark" /\ app' = "ok" /\ deferred_eos' = FALSE
        /\ UNCHANGED <<eosDown, up, loop>>
    BY <1>8 DEF FlushStopMark
  <2>2. up.at = "idle" /\ loop.at = "out" /\ eosDown = 0
    BY <2>1 DEF Quiet, EosInv, EosPlaces
  <2> QED
    BY <2>1, <2>2 DEF EosInv, LoopEosPlaces, EosPlaces, EosInLoop, EosOnce
<1>9. CASE FlushStopStatus
  BY <1>2, <1>9 DEF FlushStopStatus
<1>10. CASE FlushStopStart
  BY <1>2, <1>10 DEF FlushStopStart
<1> QED
  BY <1>3, <1>4, <1>5, <1>6, <1>7, <1>8, <1>9, <1>10 DEF App

LEMMA EosStart == Init => EosInv
BY DEF Init, EosInv, LoopEosPlaces, EosPlaces, EosInLoop, EosOnce

LEMMA EosStep ==
  ASSUME KeptInv, Quiet, EosInv, [Next]_vars
  PROVE  EosInv'
<1>1. Shapes /\ LoopHolders /\ up \in UpLocals /\ loop \in LoopLocals
  BY DEF KeptInv, Shapes
<1>2. CASE Dsp
  BY <1>1, <1>2, DspFrame, EosUntouched
<1>3. CASE Release \/ SpuriousWakeup \/ UNCHANGED vars
  <2>1. /\ UNCHANGED <<deferred_eos, eosUp, eosDown, app>>
        /\ up' = up \/ up' = Signalled(up)
        /\ loop' = loop \/ loop' = Signalled(loop)
    BY <1>3 DEF Release, SpuriousWakeup, vars, selfVars, histVars
  <2> QED
    BY <1>1, <2>1, EosUntouched
<1> QED
  BY <1>1, <1>2, <1>3, UpKeepsEos, LoopKeepsEos, AppKeepsEos DEF Next

(* One EOS at most goes downstream between two flushes, in every element    *)
(* and whatever fails: of sink_event, the end of a pass of output_loop and  *)
(* pause_task, the one that finds deferred_eos set takes it away from the   *)
(* others, and FLUSH_STOP waits for the pass that may still have it.        *)
THEOREM BaseEosOnce == Spec => []EosOnce
<1> DEFINE Inv == KeptInv /\ Quiet /\ EosInv
<1>1. Init => Inv
  BY KeptStart, QuietStart, EosStart
<1>2. Inv /\ [Next]_vars => Inv'
  <2> SUFFICES ASSUME Inv, [Next]_vars PROVE Inv'
    OBVIOUS
  <2>1. Shapes
    BY DEF KeptInv
  <2> QED
    BY <2>1, KeptStep, QuietStep, EosStep
<1>3. Inv => EosOnce
  BY DEF EosInv
<1> HIDE DEF Inv
<1> QED
  BY <1>1, <1>2, <1>3, PTL DEF Spec

-----------------------------------------------------------------------------
(* NoNullBuffer *)

StatusInv == UpDisabled /\ LoopDisabled /\ Disabled /\ NoNullBuffer

LEMMA UpKeepsStatus ==
  ASSUME Shapes, Quiet, StatusInv, Up
  PROVE  StatusInv'
<1>1. /\ up \in UpLocals /\ inq \in Nat /\ up.wait \in Wait
      /\ up.tb = TRUE \/ up.tb = FALSE
  BY DEF Shapes, UpLocals
<1>2. UNCHANGED <<status, inOn, loop, app, dsp>>
  BY UpFrame
<1>3. ~inOn => status # "OK"
  BY UpComesIn DEF StatusInv, Disabled, Quiet
<1>4. UpDisabled /\ up.at # "crash"
  BY DEF StatusInv, NoNullBuffer
<1>5. ASSUME UpDisabled', up'.at # "crash"
      PROVE  StatusInv'
  BY <1>2, <1>5 DEF StatusInv, LoopDisabled, Disabled, NoNullBuffer
<1>6. ASSUME up'.at # "crash", up'.wait = "no", up'.at = "check" => up'.tb = TRUE
      PROVE  StatusInv'
  BY <1>5, <1>6 DEF UpDisabled
<1>7. ASSUME NEW p \in {"check", "flushsend"}, PopInput(p)
      PROVE  StatusInv'
  <2>1. p \in UpPlaces
    BY DEF UpPlaces
  <2>2. /\ up'.at = p /\ up'.wait = "no"
        /\ up'.tb = TRUE \/ ~inOn \/ (up.wait = "woken" /\ inq = 0)
    BY <1>1, <1>7, <2>1, PopInputParts
  <2>3. up'.tb = TRUE \/ status' # "OK"
    BY <1>2, <1>3, <1>4, <2>2 DEF UpDisabled
  <2> QED
    BY <1>5, <2>2, <2>3 DEF UpDisabled
<1>8. ASSUME NEW p \in {"pop", "flushbuf"}, WaitInput(p)
      PROVE  StatusInv'
  <2>1. p \in UpPlaces
    BY DEF UpPlaces
  <2>2. up'.at = p /\ up'.wait = "waiting"
    BY <1>8, <2>1, WaitInputParts
  <2> QED
    BY <1>5, <2>2 DEF UpDisabled
<1>9. CASE ChainPop
  BY <1>7, <1>8, <1>9 DEF ChainPop
<1>10. CASE ChainCheck
  <2>1. /\ up.at = "check" /\ up'.wait = up.wait
        /\ \/ up'.at = "idle"
           \/ up'.at = "store"
           \/ status = "OK" /\ up.tb = FALSE
    BY <1>1, <1>10, ChainCheckParts
  <2>2. up.wait = "no" /\ ~(status = "OK" /\ up.tb = FALSE)
    BY <1>4, <2>1 DEF UpDisabled
  <2> QED
    BY <1>6, <2>1, <2>2
<1>11. CASE ChainStore
  BY <1>1, <1>4, <1>6, <1>11, ChainStoreParts DEF UpDisabled
<1>12. CASE ChainSend
  BY <1>1, <1>4, <1>6, <1>12, ChainSendParts DEF UpDisabled
<1>13. CASE SerializedEvent
  <2>1. up' = up /\ up.at = "idle"
    BY <1>13 DEF SerializedEvent, MayArrive
  <2> QED
    BY <1>4, <1>6, <2>1 DEF UpDisabled
<1>14. CASE EosArrives
  BY <1>1, <1>4, <1>6, <1>14, EosArrivesParts DEF UpDisabled
<1>15. CASE EosNow
  BY <1>1, <1>4, <1>6, <1>15, EosNowParts DEF UpDisabled
<1>16. CASE EosClock
  BY <1>1, <1>4, <1>6, <1>16, EosClockParts DEF UpDisabled
<1>17. CASE FlushBufferPop
  BY <1>7, <1>8, <1>17 DEF FlushBufferPop
<1>18. CASE FlushBufferSend
  BY <1>1, <1>4, <1>6, <1>18, FlushBufferSendParts DEF UpDisabled
<1> QED
  BY <1>9, <1>10, <1>11, <1>12, <1>13, <1>14, <1>15, <1>16, <1>17, <1>18 DEF Up

(* Another thread wakes up only when the queue is disabled, with a status   *)
(* that says why, or when there is a buffer.                                *)
LEMMA WokenForReason ==
  ASSUME up \in UpLocals, UpDisabled, up' = up \/ up' = Signalled(up),
         status' = status \/ status' # "OK", inq' = inq,
         up' = up \/ status # "OK"
  PROVE  UpDisabled'
<1>1. up'.at = up.at /\ up'.tb = up.tb /\ (up'.wait = up.wait \/ up'.wait = "woken")
  BY SignalledUp
<1>2. up'.wait # "no" => up.wait # "no"
  BY SignalledUp
<1>3. up' = up \/ status' # "OK"
  OBVIOUS
<1> QED
  BY <1>1, <1>2, <1>3 DEF UpDisabled

LEMMA LoopKeepsRet ==
  ASSUME Shapes, LoopHolders, LoopDisabled, Loop
  PROVE  \/ LoopDisabled' /\ UNCHANGED <<status, inOn, up>>
         \/ PauseSync
         \/ PauseUnlock
<1> USE DEF selfVars, queueVars
<1>1. loop \in LoopLocals /\ outq \in Seq(Buffer) /\ status \in Flow /\ RingTypeOK
  BY DEF Shapes
<1>2. ASSUME loop'.at \notin {"keep", "pause", "unlock", "last"} \/ loop'.ret # "OK",
             loop'.at # "unlock"
      PROVE  LoopDisabled'
  BY <1>2 DEF LoopDisabled
<1>3. CASE LoopPop
  <2>1. UNCHANGED <<status, inOn, up>>
    BY <1>3 DEF LoopPop
  <2> QED
    BY <1>1, <1>2, <1>3, <2>1, LoopPopParts
<1>4. CASE LoopNull
  <2>1. UNCHANGED <<status, inOn, up>>
    BY <1>4 DEF LoopNull
  <2> QED
    BY <1>1, <1>2, <1>4, <2>1, LoopNullParts, PassEndLocals
<1>5. CASE LoopCheck
  <2>1. UNCHANGED <<status, inOn, up>>
    BY <1>5 DEF LoopCheck
  <2> QED
    BY <1>1, <1>2, <1>5, <2>1, LoopCheckParts
<1>6. CASE LoopUnexpected \/ LoopEvents \/ LoopEmpty
  <2>1. UNCHANGED <<status, inOn, up>> /\ (loop' = At("leave") \/ loop' = At("data"))
    BY <1>6 DEF LoopUnexpected, LoopEvents, LoopEmpty
  <2>2. loop'.at \in {"leave", "data"}
    BY <1>1, <2>1, LoopAtParts DEF LoopPlaces
  <2> QED
    BY <1>2, <2>1, <2>2
<1>7. CASE LoopRealloc
  <2>1. UNCHANGED <<status, inOn, up>>
    BY <1>7 DEF LoopRealloc
  <2> QED
    BY <1>2, <1>7, <2>1, LoopReallocParts, PassEndLocals
<1>8. CASE LoopSkip \/ LoopDrop
  <2>1. /\ UNCHANGED <<status, inOn, up>>
        /\ loop' = [loop EXCEPT !.at = "leave", !.eos = LastBeforeEos]
    BY <1>8 DEF LoopSkip, LoopDrop
  <2> QED
    BY <1>1, <1>2, <2>1, LoopCountParts
<1>9. CASE LoopAlloc
  <2>1. UNCHANGED <<status, inOn, up>> /\ loop.tb.kind # "none"
    BY <1>9 DEF LoopAlloc, LoopHolders
  <2>2. (loop'.at = "pause" /\ loop'.ret # "OK") \/ loop'.at \in {"hack", "take"}
    BY <1>1, <1>9, <2>1, LoopAllocParts
  <2> QED
    BY <1>2, <2>1, <2>2
<1>10. CASE LoopHack \/ LoopPush
  <2>1. UNCHANGED <<status, inOn, up>>
    BY <1>10 DEF LoopHack, LoopPush
  <2>2. loop'.at = "leave"
    BY <1>1, <1>10, LoopHackParts, LoopPushParts DEF GoesOn
  <2> QED
    BY <1>2, <2>1, <2>2
<1>11. CASE LoopTake
  <2>1. UNCHANGED <<status, inOn, up>>
    BY <1>11 DEF LoopTake
  <2> QED
    BY <1>1, <1>2, <1>11, <2>1, LoopTakeParts
<1>12. CASE LoopEos
  <2>1. UNCHANGED <<status, inOn, up>>
    BY <1>12 DEF LoopEos
  <2>2. loop'.ret # "OK" /\ loop'.at \in {"keep", "leave"}
    BY <1>1, <1>12, LoopEosParts
  <2> QED
    BY <1>2, <2>1, <2>2
<1>13. CASE LoopKeep
  <2>1. UNCHANGED <<status, inOn, up>>
    BY <1>13 DEF LoopKeep
  <2>2. loop.at = "keep" /\ loop'.at = "pause" /\ loop'.ret = loop.ret
    BY <1>1, <1>13, LoopKeepParts
  <2>3. loop'.ret # "OK"
    BY <2>2 DEF LoopDisabled
  <2> QED
    BY <1>2, <2>1, <2>2, <2>3
<1>14. CASE LoopLeave
  <2>1. UNCHANGED <<status, inOn, up>>
    BY <1>14 DEF LoopLeave
  <2> QED
    BY <1>1, <1>2, <1>14, <2>1, LoopLeaveParts, PassEndLocals
<1>15. CASE PauseEos
  <2>1. UNCHANGED <<status, inOn, up>>
    BY <1>15 DEF PauseEos
  <2>2. /\ loop.at = "last"
        /\ (loop'.at = "pause" /\ loop'.ret = loop.ret) \/ loop'.at = "out"
    BY <1>1, <1>15, PauseEosParts, PassEndLocals
  <2>3. loop.ret # "OK"
    BY <2>2 DEF LoopDisabled
  <2> QED
    BY <1>2, <2>1, <2>2, <2>3
<1> QED
  BY <1>3, <1>4, <1>5, <1>6, <1>7, <1>8, <1>9, <1>10, <1>11, <1>12, <1>13, <1>14,
     <1>15 DEF Loop

LEMMA LoopKeepsStatus ==
  ASSUME Shapes, LoopHolders, StatusInv, Loop
  PROVE  StatusInv'
<1> USE DEF StatusInv
<1>1. up \in UpLocals /\ loop \in LoopLocals /\ deferred_eos \in BOOLEAN
  BY DEF Shapes
<1>2. UNCHANGED <<inq, app, dsp>>
  BY OutputLoopFrame
<1>3. CASE LoopDisabled' /\ UNCHANGED <<status, inOn, up>>
  BY <1>2, <1>3 DEF UpDisabled, Disabled, NoNullBuffer
<1>4. CASE PauseSync
  <2>1. /\ loop.at = "pause" /\ loop'.at = "unlock" /\ loop'.ret = loop.ret
        /\ status = "OK" => status' = loop.ret
        /\ status # "OK" => status' = status
    BY <1>1, <1>4, PauseSyncParts
  <2>2. loop.ret # "OK" /\ status' # "OK"
    BY <2>1 DEF LoopDisabled
  <2>3. UNCHANGED <<inOn, up>>
    BY <1>4 DEF PauseSync, queueVars
  <2> QED
    BY <1>2, <2>1, <2>2, <2>3 DEF UpDisabled, LoopDisabled, Disabled, NoNullBuffer
<1>5. CASE PauseUnlock
  <2>1. /\ loop.at = "unlock" /\ loop'.at = "last" /\ loop'.ret = loop.ret
        /\ up' = Signalled(up)
    BY <1>1, <1>5, PauseUnlockParts
  <2>2. status # "OK" /\ loop.ret # "OK"
    BY <2>1 DEF LoopDisabled
  <2>3. status' = status
    BY <1>5 DEF PauseUnlock, selfVars
  <2>4. UpDisabled' /\ up'.at = up.at
    BY <1>1, <1>2, <2>1, <2>2, <2>3, WokenForReason, SignalledUp
  <2> QED
    BY <1>2, <2>1, <2>2, <2>3, <2>4 DEF LoopDisabled, Disabled, NoNullBuffer
<1> QED
  BY <1>3, <1>4, <1>5, LoopKeepsRet

LEMMA AppKeepsStatus ==
  ASSUME MayFail = FALSE \/ MaxFlushes = 0, Shapes, Quiet, StatusInv, App
  PROVE  StatusInv'
<1> USE DEF StatusInv, selfVars, queueVars
<1>1. up \in UpLocals /\ loop \in LoopLocals
  BY DEF Shapes
<1>2. CASE FlushStart
  <2>1. MaxFlushes > 0
    BY <1>2, Constants DEF FlushStart, Shapes
  <2> QED
    BY <1>2, <2>1 DEF FlushStart, UpDisabled, LoopDisabled, Disabled, NoNullBuffer
<1>3. CASE FlushStartStatus
  BY <1>3 DEF FlushStartStatus, UpDisabled, LoopDisabled, Disabled, NoNullBuffer
<1>4. CASE FlushStartUnlock
  <2>1. /\ status # "OK" /\ app = "unlock" /\ app' = "pause"
        /\ UNCHANGED <<status, inq, dsp>>
        /\ up' = Signalled(up) /\ loop' = Signalled(loop)
    BY <1>4 DEF FlushStartUnlock, Disabled
  <2>2. UpDisabled' /\ up'.at = up.at
    BY <1>1, <2>1, WokenForReason, SignalledUp
  <2>3. loop'.at = loop.at /\ loop'.ret = loop.ret
    BY <1>1, <2>1, SignalledLoop
  <2> QED
    BY <2>1, <2>2, <2>3 DEF LoopDisabled, Disabled, NoNullBuffer
<1>5. CASE FlushStartPause
  BY <1>5 DEF FlushStartPause, UpDisabled, LoopDisabled, Disabled, NoNullBuffer
<1>6. CASE FlushStop
  BY <1>6 DEF FlushStop, UpDisabled, LoopDisabled, Disabled, NoNullBuffer
<1>7. CASE FlushStopMark
  BY <1>7 DEF FlushStopMark, UpDisabled, LoopDisabled, Disabled, NoNullBuffer
<1>8. CASE FlushStopStatus
  <2>1. app = "ok" /\ app' = "start" /\ status' = "OK" /\ UNCHANGED <<inq, inOn, up, loop, dsp>>
    BY <1>8 DEF FlushStopStatus
  <2>2. up.at = "idle" /\ loop.at = "out"
    BY <2>1 DEF Quiet
  <2>3. dsp \in {"run", "timeout"}
    BY <2>1 DEF Disabled
  <2> QED
    BY <2>1, <2>2, <2>3 DEF UpDisabled, LoopDisabled, Disabled, NoNullBuffer
<1>9. CASE FlushStopStart
  BY <1>9 DEF FlushStopStart, EnableQueues, UpDisabled, LoopDisabled, Disabled, NoNullBuffer
<1> QED
  BY <1>2, <1>3, <1>4, <1>5, <1>6, <1>7, <1>8, <1>9 DEF App

LEMMA DspKeepsStatus ==
  ASSUME Shapes, StatusInv, Dsp
  PROVE  StatusInv'
<1> USE DEF StatusInv, selfVars, queueVars
<1>1. /\ up \in UpLocals /\ loop \in LoopLocals /\ inq \in Nat /\ app' = app
  BY DspFrame DEF Shapes
<1>2. ASSUME UNCHANGED <<up, inq, status, inOn, dsp>>, loop' = loop \/ loop' = Signalled(loop)
      PROVE  StatusInv'
  <2>1. loop'.at = loop.at /\ loop'.ret = loop.ret
    BY <1>1, <1>2, SignalledLoop
  <2> QED
    BY <1>1, <1>2, <2>1 DEF UpDisabled, LoopDisabled, Disabled, NoNullBuffer
<1>3. CASE DspInput
  <2>1. inq' = inq + 1 /\ up' = Signalled(up) /\ UNCHANGED <<status, inOn, loop, dsp>>
    BY <1>3 DEF DspInput, PutInput
  <2>2. inq' # 0
    BY <1>1, <2>1
  <2>3. up'.at = up.at /\ up'.tb = up.tb /\ (up'.wait # "no" => up.wait # "no")
    BY <1>1, <2>1, SignalledUp
  <2>4. UpDisabled'
    BY <2>1, <2>2, <2>3 DEF UpDisabled
  <2> QED
    BY <1>1, <2>1, <2>3, <2>4 DEF LoopDisabled, Disabled, NoNullBuffer
<1>4. CASE DspOutput
  BY <1>2, <1>4 DEF DspOutput, PutOutput
<1>5. CASE DspLose
  BY <1>2, <1>5 DEF DspLose
<1>6. CASE DspHeader
  BY <1>2, <1>6 DEF DspHeader, PutOutput
<1>7. CASE DspError
  <2>1. /\ status' = "ERROR" /\ MayFail /\ UNCHANGED <<up, loop, inq, inOn>>
    BY <1>7 DEF DspError
  <2> QED
    BY <1>1, <2>1 DEF UpDisabled, LoopDisabled, Disabled, NoNullBuffer
<1>8. CASE DspErrorUnlock
  <2>1. /\ status # "OK" /\ UNCHANGED <<status, inq>>
        /\ up' = Signalled(up) /\ loop' = Signalled(loop)
    BY <1>8 DEF DspErrorUnlock, Disabled
  <2>2. MayFail /\ dsp' \notin {"error", "dying"}
    BY <1>8 DEF DspErrorUnlock, Disabled
  <2>3. UpDisabled' /\ up'.at = up.at
    BY <1>1, <2>1, WokenForReason, SignalledUp
  <2>4. loop'.at = loop.at /\ loop'.ret = loop.ret
    BY <1>1, <2>1, SignalledLoop
  <2> QED
    BY <1>1, <2>1, <2>2, <2>3, <2>4 DEF LoopDisabled, Disabled, NoNullBuffer
<1>9. CASE EosTimeout
  <2>1. /\ status' = "UNEXPECTED" /\ dsp' = "timeout" /\ UNCHANGED <<up, loop, inq, inOn>>
    BY <1>9 DEF EosTimeout
  <2> QED
    BY <1>1, <2>1 DEF UpDisabled, LoopDisabled, Disabled, NoNullBuffer
<1>10. CASE EosTimeoutUnlock
  <2>1. dsp' = "run" /\ UNCHANGED <<up, inq, status, inOn>> /\ loop' = Signalled(loop)
    BY <1>10 DEF EosTimeoutUnlock
  <2>2. loop'.at = loop.at /\ loop'.ret = loop.ret
    BY <1>1, <2>1, SignalledLoop
  <2> QED
    BY <1>1, <2>1, <2>2 DEF UpDisabled, LoopDisabled, Disabled, NoNullBuffer
<1> QED
  BY <1>3, <1>4, <1>5, <1>6, <1>7, <1>8, <1>9, <1>10 DEF Dsp

LEMMA StatusStart == Init => StatusInv
BY DEF Init, StatusInv, UpDisabled, LoopDisabled, Disabled, NoNullBuffer

(* pad_chain never goes on without a buffer, and so never sends NULL to the *)
(* DSP: while the element is flushed, or while it fails, but not while it   *)
(* is flushed when it has failed, nor when g_cond_wait returns on its own.  *)
(* Status = OK then means that the queue was enabled, or that the thread    *)
(* that disabled it has been waited for.                                    *)
THEOREM BaseNoNullBuffer ==
  ASSUME Spurious = FALSE, MayFail = FALSE \/ MaxFlushes = 0
  PROVE  Spec => []NoNullBuffer
<1> DEFINE Inv == KeptInv /\ Quiet /\ StatusInv
<1>1. Init => Inv
  BY KeptStart, QuietStart, StatusStart
<1>2. Inv /\ [Next]_vars => Inv'
  <2> SUFFICES ASSUME Inv, [Next]_vars PROVE Inv'
    OBVIOUS
  <2>1. Shapes /\ LoopHolders
    BY DEF KeptInv
  <2>2. KeptInv' /\ Quiet'
    BY <2>1, KeptStep, QuietStep
  <2>3. ASSUME Release \/ UNCHANGED vars
        PROVE  StatusInv'
    BY <2>3 DEF Release, vars, selfVars, queueVars, StatusInv, UpDisabled,
                LoopDisabled, Disabled, NoNullBuffer
  <2>4. ~SpuriousWakeup
    BY DEF SpuriousWakeup
  <2>5. StatusInv'
    BY <2>1, <2>3, <2>4, UpKeepsStatus, LoopKeepsStatus, AppKeepsStatus,
       DspKeepsStatus DEF Next
  <2> QED
    BY <2>2, <2>5
<1>3. Inv => NoNullBuffer
  BY DEF StatusInv
<1> HIDE DEF Inv
<1> QED
  BY <1>1, <1>2, <1>3, PTL DEF Spec

-----------------------------------------------------------------------------
(* RunsAfterFlush *)

(* While the DSP does not fail and no timeout stops the element, a status   *)
(* of OK means that nothing has disabled a queue or paused the task since.  *)
Running ==
  /\ LoopDisabled
  /\ dsp = "run"
  /\ app = "idle" /\ status = "OK" => inOn /\ outOn /\ task = "started"

LEMMA LoopKeepsQueues ==
  ASSUME Loop
  PROVE  PauseUnlock \/ UNCHANGED <<outOn, task>>
BY DEF Loop, LoopPop, LoopNull, LoopCheck, LoopUnexpected, LoopEvents, LoopRealloc,
       LoopEmpty, LoopSkip, LoopDrop, LoopAlloc, LoopHack, LoopTake, LoopPush, LoopEos,
       LoopKeep, LoopLeave, PauseSync, PauseUnlock, PauseEos, queueVars, padVars

LEMMA UpKeepsQueues ==
  ASSUME Up
  PROVE  UNCHANGED outOn
BY DEF Up, ChainPop, ChainCheck, ChainStore, ChainSend, SerializedEvent, EosArrives,
       EosNow, EosClock, FlushBufferPop, FlushBufferSend, queueVars

LEMMA LoopKeepsRunning ==
  ASSUME Shapes, LoopHolders, Running, Loop
  PROVE  Running'
<1>1. UNCHANGED <<app, dsp>>
  BY OutputLoopFrame
<1>2. CASE LoopDisabled' /\ UNCHANGED <<status, inOn, up>> /\ UNCHANGED <<outOn, task>>
  BY <1>1, <1>2 DEF Running
<1>3. CASE PauseSync
  <2>1. /\ loop.at = "pause" /\ loop'.at = "unlock" /\ loop'.ret = loop.ret
        /\ status = "OK" => status' = loop.ret
        /\ status # "OK" => status' = status
    BY <1>3, PauseSyncParts DEF Shapes
  <2>2. loop.ret # "OK" /\ status' # "OK"
    BY <2>1 DEF Running, LoopDisabled
  <2> QED
    BY <1>1, <2>1, <2>2 DEF Running, LoopDisabled
<1>4. CASE PauseUnlock
  <2>1. loop.at = "unlock" /\ loop'.at = "last" /\ loop'.ret = loop.ret
    BY <1>4, PauseUnlockParts DEF Shapes
  <2>2. status # "OK" /\ loop.ret # "OK"
    BY <2>1 DEF Running, LoopDisabled
  <2>3. status' = status
    BY <1>4 DEF PauseUnlock, selfVars
  <2> QED
    BY <1>1, <2>1, <2>2, <2>3 DEF Running, LoopDisabled
<1> QED
  BY <1>2, <1>3, <1>4, LoopKeepsRet, LoopKeepsQueues DEF Running

LEMMA AppKeepsRunning ==
  ASSUME Shapes, Quiet, Running, App
  PROVE  Running'
<1> USE DEF selfVars, queueVars, padVars
<1>1. CASE FlushStart
  BY <1>1 DEF FlushStart, Running, LoopDisabled
<1>2. CASE FlushStartStatus
  BY <1>2 DEF FlushStartStatus, Running, LoopDisabled
<1>3. CASE FlushStartUnlock
  <2>1. app' = "pause" /\ UNCHANGED <<status, dsp>> /\ loop' = Signalled(loop)
    BY <1>3 DEF FlushStartUnlock
  <2>2. loop'.at = loop.at /\ loop'.ret = loop.ret
    BY <2>1, SignalledLoop DEF Shapes
  <2> QED
    BY <2>1, <2>2 DEF Running, LoopDisabled
<1>4. CASE FlushStartPause
  BY <1>4 DEF FlushStartPause, Running, LoopDisabled
<1>5. CASE FlushStop
  BY <1>5 DEF FlushStop, Running, LoopDisabled
<1>6. CASE FlushStopMark
  BY <1>6 DEF FlushStopMark, Running, LoopDisabled
<1>7. CASE FlushStopStatus
  <2>1. app' = "start" /\ UNCHANGED <<loop, dsp>> /\ loop.at = "out"
    BY <1>7 DEF FlushStopStatus, Quiet
  <2> QED
    BY <2>1 DEF Running, LoopDisabled
<1>8. CASE FlushStopStart
  BY <1>8 DEF FlushStopStart, EnableQueues, Running, LoopDisabled
<1> QED
  BY <1>1, <1>2, <1>3, <1>4, <1>5, <1>6, <1>7, <1>8 DEF App

LEMMA DspKeepsRunning ==
  ASSUME MayFail = FALSE, UseEosTimeout = FALSE, Shapes, Running, Dsp
  PROVE  Running'
<1>1. UNCHANGED <<status, inOn, outOn, dsp>>
  BY DEF Dsp, DspInput, DspOutput, DspLose, DspHeader, DspError, DspErrorUnlock,
         EosTimeout, EosTimeoutUnlock, PutInput, PutOutput, selfVars, queueVars, Running
<1>2. UNCHANGED <<app, task>> /\ (loop' = loop \/ loop' = Signalled(loop))
  BY DspFrame
<1>3. loop'.at = loop.at /\ loop'.ret = loop.ret
  BY <1>2, SignalledLoop DEF Shapes
<1> QED
  BY <1>1, <1>2, <1>3 DEF Running, LoopDisabled

(* After a flush the element runs, for every number of flushes, buffers and *)
(* frames, refused buffers and spurious wakeups included, as long as the    *)
(* DSP does not fail and eos_timeout is not used.                           *)
THEOREM BaseRunsAfterFlush ==
  ASSUME MayFail = FALSE, UseEosTimeout = FALSE
  PROVE  Spec => []RunsAfterFlush
<1> DEFINE Inv == KeptInv /\ Quiet /\ Running
<1>1. Init => Inv
  <2>1. Init => Running
    BY DEF Init, Running, LoopDisabled
  <2> QED
    BY <2>1, KeptStart, QuietStart
<1>2. Inv /\ [Next]_vars => Inv'
  <2> SUFFICES ASSUME Inv, [Next]_vars PROVE Inv'
    OBVIOUS
  <2>1. Shapes /\ LoopHolders
    BY DEF KeptInv
  <2>2. KeptInv' /\ Quiet'
    BY <2>1, KeptStep, QuietStep
  <2>3. ASSUME Up PROVE Running'
    BY <2>3, UpFrame, UpKeepsQueues DEF Running, LoopDisabled
  <2>4. ASSUME Release \/ UNCHANGED vars PROVE Running'
    BY <2>4 DEF Release, vars, selfVars, queueVars, padVars, Running, LoopDisabled
  <2>5. ASSUME SpuriousWakeup PROVE Running'
    <3>1. /\ UNCHANGED <<status, inOn, outOn, app, dsp, task>>
          /\ loop' = loop \/ loop' = Signalled(loop)
      BY <2>5 DEF SpuriousWakeup, selfVars, queueVars, padVars
    <3>2. loop'.at = loop.at /\ loop'.ret = loop.ret
      BY <2>1, <3>1, SignalledLoop DEF Shapes
    <3> QED
      BY <3>1, <3>2 DEF Running, LoopDisabled
  <2>6. ASSUME Loop PROVE Running'
    BY <2>1, <2>6, LoopKeepsRunning
  <2>7. ASSUME App PROVE Running'
    BY <2>1, <2>7, AppKeepsRunning
  <2>8. ASSUME Dsp PROVE Running'
    BY <2>1, <2>8, DspKeepsRunning
  <2> QED
    BY <2>2, <2>3, <2>4, <2>5, <2>6, <2>7, <2>8 DEF Next
<1>3. Inv => RunsAfterFlush
  BY DEF Running, RunsAfterFlush, Failing
<1> HIDE DEF Inv
<1> QED
  BY <1>1, <1>2, <1>3, PTL DEF Spec

-----------------------------------------------------------------------------
(* Frames in flight: with each of them goes a buffer, or the thread that   *)
(* is about to send it, so there are never more of them than the ring has  *)
(* slots.                                                                  *)

(* How many elements of a sequence are in a set *)
LEMMA CountBound ==
  ASSUME NEW T, NEW s \in Seq(T), NEW S
  PROVE  Count(s, S) \in Nat /\ Count(s, S) <= Len(s)
<1> DEFINE I == {i \in 1 .. Len(s) : s[i] \in S}
<1>1. Len(s) \in Nat
  OBVIOUS
<1>2. IsFiniteSet(1 .. Len(s)) /\ Cardinality(1 .. Len(s)) = Len(s)
  BY <1>1, FS_Interval
<1>3. I \in SUBSET (1 .. Len(s))
  OBVIOUS
<1>4. IsFiniteSet(I) /\ Cardinality(I) <= Len(s)
  BY <1>2, <1>3, FS_Subset
<1> QED
  BY <1>4, FS_CardinalityType DEF Count

LEMMA CountAppend ==
  ASSUME NEW T, NEW s \in Seq(T), NEW x \in T, NEW S
  PROVE  /\ x \in S => Count(Append(s, x), S) = Count(s, S) + 1
         /\ x \notin S => Count(Append(s, x), S) = Count(s, S)
<1> DEFINE t == Append(s, x)
           I == {i \in 1 .. Len(s) : s[i] \in S}
           J == {i \in 1 .. Len(t) : t[i] \in S}
<1>1. /\ Len(s) \in Nat /\ Len(t) = Len(s) + 1 /\ t[Len(s) + 1] = x
      /\ \A i \in 1 .. Len(s) : t[i] = s[i]
  OBVIOUS
<1>2. IsFiniteSet(I) /\ Cardinality(I) \in Nat
  <2>1. IsFiniteSet(1 .. Len(s)) /\ I \in SUBSET (1 .. Len(s))
    BY <1>1, FS_Interval
  <2> QED
    BY <2>1, FS_Subset, FS_CardinalityType
<1>5. Count(s, S) = Cardinality(I) /\ Count(t, S) = Cardinality(J)
  BY DEF Count
<1> HIDE DEF t
<1>3. CASE x \in S
  <2>1. J = I \cup {Len(s) + 1} /\ Len(s) + 1 \notin I
    BY <1>1, <1>3
  <2>2. Cardinality(J) = Cardinality(I) + 1
    BY <1>2, <2>1, FS_AddElement
  <2> HIDE DEF I, J
  <2>3. Count(t, S) = Count(s, S) + 1
    BY <1>2, <1>5, <2>2
  <2> QED
    BY <1>3, <2>3 DEF t
<1>4. CASE x \notin S
  <2>1. J = I
    BY <1>1, <1>4
  <2> HIDE DEF I, J
  <2>2. Count(t, S) = Count(s, S) /\ Count(s, S) \in Nat
    BY <1>2, <1>5, <2>1
  <2> QED
    BY <1>4, <2>2 DEF t
<1> QED
  BY <1>3, <1>4

LEMMA CountTail ==
  ASSUME NEW T, NEW s \in Seq(T), s # <<>>, NEW S
  PROVE  /\ Head(s) \in S => Count(s, S) = Count(Tail(s), S) + 1
         /\ Head(s) \notin S => Count(s, S) = Count(Tail(s), S)
<1> DEFINE t == Tail(s)
           I == {i \in 1 .. Len(t) : t[i] \in S}
           J == {i \in 2 .. Len(s) : s[i] \in S}
           K == {i \in 1 .. Len(s) : s[i] \in S}
           f == [i \in I |-> i + 1]
<1>1. /\ Len(s) \in Nat \ {0} /\ Len(t) \in Int /\ Len(t) = Len(s) - 1 /\ Head(s) = s[1]
      /\ \A i \in 1 .. Len(t) : t[i] = s[i + 1]
  OBVIOUS
<1>6. Count(t, S) = Cardinality(I) /\ Count(s, S) = Cardinality(K)
  BY DEF Count
<1> HIDE DEF t
<1>2. IsFiniteSet(I) /\ Cardinality(I) \in Nat
  <2>1. IsFiniteSet(1 .. Len(t))
    BY <1>1, FS_Interval
  <2>2. I \in SUBSET (1 .. Len(t))
    OBVIOUS
  <2> QED
    BY <2>1, <2>2, FS_Subset, FS_CardinalityType
<1>3. IsFiniteSet(J) /\ Cardinality(J) = Cardinality(I)
  <2>1. \A i \in I : i \in Int /\ i + 1 \in J
    BY <1>1
  <2>2. \A j \in J : j - 1 \in I /\ f[j - 1] = j
    BY <1>1
  <2>3. f \in Bijection(I, J)
    BY <2>1, <2>2 DEF Bijection, Injection, Surjection, IsInjective
  <2>4. ExistsBijection(I, J)
    BY <2>3 DEF ExistsBijection
  <2> HIDE DEF I, J, f
  <2> QED
    BY <1>2, <2>4, FS_Bijection
<1>4. CASE Head(s) \in S
  <2>1. K = J \cup {1} /\ 1 \notin J
    BY <1>1, <1>4
  <2>2. Cardinality(K) = Cardinality(J) + 1
    BY <1>3, <2>1, FS_AddElement
  <2> HIDE DEF I, J, K
  <2>3. Count(s, S) = Count(t, S) + 1
    BY <1>2, <1>3, <1>6, <2>2
  <2> QED
    BY <1>4, <2>3 DEF t
<1>5. CASE Head(s) \notin S
  <2>1. K = J
    BY <1>1, <1>5
  <2> HIDE DEF I, J, K
  <2>2. Count(s, S) = Count(t, S) /\ Count(t, S) \in Nat
    BY <1>2, <1>3, <1>6, <2>1
  <2> QED
    BY <1>5, <2>2 DEF t
<1> QED
  BY <1>4, <1>5

(* A step that moves no frame *)
LEMMA FlightsCounted ==
  ASSUME Shapes
  PROVE  /\ Count(dspIn, Frames) \in Nat /\ Count(inside, Frames) \in Nat
         /\ Count(outq, Carriers) \in Nat /\ UpFlight \in {0, 1} /\ LoopFlight \in {0, 1}
         /\ Count(dspIn, Frames) <= Len(dspIn) /\ Count(inside, Frames) <= Len(inside)
         /\ Count(outq, Carriers) <= Len(outq)
BY CountBound DEF Shapes, UpFlight, LoopFlight

LEMMA CountThen ==
  /\ Count(dspIn, Frames)' = Count(dspIn', Frames)
  /\ Count(inside, Frames)' = Count(inside', Frames)
  /\ Count(outq, Carriers)' = Count(outq', Carriers)
BY DEF Count, Frames, Carriers, Buffer, Kinds, Codec, NoFrame

LEMMA LoopFlightOf ==
  /\ loop.at = "take" => LoopFlight = 1
  /\ loop.at \in {"push", "leave", "keep"} => LoopFlight = 0
  /\ loop.at \notin {"take", "push", "leave", "keep"} /\ loop.tb \in Carriers => LoopFlight = 1
  /\ loop.at # "take" /\ loop.tb \notin Carriers => LoopFlight = 0
BY DEF LoopFlight

LEMMA LoopFlightThen ==
  /\ loop'.at = "take" => LoopFlight' = 1
  /\ loop'.at \in {"push", "leave", "keep"} => LoopFlight' = 0
  /\ loop'.at \notin {"take", "push", "leave", "keep"} /\ loop'.tb \in Carriers => LoopFlight' = 1
  /\ loop'.at # "take" /\ loop'.tb \notin Carriers => LoopFlight' = 0
BY DEF LoopFlight

(* up: a frame is counted when it is stored, and goes to the DSP *)
LEMMA UpFlightFrame ==
  ASSUME Up
  PROVE  /\ UNCHANGED <<outq, inside, skip_hack, skip_hack_2, headers, loop>>
         /\ UNCHANGED <<ts_out_pos, ts_push_pos, mark, down>>
BY DEF Up, ChainPop, ChainCheck, ChainStore, ChainSend, SerializedEvent, EosArrives,
       EosNow, EosClock, FlushBufferPop, FlushBufferSend, PopInput, WaitInput,
       StoreFrame, StoreEvent, selfVars, queueVars, padVars, dspVars, histVars, ringVars

LEMMA UpQuietly ==
  ASSUME Shapes, Up
  PROVE  \/ ChainStore \/ ChainSend \/ FlushBufferSend
         \/ /\ up.at # "send" /\ up'.at # "send"
            /\ UNCHANGED <<ts_count, dspIn>>
<1>1. up \in UpLocals /\ inq \in Nat
  BY DEF Shapes
<1>2. ASSUME NEW p \in UpPlaces \ {"send"}, PopInput(p) \/ WaitInput(p)
      PROVE  up'.at # "send"
  BY <1>1, <1>2, PopInputParts, WaitInputParts
<1>3. CASE ChainPop
  BY <1>1, <1>2, <1>3 DEF ChainPop, MayArrive, UpPlaces, ringVars, dspVars
<1>4. CASE ChainCheck
  BY <1>1, <1>4, ChainCheckParts DEF ChainCheck, ringVars, dspVars
<1>5. CASE SerializedEvent
  BY <1>5 DEF SerializedEvent, MayArrive, StoreEvent, dspVars
<1>6. CASE EosArrives
  BY <1>1, <1>6, EosArrivesParts DEF EosArrives, ringVars, dspVars
<1>7. CASE EosNow
  BY <1>1, <1>7, EosNowParts DEF EosNow, ringVars, dspVars
<1>8. CASE EosClock
  BY <1>1, <1>8, EosClockParts DEF EosClock, ringVars, dspVars
<1>9. CASE FlushBufferPop
  BY <1>1, <1>2, <1>9 DEF FlushBufferPop, UpPlaces, ringVars, dspVars
<1> QED
  BY <1>3, <1>4, <1>5, <1>6, <1>7, <1>8, <1>9 DEF Up

LEMMA UpKeepsFlights ==
  ASSUME Shapes, FlightInv, Up
  PROVE  FlightInv'
<1>1. /\ up \in UpLocals /\ dspIn \in Seq(Codec .. MaxArrivals) /\ arrived \in Nat
      /\ arrived \in 0 .. MaxArrivals
  BY Constants DEF Shapes
<1>2. /\ UNCHANGED <<outq, inside, skip_hack, skip_hack_2, headers, loop>>
      /\ UNCHANGED <<ts_out_pos, ts_push_pos>>
  BY UpFlightFrame
<1>3. /\ UNCHANGED <<LoopFlight, Count(inside, Frames), Count(outq, Carriers)>>
  BY <1>2 DEF LoopFlight
<1>4. CASE ChainStore
  <2>1. /\ ts_count' = ts_count + 1 /\ arrived' = arrived + 1 /\ UNCHANGED dspIn
        /\ up.at = "store" /\ up'.at = "send"
    BY <1>1, <1>4, ChainStoreParts DEF ChainStore, StoreFrame, dspVars
  <2>2. UpFlight = 0 /\ UpFlight' = 1 /\ Count(dspIn, Frames)' = Count(dspIn, Frames)
    BY <2>1 DEF UpFlight
  <2>3. Flights' = Flights + 1 /\ Flights \in Nat
    BY <1>3, <2>2, FlightsCounted DEF Flights
  <2>4. Balance'
    BY <1>2, <2>1, <2>3 DEF FlightInv, Balance
  <2>5. InputsFit'
    BY <1>1, <1>2, <2>1 DEF FlightInv, InputsFit
  <2>6. OutputsFit'
    BY <1>2, <2>1 DEF FlightInv, OutputsFit, Balance, Flushing, HasLen, SkipFits
  <2> QED
    BY <2>4, <2>5, <2>6 DEF FlightInv
<1>5. ASSUME UNCHANGED ts_count, up'.at # "send",
             UpFlight' + Count(dspIn, Frames)' = UpFlight + Count(dspIn, Frames)
      PROVE  FlightInv'
  <2>1. Flights' = Flights
    BY <1>3, <1>5, FlightsCounted DEF Flights
  <2>2. Balance'
    BY <1>2, <1>5, <2>1 DEF FlightInv, Balance
  <2>3. InputsFit'
    BY <1>2, <1>5 DEF FlightInv, InputsFit
  <2>4. OutputsFit'
    BY <1>2, <1>5 DEF FlightInv, OutputsFit, Flushing, HasLen, SkipFits
  <2> QED
    BY <2>2, <2>3, <2>4 DEF FlightInv
<1>6. CASE ChainSend
  <2>1. /\ up.at = "send" /\ up'.at = "idle" /\ UNCHANGED ts_count
        /\ dspIn' = Append(dspIn, arrived)
    BY <1>1, <1>6, ChainSendParts DEF ChainSend, ringVars
  <2>2. arrived \in Codec .. MaxArrivals /\ arrived \in Frames
    BY <1>1, <2>1, Constants DEF FlightInv, InputsFit, Frames
  <2>3. UpFlight = 1 /\ UpFlight' = 0
    BY <2>1 DEF UpFlight
  <2>4. Count(dspIn, Frames)' = Count(dspIn, Frames) + 1
    <3>1. Count(Append(dspIn, arrived), Frames) = Count(dspIn, Frames) + 1
      BY <1>1, <2>2, CountAppend
    <3> QED
      BY <2>1, <3>1, CountThen
  <2>5. UpFlight' + Count(dspIn, Frames)' = UpFlight + Count(dspIn, Frames)
    BY <2>3, <2>4, FlightsCounted
  <2> QED
    BY <1>5, <2>1, <2>5
<1>7. CASE FlushBufferSend
  <2>1. /\ up.at = "flushsend" /\ up'.at = "idle" /\ UNCHANGED ts_count
        /\ dspIn' = Append(dspIn, NoFrame) \/ dspIn' = dspIn
    BY <1>1, <1>7, FlushBufferSendParts DEF FlushBufferSend, ringVars
  <2>2. NoFrame \in Codec .. MaxArrivals /\ NoFrame \notin Frames
    BY Constants DEF Frames
  <2>3. UpFlight = 0 /\ UpFlight' = 0
    BY <2>1 DEF UpFlight
  <2>4. Count(Append(dspIn, NoFrame), Frames) = Count(dspIn, Frames)
    BY <1>1, <2>2, CountAppend
  <2>5. Count(dspIn, Frames)' = Count(dspIn, Frames)
    BY <2>1, <2>4, CountThen
  <2>6. UpFlight' + Count(dspIn, Frames)' = UpFlight + Count(dspIn, Frames)
    BY <2>3, <2>5, FlightsCounted
  <2> QED
    BY <1>5, <2>1, <2>6
<1>8. CASE up.at # "send" /\ up'.at # "send" /\ UNCHANGED <<ts_count, dspIn>>
  <2>1. UpFlight = 0 /\ UpFlight' = 0 /\ Count(dspIn, Frames)' = Count(dspIn, Frames)
    BY <1>8 DEF UpFlight
  <2> QED
    BY <1>5, <1>8, <2>1, FlightsCounted
<1> QED
  BY <1>4, <1>6, <1>7, <1>8, UpQuietly

(* dsp: a frame stays in flight from the input buffer to the output buffer *)
LEMMA DspFlightFrame ==
  ASSUME Dsp
  PROVE  /\ UNCHANGED <<ts_count, ts_out_pos, ts_push_pos, arrived, mark, down, skip_hack>>
         /\ \/ DspInput \/ DspOutput \/ DspLose \/ DspHeader
            \/ UNCHANGED <<dspIn, inside, outq, skip_hack_2, headers>>
BY DEF Dsp, DspInput, DspOutput, DspLose, DspHeader, DspError, DspErrorUnlock,
       EosTimeout, EosTimeoutUnlock, dspKeeps, ringVars, selfVars, queueVars, dspVars

LEMMA WokenFlights ==
  ASSUME Shapes, up' = up \/ up' = Signalled(up), loop' = loop \/ loop' = Signalled(loop)
  PROVE  /\ UpFlight' = UpFlight /\ LoopFlight' = LoopFlight
         /\ up'.at = up.at /\ loop'.at = loop.at /\ loop'.tb = loop.tb
<1>1. up'.at = up.at /\ loop'.at = loop.at /\ loop'.tb = loop.tb
  BY SignalledUp, SignalledLoop DEF Shapes
<1>2. UpFlight' = UpFlight
  BY <1>1 DEF UpFlight
<1>3. LoopFlight' = LoopFlight
  BY <1>1 DEF LoopFlight, Carriers, Buffer, Kinds, Codec
<1> QED
  BY <1>1, <1>2, <1>3

(* A step that wakes threads and moves frames, but neither stores one nor   *)
(* counts one down                                                          *)
LEMMA MovedFlights ==
  ASSUME Shapes, FlightInv,
         UNCHANGED <<ts_count, ts_out_pos, ts_push_pos, arrived, skip_hack>>,
         up' = up \/ up' = Signalled(up), loop' = loop \/ loop' = Signalled(loop),
         Balance', Len(inside') <= DspDepth,
         \A i \in 1 .. Len(outq') : SkipFits(outq'[i])
  PROVE  FlightInv'
<1>1. /\ up'.at = up.at /\ loop'.at = loop.at /\ loop'.tb = loop.tb
  BY WokenFlights
<1>2. InputsFit'
  BY <1>1 DEF FlightInv, InputsFit
<1>3. OutputsFit'
  BY <1>1 DEF FlightInv, OutputsFit, Flushing, HasLen, SkipFits
<1> QED
  BY <1>2, <1>3 DEF FlightInv

LEMMA SameFlights ==
  ASSUME Shapes, FlightInv,
         UNCHANGED <<ts_count, ts_out_pos, ts_push_pos, arrived, skip_hack, skip_hack_2,
                     headers, dspIn, inside, outq>>,
         up' = up \/ up' = Signalled(up), loop' = loop \/ loop' = Signalled(loop)
  PROVE  FlightInv'
<1>1. UpFlight' = UpFlight /\ LoopFlight' = LoopFlight
  BY WokenFlights
<1>2. Flights' = Flights
  BY <1>1, CountThen DEF Flights
<1>3. Balance' /\ Len(inside') <= DspDepth
  BY <1>2 DEF FlightInv, Balance, InputsFit
<1>4. \A i \in 1 .. Len(outq') : SkipFits(outq'[i])
  BY DEF FlightInv, OutputsFit
<1> QED
  BY <1>3, <1>4, MovedFlights

LEMMA AppendFits ==
  ASSUME outq \in Seq(Buffer), NEW b \in Buffer, SkipFits(b), outq' = Append(outq, b),
         \A i \in 1 .. Len(outq) : SkipFits(outq[i])
  PROVE  \A i \in 1 .. Len(outq') : SkipFits(outq'[i])
<1>1. /\ Len(outq') = Len(outq) + 1 /\ Len(outq) \in Nat /\ outq'[Len(outq) + 1] = b
      /\ \A i \in 1 .. Len(outq) : outq'[i] = outq[i]
  OBVIOUS
<1> QED
  BY <1>1

(* What the DSP makes of an input has its number, and carries a frame if the *)
(* input was one.                                                            *)
LEMMA OutputCarries ==
  ASSUME Shapes, DspOutput
  PROVE  \E b \in Buffer :
           /\ outq' = Append(outq, b) /\ loop' = Signalled(loop) /\ SkipFits(b)
           /\ b.nr = Head(inside)
           /\ b \in Carriers <=> Head(inside) \in Frames
<1>1. Head(inside) \in Codec .. MaxArrivals
  BY HeadAndTail DEF DspOutput, Shapes
<1>2. PICK k \in KindsOf(Head(inside)) :
        PutOutput([kind |-> k, nr |-> Head(inside), data |-> TRUE])
  BY DEF DspOutput
<1>3. /\ k \in Kinds /\ (k = "skip" => MaySkip = TRUE)
      /\ k = "empty" <=> Head(inside) = NoFrame
  BY <1>2, BaseAssumption, Constants DEF KindsOf, Kinds
<1> DEFINE b == [kind |-> k, nr |-> Head(inside), data |-> TRUE]
<1>4. b \in Buffer /\ b.kind = k /\ b.data = TRUE /\ b.nr = Head(inside)
  BY <1>1, <1>3 DEF Buffer
<1> HIDE DEF b
<1>5. SkipFits(b)
  BY <1>3, <1>4 DEF SkipFits
<1>6. b \in Carriers <=> Head(inside) \in Frames
  BY <1>1, <1>3, <1>4 DEF Carriers, Frames
<1>7. PutOutput(b)
  BY <1>2 DEF b
<1> QED
  BY <1>4, <1>5, <1>6, <1>7 DEF PutOutput

LEMMA DspKeepsFlights ==
  ASSUME MayLose = FALSE, Shapes, FlightInv, Dsp
  PROVE  FlightInv'
<1>1. /\ dspIn \in Seq(Codec .. MaxArrivals) /\ inside \in Seq(Codec .. MaxArrivals)
      /\ outq \in Seq(Buffer) /\ Len(inside) \in Nat
  BY DEF Shapes
<1>2. /\ UNCHANGED <<ts_count, ts_out_pos, ts_push_pos, arrived, skip_hack>>
      /\ up' = up \/ up' = Signalled(up)
      /\ loop' = loop \/ loop' = Signalled(loop)
  BY DspFlightFrame, DspFrame
<1>3. UpFlight' = UpFlight /\ LoopFlight' = LoopFlight
  BY <1>2, WokenFlights
<1>4. \A i \in 1 .. Len(outq) : SkipFits(outq[i])
  BY DEF FlightInv, OutputsFit
<1>5. CASE DspInput
  <2>1. /\ dspIn # <<>> /\ Len(inside) < DspDepth /\ dspIn' = Tail(dspIn)
        /\ inside' = Append(inside, Head(dspIn))
        /\ UNCHANGED <<outq, headers, skip_hack_2>>
    BY <1>5 DEF DspInput, selfVars
  <2>2. Head(dspIn) \in Codec .. MaxArrivals
    BY <1>1, <2>1, HeadAndTail
  <2>3. /\ Head(dspIn) \in Frames =>
             /\ Count(dspIn, Frames) = Count(Tail(dspIn), Frames) + 1
             /\ Count(Append(inside, Head(dspIn)), Frames) = Count(inside, Frames) + 1
        /\ Head(dspIn) \notin Frames =>
             /\ Count(dspIn, Frames) = Count(Tail(dspIn), Frames)
             /\ Count(Append(inside, Head(dspIn)), Frames) = Count(inside, Frames)
    BY <1>1, <2>1, <2>2, CountTail, CountAppend
  <2>4. /\ Count(dspIn, Frames)' = Count(Tail(dspIn), Frames)
        /\ Count(inside, Frames)' = Count(Append(inside, Head(dspIn)), Frames)
        /\ Count(outq, Carriers)' = Count(outq, Carriers)
    BY <2>1, CountThen
  <2>5. Count(Tail(dspIn), Frames) \in Nat
    BY <1>1, <2>1, HeadAndTail, CountBound
  <2>6. Flights' = Flights
    BY <1>3, <2>3, <2>4, <2>5, FlightsCounted DEF Flights
  <2>7. Balance'
    BY <1>2, <2>1, <2>6 DEF FlightInv, Balance
  <2>8. Len(inside') <= DspDepth
    <3>1. Len(inside') = Len(inside) + 1
      BY <1>1, <2>1, <2>2
    <3> QED
      BY <1>1, <2>1, <3>1, Constants
  <2>9. \A i \in 1 .. Len(outq') : SkipFits(outq'[i])
    BY <1>4, <2>1
  <2> QED
    BY <1>2, <2>7, <2>8, <2>9, MovedFlights
<1>6. CASE DspOutput
  <2>1. PICK b \in Buffer :
          /\ outq' = Append(outq, b) /\ SkipFits(b)
          /\ b \in Carriers <=> Head(inside) \in Frames
    BY <1>6, OutputCarries
  <2>2. /\ inside # <<>> /\ inside' = Tail(inside)
        /\ UNCHANGED <<dspIn, headers, skip_hack_2>>
    BY <1>6 DEF DspOutput, selfVars
  <2>3. /\ Head(inside) \in Frames =>
             /\ Count(inside, Frames) = Count(Tail(inside), Frames) + 1
             /\ Count(Append(outq, b), Carriers) = Count(outq, Carriers) + 1
        /\ Head(inside) \notin Frames =>
             /\ Count(inside, Frames) = Count(Tail(inside), Frames)
             /\ Count(Append(outq, b), Carriers) = Count(outq, Carriers)
    BY <1>1, <2>1, <2>2, CountTail, CountAppend
  <2>4. /\ Count(inside, Frames)' = Count(Tail(inside), Frames)
        /\ Count(outq, Carriers)' = Count(Append(outq, b), Carriers)
        /\ Count(dspIn, Frames)' = Count(dspIn, Frames)
    BY <2>1, <2>2, CountThen
  <2>5. Tail(inside) \in Seq(Codec .. MaxArrivals) /\ Len(Tail(inside)) = Len(inside) - 1
    BY <1>1, <2>2, HeadAndTail
  <2>6. Count(Tail(inside), Frames) \in Nat
    BY <2>5, CountBound
  <2>7. Flights' = Flights
    <3>1. Count(Tail(inside), Frames) + Count(Append(outq, b), Carriers)
            = Count(inside, Frames) + Count(outq, Carriers)
      BY <2>3, <2>6, FlightsCounted
    <3>2. Count(Append(outq, b), Carriers) \in Nat
      BY <2>3, FlightsCounted
    <3>3. /\ Count(dspIn, Frames) \in Nat /\ Count(inside, Frames) \in Nat
          /\ Count(outq, Carriers) \in Nat /\ UpFlight \in Nat /\ LoopFlight \in Nat
      BY FlightsCounted
    <3>4. Flights' = UpFlight + Count(dspIn, Frames) + Count(Tail(inside), Frames)
                     + Count(Append(outq, b), Carriers) + LoopFlight
      BY <1>3, <2>4 DEF Flights
    <3> QED
      BY <2>6, <3>1, <3>2, <3>3, <3>4 DEF Flights
  <2>8. Balance'
    BY <1>2, <2>2, <2>7 DEF FlightInv, Balance
  <2>9. Len(inside') <= DspDepth
    <3>1. inside' = Tail(inside) /\ Len(inside) <= DspDepth
      BY <2>2 DEF FlightInv, InputsFit
    <3> QED
      BY <1>1, <2>5, <3>1, Constants
  <2>10. \A i \in 1 .. Len(outq') : SkipFits(outq'[i])
    BY <1>1, <1>4, <2>1, AppendFits
  <2> QED
    BY <1>2, <2>8, <2>9, <2>10, MovedFlights
<1>7. CASE DspHeader
  <2> DEFINE b == [kind |-> "header", nr |-> NoFrame, data |-> TRUE]
  <2>1. b \in Carriers /\ b \in Buffer /\ SkipFits(b)
    BY Constants DEF Carriers, Buffer, Kinds, SkipFits
  <2>2. /\ outq' = Append(outq, b) /\ skip_hack_2' = skip_hack_2 + 1
        /\ headers < MaxHeaders /\ headers' = headers + 1
        /\ UNCHANGED <<dspIn, inside>>
    BY <1>7 DEF DspHeader, PutOutput
  <2> HIDE DEF b
  <2>3. Count(Append(outq, b), Carriers) = Count(outq, Carriers) + 1
    BY <1>1, <2>1, CountAppend
  <2>4. /\ Count(inside, Frames)' = Count(inside, Frames)
        /\ Count(outq, Carriers)' = Count(Append(outq, b), Carriers)
        /\ Count(dspIn, Frames)' = Count(dspIn, Frames)
    BY <2>2, CountThen
  <2>5. Flights' = Flights + 1 /\ Flights \in Nat
    BY <1>3, <2>3, <2>4, FlightsCounted DEF Flights
  <2>6. MaxHeaders # 0
    BY <2>2, Constants, BaseAssumption DEF FlightInv, Balance
  <2>7. Balance'
    BY <1>2, <2>2, <2>5, <2>6 DEF FlightInv, Balance
  <2>8. Len(inside') <= DspDepth
    BY <2>2 DEF FlightInv, InputsFit
  <2>9. \A i \in 1 .. Len(outq') : SkipFits(outq'[i])
    BY <1>1, <1>4, <2>1, <2>2, AppendFits
  <2> QED
    BY <1>2, <2>7, <2>8, <2>9, MovedFlights
<1>8. CASE DspLose
  BY <1>8 DEF DspLose
<1>9. CASE UNCHANGED <<dspIn, inside, outq, skip_hack_2, headers>>
  BY <1>2, <1>9, SameFlights
<1> QED
  BY <1>5, <1>6, <1>7, <1>8, <1>9, DspFlightFrame

(* app: a flush only moves ts_push_pos, and no pass is under way then. *)
LEMMA AppKeepsFlights ==
  ASSUME Shapes, Quiet, FlightInv, App
  PROVE  FlightInv'
<1>1. /\ UNCHANGED <<ts_count, ts_out_pos, arrived, skip_hack, skip_hack_2, headers,
                     dspIn, inside, outq>>
      /\ ts_push_pos' = ts_push_pos \/ FlushStopMark
      /\ up' = up \/ up' = Signalled(up)
      /\ loop' = loop \/ loop' = Signalled(loop)
  BY DEF App, FlushStart, FlushStartStatus, FlushStartUnlock, FlushStartPause, FlushStop,
         FlushStopMark, FlushStopStatus, FlushStopStart, MarkFlush, selfVars, queueVars,
         dspVars, ringVars, histVars
<1>2. CASE ts_push_pos' = ts_push_pos
  BY <1>1, <1>2, SameFlights
<1>3. CASE FlushStopMark
  <2>1. loop.at = "out" /\ UNCHANGED <<up, loop>>
    BY <1>3 DEF FlushStopMark, Quiet
  <2>2. UpFlight' = UpFlight /\ LoopFlight' = LoopFlight
    BY <1>1, WokenFlights
  <2>3. Flights' = Flights
    BY <1>1, <2>2, CountThen DEF Flights
  <2>4. Balance' /\ InputsFit'
    BY <1>1, <2>1, <2>3 DEF FlightInv, Balance, InputsFit
  <2>5. OutputsFit'
    BY <1>1, <2>1 DEF FlightInv, OutputsFit, SkipFits
  <2> QED
    BY <2>4, <2>5 DEF FlightInv
<1> QED
  BY <1>1, <1>2, <1>3

LEMMA OthersKeepFlights ==
  ASSUME Shapes, FlightInv, Release \/ SpuriousWakeup \/ UNCHANGED vars
  PROVE  FlightInv'
<1>1. /\ UNCHANGED <<ts_count, ts_out_pos, ts_push_pos, arrived, skip_hack, skip_hack_2,
                     headers, dspIn, inside, outq>>
      /\ up' = up \/ up' = Signalled(up)
      /\ loop' = loop \/ loop' = Signalled(loop)
  BY DEF Release, SpuriousWakeup, vars, selfVars, queueVars, dspVars, ringVars, histVars
<1> QED
  BY <1>1, SameFlights

(* loop: what a pass may do with the frame in flight that it has *)
LEMMA LoopFlightFrame ==
  ASSUME Loop
  PROVE  /\ UNCHANGED <<dspIn, inside, arrived, mark, headers>>
         /\ up' = up \/ up' = Signalled(up)
BY OutputLoopFrame
   DEF Loop, LoopPop, LoopNull, LoopCheck, LoopUnexpected, LoopEvents, LoopRealloc,
       LoopEmpty, LoopSkip, LoopDrop, LoopAlloc, LoopHack, LoopTake, LoopPush, LoopEos,
       LoopKeep, LoopLeave, PauseSync, PauseUnlock, PauseEos, loopKeeps

(* d is 1 if the frame in flight is done with. *)
LEMMA PassFlights ==
  ASSUME Shapes, Shapes', FlightInv, Loop, NEW d \in {0, 1},
         Count(outq', Carriers) + LoopFlight' + d = Count(outq, Carriers) + LoopFlight,
         \/ ts_count >= d /\ ts_count' = ts_count - d /\ skip_hack_2' = skip_hack_2
         \/ skip_hack_2 > 0 /\ ts_count' = ts_count /\ skip_hack_2' = skip_hack_2 - 1
         \/ ts_count = 0 /\ ts_count' = 0 /\ skip_hack_2 = 0 /\ skip_hack_2' = 0,
         OutputsFit'
  PROVE  FlightInv'
<1>1. /\ UNCHANGED <<dspIn, inside, arrived, headers>>
      /\ up'.at = up.at
  BY LoopFlightFrame, SignalledUp DEF Shapes
<1>2. UpFlight' = UpFlight
  BY <1>1 DEF UpFlight
<1>3. InputsFit'
  BY <1>1 DEF FlightInv, InputsFit
<1>4. /\ Count(dspIn, Frames) \in Nat /\ Count(inside, Frames) \in Nat
      /\ Count(outq, Carriers) \in Nat /\ UpFlight \in Nat /\ LoopFlight \in Nat
  BY FlightsCounted
<1>5. Count(outq', Carriers) \in Nat /\ LoopFlight' \in Nat
  BY CountBound DEF Shapes, LoopFlight
<1>6. Flights' = UpFlight + Count(dspIn, Frames) + Count(inside, Frames)
                 + Count(outq', Carriers) + LoopFlight'
  BY <1>1, <1>2, CountThen DEF Flights
<1>7. Flights' = Flights - d /\ Flights \in Nat /\ d \in Nat /\ Flights - d >= 0
  BY <1>4, <1>5, <1>6 DEF Flights
<1>8. /\ ts_count \in Nat /\ skip_hack_2 \in Nat /\ headers \in Nat
      /\ ts_count + skip_hack_2 <= Flights
      /\ MaxHeaders = 0 => ts_count = Flights
  BY DEF FlightInv, Balance
<1>9. Balance'
  <2>1. headers' \in Nat
    BY <1>1, <1>8
  <2>2. CASE ts_count >= d /\ ts_count' = ts_count - d /\ skip_hack_2' = skip_hack_2
    BY <1>7, <1>8, <2>1, <2>2 DEF Balance
  <2>3. CASE skip_hack_2 > 0 /\ ts_count' = ts_count /\ skip_hack_2' = skip_hack_2 - 1
    BY <1>7, <1>8, <2>1, <2>3 DEF Balance
  <2>4. CASE ts_count = 0 /\ ts_count' = 0 /\ skip_hack_2 = 0 /\ skip_hack_2' = 0
    BY <1>7, <1>8, <2>1, <2>4 DEF Balance
  <2> QED
    BY <2>2, <2>3, <2>4
<1> QED
  BY <1>3, <1>9 DEF FlightInv

LEMMA RestFits ==
  ASSUME FlightInv, skip_hack' = skip_hack, outq' = outq,
         loop'.at \notin {"hack", "data", "take", "keep"},
         loop'.tb = loop.tb \/ loop'.tb = NoBuffer
  PROVE  OutputsFit'
BY DEF FlightInv, OutputsFit, SkipFits, NoBuffer

LEMMA NoCarrier ==
  /\ NoBuffer \notin Carriers
  /\ \A b \in Buffer \cup {NoBuffer} :
       /\ b.kind = "none" => b \notin Carriers
       /\ b.data = FALSE => b \notin Carriers
       /\ b.kind = "empty" => b \notin Carriers
       /\ b.data = TRUE /\ b.kind \in {"frame", "header", "skip"} => b \in Carriers
       /\ b.data \in BOOLEAN
       /\ b.kind \in {"none", "frame", "header", "skip", "empty"}
<1>1. NoBuffer.kind = "none" /\ NoBuffer.data = FALSE
  BY DEF NoBuffer
<1>2. NoBuffer \notin Carriers
  BY <1>1 DEF Carriers
<1>3. \A b \in Buffer : b.data \in BOOLEAN /\ b.kind \in {"frame", "header", "skip", "empty"}
  BY DEF Buffer, Kinds
<1> QED
  BY <1>1, <1>2, <1>3 DEF Carriers

LEMMA PopKeepsFlights ==
  ASSUME Shapes, Shapes', LoopHolders, FlightInv, Loop, LoopPop
  PROVE  FlightInv'
<1>1. /\ outq \in Seq(Buffer) /\ loop \in LoopLocals
      /\ loop.tb \in Buffer \cup {NoBuffer}
      /\ loop.at \in {"out", "pop"} /\ loop.tb.kind = "none"
      /\ UNCHANGED <<ts_count, skip_hack, skip_hack_2>>
  BY DEF Shapes, LoopLocals, LoopPop, LoopHolders, ringVars, selfVars
<1>2. LoopFlight = 0
  BY <1>1, NoCarrier, LoopFlightOf
<1>3. CASE /\ outq # <<>> /\ outq' = Tail(outq)
           /\ loop' = [loop EXCEPT !.at = "check", !.wait = "no", !.tb = Head(outq)]
  <2>1. loop'.at = "check" /\ loop'.tb = Head(outq)
    BY <1>1, <1>3 DEF LoopLocals
  <2>2. /\ Head(outq) = outq[1] /\ 1 \in 1 .. Len(outq)
        /\ \A i \in 1 .. Len(Tail(outq)) : Tail(outq)[i] = outq[i + 1] /\ i + 1 \in 1 .. Len(outq)
    BY <1>1, <1>3
  <2>3. OutputsFit'
    BY <1>1, <1>3, <2>1, <2>2 DEF FlightInv, OutputsFit, SkipFits
  <2>4. Count(outq', Carriers) \in Nat
    BY CountBound DEF Shapes
  <2>5. Count(outq', Carriers) + LoopFlight' = Count(outq, Carriers)
    <3>1. CASE Head(outq) \in Carriers
      BY <1>1, <1>3, <2>1, <3>1, CountTail, LoopFlightThen
    <3>2. CASE Head(outq) \notin Carriers
      BY <1>1, <1>3, <2>1, <2>4, <3>2, CountTail, LoopFlightThen
    <3> QED
      BY <3>1, <3>2
  <2>6. Count(outq', Carriers) + LoopFlight' + 0 = Count(outq, Carriers) + LoopFlight
    BY <1>2, <2>5, FlightsCounted
  <2> QED
    BY <1>1, <2>3, <2>6, PassFlights DEF FlightInv, Balance
<1>4. CASE outq' = outq /\ loop'.at \in {"null", "pop"} /\ loop'.tb = loop.tb
  <2>1. LoopFlight' = 0
    BY <1>1, <1>4, NoCarrier, LoopFlightThen
  <2>2. OutputsFit'
    BY <1>1, <1>4, RestFits
  <2>3. Count(outq', Carriers) + LoopFlight' + 0 = Count(outq, Carriers) + LoopFlight
    BY <1>2, <1>4, <2>1, FlightsCounted
  <2> QED
    BY <1>1, <2>2, <2>3, PassFlights DEF FlightInv, Balance
<1> QED
  <2>1. \/ /\ outq # <<>> /\ outq' = Tail(outq)
           /\ loop' = [loop EXCEPT !.at = "check", !.wait = "no", !.tb = Head(outq)]
        \/ outq' = outq /\ loop'.at \in {"null", "pop"} /\ loop'.tb = loop.tb
    BY <1>1 DEF LoopPop, LoopLocals
  <2> QED
    BY <1>3, <1>4, <2>1

(* Steps that keep the frame, or have none *)
LEMMA PlainStep ==
  ASSUME Shapes, Shapes', FlightInv, Loop, OutputsFit', LoopFlight' = LoopFlight,
         UNCHANGED <<outq, ts_count, skip_hack_2>>
  PROVE  FlightInv'
<1>1. Count(outq', Carriers) + LoopFlight' + 0 = Count(outq, Carriers) + LoopFlight
  BY FlightsCounted
<1> QED
  BY <1>1, PassFlights DEF FlightInv, Balance

LEMMA RestStep ==
  ASSUME Shapes, Shapes', FlightInv, Loop, LoopFlight' = LoopFlight,
         UNCHANGED <<outq, ts_count, skip_hack, skip_hack_2>>,
         loop'.at \notin {"hack", "data", "take", "keep"},
         loop'.tb = loop.tb \/ loop'.tb = NoBuffer
  PROVE  FlightInv'
BY RestFits, PlainStep

(* A frame is counted down. *)
LEMMA CountedStep ==
  ASSUME Shapes, Shapes', FlightInv, Loop, Advance, ts_count > 0,
         UNCHANGED <<outq, skip_hack, skip_hack_2>>,
         LoopFlight = 1, loop'.at \in {"leave", "push"}, loop'.tb = loop.tb
  PROVE  FlightInv'
<1>1. LoopFlight' = 0
  BY LoopFlightThen
<1>2. OutputsFit'
  BY RestFits
<1>3. Count(outq', Carriers) + LoopFlight' + 1 = Count(outq, Carriers) + LoopFlight
  BY <1>1, FlightsCounted
<1>4. ts_count >= 1 /\ ts_count' = ts_count - 1
  BY DEF Advance, FlightInv, Balance
<1> QED
  BY <1>2, <1>3, <1>4, PassFlights

(* A buffer is put back into the queue. *)
LEMMA PutBackStep ==
  ASSUME Shapes, Shapes', FlightInv, Loop, loop.tb \in Buffer, SkipFits(loop.tb),
         outq' = Append(outq, loop.tb),
         UNCHANGED <<ts_count, skip_hack, skip_hack_2>>,
         loop'.at \in {"pause", "out"}, loop'.tb = NoBuffer,
         loop.tb \in Carriers => LoopFlight = 1,
         loop.tb \notin Carriers => LoopFlight = 0
  PROVE  FlightInv'
<1>1. LoopFlight' = 0
  BY NoCarrier, LoopFlightThen
<1>2. outq \in Seq(Buffer)
  BY DEF Shapes
<1>3. OutputsFit'
  <2>1. \A i \in 1 .. Len(outq') : SkipFits(outq'[i])
    BY <1>2, AppendFits DEF FlightInv, OutputsFit
  <2> QED
    BY <2>1 DEF FlightInv, OutputsFit, SkipFits, NoBuffer
<1>4. Count(outq', Carriers) + LoopFlight' + 0 = Count(outq, Carriers) + LoopFlight
  <2>1. CASE loop.tb \in Carriers
    <3>1. Count(outq', Carriers) = Count(outq, Carriers) + 1
      BY <1>2, <2>1, CountAppend
    <3> QED
      BY <1>1, <2>1, <3>1, FlightsCounted
  <2>2. CASE loop.tb \notin Carriers
    <3>1. Count(outq', Carriers) = Count(outq, Carriers)
      BY <1>2, <2>2, CountAppend
    <3> QED
      BY <1>1, <2>2, <3>1, FlightsCounted
  <2> QED
    BY <2>1, <2>2
<1> QED
  BY <1>3, <1>4, PassFlights DEF FlightInv, Balance

LEMMA LoopKeepsFlights ==
  ASSUME MaySkip = FALSE \/ MaxHeaders = 0, Shapes, Shapes', LoopHolders, FlightInv, Loop
  PROVE  FlightInv'
<1> USE DEF selfVars, queueVars
<1>1. /\ loop \in LoopLocals /\ loop.tb \in Buffer \cup {NoBuffer} /\ outq \in Seq(Buffer)
      /\ RingTypeOK /\ deferred_eos \in BOOLEAN /\ status \in Flow
      /\ loop.tb.data \in BOOLEAN
      /\ loop.tb.kind \in {"none", "frame", "header", "skip", "empty"}
  BY NoCarrier DEF Shapes, LoopLocals
<1>2. /\ OutputsFit /\ ts_count \in Nat /\ skip_hack_2 \in Nat
      /\ MaxHeaders = 0 => ts_count = Flights
      /\ loop.at # "hack" /\ skip_hack = 0 /\ SkipFits(loop.tb)
  BY DEF FlightInv, Balance, OutputsFit
<1>3. CASE LoopPop
  BY <1>3, PopKeepsFlights
<1>4. CASE LoopNull
  <2>1. /\ loop.at = "null" /\ loop.tb.kind = "none"
        /\ UNCHANGED <<outq, ts_count, skip_hack, skip_hack_2>>
    BY <1>4 DEF LoopNull, LoopHolders, ringVars
  <2>2. loop'.at \in {"out", "pause"} /\ (loop'.tb = loop.tb \/ loop'.tb = NoBuffer)
    BY <1>1, <1>4, LoopNullParts, PassEndLocals
  <2>3. LoopFlight = 0 /\ LoopFlight' = 0
    BY <1>1, <2>1, <2>2, NoCarrier, LoopFlightOf, LoopFlightThen
  <2> QED
    BY <2>1, <2>2, <2>3, RestStep
<1>5. ASSUME loop.at \in {"check", "work", "pause", "unlock", "last"},
             loop'.at \in {"work", "data", "pause", "unlock", "last"}, loop'.tb = loop.tb
      PROVE  LoopFlight' = LoopFlight
  BY <1>5, LoopFlightOf, LoopFlightThen
<1>6. CASE LoopCheck
  <2>1. loop.at = "check" /\ UNCHANGED <<outq, ts_count, skip_hack, skip_hack_2>>
    BY <1>6 DEF LoopCheck, ringVars
  <2>2. loop'.at \in {"work", "pause"} /\ loop'.tb = loop.tb
    BY <1>1, <1>6, LoopCheckParts
  <2> QED
    BY <1>5, <2>1, <2>2, RestStep
<1>7. CASE LoopUnexpected
  <2>1. /\ loop.at = "work" /\ loop' = At("leave") /\ UNCHANGED <<outq, ts_count, skip_hack>>
        /\ \/ skip_hack_2 > 0 /\ skip_hack_2' = skip_hack_2 - 1
           \/ skip_hack_2 = 0 /\ skip_hack_2' = 0 /\ ts_count = 0
    BY <1>7 DEF LoopUnexpected, ringVars
  <2>2. loop'.at = "leave" /\ loop'.tb = loop.tb
    BY <1>1, <2>1, LoopAtParts DEF LoopPlaces
  <2>3. LoopFlight' = 0 /\ LoopFlight \in {0, 1}
    BY <2>2, LoopFlightThen, FlightsCounted
  <2>4. Count(outq', Carriers) + LoopFlight' + LoopFlight = Count(outq, Carriers) + LoopFlight
    BY <2>1, <2>3, FlightsCounted
  <2>5. OutputsFit'
    BY <2>1, <2>2, RestFits
  <2> QED
    BY <2>1, <2>3, <2>4, <2>5, PassFlights
<1>8. CASE LoopEvents
  <2>1. /\ loop.at = "work" /\ loop' = At("data") /\ ~(HasLen(loop.tb) /\ ts_count = 0)
        /\ UNCHANGED <<outq, ts_count, skip_hack, skip_hack_2>>
    BY <1>8 DEF LoopEvents, ClearEvents
  <2>2. loop'.at = "data" /\ loop'.tb = loop.tb
    BY <1>1, <2>1, LoopAtParts DEF LoopPlaces
  <2>3. OutputsFit'
    BY <1>2, <2>1, <2>2 DEF OutputsFit, SkipFits, HasLen
  <2> QED
    BY <1>5, <2>1, <2>2, <2>3, PlainStep
<1>9. CASE LoopRealloc
  <2>1. /\ loop.at = "data" /\ loop.tb.data = FALSE
        /\ UNCHANGED <<outq, ts_count, skip_hack, skip_hack_2>>
    BY <1>1, <1>9 DEF LoopRealloc, ringVars
  <2>2. loop'.at = "out" /\ loop'.tb = NoBuffer
    BY <1>9, LoopReallocParts, PassEndLocals
  <2>3. LoopFlight = 0 /\ LoopFlight' = 0
    BY <1>1, <2>1, <2>2, NoCarrier, LoopFlightOf, LoopFlightThen
  <2> QED
    BY <2>1, <2>2, <2>3, RestStep
<1>10. CASE LoopEmpty
  <2>1. /\ loop.at = "data" /\ loop' = At("leave")
        /\ UNCHANGED <<outq, ts_count, skip_hack, skip_hack_2>>
        /\ ~HasLen(loop.tb) /\ ~IsSkip(loop.tb) /\ loop.tb.kind # "none"
    BY <1>10 DEF LoopEmpty, ringVars, LoopHolders
  <2>2. loop'.at = "leave" /\ loop'.tb = loop.tb
    BY <1>1, <2>1, LoopAtParts DEF LoopPlaces
  <2>3. loop.tb.kind = "empty"
    BY <1>1, <2>1 DEF HasLen, IsSkip
  <2>4. LoopFlight = 0 /\ LoopFlight' = 0
    BY <1>1, <2>1, <2>2, <2>3, NoCarrier, LoopFlightOf, LoopFlightThen
  <2> QED
    BY <2>1, <2>2, <2>4, RestStep
<1>11. CASE LoopSkip \/ LoopDrop
  <2>1. /\ loop' = [loop EXCEPT !.at = "leave", !.eos = LastBeforeEos]
        /\ loop.at = "data" /\ loop.tb.data = TRUE /\ Advance
        /\ UNCHANGED <<outq, skip_hack, skip_hack_2>>
        /\ \/ loop.tb.kind = "skip"
           \/ HasLen(loop.tb)
    BY <1>1, <1>11 DEF LoopSkip, LoopDrop, SkipFrame, DropFrame, IsSkip
  <2>2. loop'.at = "leave" /\ loop'.tb = loop.tb
    BY <1>1, <2>1, LoopCountParts
  <2>3. LoopFlight = 1
    BY <1>1, <2>1, NoCarrier, LoopFlightOf DEF HasLen
  <2>4. ts_count > 0
    <3>1. CASE loop.tb.kind = "skip"
      <4>1. ts_count = Flights
        BY <1>2, <3>1 DEF SkipFits
      <4> QED
        BY <2>3, <4>1, FlightsCounted DEF Flights
    <3> QED
      BY <1>2, <2>1, <3>1 DEF OutputsFit
  <2> QED
    BY <2>1, <2>2, <2>3, <2>4, CountedStep
<1>12. CASE LoopAlloc
  <2>1. /\ loop.at = "data" /\ loop.tb.data = TRUE /\ HasLen(loop.tb) /\ ~Flushing
        /\ UNCHANGED <<ts_count, ts_out_pos, ts_push_pos, skip_hack, skip_hack_2>>
        /\ loop.tb.kind \notin {"none", "skip"}
    BY <1>1, <1>12 DEF LoopAlloc, ringVars, HasLen
  <2>2. LoopFlight = 1 /\ loop.tb \in Carriers /\ ts_count > 0 /\ loop.tb \in Buffer
    BY <1>1, <1>2, <2>1, NoCarrier, LoopFlightOf DEF OutputsFit, HasLen, NoBuffer
  <2>3. CASE outq' = Append(outq, loop.tb) /\ loop'.tb = NoBuffer /\ loop'.at = "pause"
    BY <1>2, <2>1, <2>2, <2>3, PutBackStep
  <2>4. CASE outq' = outq /\ loop'.tb.kind = loop.tb.kind /\ loop'.at = "take"
    <3>1. LoopFlight' = 1
      BY <2>4, LoopFlightThen
    <3>2. OutputsFit'
      BY <1>2, <2>1, <2>2, <2>4 DEF OutputsFit, SkipFits, Flushing, HasLen
    <3> QED
      BY <2>1, <2>2, <2>4, <3>1, <3>2, PlainStep
  <2>5. loop'.at # "hack"
    <3>1. PICK p \in {"hack", "take"} : p = IF skip_hack > 0 THEN "hack" ELSE "take"
      OBVIOUS
    <3>2. p = "take"
      BY <1>2, <3>1
    <3>3. CASE loop' = [loop EXCEPT !.at = p, !.tb.data = UsePadAlloc]
      BY <1>1, <3>2, <3>3 DEF LoopLocals
    <3>4. ASSUME NEW r, loop' = PauseWith([loop EXCEPT !.tb = NoBuffer], r)
          PROVE  loop'.at # "hack"
      BY <1>1, <3>4 DEF PauseWith, LoopLocals
    <3> QED
      BY <1>12, <3>1, <3>3, <3>4 DEF LoopAlloc
  <2> QED
    BY <1>1, <1>12, <2>1, <2>3, <2>4, <2>5, LoopAllocParts
<1>13. CASE LoopHack
  BY <1>2, <1>13 DEF LoopHack
<1>14. CASE LoopTake
  <2>1. loop.at = "take" /\ Advance /\ UNCHANGED <<outq, skip_hack, skip_hack_2>>
    BY <1>14 DEF LoopTake, TakeFrame
  <2>2. loop'.at = "push" /\ loop'.tb = loop.tb
    BY <1>1, <1>14, LoopTakeParts
  <2>3. LoopFlight = 1 /\ ts_count > 0
    BY <1>2, <2>1, LoopFlightOf DEF OutputsFit
  <2> QED
    BY <2>1, <2>2, <2>3, CountedStep
<1>15. CASE LoopPush
  <2>1. loop.at = "push" /\ UNCHANGED <<outq, ts_count, skip_hack, skip_hack_2>>
    BY <1>15 DEF LoopPush, ringVars
  <2>2. loop'.at = "leave" /\ (loop'.tb = loop.tb \/ loop'.tb = NoBuffer)
    BY <1>1, <1>15, LoopPushParts DEF GoesOn
  <2>3. LoopFlight = 0 /\ LoopFlight' = 0
    BY <2>1, <2>2, LoopFlightOf, LoopFlightThen
  <2> QED
    BY <2>1, <2>2, <2>3, RestStep
<1>16. CASE LoopEos
  <2>1. loop.at = "leave" /\ UNCHANGED <<outq, ts_count, skip_hack, skip_hack_2>>
    BY <1>16 DEF LoopEos, ringVars
  <2>2. /\ loop'.tb = loop.tb /\ loop'.at \in {"leave", "keep"}
        /\ loop'.at = "keep" => loop.tb.data = FALSE
    BY <1>1, <1>16 DEF LoopEos, LoopLocals
  <2>3. LoopFlight = 0 /\ LoopFlight' = 0
    BY <2>1, <2>2, LoopFlightOf, LoopFlightThen
  <2>4. OutputsFit'
    BY <1>2, <2>1, <2>2 DEF OutputsFit, SkipFits
  <2> QED
    BY <2>1, <2>3, <2>4, PlainStep
<1>17. CASE LoopKeep
  <2>1. /\ loop.at = "keep" /\ outq' = Append(outq, loop.tb) /\ loop.tb.kind # "none"
        /\ UNCHANGED <<ts_count, skip_hack, skip_hack_2>> /\ loop.tb.data = FALSE
    BY <1>2, <1>17 DEF LoopKeep, ringVars, LoopHolders, OutputsFit
  <2>2. loop'.at = "pause" /\ loop'.tb = NoBuffer
    BY <1>1, <1>17, LoopKeepParts
  <2>3. LoopFlight = 0 /\ loop.tb \in Buffer /\ loop.tb \notin Carriers
    BY <1>1, <2>1, NoCarrier, LoopFlightOf DEF NoBuffer
  <2> QED
    BY <1>2, <2>1, <2>2, <2>3, PutBackStep
<1>18. CASE LoopLeave
  <2>1. loop.at = "leave" /\ UNCHANGED <<outq, ts_count, skip_hack, skip_hack_2>>
    BY <1>18 DEF LoopLeave, ringVars
  <2>2. loop'.at \in {"out", "pause"} /\ loop'.tb = NoBuffer
    BY <1>1, <1>18, LoopLeaveParts, PassEndLocals
  <2>3. LoopFlight = 0 /\ LoopFlight' = 0
    BY <2>1, <2>2, LoopFlightOf, LoopFlightThen, NoCarrier
  <2> QED
    BY <2>1, <2>2, <2>3, RestStep
<1>19. CASE PauseSync \/ PauseUnlock
  <2>1. /\ loop.at \in {"pause", "unlock"}
        /\ UNCHANGED <<outq, ts_count, skip_hack, skip_hack_2>>
    BY <1>19 DEF PauseSync, PauseUnlock, ringVars
  <2>2. loop'.at \in {"unlock", "last"} /\ loop'.tb = loop.tb
    BY <1>1, <1>19, PauseSyncParts, PauseUnlockParts
  <2> QED
    BY <1>5, <2>1, <2>2, RestStep
<1>20. CASE PauseEos
  <2>1. loop.at = "last" /\ UNCHANGED <<ts_count, skip_hack, skip_hack_2>>
    BY <1>20 DEF PauseEos, ringVars
  <2>2. CASE loop'.at = "pause" /\ loop'.tb = loop.tb /\ outq' = outq
    BY <1>5, <2>1, <2>2, RestStep
  <2>3. CASE loop' = PassEnd /\ loop.tb.kind = "none" /\ outq' = outq
    <3>1. loop'.at = "out" /\ loop'.tb = NoBuffer
      BY <2>3, PassEndLocals
    <3>2. LoopFlight = 0 /\ LoopFlight' = 0
      BY <1>1, <2>1, <2>3, <3>1, LoopFlightOf, LoopFlightThen, NoCarrier
    <3> QED
      BY <2>1, <2>3, <3>1, <3>2, RestStep
  <2>4. CASE loop' = PassEnd /\ loop.tb.kind # "none" /\ outq' = Append(outq, loop.tb)
    <3>1. loop'.at = "out" /\ loop'.tb = NoBuffer
      BY <2>4, PassEndLocals
    <3>2. /\ loop.tb \in Buffer
          /\ loop.tb \in Carriers => LoopFlight = 1
          /\ loop.tb \notin Carriers => LoopFlight = 0
      BY <1>1, <2>1, <2>4, LoopFlightOf DEF NoBuffer
    <3> QED
      BY <1>2, <2>1, <2>4, <3>1, <3>2, PutBackStep
  <2> QED
    BY <1>1, <1>20, <2>2, <2>3, <2>4, PauseEosParts
<1> QED
  BY <1>3, <1>4, <1>6, <1>7, <1>8, <1>9, <1>10, <1>11, <1>12, <1>13, <1>14, <1>15,
     <1>16, <1>17, <1>18, <1>19, <1>20 DEF Loop

(* What TsRing calls ready *)
Ready == loop.at \in {"data", "take"} /\ loop.tb.kind # "empty"

LEMMA RingStutters ==
  ASSUME UNCHANGED <<ringVars, arrived, mark, down>>, Ready' = Ready
  PROVE  UNCHANGED Ring!vars
BY DEF Ready, Ring!vars, Ring!ringVars, ringVars

LEMMA RingLeaves ==
  ASSUME UNCHANGED <<ringVars, arrived, mark, down>>, ~Ready'
  PROVE  [Ring!Next]_(Ring!vars)
<1>1. CASE Ready
  BY <1>1 DEF Ready, Ring!Next, Ring!Leave, Ring!ringVars, ringVars
<1>2. CASE ~Ready
  BY <1>2 DEF Ready, Ring!vars, Ring!ringVars, ringVars
<1> QED
  BY <1>1, <1>2

(* up: there is room for the frame, because its buffer is not at the DSP yet. *)
LEMMA UpImplementsRing ==
  ASSUME KeptInv, FlightInv, Up
  PROVE  [Ring!Next]_(Ring!vars)
<1>1. /\ Shapes /\ UpHolders /\ LoopHolders /\ BuffersKept
      /\ UNCHANGED <<loop, mark, down>> /\ Ready' = Ready
  BY UpFlightFrame DEF KeptInv, Ready
<1>2. CASE ChainStore
  <2>1. ts_count < Capacity
    <3>1. up.at = "store" /\ up.tb
      BY <1>1, <1>2 DEF ChainStore, UpHolders
    <3>2. UpHas = 1 /\ UpFlight = 0
      BY <3>1 DEF UpHas, UpFlight
    <3>3. Len(dspIn) <= InBufs - 1
      BY <1>1, <3>2, Constants DEF BuffersKept, Shapes
    <3>4. Len(outq) + LoopFlight <= OutBufs
      <4>1. LoopFlight <= LoopHas
        BY <1>1, NoCarrier DEF LoopFlight, LoopHas, LoopHolders, Shapes, LoopLocals
      <4> QED
        BY <1>1, <4>1, Constants, FlightsCounted DEF BuffersKept, Shapes, LoopHas
    <3>5. Len(inside) <= DspDepth
      BY DEF FlightInv, InputsFit
    <3>6. Len(dspIn) \in Nat /\ Len(inside) \in Nat /\ Len(outq) \in Nat
      BY <1>1 DEF Shapes
    <3>7. Flights < Capacity
      BY <1>1, <3>2, <3>3, <3>4, <3>5, <3>6, Constants, FlightsCounted DEF Flights, Capacity
    <3>8. Flights \in Nat /\ Capacity \in Nat
      BY <1>1, Constants, FlightsCounted DEF Flights, Capacity
    <3> QED
      BY <3>7, <3>8 DEF FlightInv, Balance
  <2>2. arrived < MaxArrivals /\ arrived' = arrived + 1 /\ StoreFrame(arrived + 1)
    BY <1>1, <1>2 DEF ChainStore, Shapes
  <2> QED
    BY <1>1, <2>1, <2>2
       DEF Ready, Ring!Next, Ring!ChainFrame, Ring!StoreFrame, Ring!NextPos, StoreFrame, NextPos
<1>3. CASE SerializedEvent
  BY <1>1, <1>3
     DEF SerializedEvent, Ready, Ring!Next, Ring!SinkEvent, Ring!StoreEvent, StoreEvent
<1>4. CASE ~ChainStore /\ ~SerializedEvent
  <2>1. UNCHANGED <<ringVars, arrived>>
    BY <1>4
       DEF Up, ChainPop, ChainCheck, ChainSend, EosArrives, EosNow, EosClock,
           FlushBufferPop, FlushBufferSend, histVars
  <2> QED
    BY <1>1, <2>1, RingStutters
<1> QED
  BY <1>2, <1>3, <1>4

LEMMA AppImplementsRing ==
  ASSUME Shapes, Quiet, App
  PROVE  [Ring!Next]_(Ring!vars)
<1>1. Ready' = Ready
  <2>1. loop' = loop \/ loop' = Signalled(loop)
    BY DEF App, FlushStart, FlushStartStatus, FlushStartUnlock, FlushStartPause, FlushStop,
           FlushStopMark, FlushStopStatus, FlushStopStart
  <2> QED
    BY <2>1, SignalledLoop DEF Shapes, Ready
<1>2. CASE FlushStopMark
  <2>1. ~Ready /\ ~Ready'
    BY <1>1, <1>2 DEF FlushStopMark, Quiet, Ready
  <2> QED
    BY <1>2, <2>1
       DEF FlushStopMark, Ready, Ring!Next, Ring!FlushStop, Ring!MarkFlush, MarkFlush
<1>3. CASE ~FlushStopMark
  <2>1. UNCHANGED <<ringVars, arrived, mark, down>>
    BY <1>3
       DEF App, FlushStart, FlushStartStatus, FlushStartUnlock, FlushStartPause, FlushStop,
           FlushStopStatus, FlushStopStart, histVars
  <2> QED
    BY <1>1, <2>1, RingStutters
<1> QED
  BY <1>2, <1>3

LEMMA OthersImplementRing ==
  ASSUME Shapes, Dsp \/ Release \/ SpuriousWakeup \/ UNCHANGED vars
  PROVE  UNCHANGED Ring!vars
<1>1. /\ UNCHANGED <<ringVars, arrived, mark, down>>
      /\ loop' = loop \/ loop' = Signalled(loop)
  BY DspFrame
     DEF Dsp, DspInput, DspOutput, DspLose, DspHeader, DspError, DspErrorUnlock,
         EosTimeout, EosTimeoutUnlock, dspKeeps, Release, SpuriousWakeup, vars, histVars
<1>2. Ready' = Ready
  BY <1>1, SignalledLoop DEF Shapes, Ready
<1> QED
  BY <1>1, <1>2, RingStutters

(* loop: a pass pushes the events of a slot, and then takes its frame, skips *)
(* it, drops it or leaves it.                                                *)
LEMMA LoopImplementsRing ==
  ASSUME MaySkip = FALSE \/ MaxHeaders = 0, Shapes, LoopHolders, FlightInv, Loop
  PROVE  [Ring!Next]_(Ring!vars)
<1> USE DEF loopKeeps
<1>1. /\ loop \in LoopLocals /\ loop.tb \in Buffer \cup {NoBuffer} /\ outq \in Seq(Buffer)
      /\ RingTypeOK /\ deferred_eos \in BOOLEAN /\ status \in Flow
      /\ loop.tb.data \in BOOLEAN
      /\ loop.tb.kind \in {"none", "frame", "header", "skip", "empty"}
  BY NoCarrier DEF Shapes, LoopLocals
<1>2. /\ OutputsFit /\ ts_count \in Nat
      /\ MaxHeaders = 0 => ts_count = Flights
      /\ loop.at # "hack" /\ SkipFits(loop.tb)
  BY DEF FlightInv, Balance, OutputsFit
<1>3. ASSUME UNCHANGED <<ringVars, arrived, mark, down>>, loop'.at \notin {"data", "take"}
      PROVE  [Ring!Next]_(Ring!vars)
  BY <1>3, RingLeaves DEF Ready
<1>4. CASE LoopPop
  <2>1. loop'.at \in {"check", "null", "pop"}
    BY <1>1, <1>4, LoopPopParts
  <2> QED
    BY <1>3, <1>4, <2>1 DEF LoopPop
<1>5. CASE LoopNull
  <2>1. loop'.at \in {"out", "pause"}
    BY <1>1, <1>5, LoopNullParts, PassEndLocals
  <2> QED
    BY <1>3, <1>5, <2>1 DEF LoopNull
<1>6. CASE LoopCheck
  <2>1. loop'.at \in {"work", "pause"}
    BY <1>1, <1>6, LoopCheckParts
  <2> QED
    BY <1>3, <1>6, <2>1 DEF LoopCheck
<1>7. CASE LoopUnexpected \/ LoopEmpty
  <2>1. loop' = At("leave") /\ UNCHANGED <<ringVars, arrived, mark, down>>
    BY <1>7 DEF LoopUnexpected, LoopEmpty
  <2>2. loop'.at = "leave"
    BY <1>1, <2>1, LoopAtParts DEF LoopPlaces
  <2> QED
    BY <1>3, <2>1, <2>2
<1>8. CASE LoopEvents
  <2>1. /\ loop.at = "work" /\ loop' = At("data") /\ ~(HasLen(loop.tb) /\ ts_count = 0)
        /\ ClearEvents /\ down' = down \o EventsToPush /\ UNCHANGED <<arrived, mark>>
        /\ loop.tb.kind # "none"
    BY <1>8 DEF LoopEvents, LoopHolders
  <2>2. loop'.at = "data" /\ loop'.tb = loop.tb
    BY <1>1, <2>1, LoopAtParts DEF LoopPlaces
  <2>3. ~Ready /\ Ready' \in BOOLEAN
    BY <2>1 DEF Ready
  <2>4. Ready' => ts_count > 0
    <3>1. SUFFICES ASSUME loop.tb.kind # "empty" PROVE ts_count > 0
      BY <2>2 DEF Ready
    <3>2. CASE HasLen(loop.tb)
      BY <1>2, <2>1, <3>2
    <3>3. CASE loop.tb.kind = "skip"
      <4>1. loop.tb.data = TRUE /\ ts_count = Flights
        BY <1>2, <3>3 DEF SkipFits
      <4>2. LoopFlight = 1
        BY <1>1, <2>1, <3>3, <4>1, NoCarrier, LoopFlightOf
      <4> QED
        BY <4>1, <4>2, FlightsCounted DEF Flights
    <3> QED
      BY <1>1, <2>1, <3>1, <3>2, <3>3 DEF HasLen
  <2> QED
    BY <2>1, <2>3, <2>4
       DEF Ready, Ring!Next, Ring!PushEvents, Ring!ClearEvents, Ring!EventsToPush,
           Ring!Flushing, ClearEvents, EventsToPush, Flushing
<1>9. CASE LoopRealloc
  <2>1. loop'.at = "out"
    BY <1>9, LoopReallocParts, PassEndLocals
  <2> QED
    BY <1>3, <1>9, <2>1 DEF LoopRealloc
<1>10. CASE LoopSkip \/ LoopDrop
  <2>1. /\ loop' = [loop EXCEPT !.at = "leave", !.eos = LastBeforeEos]
        /\ loop.at = "data" /\ UNCHANGED <<arrived, mark, down>>
        /\ \/ SkipFrame /\ IsSkip(loop.tb)
           \/ DropFrame /\ HasLen(loop.tb) /\ Flushing
    BY <1>10 DEF LoopSkip, LoopDrop
  <2>2. loop'.at = "leave"
    BY <1>1, <2>1, LoopCountParts
  <2>3. Ready /\ ~Ready'
    BY <2>1, <2>2 DEF Ready, HasLen, IsSkip
  <2>4. CASE SkipFrame
    BY <2>1, <2>3, <2>4
       DEF Ready, Ring!Next, Ring!Skip, Ring!SkipFrame, Ring!Advance, Ring!NextPos,
           Ring!Flushing, SkipFrame, Advance, NextPos, Flushing
  <2>5. CASE DropFrame /\ Flushing
    BY <2>1, <2>3, <2>5
       DEF Ready, Ring!Next, Ring!Drop, Ring!DropFrame, Ring!Advance, Ring!NextPos,
           Ring!Flushing, DropFrame, Advance, NextPos, Flushing
  <2> QED
    BY <2>1, <2>4, <2>5
<1>11. CASE LoopAlloc
  <2>1. /\ loop.at = "data" /\ HasLen(loop.tb) /\ loop.tb.kind # "none"
        /\ UNCHANGED <<ringVars, arrived, mark, down>>
    BY <1>11 DEF LoopAlloc, HasLen
  <2>2. CASE loop'.at = "take" /\ loop'.tb.kind = loop.tb.kind
    BY <2>1, <2>2, RingStutters DEF Ready
  <2> QED
    BY <1>1, <1>3, <1>11, <2>1, <2>2, LoopAllocParts
<1>12. CASE LoopHack
  BY <1>2, <1>12 DEF LoopHack
<1>13. CASE LoopTake
  <2>1. /\ loop.at = "take" /\ TakeFrame /\ down' = Append(down, FrameTime)
        /\ ~Flushing /\ UNCHANGED <<arrived, mark>>
    BY <1>2, <1>13 DEF LoopTake, OutputsFit
  <2>2. loop'.at = "push"
    BY <1>1, <1>13, LoopTakeParts
  <2>3. Ready
    BY <1>2, <2>1 DEF OutputsFit, HasLen, Ready
  <2> QED
    BY <2>1, <2>2, <2>3
       DEF Ready, Ring!Next, Ring!Push, Ring!TakeFrame, Ring!Advance, Ring!NextPos,
           Ring!Flushing, Ring!FrameTime, TakeFrame, Advance, NextPos, Flushing, FrameTime
<1>14. CASE LoopPush
  <2>1. loop'.at = "leave"
    BY <1>1, <1>14, LoopPushParts DEF GoesOn
  <2> QED
    BY <1>3, <1>14, <2>1 DEF LoopPush
<1>15. CASE LoopEos
  <2>1. loop'.at \in {"leave", "keep"}
    BY <1>1, <1>15, LoopEosParts
  <2> QED
    BY <1>3, <1>15, <2>1 DEF LoopEos
<1>16. CASE LoopKeep
  <2>1. loop'.at = "pause"
    BY <1>1, <1>16, LoopKeepParts
  <2> QED
    BY <1>3, <1>16, <2>1 DEF LoopKeep
<1>17. CASE LoopLeave
  <2>1. loop'.at \in {"out", "pause"}
    BY <1>1, <1>17, LoopLeaveParts, PassEndLocals
  <2> QED
    BY <1>3, <1>17, <2>1 DEF LoopLeave
<1>18. CASE PauseSync \/ PauseUnlock
  <2>1. loop'.at \in {"unlock", "last"}
    BY <1>1, <1>18, PauseSyncParts, PauseUnlockParts
  <2> QED
    BY <1>3, <1>18, <2>1 DEF PauseSync, PauseUnlock
<1>19. CASE PauseEos
  <2>1. loop'.at \in {"pause", "out"}
    BY <1>1, <1>19, PauseEosParts, PassEndLocals
  <2> QED
    BY <1>3, <1>19, <2>1 DEF PauseEos
<1> QED
  BY <1>4, <1>5, <1>6, <1>7, <1>8, <1>9, <1>10, <1>11, <1>12, <1>13, <1>14, <1>15,
     <1>16, <1>17, <1>18, <1>19 DEF Loop

LEMMA FlightsStart ==
  ASSUME CodecData = FALSE, Init
  PROVE  FlightInv
<1>1. /\ dspIn = <<>> /\ inside = <<>> /\ outq = <<>> /\ ts_count = 0 /\ skip_hack_2 = 0
      /\ skip_hack = 0 /\ headers = 0 /\ up.at = "idle" /\ loop.at = "out"
      /\ loop.tb = NoBuffer
  BY DEF Init, RingInit
<1>2. Count(<<>>, Frames) = 0 /\ Count(<<>>, Carriers) = 0
  <2>1. ASSUME NEW S PROVE Count(<<>>, S) = 0
    <3>1. {i \in 1 .. Len(<<>>) : <<>>[i] \in S} = {}
      OBVIOUS
    <3> QED
      BY <3>1, FS_EmptySet DEF Count
  <2> QED
    BY <2>1
<1>3. UpFlight = 0 /\ LoopFlight = 0
  BY <1>1, NoCarrier, LoopFlightOf DEF UpFlight
<1>4. Flights = 0
  BY <1>1, <1>2, <1>3 DEF Flights
<1>5. Balance
  BY <1>1, <1>4 DEF Balance
<1>6. InputsFit
  BY <1>1, Constants DEF InputsFit
<1>7. OutputsFit
  BY <1>1 DEF OutputsFit, SkipFits, NoBuffer
<1> QED
  BY <1>5, <1>6, <1>7 DEF FlightInv

LEMMA FlightsStep ==
  ASSUME MayLose = FALSE, MaySkip = FALSE \/ MaxHeaders = 0,
         KeptInv, Quiet, FlightInv, [Next]_vars
  PROVE  KeptInv' /\ Quiet' /\ FlightInv'
<1>1. Shapes /\ LoopHolders
  BY DEF KeptInv
<1>2. KeptInv' /\ Quiet' /\ Shapes'
  BY <1>1, KeptStep, QuietStep DEF KeptInv
<1>3. FlightInv'
  BY <1>1, <1>2, UpKeepsFlights, LoopKeepsFlights, AppKeepsFlights, DspKeepsFlights,
     OthersKeepFlights DEF Next
<1> QED
  BY <1>2, <1>3

LEMMA FlightsAlways ==
  ASSUME MayLose = FALSE, CodecData = FALSE, MaySkip = FALSE \/ MaxHeaders = 0
  PROVE  Spec => [](KeptInv /\ Quiet /\ FlightInv)
<1>1. Init => KeptInv /\ Quiet /\ FlightInv
  BY KeptStart, QuietStart, FlightsStart
<1>2. KeptInv /\ Quiet /\ FlightInv /\ [Next]_vars => KeptInv' /\ Quiet' /\ FlightInv'
  BY FlightsStep
<1> QED
  BY <1>1, <1>2, PTL DEF Spec

(* The element uses the timestamp ring as TsRing says, so that everything    *)
(* proved about TsRing holds in the element.                                 *)
THEOREM BaseIsRing ==
  ASSUME MayLose = FALSE, CodecData = FALSE, MaySkip = FALSE \/ MaxHeaders = 0
  PROVE  Spec => IsRing
<1>1. Init => Ring!Init
  BY DEF Init, RingInit, Ring!Init, Ring!RingInit, Ring!Positions, Positions
<1>2. KeptInv /\ Quiet /\ FlightInv /\ [Next]_vars => [Ring!Next]_(Ring!vars)
  <2> SUFFICES ASSUME KeptInv, Quiet, FlightInv, [Next]_vars
               PROVE  [Ring!Next]_(Ring!vars)
    OBVIOUS
  <2>1. Shapes /\ LoopHolders
    BY DEF KeptInv
  <2> QED
    BY <2>1, UpImplementsRing, LoopImplementsRing, AppImplementsRing, OthersImplementRing
       DEF Next
<1> QED
  BY <1>1, <1>2, FlightsAlways, PTL DEF Spec, IsRing, Ring!Spec
=============================================================================
