------------------------------ MODULE DspBase ------------------------------
(***************************************************************************)
(* A running element (gstdspbase.c): the threads that work on it between   *)
(* gstdsp_start and _dsp_stop, and the DSP behind it.                      *)
(*                                                                         *)
(*   up    the streaming thread upstream: pad_chain, serialized events     *)
(*   loop  the task of the source pad: output_loop                         *)
(*   app   whoever sends FLUSH_START and FLUSH_STOP                        *)
(*   dsp   dsp_thread, with the DSP whose messages it reads                *)
(*                                                                         *)
(* They share the two port queues, status, deferred_eos, eos_start and the *)
(* timestamp ring.  Frames and events are numbered in the order in which   *)
(* they arrive (TsArray).  Input buffers are all alike, so their queue is  *)
(* a number; an output buffer is a record of what the DSP put in it.       *)
(*                                                                         *)
(* GStreamer is external: the stream lock of the sink pad serializes       *)
(* pad_chain, EOS, serialized events and FLUSH_STOP, a flushing pad turns  *)
(* away what is pushed to it, and gst_pad_pause_task returns when the pass *)
(* of output_loop that was under way has ended.                            *)
(***************************************************************************)
EXTENDS TsArray, FiniteSets, SequencesExt

CONSTANTS
  InBufs, OutBufs,   \* num_buffers of the two ports
  DspDepth,          \* how many inputs the DSP keeps for later outputs
  MaxArrivals,       \* bound of the frames and events that arrive
  MaxFlushes,        \* bound of the flushes
  UsePadAlloc,       \* use_pad_alloc, use_pinned: where output memory
  UsePinned,         \*   comes from (one of them, or neither)
  UseFlushBuffer,    \* does the codec have a flush_buffer function?
  UseEosTimeout,     \* eos_timeout # 0
  MaySkip,           \* may the DSP return a frame without data?
  MayLose,           \* may it not return a frame at all?
  MayFail,           \* may it fail?
  MayReject,         \* may downstream refuse a buffer without a flush?
  MaxHeaders,        \* bound of outputs that are not frames (skip_hack_2)
  CodecData,         \* was codec_data sent first (skip_hack)?
  Spurious           \* may g_cond_wait return without a signal?

Capacity == InBufs + DspDepth + OutBufs

ASSUME BaseAssumption ==
  /\ {InBufs, OutBufs, DspDepth} \subseteq Nat \ {0}
  /\ {MaxArrivals, MaxFlushes, MaxHeaders} \subseteq Nat
  /\ {UsePadAlloc, UsePinned, UseFlushBuffer, UseEosTimeout, MaySkip, MayLose,
      MayFail, MayReject, CodecData, Spurious} \subseteq BOOLEAN
  /\ ~(UsePadAlloc /\ UsePinned)
  /\ Capacity < RingSize

VARIABLES
  status, deferred_eos, eos, eos_start,   \* fields of GstDspBase
  skip_hack, skip_hack_2,
  inq, inOn,      \* ports[0]->queue: how many buffers, enabled
  outq, outOn,    \* ports[1]->queue: the buffers, enabled
  dspIn,          \* input buffers sent to the DSP: a frame, or NoFrame
  inside,         \* inputs the DSP has taken and not answered
  dspFree,        \* output buffers the DSP can fill
  lent,           \* output buffers downstream still holds (use_pinned)
  srcFlush,       \* is the source pad flushing?
  task,           \* state of the task of the source pad
  up, loop,       \* the two streaming threads: where they are, locals
  app, dsp,       \* where the other two are
  arrived, mark, down,   \* history, as in TsRing
  shown,          \* history: the last frame or event accepted downstream
  eosUp,          \* history: has EOS arrived since the last flush?
  eosDown, late,  \* history: EOS events, and frames after one, that went
                  \*   downstream since the last flush
  flushes, headers       \* counters for MaxFlushes and MaxHeaders

selfVars == <<status, deferred_eos, eos, eos_start, skip_hack, skip_hack_2>>
queueVars == <<inq, inOn, outq, outOn>>
dspVars == <<dspIn, inside, dspFree, lent>>
padVars == <<srcFlush, task>>
histVars == <<arrived, mark, down, shown, eosUp, eosDown, late, flushes, headers>>
vars == <<ringVars, selfVars, queueVars, dspVars, padVars, histVars,
          up, loop, app, dsp>>

(* Inputs that are no frame: of flush_buffer, of gstdsp_send_codec_data *)
NoFrame == 0
Codec == -1
Flow == {"OK", "WRONG_STATE", "UNEXPECTED", "ERROR"}

(* An output buffer: kind says what its len and skip fields are, nr which  *)
(* frame the DSP decoded into it, data whether it has memory (b->data).    *)
Kinds == {"frame", "skip", "empty", "header"}
Buffer == [kind : Kinds, nr : Codec .. MaxArrivals, data : BOOLEAN]
NoBuffer == [kind |-> "none", nr |-> 0, data |-> FALSE]
HasLen(b) == b.kind \in {"frame", "header"}

(* Operators called Wrong_..., or Late_..., have a mistake the next one     *)
(* does not have: the properties are checked to notice it.                 *)
Wrong_IsSkip(b) == b.kind \in {"skip", "empty"}   \* b->skip is not looked at
IsSkip(b) == b.kind = "skip"

Init ==
  /\ RingInit
  /\ status = "OK" /\ deferred_eos = FALSE /\ eos = FALSE /\ eos_start = FALSE
  /\ skip_hack = (IF CodecData THEN 1 ELSE 0) /\ skip_hack_2 = 0
  /\ inq = (IF CodecData THEN InBufs - 1 ELSE InBufs) /\ inOn = TRUE
  /\ outq = <<>> /\ outOn = TRUE
  /\ dspIn = (IF CodecData THEN <<Codec>> ELSE <<>>)
  /\ inside = <<>> /\ dspFree = OutBufs /\ lent = 0
  /\ srcFlush = FALSE /\ task = "started"
  /\ up = [at |-> "idle", wait |-> "no", tb |-> FALSE]
  /\ loop = [at |-> "out", wait |-> "no", tb |-> NoBuffer, ret |-> "OK",
             eos |-> FALSE, time |-> 0, twice |-> FALSE]
  /\ app = "idle" /\ dsp = "run"
  /\ arrived = 0 /\ mark = 0 /\ down = <<>> /\ shown = 0
  /\ eosUp = FALSE /\ eosDown = 0 /\ late = 0 /\ flushes = 0 /\ headers = 0

-----------------------------------------------------------------------------
(* The port queues (AsyncQueue, with the one consumer each of them has).   *)

Signalled(t) == IF t.wait = "waiting" THEN [t EXCEPT !.wait = "woken"] ELSE t

(* async_queue_push, by a thread other than the consumer *)
PutInput == inq' = inq + 1 /\ up' = Signalled(up)

Wrong_PutOutput(b) == outq' = Append(outq, b) /\ UNCHANGED loop   \* no signal
PutOutput(b) == outq' = Append(outq, b) /\ loop' = Signalled(loop)

(* What dsp_unlock(TRUE) and dsp_unlock(FALSE) do to the queues. *)
Wrong_EnableQueues == inOn' = inOn /\ outOn' = TRUE   \* ports[0] forgotten
EnableQueues == inOn' = TRUE /\ outOn' = TRUE
DisableQueues == inOn' = FALSE /\ outOn' = FALSE

(* async_queue_pop on ports[0]; the thread continues at p. *)
PopInput(p) ==
  /\ up.wait # "waiting"
  /\ \/ /\ inOn \/ up.wait = "woken"
        /\ inq > 0
        /\ inq' = inq - 1
        /\ up' = [at |-> p, wait |-> "no", tb |-> TRUE]
     \/ /\ ~inOn \/ up.wait = "woken"
        /\ up.wait = "woken" => inq = 0
        /\ up' = [at |-> p, wait |-> "no", tb |-> FALSE]
        /\ UNCHANGED inq
  /\ UNCHANGED inOn

WaitInput(p) ==
  /\ up.wait = "no" /\ inOn /\ inq = 0
  /\ up' = [at |-> p, wait |-> "waiting", tb |-> FALSE]
  /\ UNCHANGED <<inq, inOn>>

SpuriousWakeup ==
  /\ Spurious
  /\ \/ up.wait = "waiting" /\ up' = Signalled(up) /\ UNCHANGED loop
     \/ loop.wait = "waiting" /\ loop' = Signalled(loop) /\ UNCHANGED up
  /\ UNCHANGED <<ringVars, selfVars, queueVars, dspVars, padVars, histVars, app, dsp>>

-----------------------------------------------------------------------------
(* up: pad_chain, sink_event for EOS and serialized events                 *)

(* The sink pad accepts something from upstream: it is not flushing and    *)
(* nobody else has its stream lock.  After EOS nothing more comes.         *)
MayArrive == up.at = "idle" /\ app = "idle" /\ ~eosUp

(* pad_chain up to its pop (the queue may be empty: it waits there) *)
ChainPop ==
  /\ \/ MayArrive /\ arrived < MaxArrivals
     \/ up.at = "pop" /\ up.wait = "woken"
  /\ PopInput("check") \/ WaitInput("pop")
  /\ UNCHANGED <<ringVars, selfVars, outq, outOn, dspVars, padVars, histVars,
                 loop, app, dsp>>

Wrong_ChainCheck ==   \* the buffer does not go back
  /\ up.at = "check"
  /\ up' = [up EXCEPT !.tb = FALSE,
                      !.at = CASE status # "OK" -> "idle"
                               [] status = "OK" -> IF up.tb THEN "store" ELSE "crash"]
  /\ UNCHANGED <<ringVars, selfVars, queueVars, dspVars, padVars, histVars, loop, app,
                 dsp>>

(* status is read: on failure the buffer goes back and pad_chain returns. *)
ChainCheck ==
  /\ up.at = "check"
  /\ \/ /\ status # "OK"
        /\ inq' = IF up.tb THEN inq + 1 ELSE inq
        /\ up' = [up EXCEPT !.at = "idle", !.tb = FALSE]
     \/ /\ status = "OK"
        /\ up' = [up EXCEPT !.at = IF up.tb THEN "store" ELSE "crash"]
        /\ UNCHANGED inq
  /\ UNCHANGED <<ringVars, selfVars, inOn, outq, outOn, dspVars, padVars,
                 histVars, loop, app, dsp>>

ChainStore ==
  /\ up.at = "store"
  /\ StoreFrame(arrived + 1)
  /\ arrived' = arrived + 1
  /\ up' = [up EXCEPT !.at = "send"]
  /\ UNCHANGED <<selfVars, queueVars, dspVars, padVars, mark, down, shown, eosUp,
                 eosDown, late, flushes, headers, loop, app, dsp>>

ChainSend ==
  /\ up.at = "send"
  /\ dspIn' = Append(dspIn, arrived)
  /\ up' = [up EXCEPT !.at = "idle", !.tb = FALSE]
  /\ UNCHANGED <<ringVars, selfVars, queueVars, inside, dspFree, lent, padVars,
                 histVars, loop, app, dsp>>

SerializedEvent ==
  /\ MayArrive /\ arrived < MaxArrivals
  /\ StoreEvent(arrived + 1)
  /\ arrived' = arrived + 1
  /\ UNCHANGED <<selfVars, queueVars, dspVars, padVars, mark, down, shown, eosUp,
                 eosDown, late, flushes, headers, up, loop, app, dsp>>

(* EOS: wait for the frames in flight, or not *)
Wrong_DefersEos == ts_count > 1 /\ status = "OK"   \* one frame does not count
Late_DefersEos == ts_count # 0                      \* whatever the status is
DefersEos == ts_count # 0 /\ status = "OK"

EosArrives ==
  /\ MayArrive
  /\ eosUp' = TRUE
  /\ deferred_eos' = DefersEos
  /\ up' = [up EXCEPT !.at = IF DefersEos THEN "clock" ELSE "eos"]
  /\ UNCHANGED <<ringVars, status, eos, eos_start, skip_hack, skip_hack_2, queueVars,
                 dspVars, padVars, arrived, mark, down, shown, eosDown, late,
                 flushes, headers, loop, app, dsp>>

(* gst_pad_push_event(srcpad, eos): a flushing pad drops it. *)
PushEos ==
  /\ eosDown' = IF srcFlush THEN eosDown ELSE eosDown + 1
  /\ eos' = TRUE

EosNow ==
  /\ up.at = "eos"
  /\ PushEos
  /\ up' = [up EXCEPT !.at = "idle"]
  /\ UNCHANGED <<ringVars, status, deferred_eos, eos_start, skip_hack, skip_hack_2,
                 queueVars, dspVars, padVars, arrived, mark, down, shown, eosUp, late,
                 flushes, headers, loop, app, dsp>>

(* ... outside of ts_mutex: eos_start, then flush_buffer *)
EosClock ==
  /\ up.at = "clock"
  /\ eos_start' = TRUE
  /\ up' = [up EXCEPT !.at = IF UseFlushBuffer THEN "flushbuf" ELSE "idle"]
  /\ UNCHANGED <<ringVars, status, deferred_eos, eos, skip_hack, skip_hack_2,
                 queueVars, dspVars, padVars, histVars, loop, app, dsp>>

(* gstdsp_base_flush_buffer *)
FlushBufferPop ==
  /\ up.at = "flushbuf" /\ up.wait # "waiting"
  /\ PopInput("flushsend") \/ WaitInput("flushbuf")
  /\ UNCHANGED <<ringVars, selfVars, outq, outOn, dspVars, padVars, histVars,
                 loop, app, dsp>>

FlushBufferSend ==
  /\ up.at = "flushsend"
  /\ dspIn' = IF up.tb THEN Append(dspIn, NoFrame) ELSE dspIn
  /\ up' = [up EXCEPT !.at = "idle", !.tb = FALSE]
  /\ UNCHANGED <<ringVars, selfVars, queueVars, inside, dspFree, lent, padVars,
                 histVars, loop, app, dsp>>

Up == \/ ChainPop \/ ChainCheck \/ ChainStore \/ ChainSend
      \/ SerializedEvent
      \/ EosArrives \/ EosNow \/ EosClock \/ FlushBufferPop \/ FlushBufferSend

-----------------------------------------------------------------------------
(* loop: output_loop *)

(* What a pass leaves alone, whatever it does. *)
loopKeeps == <<inside, dspIn, arrived, mark, eosUp, flushes, headers, app, dsp>>

At(p) == [loop EXCEPT !.at = p]

(* The end of a pass: everything local is gone. *)
PassEnd == [at |-> "out", wait |-> "no", tb |-> NoBuffer, ret |-> "OK",
            eos |-> FALSE, time |-> 0, twice |-> FALSE]

(* pause_task is entered with the flow return r, locals as in t. *)
PauseWith(t, r) == [t EXCEPT !.at = "pause", !.ret = r]

LoopPop ==
  /\ \/ loop.at = "out" /\ task = "started"
     \/ loop.at = "pop" /\ loop.wait = "woken"
  /\ \/ /\ outOn \/ loop.wait = "woken"
        /\ outq # <<>>
        /\ outq' = Tail(outq)
        /\ loop' = [loop EXCEPT !.at = "check", !.wait = "no", !.tb = Head(outq)]
     \/ /\ ~outOn \/ loop.wait = "woken"
        /\ loop.wait = "woken" => outq = <<>>
        /\ loop' = [loop EXCEPT !.at = "null", !.wait = "no"]
        /\ UNCHANGED outq
     \/ /\ loop.wait = "no" /\ outOn /\ outq = <<>>
        /\ loop' = [loop EXCEPT !.at = "pop", !.wait = "waiting"]
        /\ UNCHANGED outq
  /\ UNCHANGED <<ringVars, selfVars, inq, inOn, outOn, dspFree, lent, padVars,
                 down, shown, eosDown, late, up, loopKeeps>>

(* no buffer: check_status pauses the task, and so does the end of the pass *)
LoopNull ==
  /\ loop.at = "null"
  /\ loop' = IF status = "OK" THEN PassEnd
             ELSE PauseWith([loop EXCEPT !.twice = TRUE], status)
  /\ UNCHANGED <<ringVars, selfVars, queueVars, dspFree, lent, padVars,
                 down, shown, eosDown, late, up, loopKeeps>>

LoopCheck ==
  /\ loop.at = "check"
  /\ loop' = IF status = "OK" THEN At("work") ELSE PauseWith(loop, status)
  /\ UNCHANGED <<ringVars, selfVars, queueVars, dspFree, lent, padVars,
                 down, shown, eosDown, late, up, loopKeeps>>

(* skip_hack_2, then the check for too many buffers *)
LoopUnexpected ==
  /\ loop.at = "work"
  /\ \/ skip_hack_2 > 0 /\ skip_hack_2' = skip_hack_2 - 1
     \/ /\ skip_hack_2 = 0 /\ HasLen(loop.tb) /\ ts_count = 0
        /\ UNCHANGED skip_hack_2
  /\ loop' = At("leave")
  /\ UNCHANGED <<ringVars, status, deferred_eos, eos, eos_start, skip_hack, queueVars,
                 dspFree, lent, padVars, down, shown, eosDown, late, up, loopKeeps>>

LoopEvents ==
  /\ loop.at = "work"
  /\ skip_hack_2 = 0 /\ ~(HasLen(loop.tb) /\ ts_count = 0)
  /\ ClearEvents
  /\ down' = down \o EventsToPush
  /\ shown' = IF srcFlush \/ EventsToPush = <<>> THEN shown ELSE Last(EventsToPush)
  /\ loop' = At("data")
  /\ UNCHANGED <<selfVars, queueVars, dspFree, lent, padVars, eosDown, late, up,
                 loopKeeps>>

(* a pending reallocation from the previous run *)
LoopRealloc ==
  /\ loop.at = "data"
  /\ ~loop.tb.data
  /\ dspFree' = dspFree + 1
  /\ loop' = PassEnd
  /\ UNCHANGED <<ringVars, selfVars, queueVars, lent, padVars, down, shown, eosDown,
                 late, up, loopKeeps>>

(* deferred_eos && ts_count == 0, after a frame has been counted down *)
LastBeforeEos == deferred_eos /\ ts_count' = 0

LoopEmpty ==
  /\ loop.at = "data"
  /\ loop.tb.data /\ ~HasLen(loop.tb) /\ ~IsSkip(loop.tb)
  /\ loop' = At("leave")
  /\ UNCHANGED <<ringVars, selfVars, queueVars, dspFree, lent, padVars, down, shown,
                 eosDown, late, up, loopKeeps>>

LoopSkip ==
  /\ loop.at = "data"
  /\ loop.tb.data /\ ~HasLen(loop.tb) /\ IsSkip(loop.tb)
  /\ SkipFrame
  /\ loop' = [loop EXCEPT !.at = "leave", !.eos = LastBeforeEos]
  /\ UNCHANGED <<selfVars, queueVars, dspFree, lent, padVars, down, shown, eosDown,
                 late, up, loopKeeps>>

LoopDrop ==
  /\ loop.at = "data"
  /\ loop.tb.data /\ HasLen(loop.tb) /\ Flushing
  /\ DropFrame
  /\ loop' = [loop EXCEPT !.at = "leave", !.eos = LastBeforeEos]
  /\ UNCHANGED <<selfVars, queueVars, dspFree, lent, padVars, down, shown, eosDown,
                 late, up, loopKeeps>>

(* The buffer goes downstream: it needs other memory, or is wrapped. *)
LoopAlloc ==
  /\ loop.at = "data"
  /\ loop.tb.data /\ HasLen(loop.tb) /\ ~Flushing
  /\ \/ /\ UsePadAlloc /\ (srcFlush \/ MayReject)
        /\ outq' = Append(outq, loop.tb)
        /\ \E r \in {"WRONG_STATE", "UNEXPECTED"} :
             /\ r = "WRONG_STATE" <=> srcFlush
             /\ loop' = PauseWith([loop EXCEPT !.tb = NoBuffer], r)
     \/ /\ ~(UsePadAlloc /\ srcFlush)
        /\ loop' = [loop EXCEPT !.at = IF skip_hack > 0 THEN "hack" ELSE "take",
                                !.tb.data = UsePadAlloc]
        /\ UNCHANGED outq
  /\ UNCHANGED <<ringVars, selfVars, inq, inOn, outOn, dspFree, lent, padVars, down,
                 shown, eosDown, late, up, loopKeeps>>

(* A pinned buffer goes back to the DSP when its GstBuffer is finalized.   *)
Unref == /\ dspFree' = IF UsePinned THEN dspFree + 1 ELSE dspFree
         /\ UNCHANGED lent

(* leave: the pass is over for a pinned buffer that has been wrapped;      *)
(* NoBuffer stands for that.                                               *)
Wrong_Handled(t) == t   \* it is sent to the DSP while downstream has it
Handled(t) == IF UsePinned THEN [t EXCEPT !.tb = NoBuffer] ELSE t

LoopHack ==
  /\ loop.at = "hack"
  /\ skip_hack' = skip_hack - 1
  /\ Unref
  /\ loop' = [Handled(loop) EXCEPT !.at = "leave"]
  /\ UNCHANGED <<ringVars, status, deferred_eos, eos, eos_start, skip_hack_2, queueVars,
                 padVars, down, shown, eosDown, late, up, loopKeeps>>

LoopTake ==
  /\ loop.at = "take"
  /\ TakeFrame
  /\ down' = Append(down, FrameTime)
  /\ loop' = [loop EXCEPT !.at = "push", !.eos = LastBeforeEos, !.time = FrameTime]
  /\ UNCHANGED <<selfVars, queueVars, dspFree, lent, padVars, shown, eosDown, late,
                 up, loopKeeps>>

(* gst_pad_push, or the frame is clipped (decoders only) *)
LoopPush ==
  /\ loop.at = "push"
  /\ \/ /\ ~srcFlush
        /\ shown' = loop.time
        /\ late' = IF eosDown > 0 THEN late + 1 ELSE late
        /\ lent' = IF UsePinned THEN lent + 1 ELSE lent
        /\ loop' = [Handled(loop) EXCEPT !.at = "leave"]
        /\ UNCHANGED dspFree
     \/ /\ srcFlush \/ MayReject
        /\ Unref
        /\ \E r \in {"WRONG_STATE", "UNEXPECTED"} :
             /\ r = "WRONG_STATE" <=> srcFlush
             /\ loop' = [Handled(loop) EXCEPT !.at = "leave", !.ret = r]
        /\ UNCHANGED <<shown, late>>
     \/ /\ UsePadAlloc
        /\ loop' = At("leave")
        /\ UNCHANGED <<shown, late, dspFree, lent>>
  /\ UNCHANGED <<ringVars, selfVars, queueVars, padVars, down, eosDown, up, loopKeeps>>

(* leave: the EOS that was deferred goes out ... *)
LoopEos ==
  /\ loop.at = "leave"
  /\ loop.eos
  /\ PushEos
  /\ eos_start' = FALSE
  /\ deferred_eos' = FALSE
  /\ loop' = [loop EXCEPT !.eos = FALSE, !.ret = "UNEXPECTED",
                          !.at = IF loop.tb.kind # "none" /\ ~loop.tb.data
                                 THEN "keep" ELSE "leave"]
  /\ UNCHANGED <<ringVars, status, skip_hack, skip_hack_2, queueVars, dspFree, lent,
                 padVars, down, shown, late, up, loopKeeps>>

(* ... after which a buffer without memory waits for the next run, *)
LoopKeep ==
  /\ loop.at = "keep"
  /\ outq' = Append(outq, loop.tb)
  /\ loop' = PauseWith([loop EXCEPT !.tb = NoBuffer], loop.ret)
  /\ UNCHANGED <<ringVars, selfVars, inq, inOn, outOn, dspFree, lent, padVars, down,
                 shown, eosDown, late, up, loopKeeps>>

(* and any other goes back to the DSP. *)
LoopLeave ==
  /\ loop.at = "leave"
  /\ ~loop.eos
  /\ dspFree' = IF loop.tb.kind = "none" THEN dspFree ELSE dspFree + 1
  /\ loop' = IF loop.ret = "OK" THEN PassEnd
             ELSE PauseWith([loop EXCEPT !.tb = NoBuffer], loop.ret)
  /\ UNCHANGED <<ringVars, selfVars, queueVars, lent, padVars, down, shown, eosDown,
                 late, up, loopKeeps>>

Wrong_PauseSync ==   \* deferred_eos is left as it was
  /\ loop.at = "pause"
  /\ status' = IF status = "OK" THEN loop.ret ELSE status
  /\ loop' = [loop EXCEPT !.at = "unlock", !.eos = deferred_eos]
  /\ UNCHANGED <<ringVars, deferred_eos, eos, eos_start, skip_hack, skip_hack_2,
                 queueVars, dspFree, lent, padVars, down, shown, eosDown, late, up,
                 loopKeeps>>

(* pause_task, the critical section *)
PauseSync ==
  /\ loop.at = "pause"
  /\ status' = IF status = "OK" THEN loop.ret ELSE status
  /\ deferred_eos' = FALSE
  /\ loop' = [loop EXCEPT !.at = "unlock", !.eos = deferred_eos]
  /\ UNCHANGED <<ringVars, eos, eos_start, skip_hack, skip_hack_2, queueVars, dspFree,
                 lent, padVars, down, shown, eosDown, late, up, loopKeeps>>

(* gst_pad_pause_task and dsp_unlock(TRUE) *)
PauseUnlock ==
  /\ loop.at = "unlock"
  /\ task' = "paused"
  /\ DisableQueues
  /\ up' = Signalled(up)
  /\ loop' = At("last")
  /\ UNCHANGED <<ringVars, selfVars, inq, outq, dspFree, lent, srcFlush, down, shown,
                 eosDown, late, loopKeeps>>

(* a pending deferred EOS, then what follows the call of pause_task *)
PauseEos ==
  /\ loop.at = "last"
  /\ IF loop.eos THEN PushEos /\ eos_start' = FALSE
                 ELSE UNCHANGED <<eosDown, eos, eos_start>>
  /\ IF loop.twice
     THEN loop' = [loop EXCEPT !.at = "pause", !.twice = FALSE] /\ UNCHANGED outq
     ELSE /\ outq' = IF loop.tb.kind = "none" THEN outq ELSE Append(outq, loop.tb)
          /\ loop' = PassEnd
  /\ UNCHANGED <<ringVars, status, deferred_eos, skip_hack, skip_hack_2, inq, inOn,
                 outOn, dspFree, lent, padVars, down, shown, late, up, loopKeeps>>

Loop == \/ LoopPop \/ LoopNull \/ LoopCheck \/ LoopUnexpected \/ LoopEvents
        \/ LoopRealloc \/ LoopEmpty \/ LoopSkip \/ LoopDrop \/ LoopAlloc \/ LoopHack
        \/ LoopTake \/ LoopPush \/ LoopEos \/ LoopKeep \/ LoopLeave
        \/ PauseSync \/ PauseUnlock \/ PauseEos

-----------------------------------------------------------------------------
(* app: a flush, one FLUSH_START and then one FLUSH_STOP                   *)

(* The sink pad is set flushing and the event goes downstream. *)
FlushStart ==
  /\ app = "idle"
  /\ flushes < MaxFlushes
  /\ flushes' = flushes + 1
  /\ srcFlush' = TRUE
  /\ app' = "status"
  /\ UNCHANGED <<ringVars, selfVars, queueVars, dspVars, task, arrived, mark, down,
                 shown, eosUp, eosDown, late, headers, up, loop, dsp>>

FlushStartStatus ==
  /\ app = "status"
  /\ status' = "WRONG_STATE"
  /\ app' = "unlock"
  /\ UNCHANGED <<ringVars, deferred_eos, eos, eos_start, skip_hack, skip_hack_2,
                 queueVars, dspVars, padVars, histVars, up, loop, dsp>>

Wrong_FlushStartUnlock ==   \* nobody is woken
  /\ app = "unlock"
  /\ DisableQueues
  /\ app' = "pause"
  /\ UNCHANGED <<ringVars, selfVars, inq, outq, dspVars, padVars, histVars, up, loop,
                 dsp>>

FlushStartUnlock ==
  /\ app = "unlock"
  /\ DisableQueues
  /\ up' = Signalled(up) /\ loop' = Signalled(loop)
  /\ app' = "pause"
  /\ UNCHANGED <<ringVars, selfVars, inq, outq, dspVars, padVars, histVars, dsp>>

(* gst_pad_pause_task, which waits for the pass under way in FlushStop *)
FlushStartPause ==
  /\ app = "pause"
  /\ task' = "paused"
  /\ app' = "paused"
  /\ UNCHANGED <<ringVars, selfVars, queueVars, dspVars, srcFlush, histVars, up, loop,
                 dsp>>

Wrong_FlushStop ==   \* the pass under way is not waited for
  /\ app = "paused"
  /\ up.at = "idle"
  /\ srcFlush' = FALSE
  /\ eos' = FALSE
  /\ eosDown' = 0 /\ late' = 0
  /\ app' = "mark"
  /\ UNCHANGED <<ringVars, status, deferred_eos, eos_start, skip_hack, skip_hack_2,
                 queueVars, dspVars, task, arrived, mark, down, shown, eosUp, flushes,
                 headers, up, loop, dsp>>

(* FLUSH_STOP comes with the stream lock of the sink pad. *)
FlushStop ==
  /\ app = "paused"
  /\ loop.at = "out"
  /\ up.at = "idle"
  /\ srcFlush' = FALSE
  /\ eos' = FALSE
  /\ eosDown' = 0 /\ late' = 0
  /\ app' = "mark"
  /\ UNCHANGED <<ringVars, status, deferred_eos, eos_start, skip_hack, skip_hack_2,
                 queueVars, dspVars, task, arrived, mark, down, shown, eosUp, flushes,
                 headers, up, loop, dsp>>

FlushStopMark ==
  /\ app = "mark"
  /\ MarkFlush
  /\ deferred_eos' = FALSE
  /\ mark' = arrived /\ down' = <<>> /\ eosUp' = FALSE
  /\ app' = "ok"
  /\ UNCHANGED <<status, eos, eos_start, skip_hack, skip_hack_2, queueVars, dspVars,
                 padVars, arrived, shown, eosDown, late, flushes, headers, up, loop, dsp>>

FlushStopStatus ==
  /\ app = "ok"
  /\ status' = "OK"
  /\ app' = "start"
  /\ UNCHANGED <<ringVars, deferred_eos, eos, eos_start, skip_hack, skip_hack_2,
                 queueVars, dspVars, padVars, histVars, up, loop, dsp>>

Wrong_FlushStopStart ==   \* the task stays paused
  /\ app = "start"
  /\ EnableQueues
  /\ app' = "idle"
  /\ UNCHANGED <<ringVars, selfVars, inq, outq, dspVars, padVars, histVars, up, loop,
                 dsp>>

(* dsp_unlock(FALSE) and gst_pad_start_task *)
FlushStopStart ==
  /\ app = "start"
  /\ EnableQueues
  /\ task' = "started"
  /\ app' = "idle"
  /\ UNCHANGED <<ringVars, selfVars, inq, outq, dspVars, srcFlush, histVars, up, loop,
                 dsp>>

App == \/ FlushStart \/ FlushStartStatus \/ FlushStartUnlock \/ FlushStartPause
       \/ FlushStop \/ FlushStopMark \/ FlushStopStatus \/ FlushStopStart

-----------------------------------------------------------------------------
(* dsp: the DSP answers and dsp_thread hands the answer on (got_message)   *)

dspKeeps == <<ringVars, padVars, arrived, mark, down, shown, eosUp, eosDown, late,
              flushes, app>>

DspInput ==
  /\ dsp = "run"
  /\ dspIn # <<>> /\ Len(inside) < DspDepth
  /\ inside' = Append(inside, Head(dspIn))
  /\ dspIn' = Tail(dspIn)
  /\ PutInput
  /\ UNCHANGED <<selfVars, inOn, outq, outOn, dspFree, lent, headers, loop, dsp, dspKeeps>>

(* What the DSP makes of an input: a frame has data or not, flush_buffer   *)
(* yields nothing, codec_data yields an output that is no frame.           *)
KindsOf(n) == CASE n = NoFrame -> {"empty"}
                [] n = Codec   -> {"header"}
                [] OTHER       -> IF MaySkip THEN {"frame", "skip"} ELSE {"frame"}

DspOutput ==
  /\ dsp = "run"
  /\ inside # <<>> /\ dspFree > 0
  /\ \E k \in KindsOf(Head(inside)) :
       PutOutput([kind |-> k, nr |-> Head(inside), data |-> TRUE])
  /\ inside' = Tail(inside)
  /\ dspFree' = dspFree - 1
  /\ UNCHANGED <<selfVars, inq, inOn, outOn, dspIn, lent, headers, up, dsp, dspKeeps>>

DspLose ==
  /\ MayLose /\ dsp = "run"
  /\ inside # <<>>
  /\ inside' = Tail(inside)
  /\ UNCHANGED <<selfVars, queueVars, dspIn, dspFree, lent, headers, up, loop, dsp,
                 dspKeeps>>

(* An encoder's header: the recv_cb of the port counts it in skip_hack_2. *)
DspHeader ==
  /\ dsp = "run" /\ dspFree > 0
  /\ headers < MaxHeaders
  /\ headers' = headers + 1
  /\ skip_hack_2' = skip_hack_2 + 1
  /\ PutOutput([kind |-> "header", nr |-> NoFrame, data |-> TRUE])
  /\ dspFree' = dspFree - 1
  /\ UNCHANGED <<status, deferred_eos, eos, eos_start, skip_hack, inq, inOn, outOn,
                 dspIn, inside, lent, up, dsp, dspKeeps>>

(* gstdsp_got_error: dsp_thread ends, unless the DSP only sent an event. *)
DspError ==
  /\ MayFail /\ dsp = "run"
  /\ status' = "ERROR"
  /\ dsp' \in {"error", "dying"}
  /\ UNCHANGED <<deferred_eos, eos, eos_start, skip_hack, skip_hack_2, queueVars,
                 dspVars, headers, up, loop, dspKeeps>>

DspErrorUnlock ==
  /\ dsp \in {"error", "dying"}
  /\ DisableQueues
  /\ up' = Signalled(up) /\ loop' = Signalled(loop)
  /\ dsp' = IF dsp = "error" THEN "run" ELSE "dead"
  /\ UNCHANGED <<selfVars, inq, outq, dspVars, headers, dspKeeps>>

(* ETIME: no message for ten seconds, and EOS has been waited for as long *)
EosTimeout ==
  /\ UseEosTimeout /\ dsp = "run"
  /\ eos_start
  /\ status' = "UNEXPECTED"
  /\ dsp' = "timeout"
  /\ UNCHANGED <<deferred_eos, eos, eos_start, skip_hack, skip_hack_2, queueVars,
                 dspVars, headers, up, loop, dspKeeps>>

EosTimeoutUnlock ==
  /\ dsp = "timeout"
  /\ outOn' = FALSE
  /\ loop' = Signalled(loop)
  /\ dsp' = "run"
  /\ UNCHANGED <<selfVars, inq, inOn, outq, dspVars, headers, up, dspKeeps>>

Dsp == \/ DspInput \/ DspOutput \/ DspLose \/ DspHeader
       \/ DspError \/ DspErrorUnlock \/ EosTimeout \/ EosTimeoutUnlock

(* Downstream drops the last reference to a pinned buffer (finalize). *)
Release ==
  /\ lent > 0
  /\ lent' = lent - 1
  /\ dspFree' = dspFree + 1
  /\ UNCHANGED <<ringVars, selfVars, queueVars, dspIn, inside, padVars, histVars, up,
                 loop, app, dsp>>

Next == Up \/ Loop \/ App \/ Dsp \/ Release \/ SpuriousWakeup

Spec == Init /\ [][Next]_vars

(* Every thread goes on once it is inside a function, the task runs while  *)
(* it is started, the DSP answers what it is given, its driver reports a   *)
(* timeout, and downstream lets go of the buffers it holds.  Nothing makes *)
(* upstream or the application do anything.                                *)
Fairness ==
  /\ WF_vars(Up /\ up.at # "idle")
  /\ WF_vars(Loop)
  /\ WF_vars(App /\ app # "idle")
  /\ WF_vars(DspInput)
  /\ WF_vars(DspOutput)
  /\ WF_vars(DspErrorUnlock)
  /\ WF_vars(EosTimeout)
  /\ WF_vars(EosTimeoutUnlock)
  /\ WF_vars(Release)

FairSpec == Spec /\ Fairness

-----------------------------------------------------------------------------
UpPlaces == {"idle", "pop", "check", "store", "send", "crash", "eos", "clock",
             "flushbuf", "flushsend"}
LoopPlaces == {"out", "pop", "null", "check", "work", "data", "hack", "take", "push",
               "leave", "keep", "pause", "unlock", "last"}
AppPlaces == {"idle", "status", "unlock", "pause", "paused", "mark", "ok", "start"}
DspPlaces == {"run", "error", "dying", "dead", "timeout"}
Wait == {"no", "waiting", "woken"}
UpLocals == [at : UpPlaces, wait : Wait, tb : BOOLEAN]
LoopLocals ==
  [at : LoopPlaces, wait : Wait, tb : Buffer \cup {NoBuffer}, ret : Flow,
   eos : BOOLEAN, time : Nat, twice : BOOLEAN]

TypeOK ==
  /\ RingTypeOK
  /\ ts_count \in 0 .. Capacity
  /\ status \in Flow
  /\ {deferred_eos, eos, eos_start, inOn, outOn, srcFlush, eosUp} \subseteq BOOLEAN
  /\ skip_hack \in 0 .. 1 /\ skip_hack_2 \in 0 .. MaxHeaders
  /\ inq \in 0 .. InBufs /\ outq \in Seq(Buffer)
  /\ dspIn \in Seq(Codec .. MaxArrivals) /\ inside \in Seq(Codec .. MaxArrivals)
  /\ dspFree \in 0 .. OutBufs /\ lent \in 0 .. OutBufs
  /\ task \in {"started", "paused"}
  /\ up \in UpLocals /\ loop \in LoopLocals
  /\ app \in AppPlaces /\ dsp \in DspPlaces
  /\ {arrived, mark, shown} \subseteq 0 .. MaxArrivals
  /\ down \in Seq(1 .. MaxArrivals)
  /\ {eosDown, late, flushes, headers} \subseteq Nat

(* Every buffer is in one place: queued, held by the thread that popped    *)
(* it, at the DSP, or downstream.  A path that loses one, or sends one     *)
(* twice, ends with a DSP that waits for buffers or answers a buffer it    *)
(* was not given.                                                          *)
UpHas == IF up.tb THEN 1 ELSE 0
LoopHas == IF loop.tb.kind = "none" THEN 0 ELSE 1
BuffersKept ==
  /\ inq + UpHas + Len(dspIn) = InBufs
  /\ Len(outq) + LoopHas + dspFree + lent = OutBufs

(* pad_chain never goes on without a buffer.  It pops from a queue that    *)
(* every flush and every error disables, and takes status = OK for having  *)
(* a buffer.                                                               *)
NoNullBuffer == up.at # "crash"

(* A frame goes downstream with the time it arrived with: the ring and the *)
(* DSP have kept step, also over flushes, skipped frames and buffers that  *)
(* were put back.                                                          *)
OwnTimestamp == loop.at = "push" => loop.tb.nr = loop.time

(* Downstream sees frames and events in the order they arrived in, none of *)
(* them twice, and none that arrived before the last FLUSH_STOP.           *)
ShownInOrder == [][shown' # shown => shown' > shown /\ shown' > mark]_vars

(* One EOS at most goes downstream between two flushes, whichever of the   *)
(* three places that push it gets there first.                             *)
EosOnce == eosDown <= 1

(* EOS overtakes one frame at most: the one output_loop has counted down   *)
(* and not pushed yet.                                                     *)
EosOvertakesOne == late <= 1

(* After a flush the element runs: if nothing has failed since, the queues *)
(* are enabled and the task is started.                                    *)
Failing == status # "OK" \/ dsp \in {"error", "dying", "timeout"}
           \/ loop.at \in {"leave", "keep", "pause", "unlock", "last"}
RunsAfterFlush ==
  app = "idle" /\ ~Failing => inOn /\ outOn /\ task = "started"

(* The timestamp ring works as in TsRing: output_loop handles the slot at  *)
(* ts_out_pos from push_events to the end of its pass, and the buffers     *)
(* bound the number of frames in flight.                                   *)
Ring == INSTANCE TsRing WITH
  ready <- loop.at \in {"data", "take"} /\ loop.tb.kind # "empty"
IsRing == Ring!Spec

(* EOS reaches downstream, or is overtaken by a flush: it does not get     *)
(* lost between the threads, the DSP failing, losing frames or not.        *)
EosDelivered == (eosUp /\ app = "idle") ~> (eosDown > 0 \/ app # "idle")

(* A flush gets every thread out of where it waits, and ends. *)
FlushCompletes == (app # "idle") ~> (app = "idle")

(* A frame in flight is taken off the ring sooner or later, unless the     *)
(* element has failed: also the frames that a flush made stale.            *)
InFlight(n) == \E k \in 0 .. ts_count - 1 : ts_array[(ts_out_pos + k) % RingSize].time = n
FramesLeave ==
  \A n \in 1 .. MaxArrivals : InFlight(n) ~> (~InFlight(n) \/ status # "OK")

(* eos_timeout is about waiting for EOS: it does not stop a stream in which *)
(* no EOS has arrived.                                                     *)
TimeoutNeedsEos == [][EosTimeout /\ app = "idle" => eosUp]_vars

-----------------------------------------------------------------------------
(* Strengthenings of the invariants above, used by their proofs            *)

(* TypeOK, without the bounds of what is counted *)
Shapes ==
  /\ RingTypeOK
  /\ status \in Flow
  /\ deferred_eos \in BOOLEAN /\ inOn \in BOOLEAN /\ eosUp \in BOOLEAN
  /\ inq \in Nat /\ outq \in Seq(Buffer)
  /\ dspIn \in Seq(Codec .. MaxArrivals) /\ inside \in Seq(Codec .. MaxArrivals)
  /\ dspFree \in Nat /\ lent \in Nat
  /\ up \in UpLocals /\ loop \in LoopLocals
  /\ app \in AppPlaces /\ dsp \in DspPlaces
  /\ arrived \in 0 .. MaxArrivals
  /\ up.at \in {"pop", "check", "store"} => arrived < MaxArrivals
  /\ eosDown \in Nat /\ flushes \in Nat

(* Which thread holds a buffer at which place *)
UpHolders ==
  /\ up.at \in {"idle", "pop", "eos", "clock", "flushbuf", "crash"} => ~up.tb
  /\ up.at \in {"store", "send"} => up.tb
LoopHolders ==
  /\ loop.at \in {"out", "pop", "null"} => loop.tb.kind = "none"
  /\ loop.at \in {"check", "work", "data", "hack", "take", "push", "keep"}
       => loop.tb.kind # "none"

(* From the pass that FLUSH_STOP waited for until it has started the task  *)
(* again, both streaming threads are outside of the element.               *)
Quiet ==
  /\ app \in {"paused", "mark", "ok", "start"} => task = "paused"
  /\ app \in {"mark", "ok", "start"} => loop.at = "out" /\ up.at = "idle"

(* A queue that is disabled, and a thread that was woken for nothing, go   *)
(* with a status that is not OK, until FLUSH_STOP has put both right.      *)
UpDisabled ==
  /\ up.wait # "no" => up.at \in {"pop", "flushbuf"}
  /\ up.wait = "woken" /\ inq = 0 => status # "OK"
  /\ up.at = "check" /\ ~up.tb => status # "OK"
LoopDisabled ==
  /\ loop.at \in {"keep", "pause", "unlock", "last"} => loop.ret # "OK"
  /\ loop.at = "unlock" => status # "OK"
Disabled ==
  /\ ~inOn => status # "OK" \/ app = "start"
  /\ app \in {"unlock", "pause", "paused", "mark", "ok"} => status # "OK"
  /\ dsp \in {"error", "dying"} => status # "OK"
  /\ MayFail \/ dsp \in {"run", "timeout"}
  /\ MaxFlushes > 0 \/ app = "idle"

(* Where an EOS that has arrived and not gone downstream is *)
EosInLoop == loop.at \in {"unlock", "last"} /\ loop.eos
LoopEosPlaces ==
  /\ loop.at \in {"out", "pop", "null", "check", "work", "data", "hack", "take"}
       => ~loop.eos
  /\ loop.at \in {"push", "leave"} /\ loop.eos => deferred_eos
EosPlaces ==
  /\ ~(deferred_eos /\ EosInLoop)
  /\ up.at = "eos" \/ deferred_eos \/ EosInLoop => eosDown = 0 /\ eosUp
  /\ up.at = "eos" => ~deferred_eos /\ ~EosInLoop
  /\ app = "mark" => eosDown = 0
  /\ eosDown > 0 => eosUp

(* Frames in flight: stored and not counted down.  With each of them goes  *)
(* an input or an output buffer, or the thread that is about to send it.   *)
Count(s, S) == Cardinality({i \in 1 .. Len(s) : s[i] \in S})
Frames == (Codec .. MaxArrivals) \ {NoFrame}
Carriers == {b \in Buffer : b.data /\ b.kind # "empty"}
UpFlight == IF up.at = "send" THEN 1 ELSE 0
LoopFlight ==
  IF \/ loop.at = "take"
     \/ loop.at \notin {"push", "leave", "keep"} /\ loop.tb \in Carriers
  THEN 1 ELSE 0
Flights == UpFlight + Count(dspIn, Frames) + Count(inside, Frames)
           + Count(outq, Carriers) + LoopFlight

(* What output_loop counts down has been stored, and what waits for it can *)
(* be more only by the outputs that it will skip.                          *)
Balance ==
  /\ ts_count \in Nat /\ skip_hack_2 \in Nat /\ headers \in Nat
  /\ ts_count + skip_hack_2 <= Flights
  /\ MaxHeaders = 0 => ts_count = Flights
InputsFit ==
  /\ Len(inside) <= DspDepth
  /\ up.at = "send" => arrived > 0
SkipFits(b) == b.kind = "skip" => b.data = TRUE /\ MaySkip = TRUE
OutputsFit ==
  /\ skip_hack = 0 /\ loop.at # "hack"
  /\ loop.at = "data" /\ HasLen(loop.tb) => ts_count > 0
  /\ loop.at = "take" => ts_count > 0 /\ ~Flushing /\ HasLen(loop.tb)
  /\ loop.at = "keep" => loop.tb.data = FALSE
  /\ SkipFits(loop.tb) /\ \A i \in 1 .. Len(outq) : SkipFits(outq[i])
FlightInv == Balance /\ InputsFit /\ OutputsFit
=============================================================================
