-------------------------------- MODULE Ipp --------------------------------
(***************************************************************************)
(* The image processor (gstdspipp.c).  It does not send buffers to the DSP *)
(* but messages of the DFGM protocol, one at a time: send_msg takes the    *)
(* semaphore msg_sem and got_message, in dsp_thread, gives it back.  An    *)
(* output buffer that is free waits in ipp_queue until a frame needs it.   *)
(*                                                                         *)
(*   main   the thread that talks to the DSP: the streaming thread of the  *)
(*          sink pad, and the one that stops the element                   *)
(*   loop   the task of the source pad (output_loop)                       *)
(*   app    whoever flushes, stops and restarts the element                *)
(*   the DSP with dsp_thread, which answers the messages                   *)
(*                                                                         *)
(* The timestamp ring is only counted here, its order is TsArray's; EOS,   *)
(* events and everything else of output_loop are in DspBase.               *)
(***************************************************************************)
EXTENDS IppPipe

CONSTANTS
  OutBufs,      \* the output buffers, in the order of setup_buffers
  MaxFrames,    \* bound of the frames
  MaxBreaks,    \* bound of the flushes and restarts together
  MayStall,     \* may an answer take longer than IPP_TIMEOUT?
  MayFail,      \* may the DSP report an error, a message not be sent, caps be
                \*   refused for their size?
  MayShort      \* may a frame be shorter than input_buffer_size?

ASSUME IppAssumption ==
  /\ OutBufs \in Seq(Nat) /\ OutBufs # <<>> /\ IsInjective(OutBufs)
  /\ {MaxFrames, MaxBreaks} \subseteq Nat
  /\ {MayStall, MayFail, MayShort} \subseteq BOOLEAN

Bufs == Range(OutBufs)
NoBuf == -1

VARIABLES
  fmt,      \* in_pix_fmt: the format sink_setcaps found in the caps
  base,     \* status, done, dsp_error of GstDspBase; count is ts_count, stale
            \*   how many of these frames a flush has made obsolete
  sem,      \* the counts of msg_sem and sync_sem
  q,        \* ports[0]->queue (how many), ipp_queue, ports[1]->queue; enabled?
  ud, pinned,   \* user_data and pinned of the output buffers
  inUd,     \* user_data of the input buffer
  out_buf_ptr,
  args,     \* which of the three pointers of msg_ptr are set
  dspq,     \* messages the DSP has not answered
  pipe,     \* what the DSP has made of the messages so far
  thread,   \* dsp_thread
  lent,     \* output buffers downstream has
  task, srcFlush,
  main, loop, app,
  abort,    \* history: has an assertion of got_message failed?
  failed,   \* history: has a message failed, or timed out?
  spoiled,  \* history: was a frame dropped that had overwritten its input,
            \*   or shorter than input_buffer_size?
  surplus,  \* history: has an error event counted msg_sem up without being the
            \*   answer to a message?
  frames, breaks   \* counters of the bounds

padVars == <<task, srcFlush>>
bufVars == <<ud, pinned, inUd, out_buf_ptr, lent>>
dspVars == <<args, dspq, pipe, thread>>
histVars == <<failed, spoiled, surplus>>
counters == <<frames, breaks>>
vars == <<fmt, base, sem, q, bufVars, dspVars, padVars, main, loop, app, abort,
          histVars, counters>>

Deliver(m) == IF pipe = Transition[m.id][1] THEN Transition[m.id][2] ELSE "broken"

-----------------------------------------------------------------------------
Init ==
  /\ fmt \in Formats
  /\ base = [status |-> "OK", done |-> FALSE, error |-> FALSE, count |-> 0, stale |-> 0]
  /\ sem = [msg |-> 1, sync |-> 0]
  /\ q = [in |-> 0, ipp |-> <<>>, out |-> <<>>, on |-> TRUE]
  /\ ud = [b \in Bufs |-> FALSE] /\ pinned = [b \in Bufs |-> FALSE]
  /\ inUd = FALSE /\ out_buf_ptr = NoBuf /\ lent = {}
  /\ args = {} /\ dspq = <<>> /\ pipe = "none" /\ thread = "none"
  /\ task = "none" /\ srcFlush = FALSE
  /\ main = [at |-> "ready", mode |-> "init", todo |-> <<>>, otb |-> NoBuf,
             tb |-> FALSE, woken |-> FALSE]
  /\ loop = [at |-> "out", tb |-> NoBuf, woken |-> FALSE]
  /\ app = "idle"
  /\ abort = FALSE /\ failed = FALSE /\ spoiled = FALSE /\ surplus = FALSE
  /\ frames = 0 /\ breaks = 0

(* dsp_unlock(TRUE) wakes whoever waits in one of the three queues.        *)
Wrong_WakeMain ==   \* ipp_queue is forgotten
  main' = [main EXCEPT !.woken = (main.at = "pop")]
WakeMain == main' = [main EXCEPT !.woken = (main.at \in {"pop", "otb"})]
WakeLoop == loop' = [loop EXCEPT !.woken = (loop.at = "pop")]
Disabled == [q EXCEPT !.on = FALSE]

-----------------------------------------------------------------------------
(* main: sink_setcaps, init_pipe, pad_chain, send_buffer                   *)

mainKeeps == <<fmt, loop, app, abort, thread, pipe, padVars>>

(* sink_setcaps up to init_pipe, for an element without a node:            *)
(* gstdsp_start, whose setup_buffers pins every output buffer and, by      *)
(* send_buffer, collects it in ipp_queue.  A new size for a node that runs *)
(* has gstdsp_reinit first, which stops and unlocks as the actions from    *)
(* StopUnlock to Restart do.                                               *)
SetCaps ==
  /\ main.at = "ready" /\ app = "idle"
  /\ fmt' \in Formats
  /\ q' = [q EXCEPT !.in = 1, !.ipp = OutBufs, !.out = <<>>]
  /\ ud' = [b \in Bufs |-> FALSE] /\ pinned' = [b \in Bufs |-> TRUE]
  /\ inUd' = FALSE /\ lent' = {}
  /\ thread' = "run" /\ task' = "started"
  /\ main' = [main EXCEPT !.at = "send", !.mode = "init", !.todo = init_pipe]
  /\ UNCHANGED <<base, sem, out_buf_ptr, args, dspq, pipe, srcFlush, loop, app, abort,
                 histVars, counters>>

(* sink_setcaps refuses the size with gstdsp_got_error: dsp_error is 0.    *)
CapsRefused ==
  /\ MayFail
  /\ main.at \in {"ready", "idle", "refused"} /\ app = "idle"
  /\ base' = [base EXCEPT !.status = "ERROR", !.error = FALSE]
  /\ q' = Disabled
  /\ WakeLoop
  /\ UNCHANGED <<fmt, sem, bufVars, dspVars, padVars, main, app, abort, histVars, counters>>

(* send_msg.  Between control_pipe and queue_buffer sync_sem is reset, and *)
(* queue_buffer stores the buffers before it sends its message.            *)
Wrong_Taken == sem.msg   \* the semaphore is only looked at
Taken == sem.msg - 1

SendMsg ==
  /\ main.at = "send" /\ main.todo # <<>> /\ sem.msg > 0
  /\ LET m == Head(main.todo) IN
       /\ args' = m.args
       /\ dspq' = Append(dspq, m)
       /\ sem' = [msg |-> Taken, sync |-> IF m = control_pipe THEN 0 ELSE sem.sync]
       /\ out_buf_ptr' = IF m = control_pipe THEN main.otb ELSE out_buf_ptr
       /\ main' = [main EXCEPT !.todo = Tail(@),
                     !.otb = IF m = queue_buffer THEN NoBuf ELSE @,
                     !.tb = IF m = queue_buffer THEN FALSE ELSE @]
  /\ UNCHANGED <<mainKeeps, base, q, ud, pinned, inUd, lent, histVars, counters>>

(* It returns false: after IPP_TIMEOUT, or when the message cannot be      *)
(* sent.  The caller gives up: the buffers of a frame are in no queue.     *)
GiveUp == /\ main' = [main EXCEPT !.at = IF main.mode = "frame" THEN "idle"
                                         ELSE IF main.mode = "init" THEN "refused"
                                         ELSE "stopped",
                                  !.todo = <<>>, !.otb = NoBuf, !.tb = FALSE]
          /\ failed' = TRUE

TimedOut == MayStall \/ thread = "ended"

SendTimesOut ==
  /\ main.at = "send" /\ main.todo # <<>> /\ sem.msg = 0 /\ TimedOut
  /\ GiveUp
  /\ UNCHANGED <<mainKeeps, base, sem, q, bufVars, args, dspq, spoiled, surplus, counters>>

SendFails ==
  /\ MayFail /\ ~failed
  /\ main.at = "send" /\ main.todo # <<>> /\ sem.msg > 0
  /\ args' = Head(main.todo).args
  /\ sem' = [sem EXCEPT !.msg = @ - 1]
  /\ GiveUp
  /\ UNCHANGED <<mainKeeps, base, q, bufVars, dspq, spoiled, surplus, counters>>

(* All is sent: init_pipe returns, send_buffer waits for sync_sem, and     *)
(* send_stop_message for its last message.                                 *)
Wrong_AwaitsLast == TRUE   \* the stop does not wait for its last message
AwaitsLast == sem.msg > 0

Sent ==
  /\ main.at = "send" /\ main.todo = <<>>
  /\ \/ /\ main.mode = "init"
        /\ main' = [main EXCEPT !.at = "idle"]
        /\ UNCHANGED sem
     \/ /\ main.mode = "frame" /\ sem.sync > 0
        /\ sem' = [sem EXCEPT !.sync = @ - 1]
        /\ main' = [main EXCEPT !.at = "idle"]
     \/ /\ main.mode = "stop" /\ AwaitsLast
        /\ sem' = [sem EXCEPT !.msg = IF @ > 0 THEN @ - 1 ELSE 0]
        /\ main' = [main EXCEPT !.at = "stopped"]
  /\ UNCHANGED <<mainKeeps, base, q, bufVars, args, dspq, histVars, counters>>

SentTimesOut ==
  /\ main.at = "send" /\ main.todo = <<>> /\ TimedOut
  /\ \/ main.mode = "frame" /\ sem.sync = 0
     \/ main.mode = "stop" /\ sem.msg = 0
  /\ GiveUp
  /\ UNCHANGED <<mainKeeps, base, sem, q, bufVars, args, dspq, spoiled, surplus, counters>>

(* pad_chain: a buffer of ports[0], if there is one or comes *)
ChainPop ==
  /\ \/ main.at = "idle" /\ app = "idle" /\ frames < MaxFrames
     \/ main.at = "pop"
  /\ \/ /\ q.in > 0 /\ (q.on \/ main.woken)
        /\ q' = [q EXCEPT !.in = @ - 1]
        /\ main' = [main EXCEPT !.at = "check", !.mode = "frame", !.tb = TRUE,
                                !.woken = FALSE]
     \/ /\ IF main.at = "pop" THEN main.woken /\ q.in = 0 ELSE ~q.on
        /\ main' = [main EXCEPT !.at = "check", !.mode = "frame", !.woken = FALSE]
        /\ UNCHANGED q
     \/ /\ main.at = "idle" /\ q.on /\ q.in = 0
        /\ main' = [main EXCEPT !.at = "pop", !.mode = "frame"]
        /\ UNCHANGED q
  /\ UNCHANGED <<mainKeeps, base, sem, bufVars, args, dspq, histVars, counters>>

Wrong_HasRef(full) == FALSE   \* user_data is not set
HasRef(full) == full

(* ... and it is filled: with a reference to the frame (map_buffer), or a  *)
(* copy of it when it is short                                             *)
ChainCheck ==
  /\ main.at = "check"
  /\ \/ /\ base.status # "OK"
        /\ q' = [q EXCEPT !.in = IF main.tb THEN @ + 1 ELSE @]
        /\ main' = [main EXCEPT !.at = "idle", !.tb = FALSE]
        /\ UNCHANGED <<base, inUd, spoiled, frames>>
     \/ /\ base.status = "OK" /\ main.tb
        /\ base' = [base EXCEPT !.count = @ + 1]
        /\ frames' = frames + 1
        /\ \E full \in {TRUE, ~MayShort} :
             inUd' = HasRef(full) /\ spoiled' = (spoiled \/ ~full)
        /\ main' = [main EXCEPT !.at = "buffer"]
        /\ UNCHANGED q
  /\ UNCHANGED <<mainKeeps, sem, ud, pinned, out_buf_ptr, lent, args, dspq, failed, surplus,
                 breaks>>

Wrong_TakeBack == q.in   \* the input buffer does not go back to its queue
TakeBack == q.in + 1

(* send_buffer: an output buffer, or none because of a flush; after        *)
(* dsp_error it returns false, which is GST_FLOW_OK, and keeps nothing.    *)
SendBuffer ==
  /\ \/ main.at = "buffer" /\ ~base.error
     \/ main.at = "otb"
  /\ \/ /\ q.ipp # <<>> /\ (q.on \/ main.woken)
        /\ main' = [main EXCEPT !.at = "send", !.otb = Head(q.ipp), !.woken = FALSE,
                                !.todo = send_frame]
        /\ q' = [q EXCEPT !.ipp = Tail(@)]
        /\ UNCHANGED inUd
     \/ /\ IF main.at = "otb" THEN main.woken /\ q.ipp = <<>> ELSE ~q.on
        /\ inUd' = FALSE
        /\ q' = [q EXCEPT !.in = TakeBack]
        /\ main' = [main EXCEPT !.at = "idle", !.tb = FALSE, !.woken = FALSE]
     \/ /\ main.at = "buffer" /\ q.on /\ q.ipp = <<>>
        /\ main' = [main EXCEPT !.at = "otb"]
        /\ UNCHANGED <<q, inUd>>
  /\ UNCHANGED <<mainKeeps, base, sem, ud, pinned, out_buf_ptr, lent, args, dspq,
                 histVars, counters>>

SendBufferError ==
  /\ main.at = "buffer" /\ base.error
  /\ main' = [main EXCEPT !.at = "idle", !.tb = FALSE]
  /\ UNCHANGED <<mainKeeps, base, sem, q, bufVars, args, dspq, histVars, counters>>

Main == \/ SetCaps \/ CapsRefused \/ SendMsg \/ SendTimesOut \/ SendFails \/ Sent \/ SentTimesOut
        \/ ChainPop \/ ChainCheck \/ SendBuffer \/ SendBufferError

-----------------------------------------------------------------------------
(* The DSP and got_message                                                 *)

dspKeeps == <<fmt, padVars, app, lent, counters, spoiled>>

(* gstdsp_got_error; e is whether dsp_error gets a value other than zero   *)
GotError(e) ==
  /\ base' = [base EXCEPT !.status = "ERROR", !.error = e, !.done = TRUE]
  /\ q' = Disabled
  /\ WakeMain /\ WakeLoop

(* DFGM_FREE_BUFF: where the result is, and both buffers into their queues *)
FreeBuff ==
  /\ abort' = (Overwrites(fmt) /\ (~inUd \/ ud[out_buf_ptr]))
  /\ ud' = [ud EXCEPT ![out_buf_ptr] = @ \/ Overwrites(fmt)]
  /\ pinned' = [pinned EXCEPT ![out_buf_ptr] = @ /\ ~Overwrites(fmt)]
  /\ inUd' = FALSE
  /\ q' = [q EXCEPT !.in = @ + 1, !.out = Append(@, out_buf_ptr)]

Answer ==
  /\ thread = "run" /\ dspq # <<>>
  /\ dspq' = Tail(dspq)
  /\ args' = {}
  /\ pipe' = Deliver(Head(dspq))
  /\ \/ /\ Head(dspq) # queue_buffer
        /\ sem' = [sem EXCEPT !.msg = @ + 1]
        /\ UNCHANGED <<q, ud, pinned, inUd, abort>>
     \/ /\ Head(dspq) = queue_buffer
        /\ FreeBuff
        /\ sem' = [msg |-> sem.msg + 1, sync |-> sem.sync + 1]
  /\ UNCHANGED <<dspKeeps, base, out_buf_ptr, thread, main, loop, failed, surplus>>

(* the answer has an error code, in the second argument *)
AnswerError ==
  /\ MayFail /\ ~failed
  /\ thread = "run" /\ dspq # <<>>
  /\ 1 \in args
  /\ dspq' = Tail(dspq)
  /\ args' = {}
  /\ sem' = [sem EXCEPT !.msg = @ + 1]
  /\ GotError(FALSE)
  /\ failed' = TRUE
  /\ UNCHANGED <<dspKeeps, ud, pinned, inUd, out_buf_ptr, pipe, thread, abort, surplus>>

(* DFGM_EVENT_ERROR, at any time: on its own, before the answer to a      *)
(* message, or instead of it.  The second argument of the message that is  *)
(* out is looked at as well: with an error code in it, dsp_error is -1     *)
(* first and 0 in the end.                                                 *)
EventError ==
  /\ MayFail /\ ~failed
  /\ thread = "run"
  /\ dspq' \in {dspq} \cup {Tail(p) : p \in {dspq} \ {<<>>}}
  /\ args' = {}
  /\ sem' = [sem EXCEPT !.msg = @ + 1]
  /\ \E e \in {TRUE, 1 \notin args} : GotError(e)
  /\ failed' = TRUE
  /\ surplus' = (dspq' = dspq)
  /\ UNCHANGED <<dspKeeps, ud, pinned, inUd, out_buf_ptr, pipe, thread, abort>>

(* dsp_thread sees done when no message is left for now *)
ThreadEnds ==
  /\ thread = "run" /\ base.done
  /\ thread' = "ended"
  /\ UNCHANGED <<dspKeeps, base, sem, q, ud, pinned, inUd, out_buf_ptr, args, dspq, pipe,
                 main, loop, abort, failed, surplus>>

Dsp == Answer \/ AnswerError \/ EventError \/ ThreadEnds

-----------------------------------------------------------------------------
(* loop: output_loop                                                       *)

loopKeeps == <<fmt, sem, pinned, inUd, out_buf_ptr, dspVars, srcFlush, app, abort,
               failed, surplus, counters>>
PassEnd == [at |-> "out", tb |-> NoBuf, woken |-> FALSE]

LoopPop ==
  /\ \/ loop.at = "out" /\ task = "started"
     \/ loop.at = "pop"
  /\ \/ /\ q.out # <<>> /\ (q.on \/ loop.woken)
        /\ q' = [q EXCEPT !.out = Tail(@)]
        /\ loop' = [at |-> "check", tb |-> Head(q.out), woken |-> FALSE]
     \/ /\ IF loop.at = "pop" THEN loop.woken /\ q.out = <<>> ELSE ~q.on
        /\ loop' = [at |-> "null", tb |-> NoBuf, woken |-> FALSE]
        /\ UNCHANGED q
     \/ /\ loop.at = "out" /\ q.on /\ q.out = <<>>
        /\ loop' = [loop EXCEPT !.at = "pop"]
        /\ UNCHANGED q
  /\ UNCHANGED <<loopKeeps, base, ud, lent, task, main, spoiled>>

(* pause_task: r only counts when status is still OK *)
Pause(r) ==
  /\ base' = [base EXCEPT !.status = IF @ = "OK" THEN r ELSE @]
  /\ task' = "paused"
  /\ WakeMain
  /\ loop' = PassEnd

(* check_status: on failure the buffer goes back into its queue *)
LoopCheck ==
  /\ loop.at \in {"check", "null"}
  /\ \/ /\ base.status = "OK"
        /\ loop' = IF loop.at = "null" THEN PassEnd ELSE [loop EXCEPT !.at = "work"]
        /\ UNCHANGED <<base, q, task, main>>
     \/ /\ base.status # "OK"
        /\ Pause(base.status)
        /\ q' = [Disabled EXCEPT !.out = IF loop.tb = NoBuf THEN @ ELSE Append(@, loop.tb)]
  /\ UNCHANGED <<loopKeeps, ud, lent, spoiled>>

(* A frame from before a flush: nothing of it goes downstream, and the     *)
(* buffer is sent back as it is.                                           *)
LoopDrop ==
  /\ loop.at = "work" /\ base.stale > 0
  /\ base' = [base EXCEPT !.count = @ - 1, !.stale = @ - 1]
  /\ q' = [q EXCEPT !.ipp = Append(@, loop.tb)]
  /\ spoiled' = (spoiled \/ ud[loop.tb])
  /\ loop' = PassEnd
  /\ UNCHANGED <<loopKeeps, ud, lent, task, main>>

(* The input that was overwritten goes downstream and the buffer is sent   *)
(* back at once, or the buffer is wrapped and comes back when downstream   *)
(* is done with it.                                                        *)
Wrong_Goes(b) == q.ipp   \* an overwritten input: its buffer is forgotten
Goes(b) == Append(q.ipp, b)

LoopPush ==
  /\ loop.at = "work" /\ base.stale = 0
  /\ ud' = [ud EXCEPT ![loop.tb] = @ /\ pinned[loop.tb]]
  /\ \/ /\ ~srcFlush
        /\ IF ud[loop.tb] /\ ~pinned[loop.tb]
           THEN q' = [q EXCEPT !.ipp = Goes(loop.tb)] /\ UNCHANGED lent
           ELSE lent' = lent \cup {loop.tb} /\ UNCHANGED q
        /\ base' = [base EXCEPT !.count = @ - 1]
        /\ loop' = PassEnd
        /\ UNCHANGED <<task, main>>
     \/ /\ srcFlush
        /\ q' = [Disabled EXCEPT !.ipp = Append(@, loop.tb)]
        /\ base' = [base EXCEPT !.count = @ - 1,
                                !.status = IF @ = "OK" THEN "WRONG_STATE" ELSE @]
        /\ task' = "paused"
        /\ WakeMain
        /\ loop' = PassEnd
        /\ UNCHANGED lent
  /\ UNCHANGED <<loopKeeps, spoiled>>

(* finalize of a wrapped buffer *)
Finalize(b) ==
  /\ b \in lent
  /\ lent' = lent \ {b}
  /\ q' = [q EXCEPT !.ipp = Append(@, b)]
  /\ UNCHANGED <<loopKeeps, base, ud, task, main, loop, spoiled>>

Loop == LoopPop \/ LoopCheck \/ LoopDrop \/ LoopPush \/ \E b \in Bufs : Finalize(b)

-----------------------------------------------------------------------------
(* app: flush, stop, restart                                               *)

appKeeps == <<fmt, bufVars, dspVars, abort, histVars, frames>>

Unlock(s) ==   \* status, then dsp_unlock(TRUE)
  /\ base' = [base EXCEPT !.status = s]
  /\ q' = Disabled
  /\ WakeMain /\ WakeLoop

FlushStart ==
  /\ app = "idle" /\ main.at # "ready" /\ breaks < MaxBreaks
  /\ app' = "flush" /\ srcFlush' = TRUE /\ breaks' = breaks + 1
  /\ UNCHANGED <<appKeeps, base, sem, q, task, main, loop>>

FlushUnlock ==
  /\ app = "flush"
  /\ app' = "pause"
  /\ Unlock("WRONG_STATE")
  /\ UNCHANGED <<appKeeps, sem, padVars, breaks>>

FlushPause ==
  /\ app = "pause" /\ loop.at = "out"
  /\ app' = "flushed" /\ task' = "paused"
  /\ UNCHANGED <<appKeeps, base, sem, q, srcFlush, main, loop, breaks>>

FlushStop ==
  /\ app = "flushed" /\ main.at \in {"idle", "refused"}
  /\ app' = "idle" /\ srcFlush' = FALSE /\ task' = "started"
  /\ base' = [base EXCEPT !.status = "OK", !.stale = base.count]
  /\ q' = [q EXCEPT !.on = TRUE]
  /\ UNCHANGED <<appKeeps, sem, main, loop, breaks>>

(* change_state from PAUSED to READY *)
StopUnlock ==
  /\ app = "idle" /\ main.at # "ready"
  /\ app' = "deactivate"
  /\ Unlock("WRONG_STATE")
  /\ UNCHANGED <<appKeeps, sem, padVars, breaks>>

(* The pads are inactive when the streaming thread and the pass of         *)
(* output_loop have returned; cycle counts on, so finalize returns nothing *)
(* any more.  _dsp_stop: send_stop_message unless there was a dsp_error.   *)
StopMessage ==
  /\ app = "deactivate" /\ main.at \in {"idle", "refused"} /\ loop.at = "out"
  /\ app' = "stop" /\ srcFlush' = TRUE /\ lent' = {}
  /\ main' = IF base.error THEN [main EXCEPT !.at = "stopped", !.mode = "stop"]
             ELSE [main EXCEPT !.at = "send", !.mode = "stop", !.todo = send_stop]
  /\ UNCHANGED <<fmt, base, sem, q, ud, pinned, inUd, out_buf_ptr, dspVars, task, loop,
                 abort, histVars, counters>>

StopDone ==
  /\ app = "stop" /\ main.at = "stopped"
  /\ app' = "join"
  /\ base' = [base EXCEPT !.done = @ \/ ~base.error]
  /\ UNCHANGED <<appKeeps, sem, q, padVars, main, loop, breaks>>

(* The thread has been joined; the buffers, the node and, in reset, the    *)
(* rest go: msg_sem is 1 again and ipp_queue is empty.                     *)
Reset ==
  /\ app = "join" /\ thread = "ended"
  /\ app' = "ready" /\ task' = "none"
  /\ q' = [q EXCEPT !.in = 0, !.ipp = <<>>, !.out = <<>>]
  /\ base' = [base EXCEPT !.count = 0, !.stale = 0]
  /\ sem' = [sem EXCEPT !.msg = 1]
  /\ dspq' = <<>> /\ pipe' = "none" /\ thread' = "none"
  /\ main' = [main EXCEPT !.at = "ready"]
  /\ surplus' = FALSE
  /\ UNCHANGED <<fmt, bufVars, args, srcFlush, loop, abort, failed, spoiled, counters>>

(* READY to PAUSED; dsp_error keeps its value, so an element that has one  *)
(* is not used again here (LifeCycle has what happens then).               *)
Restart ==
  /\ app = "ready" /\ breaks < MaxBreaks /\ ~base.error
  /\ app' = "idle" /\ srcFlush' = FALSE
  /\ base' = [base EXCEPT !.status = "OK", !.done = FALSE]
  /\ q' = [q EXCEPT !.on = TRUE]
  /\ breaks' = breaks + 1
  /\ UNCHANGED <<appKeeps, sem, task, main, loop>>

App == \/ FlushStart \/ FlushUnlock \/ FlushPause \/ FlushStop
       \/ StopUnlock \/ StopMessage \/ StopDone \/ Reset \/ Restart

Next == ~abort /\ (Main \/ Dsp \/ Loop \/ App)

Spec == Init /\ [][Next]_vars

(* The threads run; nothing is assumed of the DSP, of upstream, of who     *)
(* holds buffers downstream, or of who flushes and stops.                  *)
FairSpec ==
  /\ Spec
  /\ WF_vars(~abort /\ (SendMsg \/ Sent))
  /\ WF_vars(~abort /\ (SendTimesOut \/ SentTimesOut))
  /\ WF_vars(~abort /\ (ChainCheck \/ SendBuffer \/ SendBufferError))
  /\ WF_vars(~abort /\ main.at = "pop" /\ ChainPop)
  /\ WF_vars(~abort /\ (LoopPop \/ LoopCheck \/ LoopDrop \/ LoopPush))
  /\ WF_vars(~abort /\ ThreadEnds)
  /\ WF_vars(~abort /\ (FlushUnlock \/ FlushPause \/ FlushStop))
  /\ WF_vars(~abort /\ (StopMessage \/ StopDone \/ Reset))
-----------------------------------------------------------------------------
(* Every variable has its type.                                            *)
TypeOK ==
  /\ fmt \in Formats
  /\ base \in [status : {"OK", "WRONG_STATE", "ERROR"}, done : BOOLEAN,
               error : BOOLEAN, count : 0 .. MaxFrames, stale : 0 .. MaxFrames]
  /\ sem \in [msg : 0 .. 2, sync : 0 .. 1]
  /\ q.in \in 0 .. 1 /\ q.ipp \in Seq(Bufs) /\ q.out \in Seq(Bufs) /\ q.on \in BOOLEAN
  /\ ud \in [Bufs -> BOOLEAN] /\ pinned \in [Bufs -> BOOLEAN] /\ inUd \in BOOLEAN
  /\ out_buf_ptr \in Bufs \cup {NoBuf} /\ lent \subseteq Bufs
  /\ args \subseteq 0 .. 2 /\ dspq \in Seq(Messages)
  /\ pipe \in PipeStates
  /\ thread \in {"none", "run", "ended"} /\ task \in {"none", "started", "paused"}
  /\ main.todo \in Seq(Messages) /\ main.otb \in Bufs \cup {NoBuf}
  /\ loop.tb \in Bufs \cup {NoBuf}

AtDsp == queue_buffer \in Range(dspq)
Spots(b) ==
  {s \in {"ipp", "out", "main", "loop", "lent", "dsp"} :
     \/ s = "ipp" /\ b \in Range(q.ipp)
     \/ s = "out" /\ b \in Range(q.out)
     \/ s = "main" /\ main.otb = b
     \/ s = "loop" /\ loop.tb = b
     \/ s = "lent" /\ b \in lent
     \/ s = "dsp" /\ AtDsp /\ out_buf_ptr = b}
NoneTwice ==
  /\ IsInjective(q.ipp) /\ IsInjective(q.out)
  /\ \A b \in Bufs : \A s, t \in Spots(b) : s = t
Inputs == q.in + (IF main.tb THEN 1 ELSE 0) + (IF AtDsp THEN 1 ELSE 0)

(* While the element runs, the input buffer and every output buffer are in *)
(* one place: a queue, a thread, the DSP or downstream; never in two, and  *)
(* lost only by a message that failed or was not answered in time.         *)
BuffersKept ==
  main.at # "ready" /\ app \in {"idle", "flush", "pause", "flushed"} =>
    /\ Inputs <= 1 /\ NoneTwice
    /\ ~failed => Inputs = 1 /\ \A b \in Bufs : Spots(b) # {}

(* msg_sem keeps the messages apart: the DSP has one at a time, and its    *)
(* arguments are those in msg_ptr until it has answered.  Only an error    *)
(* event that answers nothing ends that, until reset makes msg_sem anew.   *)
OneMessage ==
  ~surplus => /\ sem.msg + Len(dspq) <= 1
              /\ dspq # <<>> => args = Head(dspq).args

(* The messages come in the order DFGM asks for, and when the node is      *)
(* terminated the pipe has been taken down and nothing is unanswered,      *)
(* unless a message failed or was not answered in time.                    *)
CleanStop ==
  ~failed => /\ pipe # "broken"
             /\ app = "join" => pipe = "none" /\ dspq = <<>> /\ args = {}

(* What got_message and control_pipe assume of the pipe is what the others *)
(* build: the last algorithm writes over the input exactly when the output *)
(* is looked for there, the noise filter is where it is spoken to, each    *)
(* algorithm reads the format the one before it writes, from that of the   *)
(* caps to UYVY, and the list of contents reaches every element and ends.  *)
FitsFormat ==
  [f \in Formats |->
     LET n == nr_algos(f) IN
       /\ Overwrites(f) <=> output_buf_distribution(f)[n - 1] = 0
       /\ algos(f)[eenf_idx(f) + 1] = eenf
       /\ algos(f)[2].from = f /\ algos(f)[n].to = "YUV_422ILE"
       /\ \A e \in graph_connection(f) :
            e[1] > 0 => algos(f)[e[1] + 1].to = algos(f)[e[2] + 1].from
       /\ \A i \in 1 .. Len(contents(f)) :
            next_content(f, i) = (IF i = Len(contents(f)) THEN 0 ELSE i + 1)]
PipeFits == FitsFormat[fmt]

(* The assertions of got_message on the user_data of the two buffers.      *)
AssertsHold == ~abort

(* They fail only after a flush has dropped a frame that had overwritten   *)
(* its input, or for a frame shorter than input_buffer_size.               *)
AssertsBut == abort => spoiled

(* A flush ends, and so does a stop, whatever the DSP answers or does not: *)
(* nobody waits for ever in the queues or for the semaphores.              *)
CallsReturn == app # "idle" ~> (app \in {"idle", "ready"} \/ abort)
=============================================================================
