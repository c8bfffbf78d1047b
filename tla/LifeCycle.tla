----------------------------- MODULE LifeCycle -----------------------------
(***************************************************************************)
(* The life of an element (gstdspbase.c, gstdspbuffer.c): it opens the     *)
(* DSP, creates a node, starts it with a thread for its messages and a     *)
(* task for its output, stops it for a state change or because the caps    *)
(* have another size (gstdsp_reinit), and may start a node again.          *)
(*                                                                         *)
(*   app      the state changes                                            *)
(*   stream   the streaming thread of the sink pad: caps and buffers       *)
(*   flush    whoever flushes                                              *)
(*   loop     the task of the source pad (output_loop)                     *)
(*   thread   dsp_thread, with the messages and faults of the DSP          *)
(*   down     downstream, with the buffers it has been given               *)
(*                                                                         *)
(* Nodes are numbered in the order of their creation.  Each has one input  *)
(* and one output td_buffer here; what is done with them while nothing is  *)
(* started or stopped is in DspBase.                                       *)
(***************************************************************************)
EXTENDS Integers, FiniteSets

CONSTANTS
  Kinds,       \* the elements: subset of {"venc", "vdec"}
  MaxNodes,    \* bound of the nodes created
  MaxStarts,   \* bound of the changes from READY to PAUSED
  MaxFlushes,  \* bound of the flushes
  MaxFaults    \* bound of what goes wrong with the DSP

ASSUME LifeCycleAssumption ==
  /\ Kinds \subseteq {"venc", "vdec"} /\ Kinds # {}
  /\ {MaxNodes, MaxStarts, MaxFlushes, MaxFaults} \subseteq Nat

VARIABLES
  kind,     \* "venc" pushes its own buffers downstream and starts its node in
            \*   sink_setcaps; "vdec" has those of downstream and starts it when
            \*   the first buffer comes
  el,       \* status, done, dsp_error, busy, node (0: NULL), cycle of GstDspBase
  handle,   \* is dsp_handle open?
  bridge,   \* the node, for the DSP
  mem,      \* what gstdsp_start has allocated: "comm", "events"
  thread,   \* dsp_thread: the node it is of (0: NULL) and what became of it
  sem,      \* the count of the semaphore flush
  on,       \* are the queues of the ports enabled?
  tb,       \* where the input and the output buffer are
  task, loop,
  pads,     \* is the sink pad active; does the source pad refuse to push?
  stream, app, flush,
  stop,     \* _dsp_stop: who runs it, and how far it is
  down,     \* buffers downstream: which node they are of, and their cookie
  hist,     \* history: what has happened so far, see Events
  nodes, starts, flushes, faults   \* counters of the bounds

Events ==
  {"stale",      \* a buffer went back to a node that is gone
   "raced",      \* one was wrapped by output_loop after gstdsp_reinit did cycle++
   "unclean",    \* a node was terminated before it answered STOP
   "late",       \* an answer to STOP came when nobody waited for it any more
   "orphan",     \* dsp_error is set, and not by the thread of this node
   "overtaken",  \* status became OK again after a stop or flush had unlocked
   "rejoined",   \* a thread was joined a second time
   "half"}       \* gstdsp_start returned false before it had created the thread

counters == <<nodes, starts, flushes, faults>>
dspVars == <<handle, bridge, mem, sem>>
vars == <<kind, el, dspVars, thread, on, tb, task, loop, pads, stream, app, flush,
          stop, down, hist, counters>>

Init ==
  /\ kind \in Kinds
  /\ el = [status |-> "OK", done |-> FALSE, error |-> FALSE, busy |-> FALSE,
           node |-> 0, cycle |-> 0]
  /\ handle = FALSE /\ bridge = "none" /\ mem = {} /\ sem = 0
  /\ thread = [of |-> 0, is |-> "none"]
  /\ on = TRUE /\ tb = [in |-> "none", out |-> "none"]
  /\ task = "none" /\ loop = [at |-> "out", of |-> 0, woken |-> FALSE]
  /\ pads = [sink |-> FALSE, flushing |-> TRUE]
  /\ stream = [at |-> "idle", woken |-> FALSE]
  /\ app = "null" /\ flush = "idle"
  /\ stop = [by |-> "nobody", at |-> "none", msg |-> "none"]
  /\ down = {} /\ hist = {}
  /\ nodes = 0 /\ starts = 0 /\ flushes = 0 /\ faults = 0

-----------------------------------------------------------------------------
(* dsp_unlock, and gstdsp_got_error with whether its id is an error.       *)

Wrong_Wake == loop' = loop /\ stream' = stream   \* whoever waits is not woken
Wake == /\ loop' = [loop EXCEPT !.woken = (loop.at = "pop")]
        /\ stream' = [stream EXCEPT !.woken = (stream.at = "pop")]

GotError(e) == /\ el' = [el EXCEPT !.status = "ERROR", !.error = e]
               /\ on' = FALSE
               /\ Wake

(* A fault of the DSP, within the bound.                                   *)
Fault == faults < MaxFaults /\ faults' = faults + 1

Overtakes(by) ==
  \/ app \in {"unlocked", "deactivate"}
  \/ by = "stream" /\ flush \in {"unlocked", "flushing"}

-----------------------------------------------------------------------------
(* stream: sink_setcaps and pad_chain                                      *)

streamKeeps == <<kind, task, loop, pads, app, flush, down>>

(* Caps of another size: need_node_reset, so flush_buffer and the wait for *)
(* ts_cond (venc only; its time is in 1970, it never waits), then reinit.  *)
(* Without a node only the encoder goes on to create one.                  *)
SetCaps ==
  /\ stream.at = "idle" /\ pads.sink /\ nodes < MaxNodes
  /\ flush \in {"idle", "start"}
  /\ IF el.node # 0
     THEN stream' = [stream EXCEPT !.at = "reinit"]
     ELSE kind = "venc" /\ stream' = [stream EXCEPT !.at = "create"]
  /\ UNCHANGED <<streamKeeps, el, dspVars, thread, on, tb, stop, hist, counters>>

(* gstdsp_reinit *)
ReinitUnlock ==
  /\ stream.at = "reinit"
  /\ stream' = [stream EXCEPT !.at = "cycle"]
  /\ el' = [el EXCEPT !.status = "WRONG_STATE"]
  /\ on' = FALSE
  /\ loop' = [loop EXCEPT !.woken = (loop.at = "pop")]
  /\ UNCHANGED <<kind, task, pads, app, flush, down, dspVars, thread, tb, stop, hist,
                 counters>>

Wrong_Cycle == el.cycle   \* buffers of the old node are still recycled
Cycle == el.cycle + 1

ReinitCycle ==
  /\ stream.at = "cycle"
  /\ stream' = [stream EXCEPT !.at = "pause"]
  /\ el' = [el EXCEPT !.cycle = Cycle]
  /\ UNCHANGED <<streamKeeps, dspVars, thread, on, tb, stop, hist, counters>>

(* gst_pad_pause_task waits for the pass to end; push_events *)
ReinitPause ==
  /\ stream.at = "pause" /\ loop.at = "out"
  /\ stream' = [stream EXCEPT !.at = "stop"]
  /\ task' = IF task = "none" THEN "none" ELSE "paused"
  /\ stop' = [by |-> "stream", at |-> "enter", msg |-> "none"]
  /\ UNCHANGED <<kind, loop, pads, app, flush, down, el, dspVars, thread, on, tb, hist,
                 counters>>

ReinitEnd ==
  /\ stream.at = "stop" /\ stop.at = "left"
  /\ stop' = [by |-> "nobody", at |-> "none", msg |-> "none"]
  /\ el' = [el EXCEPT !.status = "OK", !.done = FALSE]
  /\ on' = TRUE
  /\ hist' = IF Overtakes("stream") THEN hist \cup {"overtaken"} ELSE hist
  /\ stream' = [stream EXCEPT !.at = IF kind = "venc" THEN "create" ELSE "idle"]
  /\ UNCHANGED <<streamKeeps, dspVars, thread, tb, counters>>

(* A buffer comes; without a node the decoder creates one (init_node).     *)
Chain ==
  /\ stream.at = "idle" /\ pads.sink /\ flush \in {"idle", "start"}
  /\ \/ /\ el.node = 0 /\ kind = "vdec" /\ nodes < MaxNodes
        /\ stream' = [stream EXCEPT !.at = "create"]
        /\ UNCHANGED tb
     \/ /\ el.node # 0 /\ on /\ tb.in = "queue"
        /\ stream' = [stream EXCEPT !.at = "check"]
        /\ tb' = [tb EXCEPT !.in = "stream"]
     \/ /\ el.node # 0 /\ on /\ tb.in # "queue"
        /\ stream' = [stream EXCEPT !.at = "pop"]
        /\ UNCHANGED tb
  /\ UNCHANGED <<streamKeeps, el, dspVars, thread, on, stop, hist, counters>>

ChainPop ==
  /\ stream.at = "pop"
  /\ \/ /\ tb.in = "queue" /\ (on \/ stream.woken)
        /\ stream' = [at |-> "check", woken |-> FALSE]
        /\ tb' = [tb EXCEPT !.in = "stream"]
     \/ /\ tb.in # "queue" /\ stream.woken
        /\ stream' = [at |-> "idle", woken |-> FALSE]
        /\ UNCHANGED tb
  /\ UNCHANGED <<streamKeeps, el, dspVars, thread, on, stop, hist, counters>>

ChainSend ==
  /\ stream.at = "check"
  /\ stream' = [stream EXCEPT !.at = "idle"]
  /\ tb' = [tb EXCEPT !.in = IF el.status = "OK" THEN "dsp" ELSE "queue"]
  /\ UNCHANGED <<streamKeeps, el, dspVars, thread, on, stop, hist, counters>>

(* create_node.  What fails leads to "failed", with the node as it is.     *)
CreateNode ==
  /\ stream.at = "create"
  /\ \/ /\ handle
        /\ nodes' = nodes + 1
        /\ bridge' = "created"
        /\ el' = [el EXCEPT !.node = nodes + 1]
        /\ stream' = [stream EXCEPT !.at = "run"]
        /\ UNCHANGED faults
     \/ /\ ~handle \/ faults < MaxFaults
        /\ faults' = IF handle THEN faults + 1 ELSE faults
        /\ stream' = [stream EXCEPT !.at = "failed"]
        /\ UNCHANGED <<nodes, bridge, el>>
  /\ UNCHANGED <<streamKeeps, handle, mem, sem, thread, on, tb, stop, hist, starts, flushes>>

(* gstdsp_start: comm of the buffers and dsp_node_run; the three           *)
(* notifications; the thread and the task; the play message; the buffers   *)
(* (with those that gstdsp_send_codec_data takes).                         *)
StartRun ==
  /\ stream.at = "run"
  /\ mem' = mem \cup {"comm"}
  /\ \/ /\ bridge' = "running"
        /\ stream' = [stream EXCEPT !.at = "notify"]
        /\ UNCHANGED <<faults, hist>>
     \/ /\ Fault
        /\ stream' = [stream EXCEPT !.at = "failed"]
        /\ hist' = hist \cup {"half"}
        /\ UNCHANGED bridge
  /\ UNCHANGED <<streamKeeps, el, handle, sem, thread, on, tb, stop, nodes, starts, flushes>>

Wrong_Created == IF thread.is = "none" THEN [of |-> el.node, is |-> "runs"] ELSE thread
                 \* only the first start creates a thread
Created == [of |-> el.node, is |-> "runs"]

StartNotify ==
  /\ stream.at = "notify"
  /\ mem' = mem \cup {"events"}
  /\ \/ /\ thread' = Created
        /\ task' = "started"
        /\ stream' = [stream EXCEPT !.at = "play"]
        /\ hist' = IF el.error THEN hist \cup {"orphan"} ELSE hist
        /\ UNCHANGED faults
     \/ /\ Fault
        /\ stream' = [stream EXCEPT !.at = "failed"]
        /\ hist' = hist \cup {"half"}
        /\ UNCHANGED <<thread, task>>
  /\ UNCHANGED <<kind, loop, pads, app, flush, down, el, handle, bridge, sem, on, tb, stop,
                 nodes, starts, flushes>>

StartPlay ==
  /\ stream.at = "play"
  /\ \/ /\ tb' = [in |-> "queue", out |-> "dsp"]
        /\ stream' = [stream EXCEPT !.at = "idle"]
        /\ UNCHANGED faults
     \/ /\ Fault
        /\ stream' = [stream EXCEPT !.at = "failed"]
        /\ UNCHANGED tb
  /\ UNCHANGED <<streamKeeps, el, dspVars, thread, on, stop, hist, nodes, starts, flushes>>

(* The buffer or the caps are refused.  For a buffer pad_chain looks at    *)
(* errno, whether the DSP has been taken away (check_dsp_preemption).      *)
StartFailed ==
  /\ stream.at = "failed"
  /\ \/ /\ stream' = [stream EXCEPT !.at = "idle"]
        /\ UNCHANGED <<el, on, loop, hist>>
     \/ /\ kind = "vdec"
        /\ stream' = [stream EXCEPT !.at = "idle"]
        /\ el' = [el EXCEPT !.status = "ERROR", !.error = TRUE, !.busy = TRUE]
        /\ on' = FALSE
        /\ loop' = [loop EXCEPT !.woken = (loop.at = "pop")]
        /\ hist' = hist \cup {"orphan"}
  /\ UNCHANGED <<kind, task, pads, app, flush, down, dspVars, thread, tb, stop, counters>>

Stream == \/ SetCaps \/ ReinitUnlock \/ ReinitCycle \/ ReinitPause \/ ReinitEnd
          \/ Chain \/ ChainPop \/ ChainSend
          \/ CreateNode \/ StartRun \/ StartNotify \/ StartPlay \/ StartFailed

-----------------------------------------------------------------------------
(* _dsp_stop, run by app or stream.  send_stop_message waits when the      *)
(* message could be sent and the DSP has not been taken away.              *)

stopKeeps == <<kind, handle, loop, pads, stream, app, flush, down, on, counters>>

StopEnter ==
  /\ stop.at = "enter"
  /\ \/ /\ el.node = 0
        /\ stop' = [stop EXCEPT !.at = "left"]
        /\ UNCHANGED el
     \/ /\ el.node # 0
        /\ LET sent == ~el.error /\ bridge = "running"
               waits == sent /\ ~el.busy
           IN /\ stop' = [stop EXCEPT !.at = IF waits THEN "wait" ELSE "join",
                                      !.msg = IF sent THEN "sent" ELSE "none"]
              /\ el' = [el EXCEPT !.done = @ \/ ~(waits \/ el.error)]
  /\ UNCHANGED <<stopKeeps, bridge, mem, sem, thread, tb, task, hist>>

(* The answer, or two seconds.                                             *)
StopWait ==
  /\ stop.at = "wait"
  /\ sem' = IF sem > 0 THEN sem - 1 ELSE 0
  /\ stop' = [stop EXCEPT !.at = "join", !.msg = IF sem > 0 THEN "heard" ELSE "sent"]
  /\ el' = [el EXCEPT !.done = TRUE]
  /\ UNCHANGED <<stopKeeps, bridge, mem, thread, tb, task, hist>>

(* g_thread_join returns at once from NULL *)
StopJoin ==
  /\ stop.at = "join"
  /\ thread.is # "runs"
  /\ hist' = IF thread.is = "joined" THEN hist \cup {"rejoined"} ELSE hist
  /\ thread' = [thread EXCEPT !.is = IF thread.is = "none" THEN "none" ELSE "joined"]
  /\ stop' = [stop EXCEPT !.at = "task"]
  /\ task' = IF task = "none" THEN "none" ELSE "stopped"
  /\ UNCHANGED <<stopKeeps, el, bridge, mem, sem, tb>>

Wrong_Freed == mem \ {"comm"}   \* events are not freed
Freed == {}

Wrong_PassOver == TRUE   \* it does not wait for the pass to end
PassOver == loop.at = "out"

(* gst_pad_stop_task has waited for the pass; everything of the node goes. *)
(* When dsp_node_free fails that is only logged, and the node is NULL all  *)
(* the same.                                                               *)
StopFree ==
  /\ stop.at = "task" /\ PassOver
  /\ task' = "none"
  /\ tb' = [in |-> "none", out |-> "none"]
  /\ mem' = Freed
  /\ bridge' = "none"
  /\ hist' = IF ~el.error /\ stop.msg = "heard" /\ bridge # "stopped"
             THEN hist \cup {"unclean"} ELSE hist
  /\ el' = [el EXCEPT !.node = 0]
  /\ stop' = [stop EXCEPT !.at = "left"]
  /\ UNCHANGED <<stopKeeps, sem, thread>>

Stop == StopEnter \/ StopWait \/ StopJoin \/ StopFree

-----------------------------------------------------------------------------
(* thread: dsp_thread and the DSP                                          *)

threadKeeps == <<kind, handle, mem, task, pads, app, flush, stop, down, nodes, starts, flushes>>

(* The output buffer comes back, and so does the input buffer.             *)
GotBuffer ==
  /\ thread.is = "runs" /\ bridge \in {"running", "stopped"}
  /\ \E p \in {"in", "out"} : tb[p] = "dsp" /\ tb' = [tb EXCEPT ![p] = "queue"]
  /\ UNCHANGED <<threadKeeps, el, bridge, sem, thread, on, loop, stream, hist, faults>>

Wrong_Up == sem + 2   \* the answer counts twice: got flush falls through to got stop
Up == sem + 1

(* got stop, which may be too late *)
StopAnswered ==
  /\ thread.is = "runs" /\ bridge = "running" /\ stop.msg # "none"
  /\ bridge' = "stopped"
  /\ sem' = Up
  /\ hist' = IF stop.at = "wait" THEN hist ELSE hist \cup {"late"}
  /\ UNCHANGED <<threadKeeps, el, thread, on, tb, loop, stream, faults>>

(* A DSP event with an algorithm error: its id is 0, the thread goes on.   *)
AlgoError ==
  /\ thread.is = "runs" /\ Fault
  /\ GotError(FALSE)
  /\ UNCHANGED <<threadKeeps, bridge, sem, thread, tb, hist>>

(* DSP_MMUFAULT, DSP_SYSERROR, or the DSP is taken away (busy)             *)
FatalError ==
  /\ thread.is = "runs" /\ Fault
  /\ \E busy \in {el.busy, TRUE} :
       el' = [el EXCEPT !.status = "ERROR", !.error = TRUE, !.busy = busy]
  /\ on' = FALSE
  /\ Wake
  /\ thread' = [thread EXCEPT !.is = "ended"]
  /\ UNCHANGED <<threadKeeps, bridge, sem, tb, hist>>

ThreadDone ==
  /\ thread.is = "runs" /\ el.done
  /\ thread' = [thread EXCEPT !.is = "ended"]
  /\ UNCHANGED <<threadKeeps, el, bridge, sem, on, tb, loop, stream, hist, faults>>

Thread == GotBuffer \/ StopAnswered \/ AlgoError \/ FatalError \/ ThreadDone

-----------------------------------------------------------------------------
(* loop: output_loop; down: the buffers it has pushed                      *)

loopKeeps == <<kind, dspVars, thread, pads, app, flush, stop, counters>>
PassEnd == [at |-> "out", of |-> 0, woken |-> FALSE]

LoopPop ==
  /\ \/ loop.at = "out" /\ task = "started"
     \/ loop.at = "pop"
  /\ \/ /\ tb.out = "queue" /\ (on \/ loop.woken)
        /\ tb' = [tb EXCEPT !.out = "loop"]
        /\ loop' = [at |-> "check", of |-> el.node, woken |-> FALSE]
     \/ /\ IF loop.at = "pop" THEN loop.woken /\ tb.out # "queue" ELSE ~on
        /\ loop' = [at |-> "check", of |-> 0, woken |-> FALSE]
        /\ UNCHANGED tb
     \/ /\ loop.at = "out" /\ on /\ tb.out # "queue"
        /\ loop' = [loop EXCEPT !.at = "pop"]
        /\ UNCHANGED tb
  /\ UNCHANGED <<loopKeeps, el, on, task, stream, down, hist>>

(* pause_task *)
Pause(r) ==
  /\ el' = [el EXCEPT !.status = IF @ = "OK" THEN r ELSE @]
  /\ task' = IF task = "started" THEN "paused" ELSE task
  /\ on' = FALSE
  /\ stream' = [stream EXCEPT !.woken = (stream.at = "pop")]
  /\ loop' = PassEnd

(* check_status; the buffer goes back into the queue when it fails *)
LoopCheck ==
  /\ loop.at = "check"
  /\ \/ /\ el.status = "OK"
        /\ loop' = IF loop.of = 0 THEN PassEnd ELSE [loop EXCEPT !.at = "wrap"]
        /\ UNCHANGED <<el, task, on, stream, tb>>
     \/ /\ el.status # "OK"
        /\ tb' = [tb EXCEPT !.out = IF loop.of = 0 THEN @ ELSE "queue"]
        /\ Pause(el.status)
  /\ UNCHANGED <<loopKeeps, down, hist>>

Recycling(w) == w.cookie = el.cycle   \* finalize: still the same cycle

(* gst_dsp_buffer_new and the push, which a flushing pad refuses: then     *)
(* the buffer is finalized at once.                                        *)
LoopPush ==
  /\ loop.at = "wrap" /\ kind = "venc"
  /\ LET w == [of |-> loop.of, cookie |-> el.cycle] IN
       \/ /\ ~pads.flushing
          /\ down' = down \cup {w}
          /\ tb' = [tb EXCEPT !.out = "down"]
          /\ hist' = IF stream.at = "pause" THEN hist \cup {"raced"} ELSE hist
          /\ loop' = PassEnd
          /\ UNCHANGED <<el, task, on, stream>>
       \/ /\ pads.flushing
          /\ tb' = [tb EXCEPT !.out = "dsp"]
          /\ Pause("WRONG_STATE")
          /\ UNCHANGED <<down, hist>>
  /\ UNCHANGED loopKeeps

(* A buffer of downstream is replaced by another and sent to the DSP.      *)
LoopReplace ==
  /\ loop.at = "wrap" /\ kind = "vdec"
  /\ tb' = [tb EXCEPT !.out = "dsp"]
  /\ \/ /\ ~pads.flushing
        /\ loop' = PassEnd
        /\ UNCHANGED <<el, task, on, stream>>
     \/ /\ pads.flushing
        /\ Pause("WRONG_STATE")
  /\ UNCHANGED <<loopKeeps, down, hist>>

(* Downstream is done with a buffer: within the same cycle its td_buffer   *)
(* goes to the DSP, whatever has become of it.                             *)
Finalize(w) ==
  /\ w \in down
  /\ down' = down \ {w}
  /\ tb' = IF Recycling(w) /\ w.of = el.node THEN [tb EXCEPT !.out = "dsp"] ELSE tb
  /\ hist' = IF Recycling(w) /\ w.of # el.node THEN hist \cup {"stale"} ELSE hist
  /\ UNCHANGED <<loopKeeps, el, on, task, loop, stream>>

Loop == LoopPop \/ LoopCheck \/ LoopPush \/ LoopReplace
Down == \E w \in down : Finalize(w)

-----------------------------------------------------------------------------
(* app: change_state; flush: FLUSH_START and FLUSH_STOP                    *)

appKeeps == <<kind, bridge, mem, sem, thread, tb, down, nodes, flushes>>

(* dsp_init.  When it fails the element is READY all the same.             *)
NullToReady ==
  /\ app = "null" /\ starts < MaxStarts
  /\ app' = "ready"
  /\ \/ /\ handle' = TRUE
        /\ UNCHANGED <<el, on, faults>>
     \/ /\ Fault /\ UNCHANGED <<handle, el, on>>
     \/ /\ Fault /\ UNCHANGED handle
        /\ el' = [el EXCEPT !.status = "ERROR", !.error = TRUE, !.busy = TRUE]
        /\ on' = FALSE
  /\ UNCHANGED <<appKeeps, task, loop, pads, stream, flush, stop, hist, starts>>

ReadyToPaused ==
  /\ app = "ready" /\ starts < MaxStarts
  /\ app' = "paused" /\ starts' = starts + 1
  /\ el' = [el EXCEPT !.status = "OK", !.done = FALSE]
  /\ on' = TRUE
  /\ pads' = [sink |-> TRUE, flushing |-> FALSE]
  /\ UNCHANGED <<appKeeps, handle, task, loop, stream, flush, stop, hist, faults>>

PausedToReady ==
  /\ app = "paused"
  /\ app' = "unlocked"
  /\ el' = [el EXCEPT !.status = "WRONG_STATE"]
  /\ on' = FALSE
  /\ Wake
  /\ UNCHANGED <<appKeeps, handle, task, pads, flush, stop, hist, starts, faults>>

(* The parent deactivates the source pad, then the sink pad: it waits for  *)
(* the pass of output_loop, and for the streaming thread.                  *)
DeactivateSrc ==
  /\ app = "unlocked" /\ loop.at = "out"
  /\ app' = "deactivate"
  /\ pads' = [sink |-> FALSE, flushing |-> TRUE]
  /\ UNCHANGED <<appKeeps, el, on, handle, task, loop, stream, flush, stop, hist, starts,
                 faults>>

StopNode ==
  /\ app = "deactivate" /\ stream.at = "idle"
  /\ app' = "stop"
  /\ el' = [el EXCEPT !.cycle = Cycle]
  /\ stop' = [by |-> "app", at |-> "enter", msg |-> "none"]
  /\ UNCHANGED <<appKeeps, on, handle, task, loop, pads, stream, flush, hist, starts, faults>>

Stopped ==
  /\ app = "stop" /\ stop.at = "left"
  /\ app' = "ready"
  /\ stop' = [by |-> "nobody", at |-> "none", msg |-> "none"]
  /\ UNCHANGED <<appKeeps, el, on, handle, task, loop, pads, stream, flush, hist, starts, faults>>

ReadyToNull ==   \* dsp_deinit
  /\ app = "ready"
  /\ app' = "null" /\ handle' = FALSE
  /\ UNCHANGED <<appKeeps, el, on, task, loop, pads, stream, flush, stop, hist, starts, faults>>

App == \/ NullToReady \/ ReadyToPaused \/ PausedToReady \/ DeactivateSrc \/ StopNode
       \/ Stopped \/ ReadyToNull

flushKeeps == <<kind, dspVars, thread, tb, app, stop, down, nodes, starts, faults>>

FlushStart ==
  /\ flush = "idle" /\ pads.sink /\ flushes < MaxFlushes
  /\ flush' = "start" /\ flushes' = flushes + 1
  /\ pads' = [pads EXCEPT !.flushing = TRUE]
  /\ UNCHANGED <<flushKeeps, el, on, task, loop, stream, hist>>

FlushUnlock ==
  /\ flush = "start"
  /\ flush' = "unlocked"
  /\ el' = [el EXCEPT !.status = "WRONG_STATE"]
  /\ on' = FALSE
  /\ Wake
  /\ UNCHANGED <<flushKeeps, task, pads, hist, flushes>>

FlushPause ==
  /\ flush = "unlocked" /\ loop.at = "out"
  /\ flush' = "flushing"
  /\ task' = IF task = "started" THEN "paused" ELSE task
  /\ UNCHANGED <<flushKeeps, el, on, loop, pads, stream, hist, flushes>>

(* FLUSH_STOP is refused by a pad that is not active any more.             *)
FlushStop ==
  /\ flush = "flushing"
  /\ flush' = "idle"
  /\ \/ /\ ~pads.sink
        /\ UNCHANGED <<el, on, pads, task, hist>>
     \/ /\ pads.sink /\ stream.at = "idle"
        /\ pads' = [pads EXCEPT !.flushing = FALSE]
        /\ el' = [el EXCEPT !.status = "OK"]
        /\ on' = TRUE
        /\ task' = "started"
        /\ hist' = IF Overtakes("flush") THEN hist \cup {"overtaken"} ELSE hist
  /\ UNCHANGED <<flushKeeps, loop, stream, flushes>>

Flush == FlushStart \/ FlushUnlock \/ FlushPause \/ FlushStop

Next == Stream \/ Stop \/ Thread \/ Loop \/ Down \/ App \/ Flush

Spec == Init /\ [][Next]_vars

(* Every thread that can go on does; nothing is assumed of the DSP, of     *)
(* upstream, of downstream, or of who changes the state and flushes.       *)
FairSpec ==
  /\ Spec
  /\ WF_vars(ReinitUnlock \/ ReinitCycle \/ ReinitPause \/ ReinitEnd)
  /\ WF_vars(ChainPop \/ ChainSend)
  /\ WF_vars(CreateNode \/ StartRun \/ StartNotify \/ StartPlay \/ StartFailed)
  /\ WF_vars(Stop)
  /\ WF_vars(ThreadDone)
  /\ WF_vars(Loop)
  /\ WF_vars(DeactivateSrc \/ StopNode \/ Stopped)
  /\ WF_vars(FlushUnlock \/ FlushPause)

-----------------------------------------------------------------------------
(* Every variable has its type, and without a node there are no buffers.   *)
TypeOK ==
  /\ kind \in Kinds
  /\ el \in [status : {"OK", "WRONG_STATE", "ERROR"}, done : BOOLEAN, error : BOOLEAN,
             busy : BOOLEAN, node : 0 .. MaxNodes, cycle : 0 .. MaxNodes + MaxStarts]
  /\ handle \in BOOLEAN /\ bridge \in {"none", "created", "running", "stopped"}
  /\ mem \subseteq {"comm", "events"} /\ sem \in Nat
  /\ thread \in [of : 0 .. MaxNodes, is : {"none", "runs", "ended", "joined"}]
  /\ on \in BOOLEAN
  /\ tb \in [in : {"none", "queue", "stream", "dsp"},
             out : {"none", "queue", "loop", "dsp", "down"}]
  /\ el.node = 0 => tb = [in |-> "none", out |-> "none"]
  /\ task \in {"none", "started", "paused", "stopped"}
  /\ loop \in [at : {"out", "pop", "check", "wrap"}, of : 0 .. MaxNodes, woken : BOOLEAN]
  /\ pads \in [sink : BOOLEAN, flushing : BOOLEAN]
  /\ stream.woken \in BOOLEAN
  /\ app \in {"null", "ready", "paused", "unlocked", "deactivate", "stop"}
  /\ flush \in {"idle", "start", "unlocked", "flushing"}
  /\ stop.by \in {"nobody", "app", "stream"} /\ stop.msg \in {"none", "sent", "heard"}
  /\ down \subseteq [of : 1 .. MaxNodes, cookie : 0 .. MaxNodes + MaxStarts]
  /\ hist \subseteq Events

(* A buffer that downstream gives back goes to the node it came from,      *)
(* unless output_loop wrapped it after gstdsp_reinit had counted cycle on. *)
RecycledAtHome == "stale" \in hist => "raced" \in hist

(* gstdsp_reinit: "ends buffer recycling", and finalize counts on it: no   *)
(* buffer goes back to a node that is gone.                                *)
RecyclingEnds == "stale" \notin hist

(* In READY nothing is left of a node: not for the DSP, not its thread or  *)
(* its memory, nor the handle in NULL; and there is never a second node.   *)
(* Nor does the task wait, unless a FLUSH_STOP has overtaken the stop.     *)
Released ==
  /\ bridge = "none" <=> el.node = 0
  /\ app \in {"null", "ready"} =>
       /\ bridge = "none" /\ thread.is # "runs" /\ mem = {}
       /\ loop.at # "pop" \/ "overtaken" \in hist
  /\ app = "null" => ~handle

(* A node has answered STOP before it is terminated, unless it took too    *)
(* long; but an answer that came too late once is taken for the next one.  *)
StopHeard == "unclean" \in hist => "late" \in hist

(* A thread is joined once, unless gstdsp_start has failed halfway: then   *)
(* dsp_thread still is the thread of the node before.                      *)
JoinedOnce == "rejoined" \in hist => "half" \in hist

(* A change to READY ends and does not wait forever, unless dsp_error is   *)
(* set and the thread does not know, or status and the queues were reset   *)
(* after the unlock that was to wake everybody.                            *)
Hazard == hist \cap {"orphan", "overtaken"} # {}
StopEnds == app = "unlocked" ~> (app = "ready" \/ Hazard)
=============================================================================
