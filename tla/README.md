# gst-dsp in TLA+

gst-dsp is a set of GStreamer 0.10 elements that hand frames to a TI DSP and
hand the results on. These modules model what is hard about them: four threads
that share two queues, a status word, a ring of timestamps and a few flags;
nodes that are created, stopped and replaced while downstream still has their
buffers; a message protocol with one message at a time; and the sizes, headers and
caps that a decoder and an encoder hold on to from one stream to the next. TLC
checks the modules on small instances; TLAPS proves, for every size, the
invariants of the queue and of the timestamp ring, that each implements its
abstract specification, and every safety property of the running element, the life
cycle, the image processor and the video decoder and encoder. What is left to TLC
alone is liveness. Line numbers refer to `src/`.

## 1. Inventory

| component | code | state | operations | model |
|---|---|---|---|---|
| async queue | `async_queue.c` | list, length, enabled, condition variable | push, pop, pop_forced, enable, disable, flush | `AsyncQueue`, `FifoChannel` |
| timestamp ring | `gstdspbase.c`, under `ts_mutex` | `ts_array`, `ts_in_pos`, `ts_out_pos`, `ts_push_pos`, `ts_count` | store a frame or an event, push events, take, skip or drop a frame, mark a flush, reset | `TsArray`, `TsRing`, `FrameQueue` |
| running element | `gstdspbase.c` 229-412, 502-932, 1550-1742 | status, deferred_eos, eos, eos_start, skip_hack, skip_hack_2, both port queues, where each buffer is | pad_chain, sink_event, output_loop, pause_task, flush_buffer, dsp_thread, got_message, got_error | `DspBase` |
| life cycle | `gstdspbase.c` 949-1223, 1306-1418 | node, done, busy, dsp_error, the semaphore `flush`, cycle, dsp_thread, the task | change_state, init_node, gstdsp_start, send_stop_message, _dsp_stop, gstdsp_reinit | `LifeCycle` |
| buffer pool | `gstdspbuffer.c`, `dmm_buffer.h`, `util.c` | cycle and cookie, pinned, user_data, memory of a buffer | wrap, finalize, allocate, map, begin, end, unmap | cycle and cookie: `LifeCycle`; pinned, user_data: `DspBase`, `Ipp`; memory and cache: not modelled |
| semaphore | `sem.h` | a count | down, down_timed, up | counts with a timeout, in `LifeCycle` and `Ipp` |
| image processor (IPP) | `gstdspipp.c` | msg_sem, sync_sem, msg_ptr, in_buf_ptr, out_buf_ptr, ipp_queue | messages of the DFGM protocol, their answers, frames, stop | `IppPipe`, `Ipp` |
| parsers | `gstdspparse.c`, `get_bits.h` | the size, profile and stream type found | parse a header of H.263, MPEG-4, H.264 | `VideoParse` (fields, not bits) |
| video decoder | `gstdspvdec.c`, `tidsp/td_*dec.c` | coded and cropped size, codec, codec_data, stream type, callbacks | setcaps, choice of codec, create_node, headers, send and receive callbacks | `VideoDec` |
| video encoder | `gstdspvenc.c`, `gstdsp*enc.c`, `tidsp/td_*enc.c` | bitrate, level, size, codec_data | setcaps with drain and restart, levels, create_node, receive callbacks | `VideoLevels`, `VideoEnc` |
| decoder linked to encoder | both | the caps and the frames between them | caps, frames, restarts | `Transcoder` |
| timestamp modes | `gstdspbase.c` 424-500, 530-581, 1583-1598 | ts_mode, last_ts, next_ts, default_duration, segment | check input, do_timestamp, newsegment, clip | not modelled |
| audio decoder, vpp | `gstdspadec.c`, `gstdspvpp.c` | fields of the base class | caps | run as `DspBase`; caps not modelled |
| DSP bridge | `dsp_bridge.c` | allocations of a node | ioctl wrappers | not modelled: their failures are faults of `LifeCycle` and `Ipp` |
| dummy element | `gstdspdummy.c` | node, one buffer | start, stop, chain | not modelled: one thread |
| plugin, logging | `plugin.c`, `log.c` | none that matters | registration, formatting | not modelled |

### Who talks to whom

```
 upstream thread --pad_chain--> ports[0]->queue <--got_message-- dsp_thread
       |  sink_event                 |                               ^
       |                             v                               |
       +--- ts ring, status -----> [ DSP ] --------------------------+
       |    deferred_eos             |
 application --FLUSH_*               v
       |                      ports[1]->queue --output_loop--> downstream
       |                             ^                              |
       +--change_state--> _dsp_stop  +--------- finalize -----------+
```

* The *upstream* thread takes an input buffer out of `ports[0]->queue`, stores the
  time of the frame in the ring and sends the buffer. `dsp_thread` puts the
  buffer back into the queue when the DSP has read it.
* The DSP fills output buffers; `dsp_thread` puts them into `ports[1]->queue`;
  *output_loop* pairs each with the oldest slot of the ring and pushes it.
* `status` is the common brake. `FLUSH_START`, `pause_task` and `got_error` set it
  and disable the queues, `FLUSH_STOP` releases it.
* EOS waits (`deferred_eos`) for `ts_count` to reach 0, and is pushed by whichever of
  sink_event, output_loop and pause_task gets there.
* A node lives from init_node (the first buffer, or the caps of an encoder) to
  `_dsp_stop`, which the application calls through change_state and the upstream
  thread through gstdsp_reinit when new caps have another size. An encoder wraps
  its buffers and lends them downstream; `finalize` gives one back to the DSP as long
  as `cycle` is what it was when the buffer was wrapped (its cookie).
* The IPP replaces send_buffer and send_stop_message: a frame is two messages and
  three flushes, each of which waits in `msg_sem` for the answer to the one before.
* Caps go from the decoder to the encoder with the first frame that has them; an
  encoder that must restart drains inside the call in which it gets them.

### What makes each part correct

* *Queue*: no lost wakeup although `async_queue_pop` waits in an `if` and `push`
  signals one thread; disabling releases everybody; FIFO, nothing twice.
* *Ring*: the count is the distance of the positions whatever path output_loop
  takes; a flush, which only moves `ts_push_pos`, hides all that was in flight
  and nothing that came after; events keep their place between frames.
* *Running element*: a frame leaves with its own time; no buffer gets lost or is
  at the DSP and downstream at once; EOS leaves once, after the frames, and
  always; a flush ends, and the element works after it.
* *Life cycle*: every stop ends, and leaves nothing of the node behind; a thread is
  joined once; a node is terminated after it has answered; a buffer never comes
  back to a node that is gone.
* *IPP*: one message at a time with its own arguments; no buffer is lost; the result
  is looked for where the pipe has put it; the pipe is taken down in order.
* *Decoder and encoder*: the node fits the stream after any sequence of caps and
  headers; frames are as long as their caps and buffers say; AVC frames leave
  after their headers; the level covers the stream.

The file PROJECT.json lists every hazard with its line and the property that
watches it.

## 2. Plan

1. `AsyncQueue` with `FifoChannel` and `AsyncQueueProofs`.
2. `TsArray`, `TsRing`, `FrameQueue` with `TsArrayProofs` and `TsRingProofs`.
3. `DspBase`: the running element, which uses `TsArray` directly and implements
   `TsRing`; `DspBaseProofs` and `DspBaseOrder`.
4. `LifeCycle` with `LifeCycleProofs`: nodes, threads and lent buffers from creation
   to stop, and the pool's cycle and cookie.
5. `IppPipe` and `Ipp` with `IppProofs`: the pipe protocol with its semaphores and
   `ipp_queue`.
6. `VideoParse`, `VideoDec`, `VideoLevels`, `VideoEnc` and their composition `Transcoder`
   with `TranscoderProofs`.

All of these are done. Section 8 says what was left out, and why.

## 3. Modules

`AsyncQueue` has one action per function, two for `async_queue_pop`, which gives up
the mutex in g_cond_wait (`PopEnter`, `PopResume`). It allows several consumers and,
if `Spurious`, wakeups without a signal. `FifoChannel` is what its users need.

`TsArray` has the five ring variables and one operator per critical section of
`ts_mutex`. Times and events are numbers: the position in the input stream. The
length of the array, 40 in the code, is `RingSize`. It is extended by

* `TsRing`, which closes it with the order in which producer and consumer enter
  those sections, and states what the ring promises; and
* `DspBase`, where the full threads call it.

`FrameQueue` is the abstract queue; `TsRing!IsQueue` maps the ring to it: `pending`
are the `ts_count` slots from `ts_out_pos` on, `stale` the distance to `ts_push_pos`.
`DspBase!IsRing` maps the element to `TsRing`, so a step of any thread is a step of
the ring or none, and the conditions `TsRing` puts on its environment
(`ts_count < Capacity`, events before the frame, no pass under way at `FLUSH_STOP`)
are discharged by the code of `DspBase` (`BaseIsRing`, section 6, proves it).

`DspBase` has four threads. A thread is a record with its program point `at`, its
state in g_cond_wait (`wait`) and its live local variables. An action is what a
thread does between two points where another thread can matter: one critical
section, one access to an atomic or unprotected field, one call into GStreamer.

| actions | code |
|---|---|
| `ChainPop`, `ChainCheck`, `ChainStore`, `ChainSend` | pad_chain 1601-1649 |
| `SerializedEvent`, `EosArrives`, `EosNow`, `EosClock` | sink_event 1660-1681, 1726-1738 |
| `FlushBufferPop`, `FlushBufferSend` | gstdsp_base_flush_buffer 831-840 |
| `LoopPop` ... `LoopLeave` | output_loop 583-829, one action per label or branch |
| `PauseSync`, `PauseUnlock`, `PauseEos` | pause_task 387-412 |
| `FlushStart` ... `FlushStopStart` | sink_event 1682-1725, one action per statement another thread sees |
| `DspInput`, `DspOutput`, `DspHeader` | got_message 240-303 with the port callbacks |
| `DspError`, `DspErrorUnlock` | gstdsp_got_error 860-871 from dsp_thread 895-926 and got_message 331 |
| `EosTimeout`, `EosTimeoutUnlock` | dsp_thread 883-894 |
| `Release` | finalize of a pinned GstDspBuffer, gstdspbuffer.c 53-74 |

Three kinds of element differ in where output memory comes from: `UsePadAlloc`
(decoders, vpp, audio), `UsePinned` (encoders, IPP) and neither (the default of the
base class). The other switches say what the environment may do.

External to `DspBase`, modelled from how the code relies on it: GStreamer's stream lock
serializes pad_chain, EOS, serialized events and FLUSH_STOP; a flushing pad turns
away what is pushed into it; gst_pad_pause_task waits for the pass under way. The
DSP answers inputs in order, keeps up to `DspDepth` of them, and may send a frame
without data, nothing, a header, or fail.

Abstracted: input buffers are alike, so their queue is a number; the contents of
buffers, mapping and cache operations; durations; non-serialized events; logging.
`skip_hack_2` is read and written atomically here; the code does not synchronise it,
which is in `VideoEnc`.

`LifeCycle` has the threads that start and stop a node. Nodes are numbered in the
order of their creation, 0 is NULL; each has one input and one output td_buffer,
since what happens among several is in `DspBase`. `hist` is history: what has gone
wrong so far.

| actor: actions | code |
|---|---|
| stream: `SetCaps`, `ReinitUnlock`, `ReinitCycle`, `ReinitPause`, `ReinitEnd` | sink_setcaps of vdec and venc, gstdsp_reinit, statement by statement |
| stream: `Chain`, `ChainPop`, `ChainSend` | pad_chain |
| stream: `CreateNode`, `StartRun`, `StartNotify`, `StartPlay`, `StartFailed` | init_node and gstdsp_start with each early return, check_dsp_preemption |
| `StopEnter`, `StopWait`, `StopJoin`, `StopFree` | _dsp_stop with send_stop_message, run by app or stream |
| thread: `GotBuffer`, `StopAnswered`, `AlgoError`, `FatalError`, `ThreadDone` | dsp_thread, got_message, gstdsp_got_error |
| loop: `LoopPop`, `LoopCheck`, `LoopPush`, `LoopReplace` | output_loop with gst_dsp_buffer_new and pause_task |
| down: `Finalize` | finalize of a GstDspBuffer |
| app: `NullToReady`, `ReadyToPaused`, `PausedToReady`, `DeactivateSrc`, `StopNode`, `Stopped`, `ReadyToNull` | change_state, dsp_init, dsp_deinit; in the middle GStreamer deactivates the pads |
| flush: `FlushStart`, `FlushUnlock`, `FlushPause`, `FlushStop` | sink_event |

The order of cycle++, gst_pad_pause_task and _dsp_stop is that of the code, and a pass
of output_loop takes three steps, so that it can be anywhere between them. A
dsp_node_free that fails is only logged (1156) and changes nothing here.

`IppPipe` is what the IPP tells the DSP: the algorithms for an input format, their
graph, the contents of a frame, the messages, and the state of the pipe that each
message asks for (the last is external: DFGM). `Ipp` is the protocol. *main* is the
streaming thread, or the one that stops the element; *loop* is output_loop; *app*
flushes, stops and restarts; the DSP answers in dsp_thread.

| actor: actions | code |
|---|---|
| main: `SetCaps`, `CapsRefused`, `SendMsg`, `SendTimesOut`, `SendFails`, `Sent`, `SentTimesOut` | sink_setcaps, init_pipe, send_msg, the ends of send_buffer and send_stop_message |
| main: `ChainPop`, `ChainCheck`, `SendBuffer`, `SendBufferError` | pad_chain, send_buffer |
| DSP: `Answer`, `AnswerError`, `EventError`, `ThreadEnds` | got_message, dsp_thread |
| loop: `LoopPop`, `LoopCheck`, `LoopDrop`, `LoopPush`, `Finalize` | output_loop, finalize |
| app: `FlushStart` ... `FlushStop`, `StopUnlock` ... `Reset`, `Restart` | sink_event, change_state, _dsp_stop, reset |

`EventError` is the event that the pipe has failed. It may come on its own, before the
answer to a message or instead of one, and always counts `msg_sem` up (571). got_message
looks at the error code of the message that is out after the event too, and then calls
gstdsp_got_error a second time, with 0 (566): `dsp_error` may be set or not afterwards.
`surplus` remembers that an event has counted up without being an answer, until reset
makes the semaphore anew. The DSP reports one error at most, which is a bound; caps may
be refused for their size any number of times (`CapsRefused`). got_message is one step, so
that nobody sees the -1 that a second call replaces by 0. New caps for a node that runs
have gstdsp_reinit stop it first; here that is a stop and a restart by *app*, with the
same messages, and `SetCaps` after it.

`VideoParse`, `VideoDec`, `VideoLevels` and `VideoEnc` are operators on a record: *d* is
what a decoder remembers, *e* an encoder. A call of the code maps the record to what
it leaves of it. A header is the record of the fields the parsers look at; a
buffer has a form ("nal", "avcC", "len" for H.264, ...) and a header, or none. Which
fields there are and what values they take is in `SpsHeader` to `Buffers`, as wide as the
bits allow. Searching the levels is a recursive function, `found`, as the loop of
check_supported_levels is.
`Transcoder` has *d* and *e* as variables and lets upstream send streams, the nodes
answer, both task threads push, and the application change the bitrate or restart
the elements. Most of its actions are whole calls, which the streaming lock and the task
make so. Three are not:

* the drain of the encoder takes two steps (`DecPush`, `EncDrained`), and frames
  leave in between;
* set_property has no lock. `AskBitrate` compares the new bitrate with `max_bitrate`
  (535), `SetBitrate` stores it (537), and anything may happen in between. Towards it
  sink_setcaps is one step: a bitrate that is stored between the new maximum
  (235-238) and the clamp (377-380) is clamped;
* a pass of output_loop that finds `skip_hack_2` set reads it (`EncPush`), and writes it back
  counted down by one later (`EncSkipped`). out_recv_cb counts up in the other thread
  without a lock either, so that the value written may lose what was counted up in
  between, or be lost itself (`CountedDown`).

What else the elements' threads do to each other is in `DspBase` and `LifeCycle`.

`StreamsAssumption` says what a stream is: caps of one of the names in the template of the
sink pad, with a size or none, and buffers of the one form that a demuxer sends after such
caps and such codec_data (`OneFormat`). A stream of H.264 with codec_data comes as AVC or as a
byte stream, and its codec_data has an SPS that can be parsed. VC-1 has codec_data, which
prefix_vc1 takes without looking (td_wmvdec.c:164); an H.263 stream has none. Nothing is said
about how one stream follows another, which is where the code has its difficulties.
`SetupsAssumption` says what can be set: one of the seven encoders, in the state in which its
instance_init and its properties leave it.

## 4. Runs

| run | module, cfg | question | states |
|---|---|---|---|
| async_queue | `MCAsyncQueue`, `AsyncQueue.cfg` | wakeups, release, FIFO | 4.7 thousand |
| ts_ring | `MCTsRing`, `TsRing.cfg` | the ring is a queue with flushes | 91 thousand |
| decoder | `MCDspBase`, `DspBaseDecoder.cfg` | safety of a decoder with a flush | 1.4 million |
| encoder | `MCDspBase`, `DspBaseEncoder.cfg` | ownership of pinned buffers, one EOS | 238 thousand |
| eos | `MCDspBase`, `DspBaseEos.cfg` | EOS is delivered by a failing element | 243 thousand |
| flush | `MCDspBase`, `DspBaseFlush.cfg` | a flush ends, the element runs again | 45 thousand |
| eos_timeout | `MCDspBase`, `DspBaseTimeout.cfg` | fails, see section 7 | |
| ipp | `MCIpp`, `Ipp.cfg` | the message protocol with late answers, errors, short frames, a flush or restart; it always ends | 819 thousand |
| ipp_overwrite | `MCIpp`, `IppOverwrite.cfg` | fails, see section 7 | |
| lifecycle | `MCLifeCycle`, `LifeCycle.cfg` | nodes created, stopped and replaced, with a flush and a fault | 1.2 million |
| lifecycle_recycle | `MCLifeCycle`, `LifeCycleRecycle.cfg` | fails, see section 7 | |
| transcoder | `MCTranscoder`, `Transcoder.cfg` | caps, sizes, headers, levels and bitrate of decoder and encoder | 943 thousand |

*Bounds.* Two consumers let one of them take the item the other was woken for, and
four items are more than both; a third adds no new conflict. The ring has three
slots with two frames in flight and seven arrivals, so it is passed over more than
twice and is marked while full, empty and wrapped. In `DspBase` one input buffer,
two output buffers and a DSP that keeps one input give four frames in flight and
every thread a reason to wait. Its ring has five slots, one more than can be in
flight; with at most three arrivals it does not wrap there, which is left to the
run ts_ring (`IsRing` says that the element uses the ring as that run does).
One flush (`MaxFlushes`) meets every state of the other
threads; a longer instance, with two flushes and five arrivals, was searched up
to 18 million states without an error. `MaxHeaders` is the number of outputs
that are no frame. transcoder has nine streams, one of each kind the decoder treats
apart, and any two of them after each other. The encoders that send AVC have streams of
their own (`Scope`, the constraint of the run), which give them what an encoder treats apart: two sizes
in one stream, and two streams of one size, with which it keeps its node, one of them
without a rate. Three buffers are the two headers and a frame behind them. Only the H.264
encoder with AVC has its bitrate set meanwhile: the clamp is the same for all. Behaviours stop
at these bounds, so the configurations do not look for deadlock; that nobody stays
blocked is what the liveness properties say.

*Fairness* (`FairSpec`). A thread goes on once it is inside a function: the scheduler
and GStreamer run it. The task runs while it is started. The DSP answers what it
was sent, its driver returns ETIME when nothing comes, and downstream lets go of
the buffers it holds. Nothing makes upstream send or an application flush. For the
queue: a thread that has been signalled runs. In `LifeCycle` and `Ipp` each thread that
can go on does, a semaphore with a timeout included, and nothing at all is
assumed of the DSP, of upstream, of downstream, or of whoever flushes and changes
the state: a stop has to end against all of them.

*What the runs do not allow together, and why.* Some properties hold in one
environment and not in another; the restriction is the finding's other side:

* `RunsAfterFlush` is checked without eos_timeout. With it, ETIME sets status, a
  whole flush passes, and only then is the output queue disabled (891-892): status
  is OK, the queue disabled, and output_loop spins.
* `NoNullBuffer` and `RunsAfterFlush` are checked without a failing DSP, because of
  the flush: got_error sets status and disables the queues in two steps (869-870)
  that a FLUSH_STOP can separate; pad_chain then pops NULL and goes on.
  `NoNullBuffer` is checked without spurious wakeups too: one makes async_queue_pop
  return NULL with status OK. `RunsAfterFlush` does not depend on them (section 6).
* `OwnTimestamp` is checked without headers: the receive callback counts
  `skip_hack_2` up while an earlier frame may still be queued, and output_loop then
  skips that frame (td_h264enc.c:273, 321). With MayLose it is not checked either: the
  time of a frame that the DSP never returns stays in the ring, for the next one.
* `EosDelivered` is checked with a failing DSP or a flush, not both: FLUSH_STOP sets
  status to OK after ERROR (1717), and EOS is deferred to a DSP that is gone.
* `EosOvertakesOne` says one and not none: EOS can overtake the frame that output_loop
  has counted down and not pushed.

* `StopEnds` excepts a start with dsp_error set ("orphan": it is never reset, and
  _dsp_stop then does not tell dsp_thread that it is done, 1106), and status and queues
  that FLUSH_STOP or gstdsp_reinit resets after the unlock of the state change
  ("overtaken", 1218).
* `RecycledAtHome` excepts a buffer wrapped between cycle++ and the pause of the task
  ("raced"): that is the finding lifecycle_recycle.
* `StopHeard` excepts an answer to STOP after its two seconds ("late"): its count stays in
  `flush` and satisfies the next stop.
* `JoinedOnce` excepts a start that failed before it created its thread ("half"):
  dsp_thread still is that of the node before.
* `BuffersKept` (losses) and `CleanStop` of `Ipp` except a message that failed or was not
  answered in time (`failed`): send_buffer then returns with both buffers in no queue.
  `AssertsBut` excepts a frame that a flush dropped after it had overwritten its input
  (the finding ipp_overwrite), or one shorter than input_buffer_size (`spoiled`).
* `FramesFit` excepts a node that survives caps with another cropped size: frames in
  flight get the new length. `NodeFollowsStream` excepts a node that survived other
  caps, a send_cb or codec_data_sent that the codec before has left, codec_data of
  caps before, and a forced codec. For the size there are two exceptions only: codec_data
  of caps before, and a byte stream behind an AVC stream of the same size. The caps
  then do not reset the node (gstdspvdec.c:503-509), `parsed` and `is_avc` stay, and the
  parser takes the bytes for codec_data (gstdspparse.c:563-565): it finds no SPS, and a
  change of size within the byte stream goes unnoticed.
* `EncoderKeepsPromises` excepts a node that survived caps (gst_pad_take_caps loses
  codec_data: `kept`), a header that comes again while a frame waits (`raced`), a count of
  `skip_hack_2` that was lost between the two threads (`lost`), and frames that leave
  during the drain, whose wait gives up at once (`drained`). The bitrate may be above
  its maximum after it was tested before new caps and stored after them (`crossed`),
  until the next caps.
* `OneMessage` excepts the time after an error event that answered nothing (`surplus`):
  `msg_sem` is then one too high, and the next message goes out before the last one has
  been answered. `dsp_error` would be the wrong exception, since it may be 0 there.

TLC reaches each exception: without it the property fails. None of them but the
findings contradicts a statement of the repository, so they are recorded as
hazards, not as findings.

## 5. Properties

Each of `AsyncQueue`, `TsRing`, `DspBase`, `LifeCycle` and `Ipp` has one type invariant. `TsRing` has `PositionsAgree`, `NothingStale`,
`InOrder` and the refinement `IsQueue`; `AsyncQueue` has `NoLostWakeup`,
`DisabledHasNoSleeper`, the refinement `IsFifo`, and two liveness properties;
`DspBase` has `BuffersKept`, `NoNullBuffer`, `OwnTimestamp`, `EosOnce`, `EosOvertakesOne`,
`RunsAfterFlush`, the action property `ShownInOrder`, the refinement `IsRing`, and
`EosDelivered`, `FlushCompletes` and `FramesLeave` as liveness. `LifeCycle` has
`RecycledAtHome`, `Released`, `StopHeard`, `JoinedOnce` and, as liveness, `StopEnds`; `Ipp`
has `BuffersKept`, `OneMessage`, `CleanStop`, `PipeFits`, `AssertsBut` and, as liveness,
`CallsReturn`; `Transcoder` has `FramesFit`, `NodeFollowsStream` and
`EncoderKeepsPromises`. Each of them is
violated by one of the operators called `Wrong_...`, `Late_...` or `Blind_...`, which
make a plausible mistake in the definition that follows them.

## 6. Proofs

tlapm checks the theorems below for every value of the constants that satisfies the
assumptions `QueueAssumption`, `RingAssumption`, `CapacityAssumption` (fewer frames
can be in flight than the ring has slots), `BaseAssumption` (the same for the
element, and not both kinds of output memory), `LifeCycleAssumption` (the bounds
are natural numbers; no more is needed), `IppAssumption` (there are output
buffers, all different, and the bounds are natural numbers), and `StreamsAssumption`
and `SetupsAssumption` (section 3), which put no bound on sizes, rates or numbers.

| theorem | module | inductive invariant |
|---|---|---|
| `QueueTypeCorrect`: `[]TypeOK` | `AsyncQueueProofs` | itself |
| `QueueDisabledHasNoSleeper`: `[]DisabledHasNoSleeper` | | with `TypeOK` |
| `QueueNoLostWakeup`: `[]NoLostWakeup` | | with `TypeOK` |
| `QueueIsFifo`: `Spec => IsFifo` | | none needed |
| `RingTypeCorrect`: `[]TypeOK` | `TsRingProofs` | `RingInv` |
| `RingPositionsAgree`: `[]PositionsAgree` | | `RingInv` |
| `RingIsQueue`: `Spec => IsQueue` | | `RingInv` |
| `RingNothingStale`: `[]NothingStale` | | `RingInv /\ OrderInv` |
| `RingInOrder`: `[]InOrder` | | `RingInv /\ OrderInv` |
| `BaseBuffersKept`: `[]BuffersKept` | `DspBaseProofs` | `KeptInv` |
| `BaseEosOnce`: `[]EosOnce` | | `KeptInv /\ Quiet /\ EosInv` |
| `BaseNoNullBuffer`: `[]NoNullBuffer` | | `KeptInv /\ Quiet /\ StatusInv` |
| `BaseRunsAfterFlush`: `[]RunsAfterFlush` | | `KeptInv /\ Quiet /\ Running` |
| `BaseIsRing`: `Spec => IsRing` | | `KeptInv /\ Quiet /\ FlightInv` |
| `BaseEosOvertakesOne`: `[]EosOvertakesOne` | `DspBaseOrder` | `KeptInv /\ Quiet /\ LoopDisabled /\ EosInv /\ LateInv` with `NoSkips` or `FlightInv` |
| `BaseShownInOrder`: `Spec => ShownInOrder` | | `ShownInv`, with `FlightInv` and what the ring proves |
| `BaseTypeCorrect`: `[]TypeOK` | | `FlagsOK /\ HeadersOK`, with the one above |
| `BaseOwnTimestamp`: `[]OwnTimestamp` | | `LineInv`, with `LoopDisabled`, `FlightInv` and what the ring proves |
| `LifeTypeCorrect`: `[]TypeOK` | `LifeCycleProofs` | `LifeInv` |
| `LifeRecycledAtHome`: `[]RecycledAtHome` | | `LifeInv` |
| `LifeReleased`: `[]Released` | | `LifeInv` |
| `LifeStopHeard`: `[]StopHeard` | | `LifeInv` |
| `LifeJoinedOnce`: `[]JoinedOnce` | | `LifeInv` |
| `IppTypeCorrect`: `[]TypeOK` | `IppProofs` | `IppInv` |
| `IppBuffersKept`: `[]BuffersKept` | | `IppInv` |
| `IppOneMessage`: `[]OneMessage` | | `IppInv` |
| `IppCleanStop`: `[]CleanStop` | | `IppInv` |
| `IppAssertsBut`: `[]AssertsBut` | | `IppInv` |
| `IppPipeFits`: `[]PipeFits` | | `TypeOK` |
| `TranscoderInvariant`: `[]Inv` | `TranscoderProofs` | itself |
| `TranscoderFramesFit`: `[]FramesFit` | | `Inv` |
| `TranscoderNodeFollowsStream`: `[]NodeFollowsStream` | | `Inv` |
| `TranscoderEncoderKeepsPromises`: `[]EncoderKeepsPromises` | | `Inv` |

*Queue.* `NoLostWakeup` is inductive as it stands. The lemmas count woken threads: a
push adds an item and wakes one, a woken thread leaves with an item or with NULL
from an empty list, and a pop that does not sleep only takes an item.

*Ring.* `RingInv` is `TypeOK`, `PositionsAgree` and `SlotsClean`: a pass works on a slot
whose events are gone, and the slots that are not in use have none.
`PositionsAgree` alone is not inductive: that `ts_count` is not 0 when a frame is
counted down is known from `ready`. `OrderInv` adds what lies in the slots:
read from `ts_out_pos` on, times and events increase (`CellsInOrder`), and what is
not stale arrived after the last flush and after all that went downstream
(`CellsFresh`). The proofs never touch a remainder: the lemmas of `TsArrayProofs` and
of the beginning of `TsRingProofs` turn positions into distances from `ts_out_pos`
(`CellWrite`, `CellClear`, `CellShift`). The refinement maps the abstract queue to
the slots counted this way; each action of the ring is one of the queue's.

*Element.* The first lemmas of `DspBaseProofs` (`...Parts`) say of each action where its
thread is afterwards and what it holds; everything else rests on them.
`BuffersKept` needs to know at which program points a thread has a buffer
(`UpHolders`, `LoopHolders`): without them a path could send a buffer it does not
have. `EosOnce` needs `EosPlaces`: an EOS that has arrived is in one place, in
`deferred_eos`, with sink_event, or with pause_task, and then none has gone
downstream; and `Quiet`: from the moment FLUSH_STOP gets past its waiting, both
streaming threads are outside, so that no pass takes an old EOS over the flush.
`NoNullBuffer` needs `UpDisabled`, `LoopDisabled` and `Disabled`: a queue that is
disabled, and a thread woken for nothing, come with a status that is not OK. The
theorem assumes that g_cond_wait does not return on its own and that an element
that has failed is not flushed (`MayFail = FALSE \/ MaxFlushes = 0`); section 4 says
what happens otherwise. `RunsAfterFlush` needs `Running`: whoever disables a queue or
pauses the task has set status before, and will not be overtaken by a FLUSH_STOP that
resets it: FLUSH_STOP waits for the streaming threads (`Quiet`). It does not wait for
the DSP thread, which can be between the two steps of got_error or of a timeout, so the
theorem assumes that the DSP does not fail and that eos_timeout is off (`MayFail =
FALSE`, `UseEosTimeout = FALSE`). It assumes nothing about spurious wakeups.

`IsRing` is the refinement that carries the theorems about `TsRing` over to the element.
Its hard part is that `ChainStore` never meets a full ring: pad_chain does not look
at ts_count, so only the buffers keep the ring from overflowing. `FlightInv` counts the
frames in flight: with each goes an input buffer, a place in the DSP, an
output buffer, or the thread that is about to send it (`Flights`). What output_loop
will count down is at most that (`Balance`; without headers it is exactly that),
so ts_count is below `Capacity` whenever a frame is stored. `OutputsFit` says
that a pass that is about to count down does so for a frame that is there, and never
while a flush moves `ts_push_pos`. Three things are assumed. `MayLose = FALSE`: a frame
that the DSP does not return stays counted, and enough of them fill the ring.
`CodecData = FALSE`: the output of the codec data may be dropped with its
skip_hack still set, and then the hack drops a frame without counting it down. TLC
finds the overflow in both cases (one buffer of each kind, a ring of four, six
arrivals). And `MaySkip = FALSE \/ MaxHeaders =
0`: when the DSP may both skip frames and produce headers, `Balance` was not
proved inductive; small instances with both show no violation. The strengthenings are at the end of `DspBase` and were checked with TLC
on the instances of section 4 (those of `FlightInv` under the assumptions above)
before they were proved.

`EosOvertakesOne` needs `LateInv`, in `DspBaseOrder`. `SilentAtEos`: where an EOS is
pushed, or is about to be, either no frame is in flight or status is not OK, so that
a pass that begins later ends at check_status. `LateOnce`: the pass that was already
past check_status may push its frame, and then has no second one. `WorkCounts`: a
frame with data that output_loop works on has been counted, so an EOS that
goes out at `ts_count` 0 has no such frame before it. A skipped frame has no data;
`skip_hack_2` and `skip_hack` decide whether one is counted, so either
there are none (`NoSkips`, from `MaySkip = FALSE`: then losses, headers, codec data,
failures and spurious wakeups are all allowed), or `FlightInv` says that it is counted
(`MayLose = FALSE`, `CodecData = FALSE`, `MaxHeaders = 0`: the decoders).

`ShownInOrder` and `TypeOK` are where `IsRing` pays. `DspBaseOrder` instantiates
`TsRingProofs` with the ring of the element (`Proved`); `RingIsProved` says that an
element that implements `TsRing` satisfies the specification the ring's
theorems are about, and `RingHolds` that it therefore has `RingInv` and `OrderInv`.
`RingOrder` is what this says of `down`, the times taken from the ring since
the last flush: they increase, and lie between `mark` and `arrived`. What is left to
prove is about output_loop: a frame is pushed after the ring has let it go, in a step
of its own, and FLUSH_STOP may come between if it can. `Pushing` says it cannot: while
output_loop is at the push, its frame is the last in `down`, and all that
downstream has accepted is in `down` before it or older than `mark`; `Behind` says the
latter at every other place. Both theorems assume what `IsRing` assumes.

`OwnTimestamp` relates two things that no variable connects: the frame in a buffer, which
went through the DSP, and the time in a slot, which stayed behind. `LineInv` sees the
frames in flight as one line, from pad_chain over the port, the DSP and the output queue
to output_loop. `Match` says that the ring holds the times of the frames on that line: the
fresh ones as a set, and of the stale ones, which have been given up, only the
number. `StagesOrdered` says that whoever is further along the line arrived earlier.
The first frame on the line and the first time in the ring are then the same one: a frame
without stale ones before it is the least of the line, and `CellsInOrder` makes the time
at `ts_out_pos` the least of the ring (the `Fresh...` lemmas of `TsRingProofs` say what each
action of the ring does to that set). A pass with a stale frame is `Flushing` in both
views and pushes nothing.

The outputs are the hard part. async_queue_push appends, and so a buffer that is put back
(gstdspbase.c:621, 697) can end up behind later frames: the line is out of order.
`LineOrder` says that this does no harm: a buffer with a frame is put back only when
pad_alloc was refused or status is not OK, and from there on output_loop can only go to
its pause and stay there (`Halted`) until FLUSH_STOP, whose mark makes stale all that is
still queued, in whatever order. The theorem assumes `MayLose = FALSE`, `CodecData =
FALSE` and `MaxHeaders = 0`: a decoder whose DSP returns every frame, with data or
without. Headers make the property false (section 4), and a frame lost in the DSP leaves
its time behind for the next. Skipped frames, failures, refused buffers, flushes and
spurious wakeups need no assumption. `LineInv` was checked with TLC on the run decoder's
instance, and with failures, refused buffers and spurious wakeups, before it was proved.

*Life cycle.* `LifeInv` has nine parts, and one lemma for each says that every step keeps
it. `Places` says where the streaming thread, a stop and a change of state can be at
the same time; with `LoopPlaces` (output_loop only has a buffer of the node there
is, and is out while a node is stopped) it excludes that two threads stop a node, or
that one starts it while another stops it. Everything about memory rests on these.
`RecycledAtHome` needs `Cookies` and `Lent`: what is downstream with the present cookie is
of the present node, nothing has the present cookie between cycle++ and the
end of a stop, and a td_buffer that can come back is the one that is lent, never one
the DSP or a queue has. `Released` needs `Owned` (thread, memory and node of the bridge
exist while `node` says so) and `Awake` (from the unlock of a state change on, the
queues are disabled and output_loop is not left inside of one). `StopHeard` needs
`Heard`: the semaphore counts at most one answer, and only while someone waits
for it. `JoinedOnce` needs `Joined`: a thread that has been joined is not the one of a
node that has started. `CycleBound` bounds cycle, for the type: it counts on once per
start and once per node.

*Image processor.* None of the properties of `Ipp` is inductive, and they depend on each
other: where a buffer is follows from what main has left to send, which follows
from what the DSP has answered, which the semaphores count. `IppInv`, at the beginning of
`IppProofs`, therefore has one part per question. `MainHolds` and `LoopHolds` say at which
points a thread has a buffer; main has the output buffer exactly until its
QUEUE_BUFFER is sent. `Stopping` says what a flush, a stop and a restart find and leave.
`Semaphores` is the heart of the protocol: a message the DSP has and the right to send
one are together at most one, two once an error event has counted `msg_sem` up
without being an answer (`surplus`); and a buffer the DSP has and the news in `sync_sem` of the one it had
are at most one. From it follows `Turns`: while main is about to send QUEUE_BUFFER no
buffer is at the DSP, and `out_buf_ptr`, which got_message will read, is main's.
`InputKept` and `OutputsKept` say that no buffer is in two places, `AllThere` that each is
in one. `Protocol` relates main to the pipe: the state in which the message under way
will leave it, and the messages left, are always a pair of `ToSend`, so the rest of
the job will find the pipe as it needs it. `Counted` bounds `ts_count` by the frames (each
output buffer under way has been counted), without which output_loop could count
below 0. `Referenced` follows the reference to the input: from pad_chain to the answer
the input buffer has it, and an output buffer only between got_message and output_loop.

Late answers need no assumption: `failed` records them and `AllThere` and `Protocol` end
there, while `Semaphores` and `Turns` hold on. The model lets at most one error be
reported (`AnswerError`, `EventError` and `SendFails` ask for `~failed`), and so the
bound of two above: each further event would count `msg_sem` up once more. `Arguments`, which
msg_ptr needs, ends with `surplus` too. Before
they were proved, TLC checked the parts of `IppInv` on the instance of the run ipp
(819 thousand states). The lemmas named `...Parts` and `...Is` take each action apart
once; those named `...Kept` carry one part through the actions, first those that
touch it, then all others at once. `JobLeft`, `FrameOrder` and `OtherJobs` say which
messages can be next and which are left then, so that no other proof looks into a sequence.

`PipeFits` depends on the input format alone. What it says of the list of contents and of
the parity that got_message looks at is proved for any number of algorithms (`ContentsEnd`,
`FitsOf`), what it says of formats from the two pipes written out (`PipeTuples`).

*Decoder and encoder.* `Inv` is `DecInv` for the decoder, `EncInv` for the encoder, and that
the encoder only drains while there is a stream. Both records have some thirty fields, of
which a call changes a few. The lemmas named `...Is` say once for each operator which
(`Same`, `Alike`) and what they become; all others use them instead of the definitions.

The decoder's part follows a call from the caps to the node. `Chosen`: without a node,
the codec, the parser and the caps of the source pad are those of the caps of the sink pad,
whatever codec was there before. `NodeSizes`: while the node lives sizes only grow, so that
the picture in the caps fits in the node's, and the node's in the buffers (`Frames`). This
is why `FramesFit` holds although three sizes are kept in three places, and it is what
`Wrong_CheckStreamParams` breaks. `Watches`: a running H.264 decoder has the cropped and
rounded size of the stream, and looks at each buffer. `Data`, `Misread` and `Reads` say who
reads the buffers: unless one of the exceptions has happened (`Excused`), node, codec, send_cb and
codec_data are those of one stream (`ReadsAs`), so that its buffers are understood
(`OneFormat`). `Seen` adds the size in the last SPS, `Linked` that the caps the decoder
has are those of the stream upstream is in.

The encoder's part: `EncIdle`, a restart leaves nothing behind that the next node could send;
`EncNode`, the node, the frames in the queue and the caps have one size but for the drain, and
the level has been chosen for it (`Bounded` below, from `SelectLevelIs` about any table of levels);
`Headers`, an AVC stream first gets its two headers and has codec_data in the caps from the
second on; `Counted`, `skip_hack_2` is the number of headers at the front of the queue, with the
one a pass has taken and not counted down yet (`Waiting`), as long as none came again behind
a frame and no count was lost; `LeftWell`, what has left, left so. `Bounded` also says that a
bitrate asked for is at most the maximum unless new caps have come since (`crossing`). The encoder takes caps
inside the decoder's push, so that `EncInv` is also proved across a drain that leaves the
caps half taken.

The proof attempt found one error in the model's property: `NodeFollowsStream` claimed the size
of the last SPS for every node without stale codec_data, and `Watches` could not be
kept without an exception for a byte stream behind an AVC stream of the same size (section 4).
No stream of the run had been of that kind; one has been added, and without the
exception TLC now finds the property violated in four steps. `Inv` was checked with TLC on the
instance of the run transcoder.

Only model-checked: liveness (`DisableReleases`, `SleeperIsServed`, `EosDelivered`,
`FlushCompletes`, `FramesLeave`, `StopEnds`, `CallsReturn`), which is out of the prover's
reach. `BaseNoNullBuffer`, `BaseRunsAfterFlush`, `BaseIsRing` and what rests on it have the
assumptions named above; where these are not met, the property is checked on the runs of
section 4, or is false there.

## 7. Findings

*eos_timeout.* The property `eos_timeout` is described as "how much to wait for the EOS from DSP (ms)"
(gstdspbase.h:147). The clock it is compared with, `eos_start`, is set when an EOS is
deferred and cleared when it is pushed. A flush that comes between the two cancels
the EOS (`deferred_eos`, 1714) and leaves the clock running. In the stream after the
flush, ten seconds in which the DSP sends no message, as in a paused pipeline, make
dsp_thread take it for an EOS that never came: it sets status to
GST_FLOW_UNEXPECTED and disables the output queue (886-893), and the stream is over.
The run eos_timeout shows it.

*ipp_overwrite.* For UYVY input the pipe has five algorithms and writes its result over
the input. got_message then gives the input's reference to the output buffer, under
"hand it over to the output, which should have no ref there", with an assertion that
it has none (gstdspipp.c:500-503). output_loop takes the reference out on the way
downstream (gstdspbase.c:715-722); a frame that a flush has made obsolete leaves before
that (668-682), and its buffer goes back to `ipp_queue` with the reference. When the
buffer is used again the assertion fails. `AssertsBut` shows that, but for frames that are
too short, this is the only way.

*lifecycle_recycle.* gstdsp_reinit counts cycle on, "ends buffer recycling"
(gstdspbase.c:1200), and finalize relies on it "as ->tb may no longer be around"
(gstdspbuffer.c:60). The task is paused only afterwards (1206), so a pass of
output_loop that has checked status before may still wrap its buffer, with the new
cookie and the old td_buffer. When downstream gives it back, the node is gone and
finalize does not see it. `RecycledAtHome` shows that this is the only way.

## 8. Not modelled

* *Timestamp reconstruction* (`ts_mode`, `do_timestamp`, `process_event`,
  `clip_video_buffer`): which correction a stream needs depends on the order in which
  the DSP returns reordered frames and on the times it reports, and neither is in
  the repository. The slot a frame gets its time from is in `TsRing` and `DspBase`.
* *Memory of a buffer*: begin, end, map and unmap of a dmm_buffer only change what
  the caches hold, which the program cannot observe. Who owns the memory is in the
  models, where it is allocated is not, so that the assertion of gstdspbuffer.c:64
  has no property.
* *Contents* of frames, headers and parameter blocks: the bits of a header
  (`get_bits.h`, Golomb codes, unescaping) and the start codes that
  pad_chain strips are data; the fields that decide something are in `VideoParse`.
* *Key frame requests and QoS events* of the video elements: they change a parameter of
  the next frame and nothing else.
* *JPEG decoder, AAC, post-processor, audio decoder*: fields of the base class and
  parameter blocks; running, they are the `DspBase` of the run decoder.
* *DSP bridge*: wrappers of ioctl. *Dummy element*: one thread and one buffer, for
  measurements. *Plugin registration, logging, build, packaging*: no state that matters.
* Queries, and the position of the stream.
