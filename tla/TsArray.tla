------------------------------ MODULE TsArray ------------------------------
(***************************************************************************)
(* The timestamp ring of GstDspBase (gstdspbase.h: ts_array, ts_in_pos,    *)
(* ts_out_pos, ts_push_pos, ts_count) and what gstdspbase.c does to it,    *)
(* each operation in one critical section of ts_mutex.                     *)
(*                                                                         *)
(* pad_chain stores the time of a frame it sends to the DSP at ts_in_pos,  *)
(* sink_event hangs serialized events on that slot, and output_loop takes  *)
(* both off at ts_out_pos when the DSP returns the frame.  A flush only    *)
(* moves ts_push_pos: the frames between ts_out_pos and ts_push_pos are    *)
(* still inside the DSP and output_loop throws them away one by one.       *)
(*                                                                         *)
(* A time or an event is a number: the position of that frame or event in  *)
(* the input stream of the element.                                        *)
(***************************************************************************)
EXTENDS Integers, Sequences

CONSTANT RingSize   \* ARRAY_SIZE(ts_array), 40 in the code

ASSUME RingAssumption == RingSize \in Nat \ {0}

VARIABLES ts_array, ts_in_pos, ts_out_pos, ts_push_pos, ts_count

ringVars == <<ts_array, ts_in_pos, ts_out_pos, ts_push_pos, ts_count>>

Positions == 0 .. RingSize - 1
Item == [time : Nat, events : Seq(Nat)]

RingTypeOK ==
  /\ ts_array \in [Positions -> Item]
  /\ ts_in_pos \in Positions /\ ts_out_pos \in Positions
  /\ ts_push_pos \in Positions

(* Operators called Wrong_... have a mistake the next one does not have:   *)
(* the properties are checked to notice it.                                *)
Wrong_NextPos(i) == i + 1   \* does not wrap
NextPos(i) == (i + 1) % RingSize

RingInit ==
  /\ ts_array = [i \in Positions |-> [time |-> 0, events |-> <<>>]]
  /\ ts_in_pos = 0
  /\ ts_out_pos = 0
  /\ ts_push_pos = 0
  /\ ts_count = 0

(* flush_buffer in output_loop and push_events *)
Flushing == ts_out_pos # ts_push_pos

(* pad_chain: a frame is about to be sent *)
StoreFrame(t) ==
  /\ ts_array' = [ts_array EXCEPT ![ts_in_pos].time = t]
  /\ ts_in_pos' = NextPos(ts_in_pos)
  /\ ts_count' = ts_count + 1
  /\ UNCHANGED <<ts_out_pos, ts_push_pos>>

(* sink_event: any other serialized event waits for the next frame *)
StoreEvent(e) ==
  /\ ts_array' = [ts_array EXCEPT ![ts_in_pos].events = Append(@, e)]
  /\ UNCHANGED <<ts_in_pos, ts_out_pos, ts_push_pos, ts_count>>

Wrong_MarkFlush ==   \* leaves the events that wait for the next frame
  /\ ts_push_pos' = ts_in_pos
  /\ UNCHANGED <<ts_array, ts_in_pos, ts_out_pos, ts_count>>

Blind_MarkFlush ==   \* leaves ts_push_pos
  /\ ts_array' = [ts_array EXCEPT ![ts_in_pos].events = <<>>]
  /\ UNCHANGED <<ts_in_pos, ts_out_pos, ts_push_pos, ts_count>>

(* sink_event, FLUSH_STOP *)
MarkFlush ==
  /\ ts_array' = [ts_array EXCEPT ![ts_in_pos].events = <<>>]
  /\ ts_push_pos' = ts_in_pos
  /\ UNCHANGED <<ts_in_pos, ts_out_pos, ts_count>>

Wrong_ClearEvents == UNCHANGED ringVars   \* leaves what it pushes

(* push_events empties the slot at ts_out_pos ... *)
ClearEvents ==
  /\ ts_array' = [ts_array EXCEPT ![ts_out_pos].events = <<>>]
  /\ UNCHANGED <<ts_in_pos, ts_out_pos, ts_push_pos, ts_count>>

(* ... and what it had there goes downstream, unless it was flushed. *)
Wrong_EventsToPush == ts_array[ts_out_pos].events   \* also when flushed
EventsToPush == IF Flushing THEN <<>> ELSE ts_array[ts_out_pos].events

(* output_loop: advance over the frame at ts_out_pos. *)
Advance ==
  /\ ts_out_pos' = NextPos(ts_out_pos)
  /\ ts_count' = ts_count - 1
  /\ UNCHANGED <<ts_array, ts_in_pos>>

Wrong_SkipFrame == Advance /\ UNCHANGED ts_push_pos   \* looks like a flush
Blind_SkipFrame == UNCHANGED ringVars   \* a skipped frame is no frame

(* the DSP had no data for this frame (b->skip) *)
SkipFrame ==
  /\ Advance
  /\ ts_push_pos' = IF Flushing THEN ts_push_pos ELSE NextPos(ts_out_pos)

(* a frame from before the flush *)
DropFrame == Advance /\ UNCHANGED ts_push_pos

(* a frame that goes downstream, with the time stored for it *)
TakeFrame == Advance /\ ts_push_pos' = NextPos(ts_out_pos)
FrameTime == ts_array[ts_out_pos].time

(* _dsp_stop *)
ResetRing ==
  /\ ts_array' = [i \in Positions |-> [ts_array[i] EXCEPT !.events = <<>>]]
  /\ ts_in_pos' = 0
  /\ ts_out_pos' = 0
  /\ ts_push_pos' = 0
  /\ ts_count' = 0
=============================================================================
