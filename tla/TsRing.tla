------------------------------ MODULE TsRing ------------------------------
(***************************************************************************)
(* The timestamp ring with its producer (the streaming thread) and its     *)
(* consumer (output_loop) reduced to the order in which they enter the     *)
(* critical sections of ts_mutex.  The consumer first pushes the events of *)
(* the slot at ts_out_pos and then, if the buffer it works on carries a    *)
(* frame, advances over the slot; `ready' is true between the two.         *)
(*                                                                         *)
(* The only thing that keeps the ring from overflowing is that every frame *)
(* in flight occupies a DSP buffer or a place inside the DSP: pad_chain    *)
(* does not look at ts_count.  Capacity is that bound.                     *)
(***************************************************************************)
EXTENDS TsArray

CONSTANTS
  Capacity,    \* frames that can be in flight at once
  MaxArrivals  \* bound of the number of frames and events in a behaviour

ASSUME CapacityAssumption ==
  /\ Capacity \in Nat
  /\ Capacity < RingSize
  /\ MaxArrivals \in Nat

VARIABLES
  ready,     \* output_loop is between push_events and the end of its pass
  arrived,   \* history: number of frames and events that arrived
  mark,      \* history: value of arrived at the last FLUSH_STOP
  down       \* history: what went downstream since then

vars == <<ringVars, ready, arrived, mark, down>>

Init ==
  /\ RingInit
  /\ ready = FALSE
  /\ arrived = 0
  /\ mark = 0
  /\ down = <<>>

ChainFrame ==
  /\ arrived < MaxArrivals
  /\ ts_count < Capacity
  /\ arrived' = arrived + 1
  /\ StoreFrame(arrived + 1)
  /\ UNCHANGED <<ready, mark, down>>

SinkEvent ==
  /\ arrived < MaxArrivals
  /\ arrived' = arrived + 1
  /\ StoreEvent(arrived + 1)
  /\ UNCHANGED <<ready, mark, down>>

(* FLUSH_START has paused the task, so no pass is under way. *)
FlushStop ==
  /\ ~ready
  /\ MarkFlush
  /\ mark' = arrived
  /\ down' = <<>>
  /\ UNCHANGED <<ready, arrived>>

PushEvents ==
  /\ ~ready
  /\ ClearEvents
  /\ down' = down \o EventsToPush
  /\ ready' \in BOOLEAN
  /\ ready' => ts_count > 0
  /\ UNCHANGED <<arrived, mark>>

Push ==
  /\ ready
  /\ ~Flushing
  /\ TakeFrame
  /\ down' = Append(down, FrameTime)
  /\ ready' = FALSE
  /\ UNCHANGED <<arrived, mark>>

Skip ==
  /\ ready
  /\ SkipFrame
  /\ ready' = FALSE
  /\ UNCHANGED <<arrived, mark, down>>

Drop ==
  /\ ready
  /\ Flushing
  /\ DropFrame
  /\ ready' = FALSE
  /\ UNCHANGED <<arrived, mark, down>>

(* The buffer carried no frame, or the frame is tried again later. *)
Leave ==
  /\ ready
  /\ ready' = FALSE
  /\ UNCHANGED <<ringVars, arrived, mark, down>>

Stop ==
  /\ ResetRing
  /\ ready' = FALSE
  /\ UNCHANGED <<arrived, mark, down>>

Next ==
  \/ ChainFrame \/ SinkEvent \/ FlushStop
  \/ PushEvents \/ Push \/ Skip \/ Drop \/ Leave
  \/ Stop

Spec == Init /\ [][Next]_vars

-----------------------------------------------------------------------------
TypeOK ==
  /\ RingTypeOK
  /\ ts_count \in 0..Capacity
  /\ ready \in BOOLEAN
  /\ arrived \in 0..MaxArrivals
  /\ mark \in 0..arrived
  /\ down \in Seq(Nat)

(* The slot of the k-th frame in flight, counting from 0. *)
Slot(k) == (ts_out_pos + k) % RingSize

(* How many frames in flight are from before the last flush. *)
StaleCount == (ts_push_pos + RingSize - ts_out_pos) % RingSize

(* Count and positions agree, and ts_push_pos is never overtaken: the      *)
(* frames still to be thrown away are among those in flight.  A path of    *)
(* output_loop that advances one of the three without the others breaks    *)
(* this, and ts_count then never reaches 0 again, which EOS waits for.     *)
PositionsAgree ==
  /\ ts_in_pos = Slot(ts_count)
  /\ StaleCount <= ts_count

(* Nothing that arrived before a FLUSH_STOP is pushed after it, although   *)
(* the DSP still returns those frames and the ring still holds them.       *)
NothingStale == \A i \in DOMAIN down : down[i] > mark

(* Frames leave with the times they were stored with, in the order of      *)
(* arrival, and every event between the same two frames it arrived between.*)
InOrder == \A i, j \in DOMAIN down : i < j => down[i] < down[j]

(* The ring behaves as an unbounded queue of frames with their events.     *)
Queue == INSTANCE FrameQueue WITH
  Arrivals <- 1..MaxArrivals,
  pending <- [k \in 1..ts_count |-> ts_array[Slot(k - 1)]],
  open    <- ts_array[ts_in_pos].events,
  stale   <- StaleCount
IsQueue == Queue!Spec

-----------------------------------------------------------------------------
(* Strengthenings of the invariants above, used by their proofs.           *)
Cell(k) == ts_array[Slot(k)]

(* A pass works on a slot whose events are gone, and the slots that hold   *)
(* no frame hold no events either, but for the one the next frame will use.*)
SlotsClean ==
  /\ ready => ts_count > 0 /\ Cell(0).events = <<>>
  /\ \A k \in ts_count + 1 .. RingSize - 1 : Cell(k).events = <<>>

(* What the ring holds, read from ts_out_pos on, is in order of arrival.   *)
CellsInOrder ==
  /\ \A k, l \in 0 .. ts_count - 1 : k < l => Cell(k).time < Cell(l).time
  /\ \A k \in 0 .. ts_count : \A i, j \in DOMAIN Cell(k).events :
       i < j => Cell(k).events[i] < Cell(k).events[j]
  /\ \A k \in 0 .. ts_count - 1, l \in 0 .. ts_count :
       \A i \in DOMAIN Cell(l).events :
         /\ k < l => Cell(k).time < Cell(l).events[i]
         /\ k = l => Cell(l).events[i] < Cell(k).time

(* What is still to be pushed is newer than the flush and than everything  *)
(* already pushed, and nothing is newer than the last arrival.             *)
CellsFresh ==
  /\ \A k \in 0 .. ts_count - 1 : Cell(k).time <= arrived
  /\ \A k \in 0 .. ts_count : \A i \in DOMAIN Cell(k).events :
       Cell(k).events[i] <= arrived
  /\ \A k \in StaleCount .. ts_count - 1 :
       /\ Cell(k).time > mark
       /\ \A d \in DOMAIN down : Cell(k).time > down[d]
  /\ \A k \in StaleCount .. ts_count : \A i \in DOMAIN Cell(k).events :
       /\ Cell(k).events[i] > mark
       /\ \A d \in DOMAIN down : Cell(k).events[i] > down[d]
  /\ \A d \in DOMAIN down : down[d] <= arrived
  /\ StaleCount > 0 => down = <<>>

RingInv == TypeOK /\ PositionsAgree /\ SlotsClean
OrderInv == CellsInOrder /\ CellsFresh /\ NothingStale /\ InOrder
=============================================================================
