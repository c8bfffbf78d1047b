---------------------------- MODULE FrameQueue ----------------------------
(***************************************************************************)
(* What the timestamp ring is meant to be: a queue of frames with the      *)
(* events that precede each of them.  A flush makes everything that is in  *)
(* the queue stale; a stale frame leaves the queue without being seen      *)
(* downstream.  There is no array, no position and no capacity here.       *)
(***************************************************************************)
EXTENDS Naturals, Sequences

CONSTANT Arrivals   \* the numbers that stand for times and events

VARIABLES
  pending,   \* items [time, events] in the order the frames arrived
  open,      \* the events that arrived after the last of these frames
  stale,     \* how many items at the front are from before a flush
  ready,     \* is the consumer working on the first item?
  down       \* what went downstream since the last flush

queueVars == <<pending, open, stale, ready, down>>

Init ==
  /\ pending = <<>>
  /\ open = <<>>
  /\ stale = 0
  /\ ready = FALSE
  /\ down = <<>>

PutFrame ==
  \E t \in Arrivals : /\ pending' = Append(pending, [time |-> t, events |-> open])
                 /\ open' = <<>>
                 /\ UNCHANGED <<stale, ready, down>>

PutEvent ==
  \E e \in Arrivals : /\ open' = Append(open, e)
                 /\ UNCHANGED <<pending, stale, ready, down>>

Flush ==
  /\ ~ready
  /\ stale' = Len(pending)
  /\ open' = <<>>
  /\ down' = <<>>
  /\ UNCHANGED <<pending, ready>>

(* The consumer starts: the events in front of the first item leave. *)
BeginEmpty ==
  /\ ~ready
  /\ pending = <<>>
  /\ down' = down \o open
  /\ open' = <<>>
  /\ UNCHANGED <<pending, stale, ready>>

BeginFrame ==
  /\ ~ready
  /\ pending # <<>>
  /\ down' = IF stale > 0 THEN down ELSE down \o Head(pending).events
  /\ pending' = [pending EXCEPT ![1].events = <<>>]
  /\ ready' \in BOOLEAN
  /\ UNCHANGED <<open, stale>>

Deliver ==
  /\ ready
  /\ stale = 0
  /\ down' = Append(down, Head(pending).time)
  /\ pending' = Tail(pending)
  /\ ready' = FALSE
  /\ UNCHANGED <<open, stale>>

Discard ==
  /\ ready
  /\ pending' = Tail(pending)
  /\ stale' = IF stale > 0 THEN stale - 1 ELSE 0
  /\ ready' = FALSE
  /\ UNCHANGED <<open, down>>

(* The consumer gives up on the item for now. *)
Leave ==
  /\ ready' = FALSE
  /\ UNCHANGED <<pending, open, stale, down>>

Reset ==
  /\ pending' = <<>>
  /\ open' = <<>>
  /\ stale' = 0
  /\ ready' = FALSE
  /\ UNCHANGED down

Next == \/ PutFrame \/ PutEvent \/ Flush
        \/ BeginEmpty \/ BeginFrame \/ Deliver \/ Discard \/ Leave
        \/ Reset

Spec == Init /\ [][Next]_queueVars
=============================================================================
