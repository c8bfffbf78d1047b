---------------------------- MODULE FifoChannel ----------------------------
(***************************************************************************)
(* What the users of an AsyncQueue rely on: items come out in the order    *)
(* they were put in, each one at most once, and the only other way to      *)
(* leave the channel is that all of it is discarded.  Who waits, who is    *)
(* woken and whether the queue is enabled is not visible here.             *)
(***************************************************************************)
EXTENDS Naturals, Sequences

CONSTANT Items

VARIABLES
  chan,   \* the items in the channel, oldest first
  taken   \* the last item handed to a consumer, with a serial number

Put == \E d \in Items : /\ chan' = Append(chan, d)
                        /\ UNCHANGED taken

Get == /\ chan # <<>>
       /\ chan' = Tail(chan)
       /\ taken' = [item |-> Head(chan), nr |-> taken.nr + 1]

Discard == /\ chan' = <<>>
           /\ UNCHANGED taken

Init == /\ chan = <<>>
        /\ taken.nr = 0

Next == Put \/ Get \/ Discard

Spec == Init /\ [][Next]_<<chan, taken>>
============================================================================
