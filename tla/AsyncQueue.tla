----------------------------- MODULE AsyncQueue -----------------------------
(***************************************************************************)
(* async_queue.c: a FIFO protected by a mutex, with a condition variable   *)
(* for consumers and an `enabled' switch that wakes and turns away all of  *)
(* them.  Everything a function does while it holds the mutex is one       *)
(* action; g_cond_wait releases the mutex, so async_queue_pop is two       *)
(* actions (PopEnter, PopResume).  Consumers call the two pop functions,   *)
(* the other operations may come from any thread.                          *)
(***************************************************************************)
EXTENDS Naturals, Sequences, FiniteSets

CONSTANTS
  Consumers,   \* the threads that pop
  Items,       \* the data that is pushed
  NoData,      \* the NULL that a pop returns when it has nothing
  MaxPush,     \* bound of the number of pushes in a behaviour
  Spurious     \* may g_cond_wait return without a signal?

ASSUME QueueAssumption ==
  /\ IsFiniteSet(Consumers)
  /\ NoData \notin Items
  /\ MaxPush \in Nat
  /\ Spurious \in BOOLEAN

VARIABLES
  list,      \* head .. tail of the GList, oldest item (the tail) first
  length,    \* the length field
  enabled,   \* the enabled field
  pc,        \* per consumer: outside a pop, in g_cond_wait, or signalled
  result,    \* what the last pop of each consumer returned
  taken,     \* history: the last item handed out, numbered
  pushes     \* history: the number of pushes so far

vars == <<list, length, enabled, pc, result, taken, pushes>>

Waiting == {c \in Consumers : pc[c] = "waiting"}
Woken   == {c \in Consumers : pc[c] = "woken"}

Init ==
  /\ list = <<>>
  /\ length = 0
  /\ enabled = TRUE
  /\ pc = [c \in Consumers |-> "out"]
  /\ result = [c \in Consumers |-> NoData]
  /\ taken = [item |-> NoData, nr |-> 0]
  /\ pushes = 0

-----------------------------------------------------------------------------
(* Operators called Wrong_... have a mistake the next one does not have:   *)
(* the properties are checked to notice it.                                *)
Wrong_Signal ==   \* only the push that ends the emptiness signals
  IF list = <<>> THEN \/ Waiting = {} /\ UNCHANGED pc
                      \/ \E c \in Waiting : pc' = [pc EXCEPT ![c] = "woken"]
                 ELSE UNCHANGED pc

(* g_cond_signal wakes one of the waiting threads, if there is one. *)
Signal ==
  \/ Waiting = {} /\ UNCHANGED pc
  \/ \E c \in Waiting : pc' = [pc EXCEPT ![c] = "woken"]

Wrong_Broadcast == Signal   \* g_cond_signal instead

(* g_cond_broadcast wakes all of them. *)
Broadcast ==
  pc' = [c \in Consumers |-> IF pc[c] = "waiting" THEN "woken" ELSE pc[c]]

(* async_queue_push: also on a disabled queue. *)
Push(d) ==
  /\ pushes < MaxPush
  /\ list' = Append(list, d)
  /\ length' = length + 1
  /\ pushes' = pushes + 1
  /\ Signal
  /\ UNCHANGED <<enabled, result, taken>>

Wrong_Take(c) ==   \* unlinks the head
  /\ list # <<>>
  /\ list' = SubSeq(list, 1, Len(list) - 1)
  /\ length' = length - 1
  /\ result' = [result EXCEPT ![c] = list[Len(list)]]
  /\ taken' = [item |-> list[Len(list)], nr |-> taken.nr + 1]
  /\ pc' = [pc EXCEPT ![c] = "out"]

(* Unlink the tail and leave the function with it. *)
Take(c) ==
  /\ list # <<>>
  /\ list' = Tail(list)
  /\ length' = length - 1
  /\ result' = [result EXCEPT ![c] = Head(list)]
  /\ taken' = [item |-> Head(list), nr |-> taken.nr + 1]
  /\ pc' = [pc EXCEPT ![c] = "out"]

ReturnNull(c) ==
  /\ result' = [result EXCEPT ![c] = NoData]
  /\ pc' = [pc EXCEPT ![c] = "out"]
  /\ UNCHANGED <<list, length, taken>>

(* async_queue_pop up to its return or to g_cond_wait. *)
PopEnter(c) ==
  /\ pc[c] = "out"
  /\ \/ ~enabled /\ ReturnNull(c)
     \/ enabled /\ Take(c)
     \/ /\ enabled /\ list = <<>>
        /\ pc' = [pc EXCEPT ![c] = "waiting"]
        /\ UNCHANGED <<list, length, result, taken>>
  /\ UNCHANGED <<enabled, pushes>>

(* g_cond_wait may return although nobody signalled. *)
SpuriousWakeup(c) ==
  /\ Spurious
  /\ pc[c] = "waiting"
  /\ pc' = [pc EXCEPT ![c] = "woken"]
  /\ UNCHANGED <<list, length, enabled, result, taken, pushes>>

(* async_queue_pop after g_cond_wait: the wait is not repeated. *)
PopResume(c) ==
  /\ pc[c] = "woken"
  /\ \/ Take(c)
     \/ list = <<>> /\ ReturnNull(c)
  /\ UNCHANGED <<enabled, pushes>>

(* async_queue_pop_forced *)
PopForced(c) ==
  /\ pc[c] = "out"
  /\ \/ Take(c)
     \/ list = <<>> /\ ReturnNull(c)
  /\ UNCHANGED <<enabled, pushes>>

(* async_queue_disable *)
Disable ==
  /\ enabled' = FALSE
  /\ Broadcast
  /\ UNCHANGED <<list, length, result, taken, pushes>>

(* async_queue_enable *)
Enable ==
  /\ enabled' = TRUE
  /\ UNCHANGED <<list, length, pc, result, taken, pushes>>

Wrong_Flush ==   \* keeps length
  /\ list' = <<>>
  /\ UNCHANGED <<length, enabled, pc, result, taken, pushes>>

(* async_queue_flush *)
Flush ==
  /\ list' = <<>>
  /\ length' = 0
  /\ UNCHANGED <<enabled, pc, result, taken, pushes>>

Pop(c) == PopEnter(c) \/ SpuriousWakeup(c) \/ PopResume(c) \/ PopForced(c)

Next ==
  \/ \E d \in Items : Push(d)
  \/ \E c \in Consumers : Pop(c)
  \/ Disable
  \/ Enable
  \/ Flush

Spec == Init /\ [][Next]_vars

(* The scheduler runs a thread that has been woken. *)
FairSpec == Spec /\ \A c \in Consumers : WF_vars(PopResume(c))

-----------------------------------------------------------------------------
TypeOK ==
  /\ list \in Seq(Items)
  /\ length = Len(list)
  /\ enabled \in BOOLEAN
  /\ pc \in [Consumers -> {"out", "waiting", "woken"}]
  /\ result \in [Consumers -> Items \cup {NoData}]
  /\ taken \in [item : Items \cup {NoData}, nr : Nat]
  /\ pushes \in 0..MaxPush

(* A signal is never lost: as long as some consumer sleeps, each item in   *)
(* the queue has a consumer that has been woken for it.  push signals once *)
(* per item and a pop that finds an item does not sleep; an item may still *)
(* be taken by a consumer other than the one woken for it, which then      *)
(* returns NULL because the wait of async_queue_pop is not in a loop.      *)
NoLostWakeup == Waiting # {} => Len(list) <= Cardinality(Woken)

(* While the queue is disabled no consumer sleeps in it: this is what      *)
(* dsp_unlock is called for (a flush or a state change has to get the      *)
(* streaming threads out of their pops).                                   *)
DisabledHasNoSleeper == ~enabled => Waiting = {}

(* Whatever the consumers do, the queue is a FIFO channel: no item is      *)
(* handed out twice or out of order (prepend at the head and unlink at the *)
(* tail), and only a flush loses items.                                    *)
Channel == INSTANCE FifoChannel WITH chan <- list
IsFifo == Channel!Spec

(* Disabling the queue gets every consumer out of it. *)
DisableReleases ==
  \A c \in Consumers : (pc[c] # "out" /\ ~enabled) ~> (pc[c] = "out")

(* An item cannot stay in the queue while a consumer sleeps: the consumer  *)
(* that was signalled, or another one, empties the queue or is released.   *)
SleeperIsServed ==
  \A c \in Consumers :
    (pc[c] = "waiting" /\ list # <<>>) ~> (pc[c] = "out" \/ list = <<>>)
=============================================================================
