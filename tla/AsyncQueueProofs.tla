-------------------------- MODULE AsyncQueueProofs --------------------------
(***************************************************************************)
(* Theorems about AsyncQueue for any number of consumers and items, and    *)
(* their proofs.  What the fairness of the scheduler adds (every consumer  *)
(* is served or released in the end) is checked by TLC only.               *)
(***************************************************************************)
EXTENDS AsyncQueue, FiniteSetTheorems, TLAPS

LEMMA HeadTail ==
  ASSUME NEW s \in Seq(Items), s # <<>>
  PROVE  Head(s) \in Items /\ Tail(s) \in Seq(Items) /\ Len(Tail(s)) = Len(s) - 1
OBVIOUS

LEMMA QueueTypeStart == Init => TypeOK
BY QueueAssumption DEF Init, TypeOK

(* The parts of an action that several actions share. *)
LEMMA TakeType ==
  ASSUME TypeOK, NEW c \in Consumers, Take(c), UNCHANGED <<enabled, pushes>>
  PROVE  TypeOK'
<1>1. list # <<>> /\ list \in Seq(Items)
  BY DEF TypeOK, Take
<1>2. Head(list) \in Items /\ Tail(list) \in Seq(Items)
      /\ Len(Tail(list)) = Len(list) - 1
  BY <1>1, HeadTail
<1> QED
  BY <1>2 DEF TypeOK, Take

LEMMA ReturnNullType ==
  ASSUME TypeOK, NEW c \in Consumers, ReturnNull(c), UNCHANGED <<enabled, pushes>>
  PROVE  TypeOK'
BY DEF TypeOK, ReturnNull

LEMMA QueueTypeStep == TypeOK /\ [Next]_vars => TypeOK'
<1> SUFFICES ASSUME TypeOK, [Next]_vars PROVE TypeOK'
  OBVIOUS
<1>1. ASSUME NEW d \in Items, Push(d)
      PROVE  TypeOK'
  <2>1. list' \in Seq(Items) /\ length' = Len(list')
    BY <1>1 DEF TypeOK, Push
  <2>2. pc' \in [Consumers -> {"out", "waiting", "woken"}]
    BY <1>1 DEF TypeOK, Push, Signal, Waiting
  <2>3. pushes' \in 0 .. MaxPush
    BY <1>1, QueueAssumption DEF TypeOK, Push
  <2> QED
    BY <1>1, <2>1, <2>2, <2>3 DEF TypeOK, Push
<1>2. ASSUME NEW c \in Consumers, PopEnter(c)
      PROVE  TypeOK'
  <2>1. CASE ReturnNull(c)
    BY <1>2, <2>1, ReturnNullType DEF PopEnter
  <2>2. CASE Take(c)
    BY <1>2, <2>2, TakeType DEF PopEnter
  <2>3. CASE pc' = [pc EXCEPT ![c] = "waiting"]
             /\ UNCHANGED <<list, length, result, taken>>
    BY <1>2, <2>3 DEF PopEnter, TypeOK
  <2> QED
    BY <1>2, <2>1, <2>2, <2>3 DEF PopEnter
<1>3. ASSUME NEW c \in Consumers, SpuriousWakeup(c)
      PROVE  TypeOK'
  BY <1>3 DEF SpuriousWakeup, TypeOK
<1>4. ASSUME NEW c \in Consumers, PopResume(c)
      PROVE  TypeOK'
  BY <1>4, TakeType, ReturnNullType DEF PopResume
<1>5. ASSUME NEW c \in Consumers, PopForced(c)
      PROVE  TypeOK'
  BY <1>5, TakeType, ReturnNullType DEF PopForced
<1>6. CASE Disable
  BY <1>6 DEF Disable, Broadcast, TypeOK
<1>7. CASE Enable
  BY <1>7 DEF Enable, TypeOK
<1>8. CASE Flush
  BY <1>8 DEF Flush, TypeOK
<1>9. CASE UNCHANGED vars
  BY <1>9 DEF vars, TypeOK
<1> QED
  BY <1>1, <1>2, <1>3, <1>4, <1>5, <1>6, <1>7, <1>8, <1>9 DEF Next, Pop

(* The length field is the length of the list, and only NULL and items     *)
(* that were pushed are ever returned.                                     *)
THEOREM QueueTypeCorrect == Spec => []TypeOK
BY QueueTypeStart, QueueTypeStep, PTL DEF Spec

-----------------------------------------------------------------------------
(* A disabled queue has no sleeper: a pop does not go to sleep when the    *)
(* queue is disabled, and disabling wakes everyone who sleeps.             *)
THEOREM QueueDisabledHasNoSleeper == Spec => []DisabledHasNoSleeper
<1>1. Init => DisabledHasNoSleeper
  BY DEF Init, DisabledHasNoSleeper
<1>2. TypeOK /\ DisabledHasNoSleeper /\ [Next]_vars => DisabledHasNoSleeper'
  <2> SUFFICES ASSUME TypeOK, DisabledHasNoSleeper, [Next]_vars, ~enabled',
                      NEW s \in Consumers, pc'[s] = "waiting"
               PROVE  FALSE
    BY DEF DisabledHasNoSleeper, Waiting
  <2> USE DEF TypeOK, DisabledHasNoSleeper, Waiting
  <2>1. ASSUME NEW d \in Items, Push(d)
        PROVE  FALSE
    BY <2>1 DEF Push, Signal
  <2>2. ASSUME NEW c \in Consumers, PopEnter(c)
        PROVE  FALSE
    BY <2>2 DEF PopEnter, Take, ReturnNull
  <2>3. ASSUME NEW c \in Consumers, SpuriousWakeup(c)
        PROVE  FALSE
    BY <2>3 DEF SpuriousWakeup
  <2>4. ASSUME NEW c \in Consumers, PopResume(c)
        PROVE  FALSE
    BY <2>4 DEF PopResume, Take, ReturnNull
  <2>5. ASSUME NEW c \in Consumers, PopForced(c)
        PROVE  FALSE
    BY <2>5 DEF PopForced, Take, ReturnNull
  <2>6. CASE Disable
    BY <2>6 DEF Disable, Broadcast
  <2>7. CASE Enable
    BY <2>7 DEF Enable
  <2>8. CASE Flush
    BY <2>8 DEF Flush
  <2>9. CASE UNCHANGED vars
    BY <2>9 DEF vars
  <2> QED
    BY <2>1, <2>2, <2>3, <2>4, <2>5, <2>6, <2>7, <2>8, <2>9 DEF Next, Pop
<1> QED
  BY <1>1, <1>2, QueueTypeCorrect, PTL DEF Spec

-----------------------------------------------------------------------------
(* How the number of woken consumers changes. *)
LEMMA WokenFinite ==
  /\ IsFiniteSet(Woken) /\ Cardinality(Woken) \in Nat
  /\ IsFiniteSet(Woken') /\ Cardinality(Woken') \in Nat
<1>1. Woken \in SUBSET Consumers /\ Woken' \in SUBSET Consumers
  BY DEF Woken
<1>2. IsFiniteSet(Woken) /\ IsFiniteSet(Woken')
  BY <1>1, FS_Subset, QueueAssumption
<1> QED
  BY <1>2, FS_CardinalityType

LEMMA WokenMore ==
  ASSUME TypeOK, NEW c \in Consumers, pc[c] = "waiting",
         pc' = [pc EXCEPT ![c] = "woken"]
  PROVE  Cardinality(Woken') = Cardinality(Woken) + 1
<1>1. Woken' = Woken \cup {c} /\ c \notin Woken
  BY DEF TypeOK, Woken
<1> QED
  BY <1>1, WokenFinite, FS_AddElement

LEMMA WokenLess ==
  ASSUME TypeOK, NEW c \in Consumers, pc[c] = "woken",
         pc' = [pc EXCEPT ![c] = "out"]
  PROVE  Cardinality(Woken') = Cardinality(Woken) - 1
<1>1. Woken' = Woken \ {c} /\ c \in Woken
  BY DEF TypeOK, Woken
<1> QED
  BY <1>1, WokenFinite, FS_RemoveElement

(* An empty list needs no wakeup. *)
LEMMA EmptyListServed ==
  ASSUME list' = <<>>
  PROVE  NoLostWakeup'
<1>1. Len(list') = 0
  OBVIOUS
<1> QED
  BY <1>1, WokenFinite DEF NoLostWakeup

(* Taking an item by a consumer that has not been woken for it leaves more *)
(* wakeups than items; by one that has, as many as before.                 *)
LEMMA TakeServed ==
  ASSUME TypeOK, NoLostWakeup, NEW c \in Consumers, pc[c] \in {"out", "woken"},
         Take(c)
  PROVE  NoLostWakeup'
<1>1. list # <<>> /\ list \in Seq(Items) /\ list' = Tail(list)
  BY DEF TypeOK, Take
<1>2. Len(list') = Len(list) - 1 /\ Len(list) \in Nat
  BY <1>1, HeadTail
<1>3. pc' = [pc EXCEPT ![c] = "out"]
  BY DEF Take
<1>4. Waiting' = Waiting
  BY <1>3 DEF TypeOK, Waiting
<1>5. Cardinality(Woken') >= Cardinality(Woken) - 1
  <2>1. CASE pc[c] = "woken"
    <3>1. Cardinality(Woken') = Cardinality(Woken) - 1
      BY <1>3, <2>1, WokenLess
    <3> QED
      BY <3>1, WokenFinite
  <2>2. CASE pc[c] = "out"
    <3>1. Woken' = Woken
      BY <1>3, <2>2 DEF TypeOK, Woken
    <3> QED
      BY <3>1, WokenFinite
  <2> QED
    BY <2>1, <2>2
<1> QED
  BY <1>2, <1>4, <1>5, WokenFinite DEF NoLostWakeup

LEMMA NoLostWakeupStep ==
  TypeOK /\ NoLostWakeup /\ [Next]_vars => NoLostWakeup'
<1> SUFFICES ASSUME TypeOK, NoLostWakeup, [Next]_vars PROVE NoLostWakeup'
  OBVIOUS
<1>1. ASSUME NEW d \in Items, Push(d)
      PROVE  NoLostWakeup'
  <2>1. Len(list') = Len(list) + 1 /\ Len(list) \in Nat
    BY <1>1 DEF Push, TypeOK
  <2>2. CASE Waiting = {} /\ UNCHANGED pc
    BY <2>2 DEF NoLostWakeup, Waiting
  <2>3. ASSUME NEW c \in Waiting, pc' = [pc EXCEPT ![c] = "woken"]
        PROVE  NoLostWakeup'
    <3>1. c \in Consumers /\ pc[c] = "waiting" /\ Waiting # {}
      BY <2>3 DEF Waiting
    <3>2. Cardinality(Woken') = Cardinality(Woken) + 1
      BY <2>3, <3>1, WokenMore
    <3> QED
      BY <2>1, <3>1, <3>2, WokenFinite DEF NoLostWakeup
  <2> QED
    BY <1>1, <2>2, <2>3 DEF Push, Signal
<1>2. ASSUME NEW c \in Consumers, PopEnter(c)
      PROVE  NoLostWakeup'
  <2>1. CASE ReturnNull(c)
    <3>1. Woken' = Woken /\ Waiting' = Waiting /\ list' = list
      BY <1>2, <2>1 DEF PopEnter, ReturnNull, TypeOK, Woken, Waiting
    <3> QED
      BY <3>1 DEF NoLostWakeup
  <2>2. CASE Take(c)
    BY <1>2, <2>2, TakeServed DEF PopEnter
  <2>3. CASE list = <<>> /\ UNCHANGED list
    BY <2>3, EmptyListServed
  <2> QED
    BY <1>2, <2>1, <2>2, <2>3 DEF PopEnter
<1>3. ASSUME NEW c \in Consumers, SpuriousWakeup(c)
      PROVE  NoLostWakeup'
  <2>1. Cardinality(Woken') = Cardinality(Woken) + 1
    BY <1>3, WokenMore DEF SpuriousWakeup
  <2>2. Waiting # {} /\ list' = list
    BY <1>3 DEF SpuriousWakeup, Waiting
  <2>3. Len(list) \in Nat
    BY DEF TypeOK
  <2> QED
    BY <2>1, <2>2, <2>3, WokenFinite DEF NoLostWakeup
<1>4. ASSUME NEW c \in Consumers, PopResume(c)
      PROVE  NoLostWakeup'
  <2>1. CASE Take(c)
    BY <1>4, <2>1, TakeServed DEF PopResume
  <2>2. CASE list = <<>> /\ ReturnNull(c)
    BY <2>2, EmptyListServed DEF ReturnNull
  <2> QED
    BY <1>4, <2>1, <2>2 DEF PopResume
<1>5. ASSUME NEW c \in Consumers, PopForced(c)
      PROVE  NoLostWakeup'
  <2>1. CASE Take(c)
    BY <1>5, <2>1, TakeServed DEF PopForced
  <2>2. CASE list = <<>> /\ ReturnNull(c)
    BY <2>2, EmptyListServed DEF ReturnNull
  <2> QED
    BY <1>5, <2>1, <2>2 DEF PopForced
<1>6. CASE Disable
  BY <1>6 DEF Disable, Broadcast, NoLostWakeup, Waiting
<1>7. CASE Enable
  BY <1>7 DEF Enable, NoLostWakeup, Waiting, Woken
<1>8. CASE Flush
  BY <1>8, EmptyListServed DEF Flush
<1>9. CASE UNCHANGED vars
  BY <1>9 DEF vars, NoLostWakeup, Waiting, Woken
<1> QED
  BY <1>1, <1>2, <1>3, <1>4, <1>5, <1>6, <1>7, <1>8, <1>9 DEF Next, Pop

(* As long as a consumer sleeps there is a woken consumer for every item:  *)
(* one signal per push and no loop around g_cond_wait is enough, for any   *)
(* number of consumers and with spurious wakeups.                          *)
THEOREM QueueNoLostWakeup == Spec => []NoLostWakeup
<1>1. Init => NoLostWakeup
  BY DEF Init, NoLostWakeup, Waiting
<1> QED
  BY <1>1, NoLostWakeupStep, QueueTypeCorrect, PTL DEF Spec

-----------------------------------------------------------------------------
(* The queue implements the channel: every step that touches the list is   *)
(* a put, a get or the loss of all of it, the others change nothing that   *)
(* can be seen from outside.                                               *)
THEOREM QueueIsFifo == Spec => IsFifo
<1> USE DEF Channel!Put, Channel!Get, Channel!Discard, Channel!Next
<1>1. Init => Channel!Init
  BY DEF Init, Channel!Init
<1>2. ASSUME [Next]_vars
      PROVE  [Channel!Next]_<<list, taken>>
  <2>1. ASSUME NEW d \in Items, Push(d)
        PROVE  Channel!Next
    BY <2>1 DEF Push
  <2>2. ASSUME NEW c \in Consumers, Take(c)
        PROVE  Channel!Next
    BY <2>2 DEF Take
  <2>3. ASSUME NEW c \in Consumers, Pop(c)
        PROVE  [Channel!Next]_<<list, taken>>
    BY <2>2, <2>3 DEF Pop, PopEnter, SpuriousWakeup, PopResume, PopForced,
                      ReturnNull
  <2>4. CASE Disable \/ Enable
    BY <2>4 DEF Disable, Enable
  <2>5. CASE Flush
    BY <2>5 DEF Flush
  <2>6. CASE UNCHANGED vars
    BY <2>6 DEF vars
  <2> QED
    BY <1>2, <2>1, <2>3, <2>4, <2>5, <2>6 DEF Next
<1> QED
  BY <1>1, <1>2, PTL DEF Spec, IsFifo, Channel!Spec
=============================================================================
