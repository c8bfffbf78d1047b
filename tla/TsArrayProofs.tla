---------------------------- MODULE TsArrayProofs ----------------------------
(***************************************************************************)
(* Lemmas about the positions and the slots of the timestamp ring, for any *)
(* ring size.  Positions are remainders; the first lemmas turn them into   *)
(* sums and differences, after which % is not mentioned.                   *)
(***************************************************************************)
EXTENDS TsArray, TLAPS

LEMMA ModBelow ==
  ASSUME NEW n \in Nat \ {0}, NEW a \in 0 .. n - 1
  PROVE  a % n = a
BY SMT

LEMMA ModAbove ==
  ASSUME NEW n \in Nat \ {0}, NEW a \in n .. 2 * n - 1
  PROVE  a % n = a - n
BY SMT

(* A sum of a position and at most one lap wraps at most once. *)
LEMMA Wraps ==
  ASSUME NEW p \in Positions, NEW d \in 0 .. RingSize
  PROVE  /\ p + d < RingSize => (p + d) % RingSize = p + d
         /\ p + d >= RingSize => (p + d) % RingSize = p + d - RingSize
<1>1. ASSUME p + d < RingSize
      PROVE  (p + d) % RingSize = p + d
  <2>1. p + d \in 0 .. RingSize - 1
    BY <1>1, RingAssumption DEF Positions
  <2> QED
    BY <2>1, ModBelow, RingAssumption DEF Positions
<1>2. ASSUME p + d >= RingSize
      PROVE  (p + d) % RingSize = p + d - RingSize
  <2>1. p + d \in RingSize .. 2 * RingSize - 1
    BY <1>2, RingAssumption DEF Positions
  <2> QED
    BY <2>1, ModAbove, RingAssumption DEF Positions
<1> QED
  BY <1>1, <1>2, RingAssumption DEF Positions

LEMMA NextPosWraps ==
  ASSUME NEW p \in Positions
  PROVE  /\ p + 1 < RingSize => NextPos(p) = p + 1
         /\ p + 1 = RingSize => NextPos(p) = 0
         /\ NextPos(p) \in Positions
<1>1. /\ p + 1 < RingSize => NextPos(p) = p + 1
      /\ p + 1 >= RingSize => NextPos(p) = p + 1 - RingSize
  <2>1. 1 \in 0 .. RingSize
    BY RingAssumption
  <2> QED
    BY <2>1, Wraps DEF NextPos
<1> QED
  BY <1>1, RingAssumption DEF Positions

(* The three ways to write the slot at ts_in_pos. *)
LEMMA ItemTime ==
  ASSUME NEW E, NEW i \in [time : Nat, events : E], NEW t \in Nat
  PROVE  [i EXCEPT !.time = t] = [time |-> t, events |-> i.events]
OBVIOUS

LEMMA ItemEvents ==
  ASSUME NEW E, NEW i \in [time : Nat, events : E], NEW s \in E
  PROVE  [i EXCEPT !.events = s] = [time |-> i.time, events |-> s]
OBVIOUS

LEMMA ItemEmptied ==
  ASSUME NEW i \in Item
  PROVE  /\ [i EXCEPT !.events = <<>>] \in Item
         /\ [i EXCEPT !.events = <<>>].events = <<>>
         /\ [i EXCEPT !.events = <<>>].time = i.time
<1>1. i \in [time : Nat, events : Seq(Nat)] /\ <<>> \in Seq(Nat)
  BY DEF Item
<1>2. [i EXCEPT !.events = <<>>] = [time |-> i.time, events |-> <<>>]
  BY <1>1, ItemEvents
<1> QED
  BY <1>1, <1>2 DEF Item

LEMMA StoreFrameWrites ==
  ASSUME RingTypeOK, NEW t \in Nat, StoreFrame(t)
  PROVE  LET c == [time |-> t, events |-> ts_array[ts_in_pos].events]
         IN  /\ c \in Item
             /\ ts_array' = [ts_array EXCEPT ![ts_in_pos] = c]
<1> DEFINE i == ts_array[ts_in_pos]
<1>1. i \in [time : Nat, events : Seq(Nat)]
  BY DEF RingTypeOK, Item
<1>2. [i EXCEPT !.time = t] = [time |-> t, events |-> i.events]
  BY <1>1, ItemTime
<1>3. ts_array' = [ts_array EXCEPT ![ts_in_pos] = [i EXCEPT !.time = t]]
  BY DEF StoreFrame
<1>4. [time |-> t, events |-> i.events] \in Item
  BY <1>1 DEF Item
<1> QED
  BY <1>2, <1>3, <1>4

LEMMA StoreEventWrites ==
  ASSUME RingTypeOK, NEW e \in Nat, StoreEvent(e)
  PROVE  LET c == [time |-> ts_array[ts_in_pos].time,
                   events |-> Append(ts_array[ts_in_pos].events, e)]
         IN  /\ c \in Item
             /\ ts_array' = [ts_array EXCEPT ![ts_in_pos] = c]
<1> DEFINE i == ts_array[ts_in_pos]
<1>1. i \in [time : Nat, events : Seq(Nat)]
  BY DEF RingTypeOK, Item
<1>2. [i EXCEPT !.events = Append(@, e)]
        = [time |-> i.time, events |-> Append(i.events, e)]
  <2>1. Append(i.events, e) \in Seq(Nat)
    BY <1>1
  <2> QED
    BY <1>1, <2>1, ItemEvents
<1>3. ts_array' = [ts_array EXCEPT ![ts_in_pos] = [i EXCEPT !.events = Append(@, e)]]
  BY DEF StoreEvent
<1>4. [time |-> i.time, events |-> Append(i.events, e)] \in Item
  BY <1>1 DEF Item
<1> QED
  BY <1>2, <1>3, <1>4

LEMMA MarkFlushWrites ==
  ASSUME RingTypeOK, MarkFlush
  PROVE  LET c == [time |-> ts_array[ts_in_pos].time, events |-> <<>>]
         IN  /\ c \in Item
             /\ ts_array' = [ts_array EXCEPT ![ts_in_pos] = c]
<1> DEFINE i == ts_array[ts_in_pos]
<1>1. i \in [time : Nat, events : Seq(Nat)]
  BY DEF RingTypeOK, Item
<1>2. [i EXCEPT !.events = <<>>] = [time |-> i.time, events |-> <<>>]
  BY <1>1
<1>3. ts_array' = [ts_array EXCEPT ![ts_in_pos] = [i EXCEPT !.events = <<>>]]
  BY DEF MarkFlush
<1>4. [time |-> i.time, events |-> <<>>] \in Item
  BY <1>1 DEF Item
<1> QED
  BY <1>2, <1>3, <1>4

(* Every operation on the ring keeps its types. *)
LEMMA StoreFrameTypes ==
  ASSUME RingTypeOK, NEW t \in Nat, StoreFrame(t)
  PROVE  RingTypeOK'
<1>1. ts_array' \in [Positions -> Item]
  BY StoreFrameWrites DEF RingTypeOK
<1>2. ts_in_pos' \in Positions
  BY NextPosWraps DEF RingTypeOK, StoreFrame
<1> QED
  BY <1>1, <1>2 DEF RingTypeOK, StoreFrame

LEMMA StoreEventTypes ==
  ASSUME RingTypeOK, NEW e \in Nat, StoreEvent(e)
  PROVE  RingTypeOK'
<1>1. ts_array' \in [Positions -> Item]
  BY StoreEventWrites DEF RingTypeOK
<1> QED
  BY <1>1 DEF RingTypeOK, StoreEvent

LEMMA MarkFlushTypes ==
  ASSUME RingTypeOK, MarkFlush
  PROVE  RingTypeOK'
<1>1. ts_array' \in [Positions -> Item]
  BY MarkFlushWrites DEF RingTypeOK
<1> QED
  BY <1>1 DEF RingTypeOK, MarkFlush

LEMMA ClearEventsTypes ==
  ASSUME RingTypeOK, ClearEvents
  PROVE  RingTypeOK'
<1> DEFINE i == ts_array[ts_out_pos]
<1>1. [i EXCEPT !.events = <<>>] \in Item
  BY ItemEmptied DEF RingTypeOK
<1>2. ts_array' = [ts_array EXCEPT ![ts_out_pos] = [i EXCEPT !.events = <<>>]]
  BY DEF ClearEvents
<1> HIDE DEF i
<1>3. ts_array' \in [Positions -> Item]
  BY <1>1, <1>2 DEF RingTypeOK
<1> QED
  BY <1>3 DEF RingTypeOK, ClearEvents

LEMMA AdvanceTypes ==
  ASSUME RingTypeOK, Advance,
         UNCHANGED ts_push_pos \/ ts_push_pos' = NextPos(ts_out_pos)
  PROVE  RingTypeOK'
BY NextPosWraps DEF RingTypeOK, Advance
=============================================================================
