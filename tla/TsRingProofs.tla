---------------------------- MODULE TsRingProofs ----------------------------
(***************************************************************************)
(* Theorems about TsRing for every ring size and every bound, and their    *)
(* proofs: its invariants, that it implements the queue of frames, and the *)
(* order in which frames and events leave it.                              *)
(***************************************************************************)
EXTENDS TsRing, TsArrayProofs

LEMMA SlotWraps ==
  ASSUME ts_out_pos \in Positions, NEW k \in 0 .. RingSize - 1
  PROVE  /\ ts_out_pos + k < RingSize => Slot(k) = ts_out_pos + k
         /\ ts_out_pos + k >= RingSize => Slot(k) = ts_out_pos + k - RingSize
         /\ Slot(k) \in Positions
<1>1. /\ ts_out_pos + k < RingSize => Slot(k) = ts_out_pos + k
      /\ ts_out_pos + k >= RingSize => Slot(k) = ts_out_pos + k - RingSize
  <2>1. k \in 0 .. RingSize
    BY RingAssumption
  <2> QED
    BY <2>1, Wraps DEF Slot
<1> QED
  BY <1>1, RingAssumption DEF Positions

(* Different distances below a lap are different slots. *)
LEMMA SlotInjective ==
  ASSUME ts_out_pos \in Positions,
         NEW k \in 0 .. RingSize - 1, NEW l \in 0 .. RingSize - 1,
         Slot(k) = Slot(l)
  PROVE  k = l
BY SlotWraps, RingAssumption DEF Positions

(* The distance from one position to another, going forward. *)
LEMMA StaleValue ==
  ASSUME NEW q \in Positions, NEW p \in Positions
  PROVE  /\ p >= q => (p + RingSize - q) % RingSize = p - q
         /\ p < q => (p + RingSize - q) % RingSize = p + RingSize - q
<1>1. ASSUME p >= q
      PROVE  (p + RingSize - q) % RingSize = p - q
  <2>1. p + RingSize - q \in RingSize .. 2 * RingSize - 1
    BY <1>1, RingAssumption DEF Positions
  <2> QED
    BY <2>1, ModAbove, RingAssumption DEF Positions
<1>2. ASSUME p < q
      PROVE  (p + RingSize - q) % RingSize = p + RingSize - q
  <2>1. p + RingSize - q \in 0 .. RingSize - 1
    BY <1>2, RingAssumption DEF Positions
  <2> QED
    BY <2>1, ModBelow, RingAssumption
<1> QED
  BY <1>1, <1>2

LEMMA StaleWraps ==
  ASSUME ts_out_pos \in Positions, ts_push_pos \in Positions
  PROVE  /\ ts_push_pos >= ts_out_pos => StaleCount = ts_push_pos - ts_out_pos
         /\ ts_push_pos < ts_out_pos
              => StaleCount = ts_push_pos + RingSize - ts_out_pos
         /\ StaleCount \in 0 .. RingSize - 1
         /\ StaleCount = 0 <=> ts_push_pos = ts_out_pos
<1>1. /\ ts_push_pos >= ts_out_pos => StaleCount = ts_push_pos - ts_out_pos
      /\ ts_push_pos < ts_out_pos
           => StaleCount = ts_push_pos + RingSize - ts_out_pos
  BY StaleValue DEF StaleCount
<1> QED
  BY <1>1, RingAssumption DEF Positions

(* Advancing moves every slot one closer. *)
LEMMA SlotShift ==
  ASSUME ts_out_pos \in Positions, ts_out_pos' = NextPos(ts_out_pos),
         NEW k \in 0 .. RingSize - 2
  PROVE  Slot(k)' = Slot(k + 1)
<1>1. ts_out_pos' \in Positions
  BY NextPosWraps
<1>2. Slot(k)' = (ts_out_pos' + k) % RingSize
  BY DEF Slot
<1>3. /\ ts_out_pos' + k < RingSize => Slot(k)' = ts_out_pos' + k
      /\ ts_out_pos' + k >= RingSize => Slot(k)' = ts_out_pos' + k - RingSize
  <2>1. k \in 0 .. RingSize
    BY RingAssumption
  <2> QED
    BY <1>1, <1>2, <2>1, Wraps
<1>4. k + 1 \in 0 .. RingSize - 1
  BY RingAssumption
<1>5. /\ ts_out_pos + (k + 1) < RingSize => Slot(k + 1) = ts_out_pos + (k + 1)
      /\ ts_out_pos + (k + 1) >= RingSize
           => Slot(k + 1) = ts_out_pos + (k + 1) - RingSize
  BY <1>4, SlotWraps
<1> QED
  BY <1>1, <1>3, <1>5, NextPosWraps, RingAssumption DEF Positions

LEMMA SlotKept ==
  ASSUME UNCHANGED ts_out_pos, NEW k
  PROVE  Slot(k)' = Slot(k)
BY DEF Slot

-----------------------------------------------------------------------------
(* What each operation does to the slots, counted from ts_out_pos.         *)

LEMMA CellType ==
  ASSUME TypeOK, NEW k \in 0 .. RingSize - 1
  PROVE  Cell(k) \in Item
BY SlotWraps DEF TypeOK, RingTypeOK, Cell

LEMMA CellWrite ==
  ASSUME TypeOK, PositionsAgree, UNCHANGED ts_out_pos, NEW c \in Item,
         ts_array' = [ts_array EXCEPT ![ts_in_pos] = c],
         NEW k \in 0 .. RingSize - 1
  PROVE  /\ k = ts_count => Cell(k)' = c /\ Cell(k) = ts_array[ts_in_pos]
         /\ k # ts_count => Cell(k)' = Cell(k)
<1>1. Slot(k)' = Slot(k) /\ Slot(k) \in Positions
  BY SlotKept, SlotWraps DEF TypeOK, RingTypeOK
<1>2. ASSUME k = ts_count
      PROVE  Cell(k)' = c /\ Cell(k) = ts_array[ts_in_pos]
  BY <1>1, <1>2 DEF TypeOK, RingTypeOK, PositionsAgree, Cell
<1>3. ASSUME k # ts_count
      PROVE  Cell(k)' = Cell(k)
  <2>1. ts_count \in 0 .. RingSize - 1
    BY CapacityAssumption, RingAssumption DEF TypeOK, RingTypeOK
  <2>2. Slot(k) # ts_in_pos
    BY <1>3, <2>1, SlotInjective DEF TypeOK, RingTypeOK, PositionsAgree
  <2> QED
    BY <1>1, <2>2 DEF TypeOK, RingTypeOK, Cell
<1> QED
  BY <1>2, <1>3

LEMMA CellClear ==
  ASSUME TypeOK, ClearEvents, NEW k \in 0 .. RingSize - 1
  PROVE  /\ Cell(k)'.time = Cell(k).time
         /\ k = 0 => Cell(k)'.events = <<>>
         /\ k # 0 => Cell(k)' = Cell(k)
<1>1. Slot(k)' = Slot(k) /\ Slot(k) \in Positions
  BY SlotKept, SlotWraps DEF TypeOK, RingTypeOK, ClearEvents
<1>2. 0 \in 0 .. RingSize - 1
  BY RingAssumption
<1>3. Slot(0) = ts_out_pos
  BY <1>2, SlotWraps, RingAssumption DEF TypeOK, RingTypeOK, Positions
<1>4. ASSUME k # 0
      PROVE  Slot(k) # ts_out_pos
  BY <1>2, <1>3, <1>4, SlotInjective DEF TypeOK, RingTypeOK
<1> QED
  BY <1>1, <1>3, <1>4 DEF TypeOK, RingTypeOK, Item, Cell, ClearEvents

LEMMA CellShift ==
  ASSUME TypeOK, Advance, NEW k \in 0 .. RingSize - 1
  PROVE  /\ k < RingSize - 1 => Cell(k)' = Cell(k + 1)
         /\ k = RingSize - 1 => Cell(k)' = Cell(0)
<1>1. ASSUME k < RingSize - 1
      PROVE  Cell(k)' = Cell(k + 1)
  <2>1. k \in 0 .. RingSize - 2
    BY <1>1, RingAssumption
  <2> QED
    BY <2>1, SlotShift DEF TypeOK, RingTypeOK, Advance, Cell
<1>2. ASSUME k = RingSize - 1
      PROVE  Cell(k)' = Cell(0)
  <2>1. 0 \in 0 .. RingSize - 1
    BY RingAssumption
  <2>2. Slot(0) = ts_out_pos
    BY <2>1, SlotWraps, RingAssumption DEF TypeOK, RingTypeOK, Positions
  <2>3. ts_out_pos' = NextPos(ts_out_pos) /\ ts_out_pos' \in Positions
    BY NextPosWraps DEF TypeOK, RingTypeOK, Advance
  <2>4. k \in 0 .. RingSize
    BY RingAssumption
  <2>5. Slot(k)' = ts_out_pos
    <3>1. Slot(k)' = (ts_out_pos' + k) % RingSize
      BY DEF Slot
    <3>2. /\ ts_out_pos' + k < RingSize => Slot(k)' = ts_out_pos' + k
          /\ ts_out_pos' + k >= RingSize => Slot(k)' = ts_out_pos' + k - RingSize
      BY <2>3, <2>4, <3>1, Wraps
    <3>3. /\ ts_out_pos \in Positions
          /\ ts_out_pos + 1 < RingSize => ts_out_pos' = ts_out_pos + 1
          /\ ts_out_pos + 1 = RingSize => ts_out_pos' = 0
      BY <2>3, NextPosWraps DEF TypeOK, RingTypeOK
    <3> QED
      BY <1>2, <3>2, <3>3, RingAssumption DEF Positions
  <2> QED
    BY <2>2, <2>5 DEF Advance, Cell
<1> QED
  BY <1>1, <1>2, RingAssumption

-----------------------------------------------------------------------------
(* What each operation does to the number of stale frames.                 *)

LEMMA StaleMarked ==
  ASSUME TypeOK, PositionsAgree, MarkFlush
  PROVE  StaleCount' = ts_count
<1>1. ts_count \in 0 .. RingSize - 1
  BY CapacityAssumption, RingAssumption DEF TypeOK, RingTypeOK
<1>2. ts_out_pos' \in Positions /\ ts_push_pos' \in Positions
  BY DEF TypeOK, RingTypeOK, MarkFlush
<1>3. /\ ts_push_pos' >= ts_out_pos' => StaleCount' = ts_push_pos' - ts_out_pos'
      /\ ts_push_pos' < ts_out_pos'
           => StaleCount' = ts_push_pos' + RingSize - ts_out_pos'
  <2>1. StaleCount' = (ts_push_pos' + RingSize - ts_out_pos') % RingSize
    BY DEF StaleCount
  <2> QED
    BY <1>2, <2>1, StaleValue
<1>4. /\ ts_out_pos + ts_count < RingSize => ts_in_pos = ts_out_pos + ts_count
      /\ ts_out_pos + ts_count >= RingSize
           => ts_in_pos = ts_out_pos + ts_count - RingSize
  BY <1>1, SlotWraps DEF TypeOK, RingTypeOK, PositionsAgree
<1>5. ts_push_pos' = ts_in_pos /\ ts_out_pos' = ts_out_pos
  BY DEF MarkFlush
<1> QED
  BY <1>1, <1>2, <1>3, <1>4, <1>5, RingAssumption DEF Positions

LEMMA StaleDropped ==
  ASSUME TypeOK, Advance, UNCHANGED ts_push_pos, Flushing
  PROVE  StaleCount' = StaleCount - 1
<1>1. ts_out_pos' = NextPos(ts_out_pos) /\ ts_out_pos' \in Positions
  BY NextPosWraps DEF TypeOK, RingTypeOK, Advance
<1>2. /\ ts_push_pos >= ts_out_pos' => StaleCount' = ts_push_pos - ts_out_pos'
      /\ ts_push_pos < ts_out_pos'
           => StaleCount' = ts_push_pos + RingSize - ts_out_pos'
  <2>1. StaleCount' = (ts_push_pos + RingSize - ts_out_pos') % RingSize
    BY DEF StaleCount
  <2> QED
    BY <1>1, <2>1, StaleValue DEF TypeOK, RingTypeOK
<1>3. /\ ts_out_pos \in Positions
      /\ ts_push_pos \in Positions
      /\ ts_push_pos # ts_out_pos
      /\ ts_out_pos + 1 < RingSize => ts_out_pos' = ts_out_pos + 1
      /\ ts_out_pos + 1 = RingSize => ts_out_pos' = 0
  BY <1>1, NextPosWraps DEF TypeOK, RingTypeOK, Flushing
<1>4. /\ ts_push_pos >= ts_out_pos => StaleCount = ts_push_pos - ts_out_pos
      /\ ts_push_pos < ts_out_pos
           => StaleCount = ts_push_pos + RingSize - ts_out_pos
  BY <1>3, StaleWraps
<1> QED
  BY <1>2, <1>3, <1>4, RingAssumption DEF Positions

LEMMA StaleNone ==
  ASSUME TypeOK, ts_out_pos' = NextPos(ts_out_pos), ts_push_pos' = ts_out_pos'
  PROVE  StaleCount' = 0
<1>1. ts_out_pos' \in Positions
  BY NextPosWraps DEF TypeOK, RingTypeOK
<1>2. StaleCount' = (ts_push_pos' + RingSize - ts_out_pos') % RingSize
  BY DEF StaleCount
<1> QED
  BY <1>1, <1>2, StaleValue, RingAssumption DEF Positions

-----------------------------------------------------------------------------
(* The positions, the count and the slots that hold nothing.               *)

LEMMA RingStart == Init => RingInv
<1> SUFFICES ASSUME Init PROVE RingInv
  OBVIOUS
<1>1. 0 \in Positions /\ 0 \in 0 .. RingSize - 1
  BY RingAssumption DEF Positions
<1>2. TypeOK
  BY <1>1, CapacityAssumption DEF Init, RingInit, TypeOK, RingTypeOK, Item
<1>3. PositionsAgree
  <2>1. Slot(0) = 0
    BY <1>1, SlotWraps, RingAssumption DEF Init, RingInit
  <2>2. StaleCount = 0
    BY <1>1, StaleWraps DEF Init, RingInit
  <2> QED
    BY <2>1, <2>2 DEF PositionsAgree, Init, RingInit
<1>4. SlotsClean
  <2>1. ASSUME NEW k \in 0 .. RingSize - 1
        PROVE  Cell(k).events = <<>>
    <3>1. Slot(k) \in Positions
      BY <1>1, SlotWraps DEF Init, RingInit
    <3> QED
      BY <3>1 DEF Init, RingInit, Cell
  <2> QED
    BY <2>1, RingAssumption DEF SlotsClean, Init, RingInit
<1> QED
  BY <1>2, <1>3, <1>4 DEF RingInv

(* The three ways to go past a slot. *)
LEMMA AdvanceRing ==
  ASSUME RingInv, ready, Advance, ready' = FALSE,
         UNCHANGED <<arrived, mark>>, down' \in Seq(Nat),
         \/ Flushing /\ UNCHANGED ts_push_pos
         \/ ts_push_pos' = NextPos(ts_out_pos)
  PROVE  RingInv'
<1> USE DEF RingInv
<1>1. /\ ts_count \in 1 .. Capacity
      /\ ts_count' = ts_count - 1
      /\ ts_out_pos' = NextPos(ts_out_pos)
      /\ ts_out_pos' \in Positions
      /\ ts_push_pos' \in Positions
  BY NextPosWraps, CapacityAssumption DEF TypeOK, RingTypeOK, SlotsClean, Advance
<1>2. TypeOK'
  <2>1. ts_count' \in 0 .. Capacity
    BY <1>1, CapacityAssumption
  <2>2. /\ ts_array' = ts_array /\ ts_in_pos' = ts_in_pos
        /\ arrived' = arrived /\ mark' = mark
    BY DEF Advance
  <2> QED
    BY <1>1, <2>1, <2>2 DEF TypeOK, RingTypeOK
<1>3. PositionsAgree'
  <2>1. ts_in_pos' = Slot(ts_count)'
    <3>1. ts_count - 1 \in 0 .. RingSize - 2
      BY <1>1, CapacityAssumption, RingAssumption
    <3>2. PICK n \in 0 .. RingSize - 2 : n = ts_count - 1
      BY <3>1
    <3>3. Slot(n)' = Slot(n + 1)
      BY <1>1, SlotShift DEF TypeOK, RingTypeOK
    <3>4. n + 1 = ts_count /\ n = ts_count'
      BY <1>1, <3>2, CapacityAssumption
    <3>5. Slot(n)' = Slot(ts_count)'
      BY <3>4 DEF Slot
    <3>6. ts_in_pos' = ts_in_pos
      BY DEF Advance
    <3> QED
      BY <3>3, <3>4, <3>5, <3>6 DEF PositionsAgree
  <2>2. StaleCount' <= ts_count'
    <3>1. StaleCount \in 0 .. RingSize - 1 /\ StaleCount <= ts_count
      BY StaleWraps DEF TypeOK, RingTypeOK, PositionsAgree
    <3>2. CASE Flushing /\ UNCHANGED ts_push_pos
      BY <1>1, <3>1, <3>2, StaleDropped, CapacityAssumption
    <3>3. CASE ts_push_pos' = NextPos(ts_out_pos)
      BY <1>1, <3>3, StaleNone, CapacityAssumption
    <3> QED
      BY <3>2, <3>3
  <2> QED
    BY <2>1, <2>2 DEF PositionsAgree
<1>4. SlotsClean'
  <2>1. ASSUME NEW k \in ts_count .. RingSize - 1
        PROVE  Cell(k)'.events = <<>>
    <3>1. k \in 0 .. RingSize - 1 /\ k \in Int
      BY <1>1, <2>1, CapacityAssumption
    <3>2. CASE k = RingSize - 1
      BY <3>1, <3>2, CellShift DEF SlotsClean
    <3>3. CASE k < RingSize - 1
      <4>1. k + 1 \in ts_count + 1 .. RingSize - 1
        BY <1>1, <2>1, <3>3, CapacityAssumption, RingAssumption
      <4> QED
        BY <3>1, <3>3, <4>1, CellShift DEF SlotsClean
    <3> QED
      BY <3>1, <3>2, <3>3, RingAssumption
  <2>2. ts_count' + 1 = ts_count
    BY <1>1, CapacityAssumption
  <2> QED
    BY <2>1, <2>2 DEF SlotsClean
<1> QED
  BY <1>2, <1>3, <1>4

LEMMA ChainFrameRing ==
  ASSUME RingInv, ChainFrame
  PROVE  RingInv'
<1> USE DEF RingInv
<1> DEFINE c == [time |-> arrived + 1, events |-> ts_array[ts_in_pos].events]
<1>1. /\ ts_count \in 0 .. Capacity - 1
      /\ ts_count' = ts_count + 1
      /\ ts_out_pos' = ts_out_pos
      /\ ts_push_pos' = ts_push_pos
      /\ ts_in_pos' = NextPos(ts_in_pos)
      /\ arrived + 1 \in Nat
      /\ arrived' = arrived + 1
  BY CapacityAssumption DEF TypeOK, RingTypeOK, ChainFrame, StoreFrame
<1>2. c \in Item /\ ts_array' = [ts_array EXCEPT ![ts_in_pos] = c]
  BY <1>1, StoreFrameWrites DEF TypeOK, RingTypeOK, ChainFrame
<1>3. TypeOK'
  <2>1. ts_array' \in [Positions -> Item]
    BY <1>2 DEF TypeOK, RingTypeOK
  <2>2. ts_in_pos' \in Positions
    BY <1>1, NextPosWraps DEF TypeOK, RingTypeOK
  <2>3. arrived' \in 0 .. MaxArrivals /\ mark' \in 0 .. arrived'
    BY CapacityAssumption DEF TypeOK, RingTypeOK, ChainFrame
  <2>4. ts_count' \in 0 .. Capacity
    BY <1>1, CapacityAssumption
  <2> QED
    BY <1>1, <2>1, <2>2, <2>3, <2>4 DEF TypeOK, RingTypeOK, ChainFrame
<1>4. PositionsAgree'
  <2>1. ts_count \in 0 .. RingSize - 2
    BY <1>1, CapacityAssumption, RingAssumption
  <2>2. PICK n \in 0 .. RingSize - 2 : n = ts_count
    BY <2>1
  <2>3. n \in 0 .. RingSize - 1 /\ n + 1 \in 0 .. RingSize - 1
    BY RingAssumption
  <2>4. ts_in_pos = Slot(n) /\ Slot(n) \in Positions
    BY <2>2, <2>3, SlotWraps DEF PositionsAgree, TypeOK, RingTypeOK
  <2>5. Slot(n + 1) = NextPos(Slot(n))
    <3>1. /\ ts_out_pos + n < RingSize => Slot(n) = ts_out_pos + n
          /\ ts_out_pos + n >= RingSize => Slot(n) = ts_out_pos + n - RingSize
      BY <2>3, SlotWraps DEF TypeOK, RingTypeOK
    <3>2. /\ ts_out_pos + (n + 1) < RingSize => Slot(n + 1) = ts_out_pos + (n + 1)
          /\ ts_out_pos + (n + 1) >= RingSize
               => Slot(n + 1) = ts_out_pos + (n + 1) - RingSize
      BY <2>3, SlotWraps DEF TypeOK, RingTypeOK
    <3>3. /\ Slot(n) + 1 < RingSize => NextPos(Slot(n)) = Slot(n) + 1
          /\ Slot(n) + 1 = RingSize => NextPos(Slot(n)) = 0
      BY <2>4, NextPosWraps
    <3>4. ts_out_pos \in Positions
      BY DEF TypeOK, RingTypeOK
    <3> QED
      BY <2>4, <3>1, <3>2, <3>3, <3>4, RingAssumption DEF Positions
  <2>6. Slot(ts_count)' = Slot(n + 1)
    BY <1>1, <2>2 DEF Slot
  <2>7. StaleCount' = StaleCount /\ StaleCount \in 0 .. RingSize - 1
    BY <1>1, StaleWraps DEF StaleCount, TypeOK, RingTypeOK
  <2> QED
    BY <1>1, <2>4, <2>5, <2>6, <2>7, CapacityAssumption DEF PositionsAgree
<1>5. SlotsClean'
  <2>1. ASSUME NEW k \in 0 .. RingSize - 1, k # ts_count
        PROVE  Cell(k)' = Cell(k)
    BY <1>1, <1>2, <2>1, CellWrite
  <2>2. ready' = ready
    BY DEF ChainFrame
  <2>3. ASSUME ready
        PROVE  ts_count' > 0 /\ Cell(0)'.events = <<>>
    <3>1. ts_count > 0 /\ 0 \in 0 .. RingSize - 1
      BY <2>3, RingAssumption DEF SlotsClean
    <3> QED
      BY <1>1, <2>1, <2>3, <3>1, CapacityAssumption DEF SlotsClean
  <2>4. ASSUME NEW k \in ts_count' + 1 .. RingSize - 1
        PROVE  Cell(k)'.events = <<>>
    <3>1. k \in 0 .. RingSize - 1 /\ k \in ts_count + 1 .. RingSize - 1
      BY <1>1, <2>4, CapacityAssumption, RingAssumption
    <3>2. k # ts_count
      BY <1>1, <3>1, CapacityAssumption
    <3> QED
      BY <2>1, <3>1, <3>2 DEF SlotsClean
  <2> QED
    BY <2>2, <2>3, <2>4 DEF SlotsClean
<1> QED
  BY <1>3, <1>4, <1>5

LEMMA SinkEventRing ==
  ASSUME RingInv, SinkEvent
  PROVE  RingInv'
<1> USE DEF RingInv
<1> DEFINE c == [time |-> ts_array[ts_in_pos].time,
                 events |-> Append(ts_array[ts_in_pos].events, arrived + 1)]
<1>1. /\ UNCHANGED <<ts_in_pos, ts_out_pos, ts_push_pos, ts_count>>
      /\ ts_count \in 0 .. Capacity
      /\ arrived + 1 \in Nat
      /\ ready' = ready
  BY CapacityAssumption DEF TypeOK, RingTypeOK, SinkEvent, StoreEvent
<1>2. c \in Item /\ ts_array' = [ts_array EXCEPT ![ts_in_pos] = c]
  BY <1>1, StoreEventWrites DEF TypeOK, RingTypeOK, SinkEvent
<1>3. TypeOK'
  <2>1. ts_array' \in [Positions -> Item]
    BY <1>2 DEF TypeOK, RingTypeOK
  <2>2. arrived' \in 0 .. MaxArrivals /\ mark' \in 0 .. arrived'
    BY CapacityAssumption DEF TypeOK, RingTypeOK, SinkEvent
  <2> QED
    BY <1>1, <2>1, <2>2 DEF TypeOK, RingTypeOK, SinkEvent
<1>4. PositionsAgree'
  BY <1>1 DEF PositionsAgree, Slot, StaleCount
<1>5. SlotsClean'
  <2>1. ASSUME NEW k \in 0 .. RingSize - 1, k # ts_count
        PROVE  Cell(k)' = Cell(k)
    BY <1>1, <1>2, <2>1, CellWrite
  <2>2. ASSUME ready
        PROVE  ts_count' > 0 /\ Cell(0)'.events = <<>>
    <3>1. ts_count > 0 /\ 0 \in 0 .. RingSize - 1
      BY <2>2, RingAssumption DEF SlotsClean
    <3> QED
      BY <1>1, <2>1, <2>2, <3>1, CapacityAssumption DEF SlotsClean
  <2>3. ASSUME NEW k \in ts_count + 1 .. RingSize - 1
        PROVE  Cell(k)'.events = <<>>
    <3>1. k \in 0 .. RingSize - 1 /\ k # ts_count
      BY <1>1, <2>3, CapacityAssumption, RingAssumption
    <3> QED
      BY <2>1, <2>3, <3>1 DEF SlotsClean
  <2> QED
    BY <1>1, <2>2, <2>3 DEF SlotsClean
<1> QED
  BY <1>3, <1>4, <1>5

LEMMA FlushStopRing ==
  ASSUME RingInv, FlushStop
  PROVE  RingInv'
<1> USE DEF RingInv
<1> DEFINE c == [time |-> ts_array[ts_in_pos].time, events |-> <<>>]
<1>1. /\ UNCHANGED <<ts_in_pos, ts_out_pos, ts_count, arrived>>
      /\ ts_push_pos' = ts_in_pos
      /\ ts_count \in 0 .. Capacity
      /\ ready' = FALSE
      /\ mark' = arrived
      /\ down' = <<>>
  BY DEF TypeOK, RingTypeOK, FlushStop, MarkFlush
<1>2. c \in Item /\ ts_array' = [ts_array EXCEPT ![ts_in_pos] = c]
  BY MarkFlushWrites DEF TypeOK, RingTypeOK, FlushStop
<1>3. TypeOK'
  <2>1. ts_array' \in [Positions -> Item]
    BY <1>2 DEF TypeOK, RingTypeOK
  <2>2. mark' \in 0 .. arrived' /\ down' \in Seq(Nat)
    BY <1>1, CapacityAssumption DEF TypeOK, RingTypeOK
  <2> QED
    BY <1>1, <2>1, <2>2 DEF TypeOK, RingTypeOK
<1>4. PositionsAgree'
  <2>1. StaleCount' = ts_count
    BY StaleMarked DEF FlushStop
  <2>2. ts_in_pos' = Slot(ts_count)'
    BY <1>1 DEF PositionsAgree, Slot
  <2> QED
    BY <1>1, <2>1, <2>2, CapacityAssumption DEF PositionsAgree
<1>5. SlotsClean'
  <2>1. ASSUME NEW k \in ts_count + 1 .. RingSize - 1
        PROVE  Cell(k)'.events = <<>>
    <3>1. k \in 0 .. RingSize - 1 /\ k # ts_count
      BY <1>1, <2>1, CapacityAssumption, RingAssumption
    <3> QED
      BY <1>1, <1>2, <2>1, <3>1, CellWrite DEF SlotsClean
  <2> QED
    BY <1>1, <2>1 DEF SlotsClean
<1> QED
  BY <1>3, <1>4, <1>5

LEMMA PushEventsRing ==
  ASSUME RingInv, PushEvents
  PROVE  RingInv'
<1> USE DEF RingInv
<1>1. /\ UNCHANGED <<ts_in_pos, ts_out_pos, ts_push_pos, ts_count, arrived, mark>>
      /\ ts_count \in 0 .. Capacity
      /\ ready' \in BOOLEAN
      /\ ready' => ts_count > 0
  BY DEF TypeOK, RingTypeOK, PushEvents, ClearEvents
<1>2. ASSUME NEW k \in 0 .. RingSize - 1
      PROVE  /\ k = 0 => Cell(k)'.events = <<>>
             /\ k # 0 => Cell(k)' = Cell(k)
  BY CellClear DEF PushEvents
<1>3. TypeOK'
  <2> DEFINE i == ts_array[ts_out_pos]
  <2>1. i \in [time : Nat, events : Seq(Nat)]
    BY DEF TypeOK, RingTypeOK, Item
  <2>2. [i EXCEPT !.events = <<>>] \in Item
    BY <2>1, ItemEmptied DEF Item
  <2>3. ts_array' \in [Positions -> Item]
    BY <2>2 DEF TypeOK, RingTypeOK, PushEvents, ClearEvents
  <2>4. down' \in Seq(Nat)
    BY <2>1 DEF TypeOK, RingTypeOK, PushEvents, EventsToPush
  <2> QED
    BY <1>1, <2>3, <2>4 DEF TypeOK, RingTypeOK
<1>4. PositionsAgree'
  BY <1>1 DEF PositionsAgree, Slot, StaleCount
<1>5. SlotsClean'
  <2>1. 0 \in 0 .. RingSize - 1
    BY RingAssumption
  <2>2. Cell(0)'.events = <<>>
    BY <1>2, <2>1
  <2>3. ASSUME NEW k \in ts_count + 1 .. RingSize - 1
        PROVE  Cell(k)'.events = <<>>
    <3>1. k \in 0 .. RingSize - 1 /\ k # 0
      BY <1>1, <2>3, CapacityAssumption, RingAssumption
    <3> QED
      BY <1>2, <2>3, <3>1 DEF SlotsClean
  <2> QED
    BY <1>1, <2>2, <2>3 DEF SlotsClean
<1> QED
  BY <1>3, <1>4, <1>5

LEMMA StopRing ==
  ASSUME RingInv, Stop
  PROVE  RingInv'
<1> USE DEF RingInv
<1>1. 0 \in Positions /\ 0 \in 0 .. RingSize - 1
  BY RingAssumption DEF Positions
<1>2. /\ ts_in_pos' = 0 /\ ts_out_pos' = 0 /\ ts_push_pos' = 0
      /\ ts_count' = 0 /\ ready' = FALSE
      /\ UNCHANGED <<arrived, mark, down>>
  BY DEF Stop, ResetRing
<1>3. ASSUME NEW i \in Positions
      PROVE  ts_array'[i] \in Item /\ ts_array'[i].events = <<>>
  <2>1. ts_array[i] \in Item
    BY DEF TypeOK, RingTypeOK
  <2>2. ts_array'[i] = [ts_array[i] EXCEPT !.events = <<>>]
    BY DEF Stop, ResetRing
  <2> QED
    BY <2>1, <2>2, ItemEmptied
<1>4. TypeOK'
  <2>1. ts_array' \in [Positions -> Item]
    BY <1>3 DEF Stop, ResetRing
  <2> QED
    BY <1>1, <1>2, <2>1, CapacityAssumption DEF TypeOK, RingTypeOK
<1>5. PositionsAgree'
  <2>1. Slot(ts_count)' = 0
    <3>1. Slot(ts_count)' = (0 + 0) % RingSize
      BY <1>2 DEF Slot
    <3> QED
      BY <3>1, ModBelow, RingAssumption
  <2>2. StaleCount' = 0
    <3>1. StaleCount' = (0 + RingSize - 0) % RingSize
      BY <1>2 DEF StaleCount
    <3> QED
      BY <1>1, <3>1, StaleValue
  <2> QED
    BY <1>2, <2>1, <2>2 DEF PositionsAgree
<1>6. SlotsClean'
  <2>1. ASSUME NEW k \in ts_count' + 1 .. RingSize - 1
        PROVE  Cell(k)'.events = <<>>
    <3>1. k \in 0 .. RingSize
      BY <1>2, <2>1, RingAssumption
    <3>2. Slot(k)' = (0 + k) % RingSize
      BY <1>2 DEF Slot
    <3>3. Slot(k)' \in Positions
      BY <1>2, <2>1, <3>1, <3>2, ModBelow, RingAssumption DEF Positions
    <3> QED
      BY <1>3, <3>3 DEF Cell
  <2> QED
    BY <1>2, <2>1 DEF SlotsClean
<1> QED
  BY <1>4, <1>5, <1>6

LEMMA RingStep == RingInv /\ [Next]_vars => RingInv'
<1> SUFFICES ASSUME RingInv, [Next]_vars PROVE RingInv'
  OBVIOUS
<1>1. CASE ChainFrame
  BY <1>1, ChainFrameRing
<1>2. CASE SinkEvent
  BY <1>2, SinkEventRing
<1>3. CASE FlushStop
  BY <1>3, FlushStopRing
<1>4. CASE PushEvents
  BY <1>4, PushEventsRing
<1>5. CASE Push
  <2>1. Cell(0).time \in Nat /\ FrameTime = Cell(0).time
    <3>1. 0 \in 0 .. RingSize - 1
      BY RingAssumption
    <3>2. Slot(0) = ts_out_pos
      BY <3>1, SlotWraps, RingAssumption DEF RingInv, TypeOK, RingTypeOK, Positions
    <3> QED
      BY <3>1, <3>2, CellType DEF RingInv, Item, Cell, FrameTime
  <2>2. down' \in Seq(Nat)
    BY <1>5, <2>1 DEF Push, RingInv, TypeOK, RingTypeOK
  <2> QED
    BY <1>5, <2>2, AdvanceRing DEF Push, TakeFrame
<1>6. CASE Skip
  <2>1. down' \in Seq(Nat)
    BY <1>6 DEF Skip, RingInv, TypeOK, RingTypeOK
  <2>2. \/ Flushing /\ UNCHANGED ts_push_pos
        \/ ts_push_pos' = NextPos(ts_out_pos)
    BY <1>6 DEF Skip, SkipFrame
  <2> QED
    BY <1>6, <2>1, <2>2, AdvanceRing DEF Skip, SkipFrame
<1>7. CASE Drop
  <2>1. down' \in Seq(Nat)
    BY <1>7 DEF Drop, RingInv, TypeOK, RingTypeOK
  <2> QED
    BY <1>7, <2>1, AdvanceRing DEF Drop, DropFrame
<1>8. CASE Leave
  BY <1>8 DEF Leave, ringVars, RingInv, TypeOK, RingTypeOK, PositionsAgree, Slot,
              StaleCount, SlotsClean, Cell
<1>9. CASE Stop
  BY <1>9, StopRing
<1>10. CASE UNCHANGED vars
  BY <1>10 DEF vars, ringVars, RingInv, TypeOK, RingTypeOK, PositionsAgree, Slot,
               StaleCount, SlotsClean, Cell
<1> QED
  BY <1>1, <1>2, <1>3, <1>4, <1>5, <1>6, <1>7, <1>8, <1>9, <1>10 DEF Next

LEMMA RingAlways == Spec => []RingInv
BY RingStart, RingStep, PTL DEF Spec

(* The positions stay inside the array and ts_count between 0 and the      *)
(* number of frames that can be in flight: no path of output_loop counts a *)
(* frame down that pad_chain did not count up.                             *)
THEOREM RingTypeCorrect == Spec => []TypeOK
<1>1. RingInv => TypeOK
  BY DEF RingInv
<1> QED
  BY <1>1, RingAlways, PTL

(* ts_count is the distance between the positions, and the frames a flush  *)
(* made stale are always among those in flight.                            *)
THEOREM RingPositionsAgree == Spec => []PositionsAgree
<1>1. RingInv => PositionsAgree
  BY DEF RingInv
<1> QED
  BY <1>1, RingAlways, PTL
-----------------------------------------------------------------------------
(* The ring implements the queue of frames: the array, the three positions   *)
(* and the wrapping cannot be told from an unbounded queue, provided fewer   *)
(* frames are in flight than the ring has slots.                             *)

(* The queue that the ring stands for. *)
Pending == [k \in 1 .. ts_count |-> Cell(k - 1)]

-----------------------------------------------------------------------------
(* Sequences given by their length and their elements. *)
LEMMA FunctionIsSequence ==
  ASSUME NEW S, NEW n \in Nat, NEW f \in [1 .. n -> S]
  PROVE  f \in Seq(S) /\ Len(f) = n /\ \A i \in 1 .. n : f[i] \in S
OBVIOUS

LEMMA AppendByElements ==
  ASSUME NEW S, NEW p \in Seq(S), NEW q \in Seq(S), NEW x \in S,
         Len(q) = Len(p) + 1, q[Len(p) + 1] = x,
         \A i \in 1 .. Len(p) : q[i] = p[i]
  PROVE  q = Append(p, x)
OBVIOUS

LEMMA TailByElements ==
  ASSUME NEW S, NEW p \in Seq(S), NEW q \in Seq(S),
         p # <<>>, Len(q) = Len(p) - 1,
         \A i \in 1 .. Len(q) : q[i] = p[i + 1]
  PROVE  q = Tail(p)
OBVIOUS

LEMMA WrapsInside ==
  ASSUME NEW p \in Positions, NEW d \in 0 .. RingSize - 1,
         NEW s, s = (p + d) % RingSize
  PROVE  s \in Positions
<1>1. d \in 0 .. RingSize
  BY RingAssumption
<1>2. /\ p + d < RingSize => s = p + d
      /\ p + d >= RingSize => s = p + d - RingSize
  BY <1>1, Wraps
<1> QED
  BY <1>2, RingAssumption DEF Positions

LEMMA PendingNow ==
  ASSUME TypeOK
  PROVE  /\ Pending \in Seq(Item) /\ Len(Pending) = ts_count
         /\ ts_count \in Nat /\ ts_count < RingSize
         /\ \A i \in 1 .. ts_count : Pending[i] = Cell(i - 1) /\ i - 1 \in 0 .. RingSize - 1
<1>1. ts_count \in Nat /\ ts_count < RingSize
  BY CapacityAssumption, RingAssumption DEF TypeOK, RingTypeOK
<1>2. \A i \in 1 .. ts_count : i - 1 \in 0 .. RingSize - 1
  BY <1>1, RingAssumption
<1>3. \A i \in 1 .. ts_count : Cell(i - 1) \in Item
  BY <1>2, CellType
<1>4. Pending \in [1 .. ts_count -> Item]
  BY <1>3 DEF Pending
<1>5. \A i \in 1 .. ts_count : Pending[i] = Cell(i - 1)
  BY DEF Pending
<1> QED
  BY <1>1, <1>2, <1>4, <1>5, FunctionIsSequence

(* The same after a step. *)
LEMMA PendingThen ==
  ASSUME TypeOK'
  PROVE  /\ Pending' \in Seq(Item) /\ Len(Pending') = ts_count'
         /\ ts_count' \in Nat /\ ts_count' < RingSize
         /\ \A i \in 1 .. ts_count' : Pending'[i] = Cell(i - 1)'
<1>1. ts_count' \in Nat /\ ts_count' < RingSize
  BY CapacityAssumption, RingAssumption DEF TypeOK, RingTypeOK
<1>2. ASSUME NEW i \in 1 .. ts_count'
      PROVE  Cell(i - 1)' \in Item
  <2>1. i - 1 \in 0 .. RingSize
    BY <1>1, RingAssumption
  <2>2. Slot(i - 1)' = (ts_out_pos' + (i - 1)) % RingSize
    BY DEF Slot
  <2>3. Slot(i - 1)' \in Positions
    <3>1. PICK d \in 0 .. RingSize - 1 : d = i - 1
      BY <1>1, RingAssumption
    <3>2. d \in 0 .. RingSize /\ ts_out_pos' \in Positions
      BY <3>1, RingAssumption DEF TypeOK, RingTypeOK
    <3>3. Slot(i - 1)' = (ts_out_pos' + d) % RingSize
      BY <2>2, <3>1
    <3> QED
      BY <3>2, <3>3, WrapsInside
  <2> QED
    BY <2>3 DEF TypeOK, RingTypeOK, Cell
<1>3. Pending' \in [1 .. ts_count' -> Item]
  BY <1>2 DEF Pending
<1>4. \A i \in 1 .. ts_count' : Pending'[i] = Cell(i - 1)'
  BY DEF Pending
<1> QED
  BY <1>1, <1>3, <1>4, FunctionIsSequence

(* A frame is appended when it comes after those in flight; the queue      *)
(* loses its head when every slot moves one closer.                        *)
LEMMA PendingKept ==
  ASSUME TypeOK, TypeOK', ts_count' = ts_count,
         \A k \in 0 .. ts_count - 1 : Cell(k)' = Cell(k)
  PROVE  Pending' = Pending
BY DEF Pending, TypeOK, RingTypeOK

LEMMA PendingLessHead ==
  ASSUME TypeOK, TypeOK', Advance, ts_count > 0
  PROVE  Pending' = Tail(Pending) /\ Pending # <<>>
<1>1. /\ Pending \in Seq(Item) /\ Len(Pending) = ts_count
      /\ ts_count \in Nat /\ ts_count < RingSize
      /\ \A i \in 1 .. ts_count : Pending[i] = Cell(i - 1)
  BY PendingNow
<1>2. /\ Pending' \in Seq(Item) /\ Len(Pending') = ts_count'
      /\ \A i \in 1 .. ts_count' : Pending'[i] = Cell(i - 1)'
  BY PendingThen
<1>3. ts_count' = ts_count - 1
  BY DEF Advance
<1>4. ASSUME NEW i \in 1 .. ts_count'
      PROVE  Pending'[i] = Pending[i + 1]
  <2>1. PICK k \in 0 .. RingSize - 2 : k = i - 1
    BY <1>1, <1>3, RingAssumption
  <2>2. k \in 0 .. RingSize - 1 /\ k < RingSize - 1
    BY RingAssumption
  <2>3. Cell(k)' = Cell(k + 1)
    BY <2>2, CellShift
  <2>4. Pending'[i] = Cell(k)'
    BY <1>2, <2>1
  <2>5. i + 1 \in 1 .. ts_count /\ (i + 1) - 1 = k + 1
    BY <1>1, <1>3, <2>1
  <2>6. Pending[i + 1] = Cell(k + 1)
    BY <1>1, <2>5
  <2> QED
    BY <2>3, <2>4, <2>6
<1>5. Pending # <<>>
  BY <1>1
<1> QED
  BY <1>1, <1>2, <1>3, <1>4, <1>5, TailByElements

(* What the consumer looks at, and the events that wait for a frame. *)
LEMMA HeadAndOpen ==
  ASSUME TypeOK, PositionsAgree
  PROVE  /\ Cell(0) = ts_array[ts_out_pos]
         /\ Cell(ts_count) = ts_array[ts_in_pos]
         /\ ts_count = 0 <=> Pending = <<>>
         /\ ts_count > 0 => Head(Pending) = Cell(0)
<1>1. Slot(0) = ts_out_pos
  BY SlotWraps, RingAssumption, 0 \in 0 .. RingSize - 1 DEF TypeOK, RingTypeOK, Positions
<1>2. ts_count = 0 <=> Pending = <<>>
  BY PendingNow
<1>3. ASSUME ts_count > 0
      PROVE  Head(Pending) = Cell(0)
  <2>1. 1 \in 1 .. ts_count /\ 1 - 1 = 0
    BY <1>3, PendingNow
  <2>2. Pending[1] = Cell(0)
    BY <2>1, PendingNow
  <2> QED
    BY <1>3, <2>2, PendingNow
<1> QED
  BY <1>1, <1>2, <1>3 DEF PositionsAgree, Cell

-----------------------------------------------------------------------------
LEMMA QueueStart == Init => Queue!Init
<1> SUFFICES ASSUME Init PROVE Queue!Init
  OBVIOUS
<1>1. /\ ts_count = 0 /\ ts_out_pos = 0 /\ ts_push_pos = 0 /\ ts_in_pos = 0
      /\ ready = FALSE /\ down = <<>> /\ 0 \in Positions
  BY RingAssumption DEF Init, RingInit, Positions
<1>2. StaleCount = 0
  BY <1>1, StaleWraps
<1>3. ts_array[ts_in_pos].events = <<>>
  BY <1>1 DEF Init, RingInit
<1>4. [k \in 1 .. ts_count |-> ts_array[Slot(k - 1)]] = <<>>
  BY <1>1
<1> QED
  BY <1>1, <1>2, <1>3, <1>4 DEF Queue!Init

LEMMA ChainFrameIsPut ==
  ASSUME RingInv, RingInv', ChainFrame
  PROVE  Queue!PutFrame
<1> USE DEF RingInv
<1> DEFINE t == arrived + 1
           c == [time |-> t, events |-> ts_array[ts_in_pos].events]
<1>1. /\ ts_count \in 0 .. RingSize - 2
      /\ ts_count' = ts_count + 1
      /\ UNCHANGED <<ts_out_pos, ts_push_pos, ready, down>>
      /\ t \in Nat /\ t \in 1 .. MaxArrivals
  BY CapacityAssumption, RingAssumption DEF TypeOK, RingTypeOK, ChainFrame, StoreFrame
<1>2. c \in Item /\ ts_array' = [ts_array EXCEPT ![ts_in_pos] = c]
  BY <1>1, StoreFrameWrites DEF TypeOK, RingTypeOK, ChainFrame
<1>3. ASSUME NEW k \in 0 .. RingSize - 1
      PROVE  /\ k = ts_count => Cell(k)' = c
             /\ k # ts_count => Cell(k)' = Cell(k)
  BY <1>1, <1>2, CellWrite
<1>4. Pending' = Append(Pending, c)
  <2>1. ASSUME NEW i \in 1 .. ts_count
        PROVE  Pending'[i] = Pending[i]
    <3>1. PICK k \in 0 .. RingSize - 1 : k = i - 1
      BY PendingNow
    <3>2. k # ts_count /\ i \in 1 .. ts_count'
      BY <1>1, <3>1
    <3>3. Pending'[i] = Cell(k)' /\ Pending[i] = Cell(k)
      BY <3>1, <3>2, PendingNow, PendingThen
    <3> QED
      BY <1>3, <3>1, <3>2, <3>3
  <2>2. Pending'[ts_count + 1] = c
    <3>1. PICK k \in 0 .. RingSize - 1 : k = ts_count
      BY <1>1, RingAssumption
    <3>2. k + 1 \in 1 .. ts_count' /\ (k + 1) - 1 = k
      BY <1>1, <3>1
    <3>3. Pending'[k + 1] = Cell(k)'
      BY <3>2, PendingThen
    <3> QED
      BY <1>3, <3>1, <3>3
  <2> HIDE DEF c
  <2> QED
    BY <1>1, <1>2, <2>1, <2>2, PendingNow, PendingThen, AppendByElements
<1>5. ts_array'[ts_in_pos'].events = <<>>
  <2>1. PICK k \in ts_count + 1 .. RingSize - 1 : k = ts_count + 1 /\ k \in 0 .. RingSize - 1
    BY <1>1, RingAssumption
  <2>2. Cell(k).events = <<>> /\ Cell(k)' = Cell(k)
    BY <1>1, <1>3, <2>1 DEF SlotsClean
  <2>3. ts_array'[ts_in_pos'] = Cell(k)'
    BY <1>1, <2>1 DEF PositionsAgree, Slot, Cell
  <2> QED
    BY <2>2, <2>3
<1>6. StaleCount' = StaleCount
  BY <1>1 DEF StaleCount
<1> QED
  BY <1>1, <1>4, <1>5, <1>6 DEF Queue!PutFrame, Pending, Cell

LEMMA SinkEventIsPut ==
  ASSUME RingInv, RingInv', SinkEvent
  PROVE  Queue!PutEvent
<1> USE DEF RingInv
<1> DEFINE e == arrived + 1
           c == [time |-> ts_array[ts_in_pos].time,
                 events |-> Append(ts_array[ts_in_pos].events, e)]
<1>1. /\ ts_count \in 0 .. RingSize - 1
      /\ UNCHANGED <<ts_in_pos, ts_out_pos, ts_push_pos, ts_count, ready, down>>
      /\ e \in Nat /\ e \in 1 .. MaxArrivals
  BY CapacityAssumption, RingAssumption DEF TypeOK, RingTypeOK, SinkEvent, StoreEvent
<1>2. c \in Item /\ ts_array' = [ts_array EXCEPT ![ts_in_pos] = c]
  BY <1>1, StoreEventWrites DEF TypeOK, RingTypeOK, SinkEvent
<1>3. Pending' = Pending
  <2>1. ASSUME NEW k \in 0 .. ts_count - 1
        PROVE  Cell(k)' = Cell(k)
    <3>1. k \in 0 .. RingSize - 1 /\ k # ts_count
      BY <1>1, RingAssumption
    <3> QED
      BY <1>1, <1>2, <3>1, CellWrite
  <2> QED
    BY <1>1, <2>1, PendingKept
<1>4. ts_array'[ts_in_pos'].events = Append(ts_array[ts_in_pos].events, e)
  BY <1>1, <1>2 DEF TypeOK, RingTypeOK
<1>5. StaleCount' = StaleCount
  BY <1>1 DEF StaleCount
<1> QED
  BY <1>1, <1>3, <1>4, <1>5 DEF Queue!PutEvent, Pending, Cell

LEMMA FlushStopIsFlush ==
  ASSUME RingInv, RingInv', FlushStop
  PROVE  Queue!Flush
<1> USE DEF RingInv
<1> DEFINE c == [time |-> ts_array[ts_in_pos].time, events |-> <<>>]
<1>1. /\ ts_count \in 0 .. RingSize - 1
      /\ UNCHANGED <<ts_in_pos, ts_out_pos, ts_count, ready>>
      /\ ~ready /\ down' = <<>>
  BY CapacityAssumption, RingAssumption DEF TypeOK, RingTypeOK, FlushStop, MarkFlush
<1>2. c \in Item /\ ts_array' = [ts_array EXCEPT ![ts_in_pos] = c]
  BY MarkFlushWrites DEF TypeOK, RingTypeOK, FlushStop
<1>3. Pending' = Pending
  <2>1. ASSUME NEW k \in 0 .. ts_count - 1
        PROVE  Cell(k)' = Cell(k)
    <3>1. k \in 0 .. RingSize - 1 /\ k # ts_count
      BY <1>1, RingAssumption
    <3> QED
      BY <1>1, <1>2, <3>1, CellWrite
  <2> QED
    BY <1>1, <2>1, PendingKept
<1>4. ts_array'[ts_in_pos'].events = <<>>
  BY <1>1, <1>2 DEF TypeOK, RingTypeOK
<1>5. StaleCount' = Len(Pending)
  BY StaleMarked, PendingNow DEF FlushStop
<1> QED
  BY <1>1, <1>3, <1>4, <1>5 DEF Queue!Flush, Pending, Cell

LEMMA PushEventsIsBegin ==
  ASSUME RingInv, RingInv', PushEvents
  PROVE  Queue!BeginEmpty \/ Queue!BeginFrame
<1> USE DEF RingInv
<1>1. /\ ts_count \in 0 .. RingSize - 1
      /\ UNCHANGED <<ts_in_pos, ts_out_pos, ts_push_pos, ts_count>>
  BY CapacityAssumption, RingAssumption DEF TypeOK, RingTypeOK, PushEvents, ClearEvents
<1>2. ASSUME NEW k \in 0 .. RingSize - 1
      PROVE  k # 0 => Cell(k)' = Cell(k)
  BY CellClear DEF PushEvents
<1>3. StaleCount' = StaleCount /\ StaleCount \in Nat /\ (Flushing <=> StaleCount > 0)
  BY <1>1, StaleWraps DEF StaleCount, TypeOK, RingTypeOK, Flushing
<1>4. /\ Cell(0) = ts_array[ts_out_pos]
      /\ Cell(ts_count) = ts_array[ts_in_pos]
      /\ ts_count = 0 <=> Pending = <<>>
      /\ ts_count > 0 => Head(Pending) = Cell(0)
  BY HeadAndOpen
<1>5. ts_array'[ts_out_pos] = [ts_array[ts_out_pos] EXCEPT !.events = <<>>]
  BY DEF PushEvents, ClearEvents, TypeOK, RingTypeOK
<1>6. down \o <<>> = down
  BY DEF TypeOK, RingTypeOK
<1>7. CASE ts_count = 0
  <2>1. Pending = <<>> /\ Pending' = <<>>
    BY <1>1, <1>4, <1>7 DEF Pending
  <2>2. ts_array[ts_out_pos] = ts_array[ts_in_pos] /\ ts_in_pos = ts_out_pos
    <3>1. Slot(0) = ts_out_pos
      BY SlotWraps, RingAssumption, 0 \in 0 .. RingSize - 1 DEF TypeOK, RingTypeOK, Positions
    <3> QED
      BY <1>7, <3>1 DEF PositionsAgree
  <2>3. down' = down \o ts_array[ts_in_pos].events
    <3>1. ~Flushing
      BY <1>3, <1>7 DEF PositionsAgree
    <3> QED
      BY <2>2, <3>1 DEF PushEvents, EventsToPush
  <2>4. ts_array'[ts_in_pos'].events = <<>>
    <3>1. ts_array[ts_out_pos] \in Item
      BY DEF TypeOK, RingTypeOK
    <3> QED
      BY <1>1, <1>5, <2>2, <3>1, ItemEmptied
  <2>5. ~ready /\ ready' = ready
    <3>1. ~(ts_count > 0)
      BY <1>7
    <3>2. ~ready /\ ready \in BOOLEAN /\ ready' \in BOOLEAN /\ ~ready'
      BY <3>1, Zenon DEF PushEvents, TypeOK, RingTypeOK
    <3> QED
      BY <3>2, Zenon
  <2> QED
    BY <1>3, <2>1, <2>3, <2>4, <2>5 DEF Queue!BeginEmpty, Pending, Cell
<1>8. CASE ts_count > 0
  <2> DEFINE h == [Cell(0) EXCEPT !.events = <<>>]
  <2>1. /\ Pending \in Seq(Item) /\ Len(Pending) = ts_count /\ Pending # <<>>
        /\ Pending[1] = Cell(0)
    <3>1. 1 \in 1 .. ts_count /\ 1 - 1 = 0
      BY <1>1, <1>8
    <3> QED
      BY <1>4, <1>8, <3>1, PendingNow
  <2>2. Pending' = [Pending EXCEPT ![1] = h]
    <3>1. Pending'[1] = h
      <4>1. PICK k \in 0 .. RingSize - 1 : k = 0 /\ 1 \in 1 .. ts_count' /\ 1 - 1 = k
        BY <1>1, <1>8, RingAssumption
      <4>2. Pending'[1] = Cell(k)'
        BY <4>1, PendingThen
      <4>3. Slot(k)' = ts_out_pos
        <5>1. Slot(k)' = Slot(k)
          BY <1>1, SlotKept
        <5> QED
          BY <4>1, <5>1, SlotWraps, RingAssumption DEF TypeOK, RingTypeOK, Positions
      <4> QED
        BY <1>4, <1>5, <4>2, <4>3 DEF Cell
    <3>2. ASSUME NEW i \in 1 .. ts_count, i # 1
          PROVE  Pending'[i] = Pending[i]
      <4>1. PICK k \in 0 .. RingSize - 1 : k = i - 1
        BY PendingNow
      <4>2. k # 0 /\ i \in 1 .. ts_count'
        BY <1>1, <3>2, <4>1
      <4>3. Pending'[i] = Cell(k)' /\ Pending[i] = Cell(k)
        BY <4>1, <4>2, PendingNow, PendingThen
      <4> QED
        BY <1>2, <4>2, <4>3
    <3> HIDE DEF h
    <3> QED
      BY <1>1, <3>1, <3>2 DEF Pending
  <2>3. ts_array'[ts_in_pos'].events = ts_array[ts_in_pos].events
    <3>1. PICK k \in 0 .. RingSize - 1 : k = ts_count
      BY <1>1, RingAssumption
    <3>2. Cell(k)' = Cell(k) /\ Cell(k) = ts_array[ts_in_pos]
      BY <1>2, <1>4, <1>8, <3>1
    <3>3. ts_array'[ts_in_pos'] = Cell(k)'
      BY <1>1, <3>1 DEF PositionsAgree, Slot, Cell
    <3> QED
      BY <3>2, <3>3
  <2>4. down' = IF StaleCount > 0 THEN down ELSE down \o Head(Pending).events
    BY <1>3, <1>4, <1>6, <1>8 DEF PushEvents, EventsToPush
  <2>5. Pending' = [Pending EXCEPT ![1].events = <<>>]
    BY <2>1, <2>2
  <2>6. ~ready /\ ready' \in BOOLEAN
    BY DEF PushEvents
  <2> QED
    BY <1>3, <2>1, <2>3, <2>4, <2>5, <2>6 DEF Queue!BeginFrame, Pending, Cell
<1> QED
  BY <1>1, <1>7, <1>8

(* The three ways to advance. *)
LEMMA AdvanceTakesHead ==
  ASSUME RingInv, RingInv', ready, Advance
  PROVE  /\ Pending' = Tail(Pending)
         /\ Head(Pending).time = FrameTime
         /\ ts_array'[ts_in_pos'].events = ts_array[ts_in_pos].events
<1>1. ts_count > 0
  BY DEF RingInv, SlotsClean
<1>2. Pending' = Tail(Pending)
  BY <1>1, PendingLessHead DEF RingInv
<1>3. Head(Pending).time = FrameTime
  BY <1>1, HeadAndOpen DEF RingInv, FrameTime
<1> QED
  BY <1>2, <1>3 DEF Advance

LEMMA StopIsReset ==
  ASSUME RingInv, RingInv', Stop
  PROVE  Queue!Reset
<1>1. /\ ts_in_pos' = 0 /\ ts_out_pos' = 0 /\ ts_push_pos' = 0
      /\ ts_count' = 0 /\ ready' = FALSE /\ down' = down
      /\ 0 \in Positions
  BY RingAssumption DEF Stop, ResetRing, Positions
<1>2. StaleCount' = 0
  <2>1. StaleCount' = (0 + RingSize - 0) % RingSize
    BY <1>1 DEF StaleCount
  <2> QED
    BY <1>1, <2>1, StaleValue
<1>3. ts_array'[ts_in_pos'].events = <<>>
  <2>1. ts_array'[0] = [ts_array[0] EXCEPT !.events = <<>>] /\ ts_array[0] \in Item
    BY <1>1 DEF Stop, ResetRing, RingInv, TypeOK, RingTypeOK
  <2> QED
    BY <1>1, <2>1, ItemEmptied
<1>4. Pending' = <<>>
  BY <1>1 DEF Pending
<1> QED
  BY <1>1, <1>2, <1>3, <1>4 DEF Queue!Reset, Pending, Cell

LEMMA QueueStep ==
  ASSUME RingInv, RingInv', [Next]_vars
  PROVE  [Queue!Next]_(Queue!queueVars)
<1> USE DEF Queue!Next
<1>1. CASE ChainFrame
  BY <1>1, ChainFrameIsPut
<1>2. CASE SinkEvent
  BY <1>2, SinkEventIsPut
<1>3. CASE FlushStop
  BY <1>3, FlushStopIsFlush
<1>4. CASE PushEvents
  BY <1>4, PushEventsIsBegin
<1>5. StaleCount \in Nat /\ (Flushing <=> StaleCount > 0)
  BY StaleWraps DEF RingInv, TypeOK, RingTypeOK, Flushing
<1>6. CASE Push
  <2>1. StaleCount = 0
    BY <1>5, <1>6 DEF Push
  <2>2. StaleCount' = 0
    BY <1>6, StaleNone DEF Push, TakeFrame, Advance, RingInv
  <2>3. /\ Pending' = Tail(Pending)
        /\ Head(Pending).time = FrameTime
        /\ ts_array'[ts_in_pos'].events = ts_array[ts_in_pos].events
    BY <1>6, AdvanceTakesHead DEF Push, TakeFrame
  <2> QED
    BY <1>6, <2>1, <2>2, <2>3 DEF Push, Queue!Deliver, Pending, Cell
<1>7. CASE Skip \/ Drop
  <2>1. StaleCount' = IF StaleCount > 0 THEN StaleCount - 1 ELSE 0
    <3>1. CASE Flushing
      BY <1>5, <1>7, <3>1, StaleDropped
         DEF Skip, SkipFrame, Drop, DropFrame, RingInv
    <3>2. CASE ~Flushing
      BY <1>5, <1>7, <3>2, StaleNone DEF Skip, SkipFrame, Drop, Advance, RingInv
    <3> QED
      BY <3>1, <3>2
  <2>2. /\ Pending' = Tail(Pending)
        /\ ts_array'[ts_in_pos'].events = ts_array[ts_in_pos].events
    BY <1>7, AdvanceTakesHead DEF Skip, SkipFrame, Drop, DropFrame
  <2> QED
    BY <1>7, <2>1, <2>2 DEF Skip, Drop, Queue!Discard, Pending, Cell
<1>8. CASE Leave
  BY <1>8 DEF Leave, ringVars, Queue!Leave, Slot, StaleCount
<1>9. CASE Stop
  BY <1>9, StopIsReset
<1>10. CASE UNCHANGED vars
  BY <1>10 DEF vars, ringVars, Queue!queueVars, Slot, StaleCount
<1> QED
  BY <1>1, <1>2, <1>3, <1>4, <1>6, <1>7, <1>8, <1>9, <1>10 DEF Next

(* The ring is a queue: every operation of gstdspbase.c on the ring is one *)
(* of the queue's or changes nothing the queue has.                        *)
THEOREM RingIsQueue == Spec => IsQueue
<1>1. RingInv /\ RingInv' /\ [Next]_vars => [Queue!Next]_(Queue!queueVars)
  BY QueueStep
<1> QED
  BY <1>1, QueueStart, RingAlways, PTL DEF Spec, IsQueue, Queue!Spec

-----------------------------------------------------------------------------
(* The order in which frames and events leave the ring: the invariant says *)
(* of the slots, counted from ts_out_pos, that what they hold is in order, *)
(* newer than what went downstream and, past the stale ones, than the last *)
(* flush.                                                                  *)

(* Increasing sequences stay so when something greater is appended. *)
LEMMA AppendParts ==
  ASSUME NEW s \in Seq(Nat), NEW e \in Nat
  PROVE  /\ Append(s, e) \in Seq(Nat)
         /\ \A i \in DOMAIN Append(s, e) :
              \/ i \in DOMAIN s /\ Append(s, e)[i] = s[i]
              \/ i = Len(s) + 1 /\ Append(s, e)[i] = e
         /\ \A i, j \in DOMAIN Append(s, e) : i < j => i \in DOMAIN s
OBVIOUS

LEMMA AppendIncreasing ==
  ASSUME NEW s \in Seq(Nat), NEW e \in Nat,
         \A i, j \in DOMAIN s : i < j => s[i] < s[j],
         \A i \in DOMAIN s : s[i] < e
  PROVE  \A i, j \in DOMAIN Append(s, e) : i < j => Append(s, e)[i] < Append(s, e)[j]
<1> SUFFICES ASSUME NEW i \in DOMAIN Append(s, e), NEW j \in DOMAIN Append(s, e), i < j
             PROVE  Append(s, e)[i] < Append(s, e)[j]
  OBVIOUS
<1>1. i \in DOMAIN s /\ Append(s, e)[i] = s[i]
  BY AppendParts
<1>2. \/ j \in DOMAIN s /\ Append(s, e)[j] = s[j]
      \/ Append(s, e)[j] = e
  BY AppendParts
<1> QED
  BY <1>1, <1>2

LEMMA ConcatParts ==
  ASSUME NEW s \in Seq(Nat), NEW t \in Seq(Nat)
  PROVE  /\ s \o t \in Seq(Nat)
         /\ \A i \in DOMAIN (s \o t) :
              \/ i \in DOMAIN s /\ (s \o t)[i] = s[i]
              \/ /\ i \notin DOMAIN s /\ i - Len(s) \in DOMAIN t
                 /\ (s \o t)[i] = t[i - Len(s)]
OBVIOUS

LEMMA ConcatIncreasing ==
  ASSUME NEW s \in Seq(Nat), NEW t \in Seq(Nat),
         \A i, j \in DOMAIN s : i < j => s[i] < s[j],
         \A i, j \in DOMAIN t : i < j => t[i] < t[j],
         \A i \in DOMAIN s, j \in DOMAIN t : s[i] < t[j]
  PROVE  \A i, j \in DOMAIN (s \o t) : i < j => (s \o t)[i] < (s \o t)[j]
<1> SUFFICES ASSUME NEW i \in DOMAIN (s \o t), NEW j \in DOMAIN (s \o t), i < j
             PROVE  (s \o t)[i] < (s \o t)[j]
  OBVIOUS
<1>1. i \in Nat /\ j \in Nat /\ Len(s) \in Nat /\ DOMAIN s = 1 .. Len(s)
  OBVIOUS
<1>2. CASE i \in DOMAIN s /\ j \in DOMAIN s
  BY <1>2, ConcatParts
<1>3. CASE i \in DOMAIN s /\ j \notin DOMAIN s
  BY <1>3, ConcatParts
<1>4. CASE i \notin DOMAIN s
  <2>1. j \notin DOMAIN s
    BY <1>1, <1>4
  <2>2. /\ i - Len(s) \in DOMAIN t /\ (s \o t)[i] = t[i - Len(s)]
        /\ j - Len(s) \in DOMAIN t /\ (s \o t)[j] = t[j - Len(s)]
    BY <1>4, <2>1, ConcatParts
  <2>3. i - Len(s) < j - Len(s)
    BY <1>1
  <2> QED
    BY <2>2, <2>3
<1> QED
  BY <1>2, <1>3, <1>4

-----------------------------------------------------------------------------
LEMMA OrderStart == Init => OrderInv
<1> SUFFICES ASSUME Init PROVE OrderInv
  OBVIOUS
<1>1. /\ ts_count = 0 /\ ts_out_pos = 0 /\ ts_push_pos = 0
      /\ arrived = 0 /\ down = <<>> /\ 0 \in Positions
  BY RingAssumption DEF Init, RingInit, Positions
<1>2. StaleCount = 0
  BY <1>1, StaleWraps
<1>3. Cell(0).events = <<>>
  <2>1. Slot(0) \in Positions
    BY <1>1, SlotWraps, RingAssumption
  <2> QED
    BY <2>1 DEF Init, RingInit, Cell
<1>4. \A k \in 0 .. ts_count - 1 : FALSE
  BY <1>1
<1>5. \A k \in 0 .. ts_count : k = 0
  BY <1>1
<1>6. CellsInOrder
  BY <1>3, <1>4, <1>5 DEF CellsInOrder
<1>7. CellsFresh
  BY <1>1, <1>2, <1>3 DEF CellsFresh
<1> QED
  BY <1>1, <1>6, <1>7 DEF OrderInv, NothingStale, InOrder

(* The invariant is used through these facts about single slots. *)
LEMMA CellFacts ==
  ASSUME TypeOK, NEW k \in 0 .. RingSize - 1
  PROVE  Cell(k).time \in Nat /\ Cell(k).events \in Seq(Nat)
BY CellType DEF Item

LEMMA ChainFrameOrder ==
  ASSUME RingInv, OrderInv, ChainFrame
  PROVE  OrderInv'
<1> USE DEF RingInv, OrderInv
<1> DEFINE c == [time |-> arrived + 1, events |-> ts_array[ts_in_pos].events]
<1>1. /\ ts_count \in 0 .. RingSize - 2
      /\ ts_count' = ts_count + 1
      /\ ts_out_pos' = ts_out_pos /\ ts_push_pos' = ts_push_pos
      /\ arrived \in Nat /\ arrived' = arrived + 1
      /\ mark \in Nat /\ mark <= arrived /\ mark' = mark
      /\ down' = down /\ down \in Seq(Nat)
  BY CapacityAssumption, RingAssumption DEF TypeOK, RingTypeOK, ChainFrame, StoreFrame
<1>2. c \in Item /\ ts_array' = [ts_array EXCEPT ![ts_in_pos] = c]
  <2>1. arrived + 1 \in Nat
    BY <1>1
  <2> QED
    BY <2>1, StoreFrameWrites DEF TypeOK, RingTypeOK, ChainFrame
<1>3. ASSUME NEW k \in 0 .. RingSize - 1
      PROVE  /\ k = ts_count => /\ Cell(k)'.time = arrived + 1
                                /\ Cell(k)'.events = Cell(k).events
             /\ k # ts_count => Cell(k)' = Cell(k)
  <2>1. /\ k = ts_count => Cell(k)' = c /\ Cell(k) = ts_array[ts_in_pos]
        /\ k # ts_count => Cell(k)' = Cell(k)
    BY <1>1, <1>2, CellWrite
  <2> QED
    BY <2>1
<1>4. ASSUME NEW k, k = ts_count + 1
      PROVE  Cell(k)'.events = <<>>
  <2>1. k \in 0 .. RingSize - 1 /\ k # ts_count /\ k \in ts_count + 1 .. RingSize - 1
    BY <1>1, <1>4, RingAssumption
  <2> QED
    BY <1>3, <2>1 DEF SlotsClean
<1>5. ASSUME NEW k \in 0 .. ts_count'
      PROVE  /\ k \in 0 .. RingSize - 1 /\ k \in Nat
             /\ k < ts_count => /\ k \in 0 .. ts_count - 1 /\ Cell(k)' = Cell(k)
             /\ k = ts_count \/ k < ts_count \/ k = ts_count + 1
  <2>1. k \in 0 .. RingSize - 1 /\ k \in Nat /\ (k = ts_count \/ k < ts_count \/ k = ts_count + 1)
    BY <1>1, RingAssumption
  <2> QED
    BY <1>1, <1>3, <2>1
<1>6. StaleCount' = StaleCount /\ StaleCount \in Nat
  BY <1>1, StaleWraps DEF StaleCount, TypeOK, RingTypeOK
<1>7. CellsInOrder'
  <2>1. ASSUME NEW k \in 0 .. ts_count' - 1, NEW l \in 0 .. ts_count' - 1, k < l
        PROVE  Cell(k)'.time < Cell(l)'.time
    <3>1. k \in 0 .. ts_count' /\ l \in 0 .. ts_count' /\ k < ts_count /\ l <= ts_count
      BY <1>1, <2>1
    <3>2. k \in 0 .. ts_count - 1 /\ Cell(k)' = Cell(k) /\ Cell(k).time \in Nat
      BY <1>5, <3>1, CellFacts
    <3>3. CASE l < ts_count
      BY <1>5, <2>1, <3>1, <3>2, <3>3 DEF CellsInOrder
    <3>4. CASE l = ts_count
      <4>1. Cell(k).time <= arrived
        BY <3>2 DEF CellsFresh
      <4> QED
        BY <1>1, <1>3, <1>5, <3>1, <3>2, <3>4, <4>1
    <3> QED
      BY <1>1, <3>1, <3>3, <3>4
  <2>2. ASSUME NEW k \in 0 .. ts_count'
        PROVE  \A i, j \in DOMAIN Cell(k)'.events :
                 i < j => Cell(k)'.events[i] < Cell(k)'.events[j]
    <3>1. CASE k = ts_count + 1
      BY <1>4, <3>1
    <3>2. CASE k # ts_count + 1
      <4>1. Cell(k)'.events = Cell(k).events /\ k \in 0 .. ts_count
        BY <1>1, <1>3, <1>5, <2>2, <3>2
      <4> QED
        BY <4>1 DEF CellsInOrder
    <3> QED
      BY <3>1, <3>2
  <2>3. ASSUME NEW k \in 0 .. ts_count' - 1, NEW l \in 0 .. ts_count',
               NEW i \in DOMAIN Cell(l)'.events
        PROVE  /\ k < l => Cell(k)'.time < Cell(l)'.events[i]
               /\ k = l => Cell(l)'.events[i] < Cell(k)'.time
    <3>1. l # ts_count + 1
      BY <1>4, <2>3
    <3>2. Cell(l)'.events = Cell(l).events /\ l \in 0 .. ts_count
      BY <1>1, <1>3, <1>5, <2>3, <3>1
    <3>3. k \in 0 .. ts_count' /\ k \in Nat /\ l \in Nat
      BY <1>1, <2>3
    <3>4. CASE k < ts_count
      BY <1>5, <2>3, <3>2, <3>3, <3>4 DEF CellsInOrder
    <3>5. CASE k = ts_count
      <4>1. ~(k < l)
        BY <1>1, <3>2, <3>5
      <4>2. ASSUME k = l
            PROVE  Cell(l)'.events[i] < Cell(k)'.time
        <5>1. Cell(l).events[i] <= arrived
          BY <2>3, <3>2 DEF CellsFresh
        <5>2. Cell(l).events[i] \in Nat
          BY <1>5, <2>3, <3>2, CellFacts
        <5> QED
          BY <1>1, <1>3, <1>5, <3>2, <3>3, <3>5, <4>2, <5>1, <5>2
      <4> QED
        BY <4>1, <4>2
    <3> QED
      BY <1>1, <2>3, <3>3, <3>4, <3>5
  <2> QED
    BY <2>1, <2>2, <2>3 DEF CellsInOrder
<1>8. CellsFresh'
  <2>1. ASSUME NEW k \in 0 .. ts_count' - 1
        PROVE  /\ Cell(k)'.time <= arrived'
               /\ k >= StaleCount => /\ Cell(k)'.time > mark
                                     /\ \A d \in DOMAIN down : Cell(k)'.time > down[d]
    <3>1. k \in 0 .. ts_count' /\ k \in Nat /\ k <= ts_count
      BY <1>1, <2>1
    <3>2. CASE k < ts_count
      <4>1. k \in 0 .. ts_count - 1 /\ Cell(k)' = Cell(k) /\ Cell(k).time \in Nat
        BY <1>5, <3>1, <3>2, CellFacts
      <4>2. Cell(k).time <= arrived
        BY <4>1 DEF CellsFresh
      <4>3. k >= StaleCount => k \in StaleCount .. ts_count - 1
        BY <1>6, <4>1
      <4> QED
        BY <1>1, <4>1, <4>2, <4>3 DEF CellsFresh
    <3>3. CASE k = ts_count
      <4>1. Cell(k)'.time = arrived + 1
        BY <1>3, <1>5, <3>1, <3>3
      <4>2. \A d \in DOMAIN down : down[d] <= arrived /\ down[d] \in Nat
        BY <1>1 DEF CellsFresh
      <4> QED
        BY <1>1, <4>1, <4>2
    <3> QED
      BY <1>1, <3>1, <3>2, <3>3
  <2>2. ASSUME NEW k \in 0 .. ts_count', NEW i \in DOMAIN Cell(k)'.events
        PROVE  /\ Cell(k)'.events[i] <= arrived'
               /\ k >= StaleCount => /\ Cell(k)'.events[i] > mark
                                     /\ \A d \in DOMAIN down : Cell(k)'.events[i] > down[d]
    <3>1. k # ts_count + 1
      BY <1>4, <2>2
    <3>2. Cell(k)'.events = Cell(k).events /\ k \in 0 .. ts_count
      BY <1>1, <1>3, <1>5, <2>2, <3>1
    <3>3. Cell(k).events[i] \in Nat /\ Cell(k).events[i] <= arrived
      BY <1>5, <2>2, <3>2, CellFacts DEF CellsFresh
    <3>4. k >= StaleCount => k \in StaleCount .. ts_count
      BY <1>6, <3>2
    <3> QED
      BY <1>1, <2>2, <3>2, <3>3, <3>4 DEF CellsFresh
  <2>3. \A d \in DOMAIN down : down[d] <= arrived /\ down[d] \in Nat
    BY <1>1 DEF CellsFresh
  <2>4. StaleCount' > 0 => down' = <<>>
    BY <1>1, <1>6 DEF CellsFresh
  <2>5. \A d \in DOMAIN down' : down'[d] <= arrived'
    BY <1>1, <2>3
  <2>6. /\ \A k \in StaleCount' .. ts_count' - 1 : k \in 0 .. ts_count' - 1 /\ k >= StaleCount
        /\ \A k \in StaleCount' .. ts_count' : k \in 0 .. ts_count' /\ k >= StaleCount
    BY <1>1, <1>6
  <2> QED
    BY <1>1, <2>1, <2>2, <2>4, <2>5, <2>6 DEF CellsFresh
<1>9. NothingStale' /\ InOrder'
  BY <1>1 DEF NothingStale, InOrder
<1> QED
  BY <1>7, <1>8, <1>9

LEMMA SinkEventOrder ==
  ASSUME RingInv, OrderInv, SinkEvent
  PROVE  OrderInv'
<1> USE DEF RingInv, OrderInv
<1> DEFINE c == [time |-> ts_array[ts_in_pos].time,
                 events |-> Append(ts_array[ts_in_pos].events, arrived + 1)]
<1>1. /\ ts_count \in 0 .. RingSize - 1
      /\ UNCHANGED <<ts_in_pos, ts_out_pos, ts_push_pos, ts_count, mark, down>>
      /\ arrived \in Nat /\ arrived + 1 \in Nat /\ arrived' = arrived + 1
      /\ mark \in Nat /\ mark <= arrived
      /\ down \in Seq(Nat)
  BY CapacityAssumption, RingAssumption DEF TypeOK, RingTypeOK, SinkEvent, StoreEvent
<1>2. c \in Item /\ ts_array' = [ts_array EXCEPT ![ts_in_pos] = c]
  BY <1>1, StoreEventWrites DEF TypeOK, RingTypeOK, SinkEvent
<1>3. ASSUME NEW k \in 0 .. RingSize - 1
      PROVE  /\ Cell(k)'.time = Cell(k).time
             /\ k = ts_count => Cell(k)'.events = Append(Cell(k).events, arrived + 1)
             /\ k # ts_count => Cell(k)' = Cell(k)
  <2>1. /\ k = ts_count => Cell(k)' = c /\ Cell(k) = ts_array[ts_in_pos]
        /\ k # ts_count => Cell(k)' = Cell(k)
    BY <1>1, <1>2, CellWrite
  <2> QED
    BY <2>1
<1>4. \A k \in 0 .. ts_count : k \in 0 .. RingSize - 1 /\ k \in Nat
  BY <1>1, RingAssumption
<1>5. StaleCount' = StaleCount /\ StaleCount \in Nat
  BY <1>1, StaleWraps DEF StaleCount, TypeOK, RingTypeOK
<1>6. ASSUME NEW k \in 0 .. ts_count, NEW i \in DOMAIN Cell(k)'.events
      PROVE  \/ /\ i \in DOMAIN Cell(k).events
                /\ Cell(k)'.events[i] = Cell(k).events[i]
                /\ Cell(k).events[i] \in Nat
             \/ k = ts_count /\ Cell(k)'.events[i] = arrived + 1
  <2>1. Cell(k).events \in Seq(Nat)
    BY <1>4, CellFacts
  <2>2. CASE k = ts_count
    <3> DEFINE s == Cell(k).events
    <3>1. Cell(k)'.events = Append(s, arrived + 1)
      BY <1>3, <1>4, <2>2
    <3>2. s \in Seq(Nat) /\ \A j \in DOMAIN s : s[j] \in Nat
      BY <2>1
    <3>3. \A j \in DOMAIN Append(s, arrived + 1) :
            \/ j \in DOMAIN s /\ Append(s, arrived + 1)[j] = s[j]
            \/ Append(s, arrived + 1)[j] = arrived + 1
      BY <1>1, <2>1, AppendParts
    <3> HIDE DEF s
    <3>4. \/ i \in DOMAIN s /\ Cell(k)'.events[i] = s[i]
          \/ Cell(k)'.events[i] = arrived + 1
      BY <1>6, <3>1, <3>3
    <3> QED
      BY <2>2, <3>2, <3>4 DEF s
  <2>3. CASE k # ts_count
    BY <1>3, <1>4, <1>6, <2>1, <2>3
  <2> QED
    BY <2>2, <2>3
<1>7. CellsInOrder'
  <2>1. ASSUME NEW k \in 0 .. ts_count - 1, NEW l \in 0 .. ts_count - 1, k < l
        PROVE  Cell(k)'.time < Cell(l)'.time
    <3>1. k \in 0 .. ts_count /\ l \in 0 .. ts_count
      BY <1>1
    <3> QED
      BY <1>3, <1>4, <2>1, <3>1 DEF CellsInOrder
  <2>2. ASSUME NEW k \in 0 .. ts_count
        PROVE  \A i, j \in DOMAIN Cell(k)'.events :
                 i < j => Cell(k)'.events[i] < Cell(k)'.events[j]
    <3>1. Cell(k).events \in Seq(Nat)
      BY <1>4, CellFacts
    <3>2. \A i, j \in DOMAIN Cell(k).events :
            i < j => Cell(k).events[i] < Cell(k).events[j]
      BY DEF CellsInOrder
    <3>3. CASE k = ts_count
      <4>1. \A i \in DOMAIN Cell(k).events : Cell(k).events[i] < arrived + 1
        BY <1>1, <3>1 DEF CellsFresh
      <4> QED
        BY <1>1, <1>3, <1>4, <3>1, <3>2, <3>3, <4>1, AppendIncreasing
    <3>4. CASE k # ts_count
      BY <1>3, <1>4, <3>2, <3>4
    <3> QED
      BY <3>3, <3>4
  <2>3. ASSUME NEW k \in 0 .. ts_count - 1, NEW l \in 0 .. ts_count,
               NEW i \in DOMAIN Cell(l)'.events
        PROVE  /\ k < l => Cell(k)'.time < Cell(l)'.events[i]
               /\ k = l => Cell(l)'.events[i] < Cell(k)'.time
    <3>1. k \in 0 .. ts_count /\ k \in Nat /\ l \in Nat /\ k # ts_count
      BY <1>1
    <3>2. Cell(k)'.time = Cell(k).time /\ Cell(k).time \in Nat /\ Cell(k).time <= arrived
      BY <1>3, <1>4, <3>1, CellFacts DEF CellsFresh
    <3>3. CASE i \in DOMAIN Cell(l).events /\ Cell(l)'.events[i] = Cell(l).events[i]
      BY <3>2, <3>3 DEF CellsInOrder
    <3>4. CASE l = ts_count /\ Cell(l)'.events[i] = arrived + 1
      BY <1>1, <3>1, <3>2, <3>4
    <3> QED
      BY <1>6, <3>3, <3>4
  <2> QED
    BY <1>1, <2>1, <2>2, <2>3 DEF CellsInOrder
<1>8. CellsFresh'
  <2>1. ASSUME NEW k \in 0 .. ts_count - 1
        PROVE  /\ Cell(k)'.time = Cell(k).time
               /\ Cell(k).time \in Nat
               /\ Cell(k).time <= arrived
    <3>1. k \in 0 .. ts_count
      BY <1>1
    <3> QED
      BY <1>3, <1>4, <3>1, CellFacts DEF CellsFresh
  <2>2. ASSUME NEW k \in 0 .. ts_count, NEW i \in DOMAIN Cell(k)'.events
        PROVE  /\ Cell(k)'.events[i] <= arrived'
               /\ k >= StaleCount => /\ Cell(k)'.events[i] > mark
                                     /\ \A d \in DOMAIN down : Cell(k)'.events[i] > down[d]
    <3>1. CASE /\ i \in DOMAIN Cell(k).events
               /\ Cell(k)'.events[i] = Cell(k).events[i]
               /\ Cell(k).events[i] \in Nat
      <4>1. Cell(k).events[i] <= arrived
        BY <3>1 DEF CellsFresh
      <4>2. k >= StaleCount => k \in StaleCount .. ts_count
        BY <1>1, <1>5
      <4> QED
        BY <1>1, <3>1, <4>1, <4>2 DEF CellsFresh
    <3>2. CASE Cell(k)'.events[i] = arrived + 1
      <4>1. \A d \in DOMAIN down : down[d] <= arrived /\ down[d] \in Nat
        BY <1>1 DEF CellsFresh
      <4> QED
        BY <1>1, <3>2, <4>1
    <3> QED
      BY <1>6, <3>1, <3>2
  <2>3. \A d \in DOMAIN down : down[d] <= arrived /\ down[d] \in Nat
    BY <1>1 DEF CellsFresh
  <2>4. \A d \in DOMAIN down : down[d] <= arrived + 1
    BY <1>1, <2>3
  <2>5. StaleCount' > 0 => down' = <<>>
    BY <1>1, <1>5 DEF CellsFresh
  <2>6. /\ \A k \in StaleCount .. ts_count - 1 : k \in 0 .. ts_count - 1
        /\ \A k \in StaleCount .. ts_count : k \in 0 .. ts_count /\ k >= StaleCount
    BY <1>1, <1>5
  <2>7. \A k \in 0 .. ts_count - 1 : Cell(k)'.time <= arrived + 1
    BY <1>1, <2>1
  <2>8. \A k \in StaleCount .. ts_count - 1 :
          /\ Cell(k)'.time > mark
          /\ \A d \in DOMAIN down : Cell(k)'.time > down[d]
    BY <2>1, <2>6 DEF CellsFresh
  <2> QED
    BY <1>1, <1>5, <2>2, <2>4, <2>5, <2>6, <2>7, <2>8 DEF CellsFresh
<1>9. NothingStale' /\ InOrder'
  BY <1>1 DEF NothingStale, InOrder
<1> QED
  BY <1>7, <1>8, <1>9

LEMMA FlushStopOrder ==
  ASSUME RingInv, OrderInv, FlushStop
  PROVE  OrderInv'
<1> USE DEF RingInv, OrderInv
<1> DEFINE c == [time |-> ts_array[ts_in_pos].time, events |-> <<>>]
<1>1. /\ ts_count \in 0 .. RingSize - 1
      /\ UNCHANGED <<ts_in_pos, ts_out_pos, ts_count, arrived>>
      /\ ts_push_pos' = ts_in_pos
      /\ mark' = arrived /\ down' = <<>>
  BY CapacityAssumption, RingAssumption DEF TypeOK, RingTypeOK, FlushStop, MarkFlush
<1>2. c \in Item /\ ts_array' = [ts_array EXCEPT ![ts_in_pos] = c]
  BY MarkFlushWrites DEF TypeOK, RingTypeOK, FlushStop
<1>3. ASSUME NEW k \in 0 .. ts_count
      PROVE  /\ Cell(k)'.time = Cell(k).time
             /\ k = ts_count => Cell(k)'.events = <<>>
             /\ k # ts_count => Cell(k)' = Cell(k)
  <2>1. k \in 0 .. RingSize - 1
    BY <1>1, RingAssumption
  <2>2. /\ k = ts_count => Cell(k)' = c /\ Cell(k) = ts_array[ts_in_pos]
        /\ k # ts_count => Cell(k)' = Cell(k)
    BY <1>1, <1>2, <2>1, CellWrite
  <2> QED
    BY <2>2
<1>4. StaleCount' = ts_count
  BY StaleMarked DEF FlushStop
<1>5. \A k \in 0 .. ts_count - 1 : k \in 0 .. ts_count
  BY <1>1
<1>6. CellsInOrder'
  <2>1. ASSUME NEW k \in 0 .. ts_count - 1, NEW l \in 0 .. ts_count - 1, k < l
        PROVE  Cell(k)'.time < Cell(l)'.time
    BY <1>3, <1>5, <2>1 DEF CellsInOrder
  <2>2. ASSUME NEW k \in 0 .. ts_count
        PROVE  \A i, j \in DOMAIN Cell(k)'.events :
                 i < j => Cell(k)'.events[i] < Cell(k)'.events[j]
    <3>1. CASE k = ts_count
      BY <1>3, <3>1
    <3>2. CASE k # ts_count
      BY <1>3, <3>2 DEF CellsInOrder
    <3> QED
      BY <3>1, <3>2
  <2>3. ASSUME NEW k \in 0 .. ts_count - 1, NEW l \in 0 .. ts_count,
               NEW i \in DOMAIN Cell(l)'.events
        PROVE  /\ k < l => Cell(k)'.time < Cell(l)'.events[i]
               /\ k = l => Cell(l)'.events[i] < Cell(k)'.time
    <3>1. l # ts_count
      BY <1>3, <2>3
    <3> QED
      BY <1>3, <1>5, <2>3, <3>1 DEF CellsInOrder
  <2> QED
    BY <1>1, <2>1, <2>2, <2>3 DEF CellsInOrder
<1>7. CellsFresh'
  <2>1. \A k \in 0 .. ts_count - 1 : Cell(k)'.time <= arrived
    BY <1>3, <1>5 DEF CellsFresh
  <2>2. \A k \in 0 .. ts_count : \A i \in DOMAIN Cell(k)'.events :
          k # ts_count /\ Cell(k)'.events[i] <= arrived
    <3> SUFFICES ASSUME NEW k \in 0 .. ts_count, NEW i \in DOMAIN Cell(k)'.events
                 PROVE  k # ts_count /\ Cell(k)'.events[i] <= arrived
      OBVIOUS
    <3>1. k # ts_count
      BY <1>3
    <3> QED
      BY <1>3, <3>1 DEF CellsFresh
  <2>3. /\ \A k \in StaleCount' .. ts_count' - 1 : FALSE
        /\ \A k \in StaleCount' .. ts_count' : k = ts_count /\ k \in 0 .. ts_count
    BY <1>1, <1>4
  <2> QED
    BY <1>1, <2>1, <2>2, <2>3 DEF CellsFresh
<1>8. NothingStale' /\ InOrder'
  BY <1>1 DEF NothingStale, InOrder
<1> QED
  BY <1>6, <1>7, <1>8

LEMMA PushEventsOrder ==
  ASSUME RingInv, OrderInv, PushEvents
  PROVE  OrderInv'
<1> USE DEF RingInv, OrderInv
<1>1. /\ ts_count \in 0 .. RingSize - 1
      /\ UNCHANGED <<ts_out_pos, ts_push_pos, ts_count, arrived, mark>>
      /\ arrived \in Nat /\ mark \in Nat /\ down \in Seq(Nat)
  BY CapacityAssumption, RingAssumption DEF TypeOK, RingTypeOK, PushEvents, ClearEvents
<1>2. ASSUME NEW k \in 0 .. ts_count
      PROVE  /\ Cell(k)'.time = Cell(k).time
             /\ Cell(k).time \in Nat
             /\ Cell(k).events \in Seq(Nat)
             /\ k = 0 => Cell(k)'.events = <<>>
             /\ k # 0 => Cell(k)' = Cell(k)
  <2>1. k \in 0 .. RingSize - 1
    BY <1>1, RingAssumption
  <2> QED
    BY <2>1, CellClear, CellFacts DEF PushEvents
<1>3. StaleCount' = StaleCount /\ StaleCount \in Nat
  BY <1>1, StaleWraps DEF StaleCount, TypeOK, RingTypeOK
<1>4. 0 \in 0 .. ts_count /\ \A k \in 0 .. ts_count - 1 : k \in 0 .. ts_count
  BY <1>1
<1>5. CellsInOrder'
  <2>1. ASSUME NEW k \in 0 .. ts_count - 1, NEW l \in 0 .. ts_count - 1, k < l
        PROVE  Cell(k)'.time < Cell(l)'.time
    BY <1>2, <1>4, <2>1 DEF CellsInOrder
  <2>2. ASSUME NEW k \in 0 .. ts_count
        PROVE  \A i, j \in DOMAIN Cell(k)'.events :
                 i < j => Cell(k)'.events[i] < Cell(k)'.events[j]
    <3>1. CASE k = 0
      BY <1>2, <3>1
    <3>2. CASE k # 0
      BY <1>2, <3>2 DEF CellsInOrder
    <3> QED
      BY <3>1, <3>2
  <2>3. ASSUME NEW k \in 0 .. ts_count - 1, NEW l \in 0 .. ts_count,
               NEW i \in DOMAIN Cell(l)'.events
        PROVE  /\ k < l => Cell(k)'.time < Cell(l)'.events[i]
               /\ k = l => Cell(l)'.events[i] < Cell(k)'.time
    <3>1. l # 0
      BY <1>2, <2>3
    <3> QED
      BY <1>2, <1>4, <2>3, <3>1 DEF CellsInOrder
  <2> QED
    BY <1>1, <2>1, <2>2, <2>3 DEF CellsInOrder
<1>6. \A k \in 0 .. ts_count : \A i \in DOMAIN Cell(k)'.events :
        /\ k # 0
        /\ i \in DOMAIN Cell(k).events
        /\ Cell(k)'.events[i] = Cell(k).events[i]
  <2> SUFFICES ASSUME NEW k \in 0 .. ts_count, NEW i \in DOMAIN Cell(k)'.events
               PROVE  /\ k # 0
                      /\ i \in DOMAIN Cell(k).events
                      /\ Cell(k)'.events[i] = Cell(k).events[i]
    OBVIOUS
  <2>1. k # 0
    BY <1>2
  <2> QED
    BY <1>2, <2>1
<1>7. CASE down' = down
  <2>1. NothingStale' /\ InOrder'
    BY <1>1, <1>7 DEF NothingStale, InOrder
  <2>2. CellsFresh'
    <3>1. \A k \in 0 .. ts_count - 1 : Cell(k)'.time = Cell(k).time
      BY <1>2, <1>4
    <3>2. /\ \A k \in StaleCount .. ts_count - 1 : k \in 0 .. ts_count - 1
          /\ \A k \in StaleCount .. ts_count : k \in 0 .. ts_count
      BY <1>1, <1>3
    <3>3. /\ \A k \in 0 .. ts_count - 1 : Cell(k)'.time <= arrived
          /\ \A k \in StaleCount .. ts_count - 1 :
               /\ Cell(k)'.time > mark
               /\ \A d \in DOMAIN down : Cell(k)'.time > down[d]
      BY <3>1, <3>2 DEF CellsFresh
    <3>4. /\ \A k \in 0 .. ts_count : \A i \in DOMAIN Cell(k)'.events :
               Cell(k)'.events[i] <= arrived
          /\ \A k \in StaleCount .. ts_count : \A i \in DOMAIN Cell(k)'.events :
               /\ Cell(k)'.events[i] > mark
               /\ \A d \in DOMAIN down : Cell(k)'.events[i] > down[d]
      BY <1>6, <3>2 DEF CellsFresh
    <3> QED
      BY <1>1, <1>3, <1>7, <3>3, <3>4 DEF CellsFresh
  <2> QED
    BY <1>5, <2>1, <2>2
<1>8. CASE ~Flushing
  <2> DEFINE e == Cell(0).events
  <2>1. StaleCount = 0 /\ down' = down \o e /\ e \in Seq(Nat)
    <3>1. Slot(0) = ts_out_pos
      BY SlotWraps, RingAssumption, 0 \in 0 .. RingSize - 1 DEF TypeOK, RingTypeOK, Positions
    <3> QED
      BY <1>2, <1>4, <1>8, <3>1, StaleWraps
         DEF TypeOK, RingTypeOK, Flushing, PushEvents, EventsToPush, Cell
  <2>2. /\ \A i, j \in DOMAIN e : i < j => e[i] < e[j]
        /\ \A i \in DOMAIN e : /\ e[i] \in Nat /\ e[i] <= arrived /\ e[i] > mark
                               /\ \A d \in DOMAIN down : down[d] < e[i]
    <3>1. \A i, j \in DOMAIN e : i < j => e[i] < e[j]
      BY <1>4 DEF CellsInOrder
    <3>2. 0 \in StaleCount .. ts_count
      BY <1>1, <2>1
    <3>3. ASSUME NEW i \in DOMAIN e
          PROVE  /\ e[i] \in Nat /\ e[i] <= arrived /\ e[i] > mark
                 /\ \A d \in DOMAIN down : down[d] < e[i]
      <4>1. e[i] \in Nat /\ e[i] <= arrived
        BY <1>4, <2>1 DEF CellsFresh
      <4>2. \A d \in DOMAIN down : down[d] \in Nat
        BY <1>1
      <4> QED
        BY <1>1, <3>2, <4>1, <4>2 DEF CellsFresh
    <3> QED
      BY <3>1, <3>3
  <2>3. \A d \in DOMAIN down : down[d] \in Nat /\ down[d] <= arrived /\ down[d] > mark
    BY <1>1 DEF CellsFresh, NothingStale
  <2>4. \A d \in DOMAIN down' :
          \/ d \in DOMAIN down /\ down'[d] = down[d]
          \/ \E i \in DOMAIN e : down'[d] = e[i]
    <3> HIDE DEF e
    <3> QED
      BY <1>1, <2>1, ConcatParts
  <2>5. NothingStale'
    BY <1>1, <2>2, <2>3, <2>4 DEF NothingStale
  <2>6. InOrder'
    <3>1. \A i, j \in DOMAIN down : i < j => down[i] < down[j]
      BY DEF InOrder
    <3> HIDE DEF e
    <3>2. \A i, j \in DOMAIN (down \o e) : i < j => (down \o e)[i] < (down \o e)[j]
      BY <1>1, <2>1, <2>2, <3>1, ConcatIncreasing
    <3> QED
      BY <2>1, <3>2 DEF InOrder
  <2>7. ASSUME NEW k \in 0 .. ts_count - 1
        PROVE  /\ Cell(k)'.time <= arrived
               /\ Cell(k)'.time > mark
               /\ \A d \in DOMAIN down' : Cell(k)'.time > down'[d]
    <3>1. /\ Cell(k)'.time = Cell(k).time /\ Cell(k).time \in Nat
          /\ Cell(k).time <= arrived /\ Cell(k).time > mark
          /\ \A d \in DOMAIN down : Cell(k).time > down[d]
      <4>1. k \in StaleCount .. ts_count - 1
        BY <2>1
      <4> QED
        BY <1>2, <1>4, <4>1 DEF CellsFresh
    <3>2. \A i \in DOMAIN e : e[i] < Cell(k).time
      <4>1. 0 \in 0 .. ts_count - 1 /\ k \in Nat
        BY <1>1
      <4>2. \A i \in DOMAIN e : e[i] < Cell(0).time
        BY <1>4, <4>1 DEF CellsInOrder
      <4>3. k = 0 \/ Cell(0).time < Cell(k).time
        BY <4>1 DEF CellsInOrder
      <4> QED
        BY <1>2, <1>4, <2>2, <3>1, <4>2, <4>3
    <3>3. \A i \in DOMAIN e : e[i] \in Nat
      BY <2>2
    <3> HIDE DEF e
    <3> QED
      BY <2>3, <2>4, <3>1, <3>2, <3>3
  <2>8. ASSUME NEW k \in 0 .. ts_count, NEW i \in DOMAIN Cell(k)'.events
        PROVE  /\ Cell(k)'.events[i] <= arrived
               /\ Cell(k)'.events[i] > mark
               /\ \A d \in DOMAIN down' : Cell(k)'.events[i] > down'[d]
    <3> DEFINE x == Cell(k).events[i]
    <3>1. k # 0 /\ i \in DOMAIN Cell(k).events /\ Cell(k)'.events[i] = x
      BY <1>6
    <3>2. x \in Nat /\ x <= arrived /\ x > mark /\ \A d \in DOMAIN down : x > down[d]
      <4>1. k \in StaleCount .. ts_count
        BY <2>1
      <4> QED
        BY <1>2, <3>1, <4>1 DEF CellsFresh
    <3>3. \A j \in DOMAIN e : e[j] < x
      <4>1. 0 \in 0 .. ts_count - 1 /\ 0 < k
        BY <1>1, <3>1
      <4>2. Cell(0).time < x
        BY <3>1, <4>1 DEF CellsInOrder
      <4>3. \A j \in DOMAIN e : e[j] < Cell(0).time
        BY <1>4, <4>1 DEF CellsInOrder
      <4>4. Cell(0).time \in Nat
        BY <1>2, <1>4
      <4> QED
        BY <2>2, <3>2, <4>2, <4>3, <4>4
    <3>4. \A j \in DOMAIN e : e[j] \in Nat
      BY <2>2
    <3> HIDE DEF e, x
    <3> QED
      BY <2>3, <2>4, <3>1, <3>2, <3>3, <3>4
  <2>9. CellsFresh'
    <3>1. \A d \in DOMAIN down' : down'[d] <= arrived
      BY <2>2, <2>3, <2>4
    <3>2. /\ StaleCount' = 0
          /\ StaleCount' .. ts_count' - 1 = 0 .. ts_count - 1
          /\ StaleCount' .. ts_count' = 0 .. ts_count
      BY <1>1, <1>3, <2>1
    <3> QED
      BY <1>1, <2>7, <2>8, <3>1, <3>2 DEF CellsFresh
  <2> QED
    BY <1>5, <2>5, <2>6, <2>9
<1>9. Flushing => down' = down
  <2>1. Flushing => down' = down \o <<>>
    BY DEF PushEvents, EventsToPush
  <2> QED
    BY <1>1, <2>1
<1> QED
  BY <1>7, <1>8, <1>9

(* The three ways to advance: a stale frame is left behind, or there was   *)
(* none and the frame is skipped or goes downstream with its time.         *)
LEMMA AdvanceOrder ==
  ASSUME RingInv, OrderInv, ready, Advance, UNCHANGED <<arrived, mark>>,
         \/ StaleCount > 0 /\ StaleCount' = StaleCount - 1 /\ down' = down
         \/ /\ StaleCount = 0 /\ StaleCount' = 0
            /\ down' = down \/ down' = Append(down, Cell(0).time)
  PROVE  OrderInv'
<1> USE DEF RingInv, OrderInv
<1>1. /\ ts_count \in 1 .. RingSize - 1 /\ ts_count' = ts_count - 1
      /\ arrived \in Nat /\ mark \in Nat /\ down \in Seq(Nat)
      /\ arrived' = arrived /\ mark' = mark
  BY CapacityAssumption, RingAssumption DEF TypeOK, RingTypeOK, SlotsClean, Advance
<1>2. ASSUME NEW k \in 0 .. ts_count'
      PROVE  /\ k + 1 \in 1 .. ts_count
             /\ Cell(k)' = Cell(k + 1)
             /\ Cell(k + 1).time \in Nat
             /\ Cell(k + 1).events \in Seq(Nat)
  <2>1. k \in 0 .. RingSize - 1 /\ k < RingSize - 1 /\ k + 1 \in 0 .. RingSize - 1
    BY <1>1, RingAssumption
  <2>2. k + 1 \in 1 .. ts_count
    BY <1>1
  <2>3. Cell(k)' = Cell(k + 1)
    BY <2>1, CellShift
  <2>4. Cell(k + 1).time \in Nat /\ Cell(k + 1).events \in Seq(Nat)
    BY <2>1, CellFacts
  <2> QED
    BY <2>2, <2>3, <2>4
<1>3. \A k \in 0 .. ts_count' - 1 :
        k \in 0 .. ts_count' /\ k + 1 \in 0 .. ts_count - 1 /\ k + 1 > 0
  BY <1>1
<1>4. \A k \in 0 .. ts_count' : k + 1 \in 0 .. ts_count /\ k + 1 > 0
  BY <1>1
<1>5. CellsInOrder'
  <2>1. ASSUME NEW k \in 0 .. ts_count' - 1, NEW l \in 0 .. ts_count' - 1, k < l
        PROVE  Cell(k)'.time < Cell(l)'.time
    <3>1. k + 1 < l + 1
      BY <1>1, <2>1
    <3> QED
      BY <1>2, <1>3, <3>1 DEF CellsInOrder
  <2>2. ASSUME NEW k \in 0 .. ts_count'
        PROVE  \A i, j \in DOMAIN Cell(k)'.events :
                 i < j => Cell(k)'.events[i] < Cell(k)'.events[j]
    BY <1>2, <1>4 DEF CellsInOrder
  <2>3. ASSUME NEW k \in 0 .. ts_count' - 1, NEW l \in 0 .. ts_count',
               NEW i \in DOMAIN Cell(l)'.events
        PROVE  /\ k < l => Cell(k)'.time < Cell(l)'.events[i]
               /\ k = l => Cell(l)'.events[i] < Cell(k)'.time
    <3>1. (k < l <=> k + 1 < l + 1) /\ (k = l <=> k + 1 = l + 1)
      BY <1>1
    <3>2. i \in DOMAIN Cell(l + 1).events
      BY <1>2
    <3>3. /\ k + 1 < l + 1 => Cell(k + 1).time < Cell(l + 1).events[i]
          /\ k + 1 = l + 1 => Cell(l + 1).events[i] < Cell(k + 1).time
      BY <1>3, <1>4, <3>2 DEF CellsInOrder
    <3> QED
      BY <1>2, <1>3, <3>1, <3>3
  <2> QED
    BY <2>1, <2>2, <2>3 DEF CellsInOrder
<1>6. /\ StaleCount \in Nat /\ StaleCount' \in Nat
      /\ \A k \in StaleCount' .. ts_count' - 1 :
           k \in 0 .. ts_count' - 1 /\ k + 1 \in StaleCount .. ts_count - 1
      /\ \A k \in StaleCount' .. ts_count' :
           k \in 0 .. ts_count' /\ k + 1 \in StaleCount .. ts_count
  <2>1. StaleCount \in Nat
    BY StaleWraps DEF TypeOK, RingTypeOK
  <2> QED
    BY <1>1, <2>1
<1>7. /\ \A d \in DOMAIN down' :
           \/ d \in DOMAIN down /\ down'[d] = down[d]
           \/ StaleCount = 0 /\ down'[d] = Cell(0).time
      /\ Cell(0).time \in Nat
      /\ 0 \in 0 .. ts_count - 1
      /\ StaleCount = 0 => 0 \in StaleCount .. ts_count - 1
  <2>1. 0 \in 0 .. RingSize - 1 /\ 0 \in 0 .. ts_count - 1
    BY <1>1, RingAssumption
  <2>2. Cell(0).time \in Nat
    BY <2>1, CellFacts
  <2>3. CASE down' = down
    BY <1>1, <2>1, <2>2, <2>3
  <2>4. CASE StaleCount = 0 /\ down' = Append(down, Cell(0).time)
    BY <1>1, <2>1, <2>2, <2>4, AppendParts
  <2> QED
    BY <2>3, <2>4
<1>8. \A d \in DOMAIN down : /\ down[d] \in Nat /\ down[d] <= arrived
                             /\ down[d] > mark
                             /\ StaleCount = 0 => down[d] < Cell(0).time
  BY <1>1, <1>7 DEF CellsFresh, NothingStale
<1>9. /\ Cell(0).time <= arrived
      /\ StaleCount = 0 => Cell(0).time > mark
  BY <1>1, <1>7 DEF CellsFresh
<1>10. NothingStale'
  BY <1>1, <1>7, <1>8, <1>9 DEF NothingStale
<1>11. InOrder'
  <2>1. \A i, j \in DOMAIN down : i < j => down[i] < down[j]
    BY DEF InOrder
  <2>2. CASE down' = down
    BY <2>1, <2>2 DEF InOrder
  <2>3. CASE StaleCount = 0 /\ down' = Append(down, Cell(0).time)
    <3> DEFINE t == Cell(0).time
    <3>1. t \in Nat /\ \A d \in DOMAIN down : down[d] < t
      BY <1>7, <1>8, <2>3
    <3>2. down' = Append(down, t)
      BY <2>3
    <3> HIDE DEF t
    <3>3. \A i, j \in DOMAIN Append(down, t) :
            i < j => Append(down, t)[i] < Append(down, t)[j]
      BY <1>1, <2>1, <3>1, AppendIncreasing
    <3> QED
      BY <3>2, <3>3 DEF InOrder
  <2> QED
    BY <2>2, <2>3
<1>12. CellsFresh'
  <2>1. \A k \in 0 .. ts_count' - 1 : Cell(k)'.time <= arrived
    BY <1>2, <1>3 DEF CellsFresh
  <2>2. \A k \in 0 .. ts_count' : \A i \in DOMAIN Cell(k)'.events :
          Cell(k)'.events[i] <= arrived
    BY <1>2, <1>4 DEF CellsFresh
  <2>3. ASSUME NEW k \in StaleCount' .. ts_count' - 1
        PROVE  /\ Cell(k)'.time > mark
               /\ \A d \in DOMAIN down' : Cell(k)'.time > down'[d]
    <3> DEFINE x == Cell(k + 1).time
    <3>1. Cell(k)'.time = x /\ x \in Nat
      BY <1>2, <1>3, <1>6
    <3>2. x > mark /\ \A d \in DOMAIN down : x > down[d]
      BY <1>6 DEF CellsFresh
    <3>3. x > Cell(0).time
      BY <1>3, <1>6, <1>7 DEF CellsInOrder
    <3> HIDE DEF x
    <3> QED
      BY <1>7, <3>1, <3>2, <3>3
  <2>4. ASSUME NEW k \in StaleCount' .. ts_count', NEW i \in DOMAIN Cell(k)'.events
        PROVE  /\ Cell(k)'.events[i] > mark
               /\ \A d \in DOMAIN down' : Cell(k)'.events[i] > down'[d]
    <3> DEFINE x == Cell(k + 1).events[i]
    <3>1. Cell(k)'.events[i] = x /\ i \in DOMAIN Cell(k + 1).events /\ x \in Nat
      BY <1>2, <1>6
    <3>2. x > mark /\ \A d \in DOMAIN down : x > down[d]
      BY <1>6, <3>1 DEF CellsFresh
    <3>3. x > Cell(0).time
      BY <1>4, <1>6, <1>7, <3>1 DEF CellsInOrder
    <3> HIDE DEF x
    <3> QED
      BY <1>7, <3>1, <3>2, <3>3
  <2>5. \A d \in DOMAIN down' : down'[d] <= arrived
    BY <1>7, <1>8, <1>9
  <2>6. StaleCount' > 0 => down' = <<>>
    BY <1>6 DEF CellsFresh
  <2> QED
    BY <1>1, <2>1, <2>2, <2>3, <2>4, <2>5, <2>6 DEF CellsFresh
<1> QED
  BY <1>5, <1>10, <1>11, <1>12

LEMMA StopOrder ==
  ASSUME RingInv, OrderInv, Stop
  PROVE  OrderInv'
<1> USE DEF RingInv, OrderInv
<1>1. /\ ts_out_pos' = 0 /\ ts_push_pos' = 0 /\ ts_count' = 0
      /\ arrived' = arrived /\ mark' = mark /\ down' = down
      /\ 0 \in Positions
  BY RingAssumption DEF Stop, ResetRing, Positions
<1>2. StaleCount' = 0
  <2>1. StaleCount' = (0 + RingSize - 0) % RingSize
    BY <1>1 DEF StaleCount
  <2> QED
    BY <1>1, <2>1, StaleValue
<1>3. ASSUME NEW k, k = 0
      PROVE  Cell(k)'.events = <<>>
  <2>1. Slot(k)' = (0 + 0) % RingSize
    BY <1>1, <1>3 DEF Slot
  <2>2. Slot(k)' = 0
    BY <2>1, ModBelow, RingAssumption
  <2>3. ts_array'[0] = [ts_array[0] EXCEPT !.events = <<>>] /\ ts_array[0] \in Item
    BY <1>1 DEF Stop, ResetRing, TypeOK, RingTypeOK
  <2> QED
    BY <2>2, <2>3, ItemEmptied DEF Cell
<1>4. /\ \A k \in 0 .. ts_count' - 1 : FALSE
      /\ \A k \in 0 .. ts_count' : k = 0
      /\ \A k \in StaleCount' .. ts_count' - 1 : FALSE
      /\ \A k \in StaleCount' .. ts_count' : k = 0
  BY <1>1, <1>2
<1>5. CellsInOrder'
  BY <1>3, <1>4 DEF CellsInOrder
<1>6. CellsFresh'
  <2>1. \A d \in DOMAIN down : down[d] <= arrived
    BY DEF CellsFresh
  <2> QED
    BY <1>1, <1>2, <1>3, <1>4, <2>1 DEF CellsFresh
<1> QED
  BY <1>1, <1>5, <1>6 DEF NothingStale, InOrder

LEMMA OrderStep == RingInv /\ OrderInv /\ [Next]_vars => OrderInv'
<1> SUFFICES ASSUME RingInv, OrderInv, [Next]_vars PROVE OrderInv'
  OBVIOUS
<1>1. Flushing <=> StaleCount > 0
  BY StaleWraps, RingAssumption DEF RingInv, TypeOK, RingTypeOK, Flushing
<1>2. StaleCount \in Nat
  BY StaleWraps DEF RingInv, TypeOK, RingTypeOK
<1>3. CASE ChainFrame
  BY <1>3, ChainFrameOrder
<1>4. CASE SinkEvent
  BY <1>4, SinkEventOrder
<1>5. CASE FlushStop
  BY <1>5, FlushStopOrder
<1>6. CASE PushEvents
  BY <1>6, PushEventsOrder
<1>7. CASE Push
  <2>1. StaleCount = 0 /\ StaleCount' = 0
    BY <1>1, <1>2, <1>7, StaleNone DEF Push, TakeFrame, Advance, RingInv
  <2>2. FrameTime = Cell(0).time
    BY SlotWraps, RingAssumption, 0 \in 0 .. RingSize - 1
       DEF RingInv, TypeOK, RingTypeOK, Positions, FrameTime, Cell
  <2> QED
    BY <1>7, <2>1, <2>2, AdvanceOrder DEF Push, TakeFrame
<1>8. CASE Skip
  <2>1. CASE Flushing
    BY <1>1, <1>8, <2>1, StaleDropped, AdvanceOrder DEF Skip, SkipFrame, RingInv
  <2>2. CASE ~Flushing
    <3>1. StaleCount = 0 /\ StaleCount' = 0
      BY <1>1, <1>2, <1>8, <2>2, StaleNone DEF Skip, SkipFrame, Advance, RingInv
    <3> QED
      BY <1>8, <3>1, AdvanceOrder DEF Skip, SkipFrame
  <2> QED
    BY <2>1, <2>2
<1>9. CASE Drop
  BY <1>1, <1>9, StaleDropped, AdvanceOrder DEF Drop, DropFrame, RingInv
<1>10. CASE Stop
  BY <1>10, StopOrder
<1>11. CASE Leave \/ UNCHANGED vars
  <2>1. UNCHANGED <<ringVars, arrived, mark, down>>
    BY <1>11 DEF Leave, vars
  <2> QED
    BY <2>1 DEF ringVars, OrderInv, CellsInOrder, CellsFresh, NothingStale,
                InOrder, Cell, Slot, StaleCount
<1> QED
  BY <1>3, <1>4, <1>5, <1>6, <1>7, <1>8, <1>9, <1>10, <1>11 DEF Next

LEMMA OrderAlways == Spec => []OrderInv
<1>1. RingInv /\ OrderInv /\ [Next]_vars => RingInv' /\ OrderInv'
  BY RingStep, OrderStep
<1> QED
  BY <1>1, RingStart, OrderStart, PTL DEF Spec

-----------------------------------------------------------------------------
(* After a FLUSH_STOP nothing of before it goes downstream, although the   *)
(* DSP still returns the frames it had and the ring still holds their      *)
(* times and events: moving ts_push_pos is enough.                         *)
THEOREM RingNothingStale == Spec => []NothingStale
<1>1. OrderInv => NothingStale
  BY DEF OrderInv
<1> QED
  BY <1>1, OrderAlways, PTL

(* What goes downstream between two flushes is in the order of arrival:    *)
(* each frame with its own time, and each event between the same frames,   *)
(* whatever was skipped, left for later or stopped in between.             *)
THEOREM RingInOrder == Spec => []InOrder
<1>1. OrderInv => InOrder
  BY DEF OrderInv
<1> QED
  BY <1>1, OrderAlways, PTL
-----------------------------------------------------------------------------
(* The times of the frames that no flush has made stale, and what each     *)
(* operation makes of them                                                 *)
FreshTimes == {Cell(k).time : k \in StaleCount .. ts_count - 1}

LEMMA RingBounds ==
  ASSUME RingInv
  PROVE  /\ ts_count \in Nat /\ ts_count < RingSize /\ StaleCount \in Nat
         /\ StaleCount <= ts_count /\ RingSize \in Nat
         /\ \A k \in StaleCount .. ts_count : k \in 0 .. RingSize - 1
<1>1. StaleCount \in 0 .. RingSize - 1 /\ StaleCount <= ts_count /\ ts_count \in 0 .. Capacity
  BY StaleWraps DEF RingInv, TypeOK, RingTypeOK, PositionsAgree
<1> QED
  BY <1>1, RingAssumption, CapacityAssumption

LEMMA StaleKept ==
  ASSUME UNCHANGED <<ts_out_pos, ts_push_pos>>
  PROVE  StaleCount' = StaleCount
BY DEF StaleCount

(* The slots that are read keep their times. *)
LEMMA FreshKept ==
  ASSUME RingInv, UNCHANGED <<ts_out_pos, ts_push_pos, ts_count>>,
         \A k \in 0 .. RingSize - 1 : Cell(k)'.time = Cell(k).time
  PROVE  FreshTimes' = FreshTimes /\ StaleCount' = StaleCount
BY RingBounds, StaleKept DEF FreshTimes

LEMMA FreshEvents ==
  ASSUME RingInv, NEW e \in Nat, StoreEvent(e) \/ ClearEvents
  PROVE  FreshTimes' = FreshTimes /\ StaleCount' = StaleCount
<1>1. UNCHANGED <<ts_out_pos, ts_push_pos, ts_count>>
  BY DEF StoreEvent, ClearEvents
<1>2. CASE ClearEvents
  BY <1>1, <1>2, CellClear, FreshKept DEF RingInv
<1>3. CASE StoreEvent(e)
  <2> DEFINE c == [time |-> ts_array[ts_in_pos].time,
                   events |-> Append(ts_array[ts_in_pos].events, e)]
  <2>2. c.time = ts_array[ts_in_pos].time
    OBVIOUS
  <2>3. c \in Item /\ ts_array' = [ts_array EXCEPT ![ts_in_pos] = c]
    BY <1>3, StoreEventWrites DEF RingInv, TypeOK
  <2> HIDE DEF c
  <2>4. ASSUME NEW k \in 0 .. RingSize - 1
        PROVE  Cell(k)'.time = Cell(k).time
    <3>1. /\ k = ts_count => Cell(k)' = c /\ Cell(k) = ts_array[ts_in_pos]
          /\ k # ts_count => Cell(k)' = Cell(k)
      BY <1>1, <2>3, CellWrite DEF RingInv
    <3> QED
      BY <2>2, <3>1
  <2> QED
    BY <1>1, <2>4, FreshKept
<1> QED
  BY <1>2, <1>3

LEMMA FreshStored ==
  ASSUME RingInv, NEW t \in Nat, StoreFrame(t)
  PROVE  FreshTimes' = FreshTimes \cup {t} /\ StaleCount' = StaleCount
<1>1. UNCHANGED <<ts_out_pos, ts_push_pos>> /\ ts_count' = ts_count + 1
  BY DEF StoreFrame
<1>2. StaleCount' = StaleCount
  BY <1>1, StaleKept
<1>3. ASSUME NEW k \in 0 .. RingSize - 1
      PROVE  /\ k = ts_count => Cell(k)'.time = t
             /\ k # ts_count => Cell(k)'.time = Cell(k).time
  <2> DEFINE c == [time |-> t, events |-> ts_array[ts_in_pos].events]
  <2>1. c \in Item /\ ts_array' = [ts_array EXCEPT ![ts_in_pos] = c]
    BY StoreFrameWrites DEF RingInv, TypeOK, RingTypeOK
  <2>2. c.time = t
    OBVIOUS
  <2> HIDE DEF c
  <2>3. /\ k = ts_count => Cell(k)' = c /\ Cell(k) = ts_array[ts_in_pos]
        /\ k # ts_count => Cell(k)' = Cell(k)
    BY <1>1, <2>1, CellWrite DEF RingInv
  <2> QED
    BY <2>2, <2>3
<1>4. FreshTimes' = {Cell(k)'.time : k \in StaleCount .. ts_count}
  BY <1>1, <1>2, RingBounds DEF FreshTimes
<1>5. /\ StaleCount .. ts_count = (StaleCount .. ts_count - 1) \cup {ts_count}
      /\ \A k \in StaleCount .. ts_count - 1 : k # ts_count
  BY RingBounds
<1>6. \A k \in StaleCount .. ts_count - 1 : Cell(k)'.time = Cell(k).time
  BY <1>3, <1>5, RingBounds
<1>7. ASSUME NEW k, k = ts_count
      PROVE  Cell(k)'.time = t
  <2>1. k \in 0 .. RingSize - 1
    BY <1>7, RingBounds
  <2> QED
    BY <1>3, <1>7, <2>1
<1>8. \E k \in StaleCount .. ts_count : k = ts_count
  BY RingBounds
<1>9. ASSUME NEW x PROVE x \in FreshTimes' <=> x \in FreshTimes \/ x = t
  BY <1>4, <1>5, <1>6, <1>7, <1>8 DEF FreshTimes
<1> QED
  BY <1>2, <1>9

LEMMA FreshMarked ==
  ASSUME RingInv, MarkFlush
  PROVE  FreshTimes' = {} /\ StaleCount' = ts_count
<1>1. StaleCount' = ts_count /\ ts_count' = ts_count
  BY StaleMarked DEF RingInv, MarkFlush
<1>2. \A k \in StaleCount' .. ts_count' - 1 : FALSE
  BY <1>1, RingBounds
<1> QED
  BY <1>1, <1>2 DEF FreshTimes

(* The slot at ts_out_pos is passed over: what was the next one is first. *)
LEMMA FreshShifted ==
  ASSUME RingInv, Advance, NEW s \in Nat, s <= ts_count, StaleCount' = s
  PROVE  FreshTimes' = {Cell(k).time : k \in s + 1 .. ts_count - 1}
<1>1. ts_count' = ts_count - 1
  BY DEF Advance
<1>2. \A k \in 0 .. RingSize - 1 : k < RingSize - 1 => Cell(k)' = Cell(k + 1)
  BY CellShift DEF RingInv
<1>3. FreshTimes' = {Cell(k)'.time : k \in s .. ts_count - 2}
  BY <1>1, RingBounds DEF FreshTimes
<1>4. \A k \in s .. ts_count - 2 :
        k + 1 \in s + 1 .. ts_count - 1 /\ Cell(k)' = Cell(k + 1)
  BY <1>2, RingBounds
<1>5. \A k \in s + 1 .. ts_count - 1 :
        k - 1 \in s .. ts_count - 2 /\ Cell(k - 1)' = Cell(k)
  BY <1>2, RingBounds
<1> QED
  BY <1>3, <1>4, <1>5

LEMMA FreshDropped ==
  ASSUME RingInv, Advance, UNCHANGED ts_push_pos, Flushing
  PROVE  FreshTimes' = FreshTimes /\ StaleCount > 0 /\ StaleCount' = StaleCount - 1
<1>1. StaleCount' = StaleCount - 1
  BY StaleDropped DEF RingInv
<1>2. StaleCount > 0
  BY StaleWraps, RingBounds DEF RingInv, TypeOK, RingTypeOK, Flushing
<1>3. FreshTimes' = {Cell(k).time : k \in (StaleCount - 1) + 1 .. ts_count - 1}
  <2>1. StaleCount - 1 \in Nat /\ StaleCount - 1 <= ts_count
    BY <1>2, RingBounds
  <2> QED
    BY <1>1, <2>1, FreshShifted
<1>4. (StaleCount - 1) + 1 = StaleCount
  BY RingBounds
<1> QED
  BY <1>1, <1>2, <1>3, <1>4 DEF FreshTimes

LEMMA FreshTaken ==
  ASSUME RingInv, CellsInOrder, Advance, ts_push_pos' = NextPos(ts_out_pos), ~Flushing,
         ts_count > 0
  PROVE  /\ StaleCount = 0 /\ StaleCount' = 0
         /\ FrameTime \in FreshTimes /\ \A t \in FreshTimes : FrameTime <= t
         /\ FreshTimes' = FreshTimes \ {FrameTime}
<1>1. StaleCount = 0
  BY StaleWraps DEF RingInv, TypeOK, RingTypeOK, Flushing
<1>2. StaleCount' = 0
  BY StaleNone DEF RingInv, Advance
<1>3. FrameTime = Cell(0).time
  <2>1. Slot(0) = ts_out_pos
    BY SlotWraps, RingAssumption DEF RingInv, TypeOK, RingTypeOK, Positions
  <2> QED
    BY <2>1 DEF FrameTime, Cell
<1>4. FreshTimes = {Cell(k).time : k \in 0 .. ts_count - 1}
  BY <1>1 DEF FreshTimes
<1>10. FreshTimes' = {Cell(k).time : k \in 1 .. ts_count - 1}
  <2>1. FreshTimes' = {Cell(k).time : k \in 0 + 1 .. ts_count - 1}
    BY <1>2, FreshShifted, RingBounds
  <2>2. 0 + 1 = 1
    OBVIOUS
  <2> QED
    BY <2>1, <2>2
<1>5. /\ 0 .. ts_count - 1 = (1 .. ts_count - 1) \cup {0}
      /\ 0 \in 0 .. ts_count - 1
      /\ \A k \in 1 .. ts_count - 1 : k \in 0 .. ts_count - 1 /\ 0 < k
  BY RingBounds
<1>6. \A k \in 1 .. ts_count - 1 : Cell(0).time < Cell(k).time
  BY <1>5 DEF CellsInOrder
<1>7. \A k \in 0 .. ts_count - 1 : Cell(k).time \in Nat
  BY RingBounds, CellFacts DEF RingInv
<1>8. FrameTime \in FreshTimes /\ FreshTimes' = FreshTimes \ {FrameTime}
  BY <1>3, <1>4, <1>5, <1>6, <1>7, <1>10
<1>9. \A t \in FreshTimes : FrameTime <= t
  BY <1>3, <1>4, <1>5, <1>6, <1>7
<1> QED
  BY <1>1, <1>2, <1>8, <1>9
=============================================================================
