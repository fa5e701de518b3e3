---------------------------- MODULE TxRingProofs ----------------------------
(***************************************************************************)
(* The transmit ring, for every size of the ring and of its completion     *)
(* queue, every number of tasks and calls: IInv of TxRing is an invariant, *)
(* and with it the properties that follow from it.                         *)
(***************************************************************************)
EXTENDS TxRing, SequenceTheorems, TLAPS

(***************************************************************************)
(* Pointers that count for ever, and their slots and phase bits            *)
(***************************************************************************)
(* A pointer is a number of turns and a slot. *)
LEMMA Turns ==
    ASSUME NEW a \in Nat, NEW S \in Nat \ {0}
    PROVE  /\ a % S \in Nat /\ a % S < S /\ a % S \in 0..S - 1
           /\ a \div S \in Nat /\ a = S * (a \div S) + (a % S)
  BY SMT

(* A turn later the slot is the same. *)
LEMMA NextTurn ==
    ASSUME NEW a \in Nat, NEW S \in Nat \ {0}
    PROVE  (a + S) % S = a % S /\ (a + S) \div S = (a \div S) + 1
  BY SMT

(* Less than a turn later it is not. *)
LEMMA WithinTurn ==
    ASSUME NEW a \in Nat, NEW b \in Nat, NEW S \in Nat \ {0}, a < b, b - a < S
    PROVE  a % S # b % S
<1> SUFFICES ASSUME a % S = b % S PROVE FALSE
  OBVIOUS
<1> DEFINE ta == a \div S
           tb == b \div S
<1>1. a = S * ta + (a % S) /\ b = S * tb + (b % S) /\ ta \in Nat /\ tb \in Nat /\ a % S \in Nat
  BY Turns
<1> HIDE DEF ta, tb
<1>2. b - a = S * (tb - ta)  BY <1>1
<1>3. CASE tb <= ta
  <2>1. S * (tb - ta) <= 0  BY <1>1, <1>3
  <2>2. QED  BY <2>1, <1>2
<1>4. CASE tb >= ta + 1
  <2>1. S * (tb - ta) >= S  BY <1>1, <1>4
  <2>2. QED  BY <2>1, <1>2
<1>5. QED  BY <1>1, <1>3, <1>4

(* Every slot is some pointer's within a turn. *)
LEMMA EverySlot ==
    ASSUME NEW c \in Nat, NEW S \in Nat \ {0}, NEW s \in 0..S - 1
    PROVE  \E p \in c..c + S - 1 : p % S = s
<1> DEFINE k == c \div S
<1>1. c = S * k + (c % S) /\ k \in Nat /\ c % S \in 0..S - 1
  BY Turns
<1>2. \A j \in Nat : (S * j + s) % S = s  BY SMT
<1>3. S * k \in Nat /\ S * (k + 1) = S * k + S  BY <1>1
<1> HIDE DEF k
<1>4. CASE s >= c % S
  <2>1. S * k + s \in c..c + S - 1  BY <1>1, <1>3, <1>4
  <2>2. (S * k + s) % S = s  BY <1>1, <1>2
  <2>3. QED  BY <2>1, <2>2
<1>5. CASE s < c % S
  <2>1. S * (k + 1) + s \in c..c + S - 1  BY <1>1, <1>3, <1>5
  <2>2. k + 1 \in Nat  BY <1>1
  <2>3. (S * (k + 1) + s) % S = s  BY <1>2, <2>2
  <2>4. QED  BY <2>1, <2>3
<1>6. QED  BY <1>1, <1>4, <1>5

(* Consecutive turns have different phase bits. *)
LEMMA PhaseFacts ==
    ASSUME NEW a \in Nat
    PROVE  a % 2 \in {0, 1} /\ (a + 1) % 2 # a % 2
  BY SMT

(* The ring and its completion queue, whose phase bit tells one turn from  *)
(* the next.                                                               *)
LEMMA Sizes ==
    /\ SIZE \in Nat \ {0} /\ CQ_SIZE \in Nat \ {0}
    /\ full_size \in Nat /\ full_size <= SIZE /\ full_size <= CQ_SIZE
  BY TxRingAssumption, SMT DEF full_size

LEMMA SlotFacts ==
    ASSUME NEW p \in Nat
    PROVE  /\ slot(p) \in Slots /\ slot(p + SIZE) = slot(p)
           /\ \A q \in Nat : p < q /\ q - p < SIZE => slot(p) # slot(q)
           /\ \A s \in Slots : \E q \in p..p + SIZE - 1 : slot(q) = s
<1>1. SIZE \in Nat \ {0}  BY Sizes
<1>2. slot(p) \in Slots /\ slot(p + SIZE) = slot(p)  BY <1>1, Turns, NextTurn DEF slot, Slots
<1>3. ASSUME NEW q \in Nat, p < q, q - p < SIZE PROVE slot(p) # slot(q)
  BY <1>1, <1>3, WithinTurn DEF slot
<1>4. ASSUME NEW s \in Slots PROVE \E q \in p..p + SIZE - 1 : slot(q) = s
  BY <1>1, EverySlot DEF slot, Slots
<1>5. QED  BY <1>2, <1>3, <1>4

LEMMA CqSlotFacts ==
    ASSUME NEW p \in Nat
    PROVE  /\ Cq!slot(p) \in Cq!Slots /\ Cq!slot(p + CQ_SIZE) = Cq!slot(p)
           /\ Cq!phase(p) \in {0, 1} /\ Cq!phase(p + CQ_SIZE) # Cq!phase(p)
           /\ \A q \in Nat : p < q /\ q - p < CQ_SIZE => Cq!slot(p) # Cq!slot(q)
<1> DEFINE t == p \div CQ_SIZE
<1>1. t \in Nat /\ (p + CQ_SIZE) \div CQ_SIZE = t + 1  BY Sizes, Turns, NextTurn
<1>2. t % 2 \in {0, 1} /\ (t + 1) % 2 \in {0, 1} /\ (t + 1) % 2 # t % 2  BY <1>1, PhaseFacts
<1>3. Cq!phase(p) = 1 - (t % 2) /\ Cq!phase(p + CQ_SIZE) = 1 - ((t + 1) % 2)
  BY <1>1 DEF Cq!phase
<1> HIDE DEF t
<1>4. Cq!phase(p) \in {0, 1} /\ Cq!phase(p + CQ_SIZE) # Cq!phase(p)  BY <1>2, <1>3
<1>5. Cq!slot(p) \in Cq!Slots /\ Cq!slot(p + CQ_SIZE) = Cq!slot(p)
  BY Sizes, Turns, NextTurn DEF Cq!slot, Cq!Slots
<1>6. ASSUME NEW q \in Nat, p < q, q - p < CQ_SIZE PROVE Cq!slot(p) # Cq!slot(q)
  BY <1>6, Sizes, WithinTurn DEF Cq!slot
<1>7. QED  BY <1>4, <1>5, <1>6

(* The driver's test compares a record's phase with that of its pointer.   *)
LEMMA NewRecord ==
    ASSUME NEW p \in Nat, NEW b, b[Cq!slot(p)].phase \in {0, 1}
    PROVE  Cq!is_new(b, p) <=> b[Cq!slot(p)].phase = Cq!phase(p)
<1> DEFINE t == p \div CQ_SIZE
           f == b[Cq!slot(p)].phase
<1>1. t \in Nat  BY Sizes, Turns
<1>2. t % 2 \in {0, 1} /\ f \in {0, 1}  BY <1>1, PhaseFacts
<1>3. Cq!phase(p) = 1 - (t % 2) /\ (Cq!is_new(b, p) <=> f # t % 2)  BY DEF Cq!phase, Cq!is_new
<1> HIDE DEF t, f
<1>4. (f # t % 2) <=> (f = 1 - (t % 2))  BY <1>2
<1>5. QED  BY <1>3, <1>4 DEF f

(***************************************************************************)
(* The pointers, as numbers in their order                                 *)
(***************************************************************************)
LEMMA Order ==
    ASSUME TypeOK, Pointers
    PROVE  /\ Len(wire) \in Nat /\ Len(engine) \in Nat /\ Len(upstream) \in Nat
           /\ Len(mmio) \in Nat /\ Len(accepted) \in Nat /\ Len(pool.free) \in Nat
           /\ delivered \in Nat /\ delivered = Len(wire) - Len(upstream)
           /\ prod_ptr \in Nat /\ cons_ptr \in Nat /\ cq_cons_ptr \in Nat
           /\ hw_prod \in Nat /\ hw_cons \in Nat /\ hw_cq_prod \in Nat /\ hw_cq_cons \in Nat
           /\ cons_ptr <= cq_cons_ptr /\ cq_cons_ptr <= delivered /\ delivered <= Len(wire)
           /\ Len(wire) <= hw_cons /\ hw_cons <= hw_prod /\ hw_prod <= prod_ptr
           /\ prod_ptr <= cons_ptr + full_size
           /\ prod_ptr = Len(accepted) /\ hw_cons = Len(wire) + Len(engine)
           /\ cq_cons_ptr <= Len(wire) /\ delivered <= prod_ptr /\ hw_cons <= prod_ptr
<1>1. /\ Len(wire) \in Nat /\ Len(engine) \in Nat /\ Len(upstream) \in Nat
      /\ Len(mmio) \in Nat /\ Len(accepted) \in Nat /\ Len(pool.free) \in Nat
  BY LenProperties DEF TypeOK
<1>2. /\ prod_ptr \in Nat /\ cons_ptr \in Nat /\ cq_cons_ptr \in Nat
      /\ hw_prod \in Nat /\ hw_cons \in Nat /\ hw_cq_prod \in Nat /\ hw_cq_cons \in Nat
  BY DEF TypeOK
<1>3. delivered \in Nat /\ delivered = Len(wire) - Len(upstream) /\ delivered <= Len(wire)
  BY <1>1, <1>2 DEF Pointers, delivered
<1>4. QED  BY <1>1, <1>2, <1>3 DEF Pointers

(***************************************************************************)
(* What the handler finds                                                  *)
(***************************************************************************)
(* Its first loop stops behind the last record that reached memory.        *)
LEMMA CqEnd ==
    ASSUME TypeOK, Pointers, Records
    PROVE  cq_end = delivered
<1> DEFINE c == cq_cons_ptr
           d == delivered
           Stops(p) == /\ ~Cq!is_new(cq_buf, p)
                       /\ \A q \in c..p - 1 : Cq!is_new(cq_buf, q)
<1>1. c \in Nat /\ d \in Nat /\ c <= d /\ d <= c + CQ_SIZE /\ CQ_SIZE \in Nat \ {0}
  <2>1. /\ c \in Nat /\ d \in Nat /\ c <= d /\ d <= prod_ptr /\ prod_ptr \in Nat
        /\ cons_ptr \in Nat /\ cons_ptr <= c /\ prod_ptr <= cons_ptr + full_size
    BY Order
  <2>2. CQ_SIZE \in Nat \ {0} /\ full_size \in Nat /\ full_size <= CQ_SIZE  BY Sizes
  <2> HIDE DEF c, d
  <2>3. QED  BY <2>1, <2>2
<1>2. ASSUME NEW p \in Nat PROVE cq_buf[Cq!slot(p)].phase \in {0, 1}
  BY CqSlotFacts DEF TypeOK
<1>3. ASSUME NEW q \in c..d - 1 PROVE Cq!is_new(cq_buf, q)
  <2>1. q \in Nat  BY <1>1
  <2>2. QED  BY <2>1, <1>2, <1>3, NewRecord DEF Records
<1>4. ~Cq!is_new(cq_buf, d)
  <2>1. cq_buf[Cq!slot(d)].phase # Cq!phase(d)
    <3>1. CASE d < c + CQ_SIZE
      <4>1. d \in delivered..cq_cons_ptr + CQ_SIZE - 1  BY <1>1, <3>1
      <4>2. QED  BY <4>1 DEF Records
    <3>2. CASE d = c + CQ_SIZE
      <4>1. c \in cq_cons_ptr..delivered - 1  BY <1>1, <3>2
      <4>2. cq_buf[Cq!slot(c)].phase = Cq!phase(c)  BY <4>1 DEF Records
      <4>3. QED  BY <4>2, <3>2, <1>1, CqSlotFacts
    <3>3. QED  BY <1>1, <3>1, <3>2
  <2>2. QED  BY <2>1, <1>1, <1>2, NewRecord
<1>5. d \in c..c + CQ_SIZE /\ Stops(d)  BY <1>1, <1>3, <1>4
<1>6. ASSUME NEW p \in c..c + CQ_SIZE, Stops(p) PROVE p = d
  <2>1. CASE p < d
    <3>1. p \in c..d - 1  BY <1>1, <2>1
    <3>2. QED  BY <3>1, <1>3, <1>6
  <2>2. CASE p > d
    <3>1. d \in c..p - 1  BY <1>1, <2>2
    <3>2. QED  BY <3>1, <1>4, <1>6
  <2>3. QED  BY <1>1, <2>1, <2>2
<1>7. cq_end = CHOOSE p \in c..c + CQ_SIZE : Stops(p)
  BY DEF cq_end, Cq!first_empty
<1> HIDE DEF Stops, c, d
<1>8. QED  BY <1>5, <1>6, <1>7 DEF d

(* The records name the slots in the order of the ring.                    *)
LEMMA NewCompletions ==
    ASSUME TypeOK, Pointers, Records, NEW p \in cq_cons_ptr..cq_end - 1
    PROVE  p \in Nat /\ p \in cq_cons_ptr..delivered - 1 /\ cpl_slot(p) = slot(p)
<1>1. cq_end = delivered  BY CqEnd
<1>2. cq_buf[Cq!slot(p)].index = p  BY <1>1 DEF Records
<1>3. cq_cons_ptr \in Nat /\ delivered \in Nat  BY Order
<1>4. QED  BY <1>1, <1>2, <1>3 DEF cpl_slot

LEMMA CompletedSlots ==
    ASSUME TypeOK, Pointers, Records, NEW s \in Slots
    PROVE  s \in completed_slots <=> \E p \in cq_cons_ptr..delivered - 1 : slot(p) = s
  BY CqEnd, NewCompletions DEF completed_slots

LEMMA CompletedPkts ==
    ASSUME TypeOK, Pointers, Records
    PROVE  completed_pkts = [i \in 1..delivered - cq_cons_ptr |-> tx_info[slot(cq_cons_ptr + i - 1)]]
<1>1. cq_end = delivered /\ cq_cons_ptr \in Nat /\ delivered \in Nat  BY CqEnd, Order
<1>2. ASSUME NEW i \in 1..delivered - cq_cons_ptr
      PROVE  cpl_slot(cq_cons_ptr + i - 1) = slot(cq_cons_ptr + i - 1)
  <2>1. cq_cons_ptr + i - 1 \in cq_cons_ptr..cq_end - 1  BY <1>1
  <2>2. QED  BY <2>1, NewCompletions
<1>3. QED  BY <1>1, <1>2 DEF completed_pkts

(* Slots in use differ, and the slots of pointers that are not in use hold *)
(* nothing, up to a turn back.                                             *)
LEMMA RingSlots ==
    ASSUME TypeOK, Pointers, InUse
    PROVE  /\ \A p, q \in cq_cons_ptr..cq_cons_ptr + SIZE - 1 : p # q => slot(p) # slot(q)
           /\ \A p \in cons_ptr..cq_cons_ptr - 1 : tx_info[slot(p)] = None
           /\ prod_ptr <= cons_ptr + SIZE /\ prod_ptr <= cq_cons_ptr + SIZE
<1>1. SIZE \in Nat \ {0} /\ full_size \in Nat /\ full_size <= SIZE  BY Sizes
<1>2. /\ prod_ptr \in Nat /\ cons_ptr \in Nat /\ cq_cons_ptr \in Nat
      /\ prod_ptr <= cons_ptr + SIZE /\ cons_ptr <= cq_cons_ptr
  <2>1. /\ prod_ptr \in Nat /\ cons_ptr \in Nat /\ cq_cons_ptr \in Nat
        /\ cons_ptr <= cq_cons_ptr /\ prod_ptr <= cons_ptr + full_size
    BY Order
  <2>2. QED  BY <1>1, <2>1
<1>3. ASSUME NEW p \in cq_cons_ptr..cq_cons_ptr + SIZE - 1,
             NEW q \in cq_cons_ptr..cq_cons_ptr + SIZE - 1, p # q
      PROVE  slot(p) # slot(q)
  <2>1. p \in Nat /\ q \in Nat /\ p - q < SIZE /\ q - p < SIZE  BY <1>1, <1>2
  <2>2. CASE p < q  BY <2>1, <2>2, SlotFacts
  <2>3. CASE q < p  BY <2>1, <2>3, SlotFacts
  <2>4. QED  BY <2>1, <2>2, <2>3, <1>3
<1>4. ASSUME NEW p \in cons_ptr..cq_cons_ptr - 1 PROVE tx_info[slot(p)] = None
  <2>1. p \in Nat /\ p + SIZE \in prod_ptr..cq_cons_ptr + SIZE - 1  BY <1>1, <1>2
  <2>2. tx_info[slot(p + SIZE)] = None  BY <2>1 DEF InUse
  <2>3. QED  BY <2>1, <2>2, SlotFacts
<1>5. QED  BY <1>1, <1>2, <1>3, <1>4

(* Its second loop moves the ring's pointer to where the first one came.   *)
LEMMA RingEnd ==
    ASSUME TypeOK, Pointers, InUse
    PROVE  ring_end = cq_cons_ptr
<1> DEFINE Stops(p) == /\ p = prod_ptr \/ tx_info[slot(p)] # None
                       /\ \A q \in cons_ptr..p - 1 : tx_info[slot(q)] = None
<1>1. /\ cons_ptr \in Nat /\ cq_cons_ptr \in Nat /\ prod_ptr \in Nat
      /\ cons_ptr <= cq_cons_ptr /\ cq_cons_ptr <= prod_ptr
  BY Order
<1>2. Stops(cq_cons_ptr)
  <2>1. CASE cq_cons_ptr = prod_ptr  BY <2>1, RingSlots
  <2>2. CASE cq_cons_ptr # prod_ptr
    <3>1. cq_cons_ptr \in cq_cons_ptr..prod_ptr - 1  BY <1>1, <2>2
    <3>2. QED  BY <3>1, RingSlots DEF InUse
  <2>3. QED  BY <2>1, <2>2
<1>3. ASSUME NEW p \in cons_ptr..prod_ptr, Stops(p) PROVE p = cq_cons_ptr
  <2>1. CASE p < cq_cons_ptr
    <3>1. p \in cons_ptr..cq_cons_ptr - 1 /\ p # prod_ptr  BY <1>1, <2>1
    <3>2. QED  BY <3>1, <1>3, RingSlots
  <2>2. CASE p > cq_cons_ptr
    <3>1. cq_cons_ptr \in cons_ptr..p - 1 /\ cq_cons_ptr \in cq_cons_ptr..prod_ptr - 1
      BY <1>1, <2>2
    <3>2. QED  BY <3>1, <1>3 DEF InUse
  <2>3. QED  BY <1>1, <2>1, <2>2
<1>4. ring_end = CHOOSE p \in cons_ptr..prod_ptr : Stops(p)
  BY DEF ring_end
<1>5. cq_cons_ptr \in cons_ptr..prod_ptr  BY <1>1
<1> HIDE DEF Stops
<1>6. QED  BY <1>2, <1>3, <1>4, <1>5

(***************************************************************************)
(* The invariant holds at first                                            *)
(***************************************************************************)
LEMMA InitInv == Init => IInv
<1> SUFFICES ASSUME Init PROVE IInv
  OBVIOUS
<1> USE DEF Init
<1>1. SIZE \in Nat \ {0} /\ CQ_SIZE \in Nat \ {0} /\ full_size \in Nat  BY Sizes
<1>2. pool.allocated = 0 /\ pool.free = <<>> /\ pool = [allocated |-> pool.allocated, free |-> pool.free]
  BY DEF EmptyPool
<1>3. delivered = 0  BY DEF delivered
<1>4. TypeOK
  <2>1. cq_buf \in [Cq!Slots -> [phase : {0, 1}, index : Nat]]  BY DEF Cq!Zeroed
  <2>2. pool.free \in Seq(Buffers(pool)) /\ data \in Seq(Frame) /\ mmio \in Seq([reg : {"prod", "cq_cons"}, val : Nat])
    BY <1>2
  <2>3. /\ upstream \in Seq([ptr : Nat, index : Nat]) /\ engine \in Seq([index : Nat, pkt : Buffers(pool)])
        /\ accepted \in Seq(Frame) /\ wire \in Seq(Frame)
    OBVIOUS
  <2>4. QED  BY <1>2, <2>1, <2>2, <2>3 DEF TypeOK, None
<1>5. Pointers  BY <1>1, <1>3 DEF Pointers
<1>6. Posted  BY <1>1 DEF Posted, PostedInOrder
<1>7. Records
  <2>1. ASSUME NEW p \in 0..CQ_SIZE - 1 PROVE cq_buf[Cq!slot(p)].phase # Cq!phase(p)
    <3>1. p \div CQ_SIZE = 0 /\ p \in Nat  BY <1>1, SMT
    <3>2. Cq!phase(p) = 1  BY <3>1, SMT DEF Cq!phase
    <3>3. cq_buf[Cq!slot(p)].phase = 0  BY <3>1, CqSlotFacts DEF Cq!Zeroed
    <3>4. QED  BY <3>2, <3>3
  <2>2. QED  BY <1>1, <1>3, <2>1 DEF Records
<1>8. InUse
  <2>1. ASSUME NEW p \in 0..SIZE - 1 PROVE tx_info[slot(p)] = None
    BY <1>1, SlotFacts
  <2>2. QED  BY <1>1, <2>1 DEF InUse
<1>9. BuffersOwned  BY <1>1, <1>2 DEF BuffersOwned, IsInjective, FreeBuffers, Range, Buffers
<1>10. BuffersCounted /\ WireInOrder  BY <1>2 DEF BuffersCounted, WireInOrder
<1>11. QED  BY <1>4, <1>5, <1>6, <1>7, <1>8, <1>9, <1>10 DEF IInv

(***************************************************************************)
(* And every step preserves it                                             *)
(***************************************************************************)
(* What IInv is about but for types; calls that wait, give up or find the  *)
(* port down change nothing of it.                                         *)
ringVars == <<prod_ptr, cons_ptr, tx_info, buf, data, pool, cq_cons_ptr, handler,
              deviceVars, mmio, cq_buf, upstream, accepted>>

LEMMA RingUnchanged ==
    ASSUME IInv, UNCHANGED ringVars, TypeOK'
    PROVE  IInv'
<1> USE DEF ringVars, deviceVars
<1>1. Pointers' /\ Posted' /\ WireInOrder'
  BY DEF IInv, Pointers, Posted, PostedInOrder, RoomKnown, WireInOrder, delivered
<1>2. Records' /\ InUse'  BY DEF IInv, Records, InUse, delivered
<1>3. BuffersOwned' /\ BuffersCounted'  BY DEF IInv, BuffersOwned, BuffersCounted
<1>4. QED  BY <1>1, <1>2, <1>3 DEF IInv

LEMMA WaitStep ==
    ASSUME IInv, NEW t \in TASKS, NEW frame \in Frame, Wait(t, frame), calls' \in Nat
    PROVE  IInv'
<1>1. UNCHANGED ringVars  BY DEF Wait, ringVars
<1>2. TypeOK'  BY DEF IInv, TypeOK, Wait, Frame, deviceVars
<1>3. QED  BY <1>1, <1>2, RingUnchanged

LEMMA AbandonStep ==
    ASSUME IInv, NEW t \in TASKS, Abandon(t)
    PROVE  IInv'
<1>1. UNCHANGED ringVars  BY DEF Abandon, ringVars
<1>2. TypeOK'  BY DEF IInv, TypeOK, Abandon, deviceVars
<1>3. QED  BY <1>1, <1>2, RingUnchanged

LEMMA PortDownStep ==
    ASSUME IInv, PortDown
    PROVE  IInv'
<1>1. UNCHANGED ringVars  BY DEF PortDown, ringVars
<1>2. TypeOK'  BY DEF IInv, TypeOK, PortDown, deviceVars
<1>3. QED  BY <1>1, <1>2, RingUnchanged

(* The pointer moves to the completion queue's, by RingEnd.                *)
LEMMA ProcessRingStep ==
    ASSUME IInv, ProcessRing
    PROVE  IInv'
<1> USE DEF deviceVars
<1>1. TypeOK /\ Pointers /\ InUse  BY DEF IInv
<1>2. cons_ptr' = cq_cons_ptr  BY <1>1, RingEnd DEF ProcessRing
<1>3. TypeOK'  BY <1>1, <1>2 DEF TypeOK, ProcessRing, woken
<1>4. Pointers'
  <2>1. full_size \in Nat  BY Sizes
  <2>2. /\ prod_ptr \in Nat /\ cons_ptr \in Nat /\ cq_cons_ptr \in Nat
        /\ cons_ptr <= cq_cons_ptr /\ prod_ptr <= cons_ptr + full_size
    BY <1>1, Order
  <2>3. cons_ptr' <= cq_cons_ptr /\ prod_ptr <= cons_ptr' + full_size  BY <1>2, <2>1, <2>2
  <2>4. UNCHANGED <<prod_ptr, cq_cons_ptr, hw_prod, hw_cons, hw_cq_prod, engine, wire, upstream, accepted>>
    BY DEF ProcessRing
  <2>5. QED  BY <1>1, <1>2, <2>3, <2>4 DEF Pointers, delivered
<1>5. Posted' /\ WireInOrder'
  BY DEF IInv, Posted, PostedInOrder, RoomKnown, WireInOrder, ProcessRing
<1>6. Records' /\ InUse'  BY DEF IInv, Records, InUse, delivered, ProcessRing
<1>7. BuffersOwned' /\ BuffersCounted'  BY DEF IInv, BuffersOwned, BuffersCounted, ProcessRing
<1>8. QED  BY <1>3, <1>4, <1>5, <1>6, <1>7 DEF IInv

(* The descriptor fetched is one start_xmit has written.                   *)
LEMMA FetchStep ==
    ASSUME IInv, Fetch
    PROVE  IInv'
<1> USE DEF driverVars
<1> DEFINE d == [index |-> hw_cons, pkt |-> buf[slot(hw_cons)]]
<1>1. TypeOK /\ Pointers /\ InUse  BY DEF IInv
<1>2. hw_cons \in hw_cons..prod_ptr - 1 /\ hw_cons \in cq_cons_ptr..prod_ptr - 1 /\ hw_cons \in Nat
      /\ hw_cons + 1 <= hw_prod /\ hw_cons = Len(wire) + Len(engine)
  <2>1. /\ hw_cons \in Nat /\ hw_prod \in Nat /\ prod_ptr \in Nat /\ cq_cons_ptr \in Nat
        /\ hw_cons <= hw_prod /\ hw_prod <= prod_ptr
    BY <1>1, Order
  <2>2. /\ cq_cons_ptr <= delivered /\ delivered <= Len(wire) /\ Len(wire) <= hw_cons
        /\ delivered \in Nat /\ Len(wire) \in Nat /\ hw_cons = Len(wire) + Len(engine)
    BY <1>1, Order
  <2>3. hw_cons # hw_prod  BY DEF Fetch
  <2>4. cq_cons_ptr <= hw_cons  BY <2>1, <2>2
  <2>5. hw_cons + 1 <= hw_prod  BY <2>1, <2>3
  <2>6. QED  BY <2>1, <2>2, <2>4, <2>5
<1>3. buf[slot(hw_cons)] = tx_info[slot(hw_cons)] /\ buf[slot(hw_cons)] \in Buffers(pool)
  <2>1. buf[slot(hw_cons)] = tx_info[slot(hw_cons)] /\ tx_info[slot(hw_cons)] # None
    BY <1>1, <1>2 DEF InUse
  <2>2. slot(hw_cons) \in Slots  BY <1>2, SlotFacts
  <2>3. QED  BY <1>1, <2>1, <2>2 DEF TypeOK
<1>4. engine \in Seq([index : Nat, pkt : Buffers(pool)]) /\ d \in [index : Nat, pkt : Buffers(pool)]
  BY <1>1, <1>2, <1>3 DEF TypeOK
<1>5. engine' = Append(engine, d) /\ hw_cons' = hw_cons + 1  BY DEF Fetch
<1> HIDE DEF d
<1>6. /\ engine' \in Seq([index : Nat, pkt : Buffers(pool)]) /\ Len(engine') = Len(engine) + 1
      /\ \A i \in 1..Len(engine) : engine'[i] = engine[i]
      /\ engine'[Len(engine) + 1] = d
  BY <1>4, <1>5, AppendProperties
<1>7. d.index = hw_cons /\ d.pkt = tx_info[slot(hw_cons)]  BY <1>3 DEF d
<1>8. TypeOK'
  <2>1. hw_cons' \in Nat  BY <1>2, <1>5
  <2>2. engine' \in Seq([index : Nat, pkt : Buffers(pool)])'  BY <1>6 DEF Fetch
  <2>3. QED  BY <1>1, <2>1, <2>2 DEF TypeOK, Fetch
<1>9. Pointers'  BY <1>1, <1>2, <1>5, <1>6, Order DEF Pointers, Fetch, delivered
<1>10. Posted' /\ WireInOrder' /\ BuffersCounted'
  BY DEF IInv, Posted, PostedInOrder, RoomKnown, WireInOrder, BuffersCounted, Fetch
<1>11. Records'  BY DEF IInv, Records, delivered, Fetch
<1>12. /\ Len(engine) \in Nat /\ Len(wire) \in Nat /\ prod_ptr \in Nat
       /\ \A i \in 1..Len(engine') :
            engine'[i].index = Len(wire) + i - 1 /\ engine'[i].pkt = tx_info[slot(Len(wire) + i - 1)]
  <2>1. Len(engine) \in Nat /\ Len(wire) \in Nat /\ prod_ptr \in Nat  BY <1>1, Order
  <2>2. ASSUME NEW i \in 1..Len(engine')
        PROVE  engine'[i].index = Len(wire) + i - 1 /\ engine'[i].pkt = tx_info[slot(Len(wire) + i - 1)]
    <3>1. CASE i \in 1..Len(engine)  BY <1>1, <1>6, <3>1 DEF InUse
    <3>2. CASE i = Len(engine) + 1
      <4>1. Len(wire) + i - 1 = hw_cons  BY <2>1, <1>2, <3>2
      <4>2. QED  BY <4>1, <1>6, <1>7, <3>2
    <3>3. QED  BY <2>1, <1>6, <3>1, <3>2
  <2>3. QED  BY <2>1, <2>2
<1>13. InUse'
  <2>1. \A p \in hw_cons'..prod_ptr - 1 : buf[slot(p)] = tx_info[slot(p)]
    <3>1. \A p \in hw_cons'..prod_ptr - 1 : p \in hw_cons..prod_ptr - 1  BY <1>2, <1>5, <1>12
    <3>2. QED  BY <1>1, <3>1 DEF InUse
  <2>2. QED  BY <1>1, <1>12, <2>1 DEF InUse, Fetch
<1>14. BuffersOwned'  BY <1>12 DEF IInv, BuffersOwned, Fetch
<1>15. QED  BY <1>8, <1>9, <1>10, <1>11, <1>13, <1>14 DEF IInv

(* The buffer sent still holds the frame, and the completion queue has     *)
(* room for its record.                                                    *)
LEMMA TransmitStep ==
    ASSUME IInv, Transmit
    PROVE  IInv'
<1> USE DEF driverVars
<1> DEFINE d == Head(engine)
           w == Len(wire)
           u == [ptr |-> hw_cq_prod, index |-> d.index]
           Descriptor == [index : Nat, pkt : Buffers(pool)]
<1>1. TypeOK /\ Pointers /\ Posted /\ Records /\ InUse /\ BuffersOwned /\ WireInOrder  BY DEF IInv
<1>2. engine \in Seq(Descriptor) /\ engine # <<>>  BY <1>1 DEF TypeOK, Transmit
<1>3. /\ engine' \in Seq(Descriptor) /\ Len(engine) \in Nat \ {0} /\ Len(engine') = Len(engine) - 1
      /\ \A i \in 1..Len(engine') : engine'[i] = engine[i + 1]
      /\ d = engine[1] /\ d \in Descriptor
  <2>1. Len(engine) \in Nat \ {0}  BY <1>2, EmptySeq
  <2>2. d = engine[1]  BY <1>2
  <2>3. QED  BY <1>2, <2>1, <2>2, HeadTailProperties DEF Transmit
<1>4. /\ w \in Nat /\ prod_ptr \in Nat /\ hw_cq_prod = w /\ w < hw_prod /\ hw_prod \in Nat
      /\ w \in w..prod_ptr - 1 /\ prod_ptr = Len(accepted) /\ w + 1 \in 1..Len(accepted)
      /\ hw_cons = w + Len(engine) /\ hw_cons \in Nat
  <2> DEFINE e == Len(engine)
  <2>1. /\ w \in Nat /\ prod_ptr \in Nat /\ hw_prod \in Nat /\ hw_cons \in Nat
        /\ hw_cons <= hw_prod /\ hw_prod <= prod_ptr /\ prod_ptr = Len(accepted) /\ hw_cons = w + e
    BY <1>1, Order
  <2>2. hw_cq_prod = w  BY <1>1 DEF Pointers
  <2>3. e \in Nat \ {0}  BY <1>3
  <2> HIDE DEF w, e
  <2>4. w < hw_prod /\ w \in w..prod_ptr - 1 /\ w + 1 \in 1..prod_ptr  BY <2>1, <2>3
  <2>5. QED  BY <2>1, <2>2, <2>4 DEF e
<1>5. d.index = w /\ d.pkt = tx_info[slot(w)]
  <2>1. 1 \in 1..Len(engine)  BY <1>3
  <2>2. QED  BY <1>1, <1>3, <1>4, <2>1 DEF InUse
<1>6. data[d.pkt] = accepted[w + 1]  BY <1>1, <1>4, <1>5 DEF InUse
<1>7. accepted[w + 1] \in Frame  BY <1>1, <1>4, ElementOfSeq DEF TypeOK
<1>8. /\ wire' = Append(wire, accepted[w + 1]) /\ wire' \in Seq(Frame) /\ Len(wire') = w + 1
      /\ \A i \in 1..w : wire'[i] = wire[i]
      /\ wire'[w + 1] = accepted[w + 1]
  <2>1. wire' = Append(wire, accepted[w + 1]) /\ wire \in Seq(Frame)  BY <1>1, <1>6 DEF TypeOK, Transmit
  <2>2. QED  BY <1>7, <2>1, AppendProperties
<1>9. ~Cq!queue_full(hw_cq_prod, hw_cq_cons)
  <2>1. hw_prod <= hw_cq_cons + full_size /\ hw_cq_cons \in Nat  BY <1>1 DEF Posted, TypeOK
  <2>2. hw_cq_prod - hw_cq_cons < CQ_SIZE  BY <1>4, <2>1, Sizes
  <2>3. QED  BY <2>2, <1>4, <2>1, Sizes DEF Cq!queue_full
<1>10. hw_cq_prod' = w + 1 /\ upstream' = Append(upstream, u)
  BY <1>4, <1>9 DEF Transmit
<1>11. u.ptr = w /\ u.index = w /\ u \in [ptr : Nat, index : Nat] /\ upstream \in Seq([ptr : Nat, index : Nat])
  BY <1>1, <1>4, <1>5 DEF TypeOK
<1> HIDE DEF d, u
<1>12. /\ upstream' \in Seq([ptr : Nat, index : Nat]) /\ Len(upstream') = Len(upstream) + 1
       /\ \A i \in 1..Len(upstream) : upstream'[i] = upstream[i]
       /\ upstream'[Len(upstream) + 1] = u
  BY <1>10, <1>11, AppendProperties
<1>13. delivered' = delivered /\ delivered \in Nat /\ Len(upstream) \in Nat /\ w = delivered + Len(upstream)
  BY <1>1, <1>8, <1>12, Order DEF delivered
<1> HIDE DEF w
<1>14. TypeOK'
  <2>1. hw_cq_prod' \in Nat  BY <1>4, <1>10
  <2>2. engine' \in Seq([index : Nat, pkt : Buffers(pool)])'  BY <1>3 DEF Transmit
  <2>3. QED  BY <1>1, <1>8, <1>12, <2>1, <2>2 DEF TypeOK, Transmit
<1>15. Pointers'
  <2>1. hw_cons' = Len(wire') + Len(engine')  BY <1>3, <1>4, <1>8 DEF Transmit
  <2>2. QED  BY <1>1, <1>8, <1>10, <1>13, <2>1 DEF Pointers, Transmit
<1>16. Posted' /\ BuffersCounted'
  BY DEF IInv, Posted, PostedInOrder, RoomKnown, BuffersCounted, Transmit
<1>17. Records'
  <2>1. ASSUME NEW i \in 1..Len(upstream')
        PROVE  upstream'[i].ptr = delivered + i - 1 /\ upstream'[i].index = delivered + i - 1
    <3>1. CASE i \in 1..Len(upstream)  BY <1>1, <1>12, <3>1 DEF Records
    <3>2. CASE i = Len(upstream) + 1
      <4>1. delivered + i - 1 = w  BY <1>13, <3>2
      <4>2. QED  BY <1>11, <1>12, <3>2, <4>1
    <3>3. QED  BY <1>12, <1>13, <3>1, <3>2
  <2>2. QED  BY <1>1, <1>13, <2>1 DEF Records, Transmit
<1>18. \A i \in 1..Len(engine') :
          /\ engine'[i].index = Len(wire') + i - 1
          /\ engine'[i].pkt = tx_info[slot(Len(wire') + i - 1)]
  <2> SUFFICES ASSUME NEW i \in 1..Len(engine')
               PROVE  /\ engine'[i].index = Len(wire') + i - 1
                      /\ engine'[i].pkt = tx_info[slot(Len(wire') + i - 1)]
    OBVIOUS
  <2>1. i + 1 \in 1..Len(engine) /\ engine'[i] = engine[i + 1] /\ i \in Nat  BY <1>3
  <2>2. w + (i + 1) - 1 = Len(wire') + i - 1  BY <1>4, <1>8, <2>1
  <2>3. QED  BY <1>1, <2>1, <2>2 DEF InUse, w
<1>19. InUse'
  <2>1. \A p \in Len(wire')..prod_ptr - 1 : data[tx_info[slot(p)]] = accepted[p + 1]
    <3>1. \A p \in Len(wire')..prod_ptr - 1 : p \in Len(wire)..prod_ptr - 1  BY <1>4, <1>8 DEF w
    <3>2. QED  BY <1>1, <3>1 DEF InUse
  <2>2. QED  BY <1>1, <1>18, <2>1 DEF InUse, Transmit
<1>20. BuffersOwned'
  <2>1. \A i \in 1..Len(engine') : engine'[i].pkt = tx_info[slot(engine'[i].index)]  BY <1>18
  <2>2. QED  BY <1>1, <2>1 DEF BuffersOwned, Transmit
<1>21. WireInOrder'
  <2>1. ASSUME NEW i \in 1..Len(wire') PROVE wire'[i] = accepted[i]
    <3>1. CASE i \in 1..Len(wire)  BY <1>1, <1>8, <3>1 DEF WireInOrder, w
    <3>2. CASE i = Len(wire) + 1  BY <1>8, <3>2 DEF w
    <3>3. QED  BY <1>4, <1>8, <3>1, <3>2 DEF w
  <2>2. Len(wire') <= Len(accepted)  BY <1>4, <1>8
  <2>3. QED  BY <2>1, <2>2 DEF WireInOrder, Transmit
<1>22. QED  BY <1>14, <1>15, <1>16, <1>17, <1>19, <1>20, <1>21 DEF IInv

(* The record written is the next one the driver waits for, and no other   *)
(* record it has yet to read is in its slot.                               *)
LEMMA DeliverStep ==
    ASSUME IInv, Deliver
    PROVE  IInv'
<1> USE DEF driverVars, deviceVars
<1> DEFINE d == delivered
           Record == [ptr : Nat, index : Nat]
<1>1. TypeOK /\ Pointers /\ Records  BY DEF IInv
<1>2. upstream \in Seq(Record) /\ upstream # <<>>  BY <1>1 DEF TypeOK, Deliver
<1>3. /\ upstream' \in Seq(Record) /\ Len(upstream) \in Nat \ {0} /\ Len(upstream') = Len(upstream) - 1
      /\ \A i \in 1..Len(upstream') : upstream'[i] = upstream[i + 1]
      /\ Head(upstream) = upstream[1]
  <2>1. Len(upstream) \in Nat \ {0}  BY <1>2, EmptySeq
  <2>2. Head(upstream) = upstream[1]  BY <1>2
  <2>3. QED  BY <1>2, <2>1, <2>2, HeadTailProperties DEF Deliver
<1>4. d \in Nat /\ cq_cons_ptr \in Nat /\ d + 1 <= Len(wire) /\ cq_cons_ptr <= d /\ d < cq_cons_ptr + CQ_SIZE
      /\ delivered' = d + 1 /\ CQ_SIZE \in Nat
  <2> DEFINE u == Len(upstream)
             w == Len(wire)
  <2>1. /\ d \in Nat /\ cq_cons_ptr \in Nat /\ w \in Nat /\ cons_ptr \in Nat /\ prod_ptr \in Nat
        /\ cons_ptr <= cq_cons_ptr /\ cq_cons_ptr <= d /\ prod_ptr <= cons_ptr + full_size
    BY <1>1, Order
  <2>2. hw_cons \in Nat /\ hw_prod \in Nat /\ w <= hw_cons /\ hw_cons <= hw_prod /\ hw_prod <= prod_ptr
    BY <1>1, Order
  <2>3. CQ_SIZE \in Nat /\ full_size \in Nat /\ full_size <= CQ_SIZE  BY Sizes
  <2>4. u \in Nat \ {0}  BY <1>3
  <2>5. d = w - u /\ delivered' = w - (u - 1)  BY <1>3 DEF delivered, Deliver
  <2> HIDE DEF d, u, w
  <2>6. d + 1 <= w /\ delivered' = d + 1  BY <2>1, <2>4, <2>5
  <2>7. w <= prod_ptr  BY <2>1, <2>2
  <2>8. d < cq_cons_ptr + CQ_SIZE  BY <2>1, <2>3, <2>6, <2>7
  <2>9. QED  BY <2>1, <2>3, <2>6, <2>8 DEF w
<1>5. upstream[1].ptr = d /\ upstream[1].index = d
  <2>1. 1 \in 1..Len(upstream)  BY <1>3
  <2>2. d + 1 - 1 = d  BY <1>4
  <2>3. QED  BY <1>1, <2>1, <2>2 DEF Records
<1>6. cq_buf' = [cq_buf EXCEPT ![Cq!slot(d)] = [phase |-> Cq!phase(d), index |-> d]]
  BY <1>3, <1>5 DEF Deliver, Cq!written
<1> HIDE DEF d
<1>7. cq_buf \in [Cq!Slots -> [phase : {0, 1}, index : Nat]]  BY <1>1 DEF TypeOK
<1>8. Cq!slot(d) \in Cq!Slots /\ Cq!phase(d) \in {0, 1}  BY <1>4, CqSlotFacts
<1>9. /\ cq_buf'[Cq!slot(d)].phase = Cq!phase(d) /\ cq_buf'[Cq!slot(d)].index = d
      /\ \A s \in Cq!Slots : s # Cq!slot(d) => cq_buf'[s] = cq_buf[s]
      /\ cq_buf' \in [Cq!Slots -> [phase : {0, 1}, index : Nat]]
  BY <1>4, <1>6, <1>7, <1>8
<1>10. ASSUME NEW p \in cq_cons_ptr..cq_cons_ptr + CQ_SIZE - 1, p # d
       PROVE  cq_buf'[Cq!slot(p)] = cq_buf[Cq!slot(p)]
  <2>1. p \in Nat /\ ((p < d /\ d - p < CQ_SIZE) \/ (d < p /\ p - d < CQ_SIZE))  BY <1>4, <1>10
  <2>2. Cq!slot(p) # Cq!slot(d) /\ Cq!slot(p) \in Cq!Slots  BY <1>4, <2>1, CqSlotFacts
  <2>3. QED  BY <1>9, <2>2
<1>11. TypeOK'  BY <1>1, <1>3, <1>9 DEF TypeOK, Deliver
<1>12. Pointers'  BY <1>1, <1>4 DEF Pointers, Deliver, d
<1>13. Posted' /\ BuffersCounted' /\ WireInOrder'
  BY DEF IInv, Posted, PostedInOrder, RoomKnown, BuffersCounted, WireInOrder, Deliver
<1>14. Records'
  <2>1. ASSUME NEW p \in cq_cons_ptr..delivered' - 1
        PROVE  cq_buf'[Cq!slot(p)].phase = Cq!phase(p) /\ cq_buf'[Cq!slot(p)].index = p
    <3>1. CASE p = d  BY <1>9, <3>1
    <3>2. CASE p # d
      <4>1. p \in cq_cons_ptr..delivered - 1 /\ p \in cq_cons_ptr..cq_cons_ptr + CQ_SIZE - 1
        BY <1>4, <3>2 DEF d
      <4>2. QED  BY <1>1, <1>10, <3>2, <4>1 DEF Records
    <3>3. QED  BY <3>1, <3>2
  <2>2. ASSUME NEW p \in delivered'..cq_cons_ptr + CQ_SIZE - 1
        PROVE  cq_buf'[Cq!slot(p)].phase # Cq!phase(p)
    <3>1. /\ p \in delivered..cq_cons_ptr + CQ_SIZE - 1 /\ p # d
          /\ p \in cq_cons_ptr..cq_cons_ptr + CQ_SIZE - 1
      BY <1>4 DEF d
    <3>2. QED  BY <1>1, <1>10, <3>1 DEF Records
  <2>3. ASSUME NEW i \in 1..Len(upstream')
        PROVE  upstream'[i].ptr = delivered' + i - 1 /\ upstream'[i].index = delivered' + i - 1
    <3>1. i + 1 \in 1..Len(upstream) /\ upstream'[i] = upstream[i + 1] /\ i \in Nat  BY <1>3
    <3>2. delivered + (i + 1) - 1 = delivered' + i - 1  BY <1>4, <3>1 DEF d
    <3>3. QED  BY <1>1, <3>1, <3>2 DEF Records
  <2>4. QED  BY <2>1, <2>2, <2>3 DEF Records, Deliver
<1>15. InUse' /\ BuffersOwned'  BY DEF IInv, InUse, BuffersOwned, Deliver
<1>16. QED  BY <1>11, <1>12, <1>13, <1>14, <1>15 DEF IInv

(* Posting a write, and what stays true of those before it.                *)
Write == [reg : {"prod", "cq_cons"}, val : Nat]

LEMMA PostFacts ==
    ASSUME TypeOK, NEW w \in Write, mmio' = Append(mmio, w)
    PROVE  /\ mmio' \in Seq(Write) /\ Len(mmio) \in Nat /\ Len(mmio') = Len(mmio) + 1
           /\ mmio'[Len(mmio) + 1] = w
           /\ \A i \in 1..Len(mmio) : mmio'[i] = mmio[i] /\ mmio[i] \in Write
           /\ \A i \in 1..Len(mmio') : i \in 1..Len(mmio) \/ i = Len(mmio) + 1
<1>1. mmio \in Seq(Write)  BY DEF TypeOK, Write
<1>2. /\ mmio' \in Seq(Write) /\ Len(mmio) \in Nat /\ Len(mmio') = Len(mmio) + 1
      /\ mmio'[Len(mmio) + 1] = w
      /\ \A i \in 1..Len(mmio) : mmio'[i] = mmio[i]
  BY <1>1, AppendProperties, LenProperties
<1>3. \A i \in 1..Len(mmio) : mmio[i] \in Write  BY <1>1, ElementOfSeq
<1>4. QED  BY <1>2, <1>3

(* The newest write of a register is not below those before it.            *)
LEMMA PostedNewest ==
    ASSUME TypeOK, NEW reg \in {"prod", "cq_cons"}, NEW low \in Nat, NEW high \in Nat, NEW v \in Nat,
           PostedInOrder(reg, low, high), high <= v,
           mmio' = Append(mmio, [reg |-> reg, val |-> v])
    PROVE  /\ low <= v
           /\ \A i \in 1..Len(mmio') : mmio'[i].reg = reg =>
                /\ low <= mmio'[i].val /\ mmio'[i].val <= v
                /\ \A j \in 1..i : mmio'[j].reg = reg => mmio'[j].val <= mmio'[i].val
<1>1. [reg |-> reg, val |-> v] \in Write  BY DEF Write
<1> DEFINE n == Len(mmio)
           w == [reg |-> reg, val |-> v]
<1>2. /\ n \in Nat /\ Len(mmio') = n + 1 /\ mmio'[n + 1] = w
      /\ \A i \in 1..n : mmio'[i] = mmio[i] /\ mmio[i].val \in Nat
  BY <1>1, PostFacts DEF Write
<1>3. w.val = v  OBVIOUS
<1> HIDE DEF w, n
<1>4. low <= v  BY DEF PostedInOrder
<1>5. \A i \in 1..n : mmio[i].reg = reg =>
        /\ low <= mmio[i].val /\ mmio[i].val <= high
        /\ \A j \in 1..i : mmio[j].reg = reg => mmio[j].val <= mmio[i].val
  BY DEF PostedInOrder, n
<1>6. ASSUME NEW i \in 1..Len(mmio'), mmio'[i].reg = reg
      PROVE  /\ low <= mmio'[i].val /\ mmio'[i].val <= v
             /\ \A j \in 1..i : mmio'[j].reg = reg => mmio'[j].val <= mmio'[i].val
  <2>1. CASE i \in 1..n
    <3>1. \A j \in 1..i : j \in 1..n  BY <1>2, <2>1
    <3>2. mmio'[i].val = mmio[i].val /\ mmio[i].reg = reg /\ mmio[i].val \in Nat  BY <1>2, <1>6, <2>1
    <3>3. low <= mmio[i].val /\ mmio[i].val <= v  BY <1>5, <2>1, <3>2
    <3>4. QED  BY <1>2, <1>5, <2>1, <3>1, <3>2, <3>3
  <2>2. CASE i = n + 1
    <3>1. mmio'[i].val = v  BY <1>2, <1>3, <2>2
    <3>2. ASSUME NEW j \in 1..i, mmio'[j].reg = reg PROVE mmio'[j].val <= v
      <4>1. CASE j = n + 1  BY <3>1, <2>2, <4>1
      <4>2. CASE j # n + 1
        <5>1. j \in 1..n  BY <1>2, <2>2, <4>2
        <5>2. mmio'[j].val = mmio[j].val /\ mmio[j].reg = reg /\ mmio[j].val \in Nat  BY <1>2, <3>2, <5>1
        <5>3. mmio[j].val <= high  BY <1>5, <5>1, <5>2
        <5>4. QED  BY <5>2, <5>3
      <4>3. QED  BY <4>1, <4>2
    <3>3. QED  BY <1>4, <3>1, <3>2
  <2>3. QED  BY <1>2, <2>1, <2>2
<1>7. QED  BY <1>4, <1>6

(* A write of the other register changes nothing for this one.             *)
LEMMA PostedOther ==
    ASSUME TypeOK, NEW reg \in {"prod", "cq_cons"}, NEW low, NEW high,
           PostedInOrder(reg, low, high), NEW w \in Write, w.reg # reg, mmio' = Append(mmio, w)
    PROVE  \A i \in 1..Len(mmio') : mmio'[i].reg = reg =>
                /\ low <= mmio'[i].val /\ mmio'[i].val <= high
                /\ \A j \in 1..i : mmio'[j].reg = reg => mmio'[j].val <= mmio'[i].val
<1> DEFINE n == Len(mmio)
<1>1. /\ n \in Nat /\ Len(mmio') = n + 1 /\ mmio'[n + 1] = w
      /\ \A i \in 1..n : mmio'[i] = mmio[i]
  BY PostFacts
<1>2. \A i \in 1..n : mmio[i].reg = reg =>
        /\ low <= mmio[i].val /\ mmio[i].val <= high
        /\ \A j \in 1..i : mmio[j].reg = reg => mmio[j].val <= mmio[i].val
  BY DEF PostedInOrder
<1> HIDE DEF n
<1>3. SUFFICES ASSUME NEW i \in 1..Len(mmio'), mmio'[i].reg = reg
               PROVE  /\ low <= mmio'[i].val /\ mmio'[i].val <= high
                      /\ \A j \in 1..i : mmio'[j].reg = reg => mmio'[j].val <= mmio'[i].val
  OBVIOUS
<1>4. i \in 1..n /\ \A j \in 1..i : j \in 1..n
  <2>1. i # n + 1  BY <1>1, <1>3
  <2>2. QED  BY <1>1, <2>1
<1>5. QED  BY <1>1, <1>2, <1>3, <1>4

(* start_xmit posts the producer pointer.                                  *)
LEMMA PostProd ==
    ASSUME TypeOK, Posted, mmio' = Append(mmio, [reg |-> "prod", val |-> prod_ptr + 1]),
           prod_ptr' = prod_ptr + 1, prod_ptr + 1 <= cq_cons_ptr + full_size,
           UNCHANGED <<hw_prod, hw_cq_cons, cq_cons_ptr>>
    PROVE  Posted'
<1> DEFINE w == [reg |-> "prod", val |-> prod_ptr + 1]
           n == Len(mmio)
<1>1. /\ prod_ptr \in Nat /\ hw_prod \in Nat /\ hw_cq_cons \in Nat /\ cq_cons_ptr \in Nat
      /\ full_size \in Nat
  BY Sizes DEF TypeOK
<1>2. PostedInOrder("prod", hw_prod, prod_ptr)'
  <2>1. PostedInOrder("prod", hw_prod, prod_ptr)  BY DEF Posted
  <2>2. PICK v \in Nat : v = prod_ptr + 1  BY <1>1
  <2>3. mmio' = Append(mmio, [reg |-> "prod", val |-> v]) /\ prod_ptr <= v  BY <1>1, <2>2
  <2>4. /\ hw_prod <= v
        /\ \A i \in 1..Len(mmio') : mmio'[i].reg = "prod" =>
             /\ hw_prod <= mmio'[i].val /\ mmio'[i].val <= v
             /\ \A j \in 1..i : mmio'[j].reg = "prod" => mmio'[j].val <= mmio'[i].val
    BY <1>1, <2>1, <2>3, PostedNewest
  <2>5. QED  BY <2>2, <2>4 DEF PostedInOrder
<1>3. w \in Write /\ w.reg = "prod" /\ w.val = prod_ptr + 1  BY <1>1 DEF Write
<1>4. mmio' = Append(mmio, w)  OBVIOUS
<1> HIDE DEF w
<1>5. /\ n \in Nat /\ Len(mmio') = n + 1 /\ mmio'[n + 1] = w
      /\ \A i \in 1..n : mmio'[i] = mmio[i]
      /\ \A i \in 1..Len(mmio') : i \in 1..n \/ i = n + 1
  BY <1>3, <1>4, PostFacts
<1>6. PostedInOrder("cq_cons", hw_cq_cons, cq_cons_ptr)'
  <2>1. PostedInOrder("cq_cons", hw_cq_cons, cq_cons_ptr)  BY DEF Posted
  <2>2. hw_cq_cons <= cq_cons_ptr  BY <2>1 DEF PostedInOrder
  <2>3. w.reg # "cq_cons"  BY <1>3
  <2>4. QED  BY <1>3, <1>4, <2>1, <2>2, <2>3, PostedOther DEF PostedInOrder
<1>7. ASSUME NEW i \in 1..Len(mmio'), mmio'[i].reg = "prod"
      PROVE  RoomKnown(i, mmio[i].val)' 
  <2>1. CASE i \in 1..n
    <3>1. mmio'[i] = mmio[i]  BY <1>5, <2>1
    <3>2. RoomKnown(i, mmio[i].val)  BY <1>7, <2>1, <3>1 DEF Posted
    <3>3. \A j \in 1..i - 1 : j \in 1..n  BY <1>5, <2>1
    <3>4. QED  BY <1>5, <3>1, <3>2, <3>3 DEF RoomKnown
  <2>2. CASE i = n + 1
    <3>1. mmio'[i].val = prod_ptr + 1  BY <1>3, <1>5, <2>2
    <3>2. CASE hw_cq_cons = cq_cons_ptr  BY <3>1, <3>2 DEF RoomKnown
    <3>3. CASE \E j \in 1..n : mmio[j] = [reg |-> "cq_cons", val |-> cq_cons_ptr]
      <4>1. PICK j \in 1..n : mmio[j] = [reg |-> "cq_cons", val |-> cq_cons_ptr]  BY <3>3
      <4>2. j \in 1..i - 1 /\ mmio'[j].reg = "cq_cons" /\ mmio'[j].val = cq_cons_ptr
        BY <1>5, <2>2, <4>1
      <4>3. QED  BY <3>1, <4>2 DEF RoomKnown
    <3>4. QED  BY <3>2, <3>3 DEF Posted
  <2>3. QED  BY <1>5, <1>7, <2>1, <2>2
<1>8. hw_cq_cons = cq_cons_ptr \/ \E j \in 1..Len(mmio') : mmio'[j] = [reg |-> "cq_cons", val |-> cq_cons_ptr]
  <2>1. \A j \in 1..n : j \in 1..Len(mmio')  BY <1>5
  <2>2. QED  BY <1>5, <2>1 DEF Posted
<1>9. (hw_prod <= hw_cq_cons + full_size)'  BY DEF Posted
<1>10. QED  BY <1>2, <1>6, <1>7, <1>8, <1>9 DEF Posted

(* The handler posts the consumer pointer of the completion queue.         *)
LEMMA PostCqCons ==
    ASSUME TypeOK, Posted, NEW v \in Nat, mmio' = Append(mmio, [reg |-> "cq_cons", val |-> v]),
           cq_cons_ptr' = v, cq_cons_ptr <= v,
           UNCHANGED <<hw_prod, hw_cq_cons, prod_ptr>>
    PROVE  Posted'
<1> DEFINE w == [reg |-> "cq_cons", val |-> v]
           n == Len(mmio)
<1>1. /\ prod_ptr \in Nat /\ hw_prod \in Nat /\ hw_cq_cons \in Nat /\ cq_cons_ptr \in Nat
  BY DEF TypeOK
<1>2. w \in Write /\ w.reg = "cq_cons" /\ w.val = v  BY DEF Write
<1>3. mmio' = Append(mmio, w)  OBVIOUS
<1>4. /\ n \in Nat /\ Len(mmio') = n + 1 /\ mmio'[n + 1] = w
      /\ \A i \in 1..n : mmio'[i] = mmio[i]
      /\ \A i \in 1..Len(mmio') : i \in 1..n \/ i = n + 1
  BY <1>2, <1>3, PostFacts
<1>5. PostedInOrder("cq_cons", hw_cq_cons, cq_cons_ptr)'
  <2>1. PostedInOrder("cq_cons", hw_cq_cons, cq_cons_ptr)  BY DEF Posted
  <2>2. QED  BY <1>1, <2>1, PostedNewest DEF PostedInOrder
<1>6. mmio'[n + 1] = [reg |-> "cq_cons", val |-> cq_cons_ptr'] /\ n + 1 \in 1..Len(mmio')
  BY <1>4
<1> HIDE DEF w
<1>7. PostedInOrder("prod", hw_prod, prod_ptr)'
  <2>1. PostedInOrder("prod", hw_prod, prod_ptr)  BY DEF Posted
  <2>2. hw_prod <= prod_ptr  BY <2>1 DEF PostedInOrder
  <2>3. w.reg # "prod"  BY <1>2
  <2>4. QED  BY <1>2, <1>3, <2>1, <2>2, <2>3, PostedOther DEF PostedInOrder
<1>8. ASSUME NEW i \in 1..Len(mmio'), mmio'[i].reg = "prod"
      PROVE  RoomKnown(i, mmio[i].val)'
  <2>1. i \in 1..n
    <3>1. i # n + 1  BY <1>2, <1>4, <1>8
    <3>2. QED  BY <1>4, <3>1
  <2>2. mmio'[i] = mmio[i]  BY <1>4, <2>1
  <2>3. RoomKnown(i, mmio[i].val)  BY <1>8, <2>1, <2>2 DEF Posted
  <2>4. \A j \in 1..i - 1 : j \in 1..n  BY <1>4, <2>1
  <2>5. QED  BY <1>4, <2>2, <2>3, <2>4 DEF RoomKnown
<1>9. (hw_prod <= hw_cq_cons + full_size)'  BY DEF Posted
<1>10. QED  BY <1>5, <1>6, <1>7, <1>8, <1>9 DEF Posted

(* When the oldest write takes effect, those behind it move up.            *)
LEMMA AppliedInOrder ==
    ASSUME TypeOK, mmio # <<>>, mmio' = Tail(mmio),
           NEW reg \in {"prod", "cq_cons"}, NEW low \in Nat, NEW high \in Nat, PostedInOrder(reg, low, high),
           NEW low1, low1 = IF mmio[1].reg = reg THEN mmio[1].val ELSE low
    PROVE  /\ low1 \in Nat /\ low <= low1 /\ low1 <= high
           /\ \A i \in 1..Len(mmio') : mmio'[i].reg = reg =>
                /\ low1 <= mmio'[i].val /\ mmio'[i].val <= high
                /\ \A j \in 1..i : mmio'[j].reg = reg => mmio'[j].val <= mmio'[i].val
<1>1. mmio \in Seq(Write)  BY DEF TypeOK, Write
<1>2. Len(mmio) \in Nat \ {0}  BY <1>1, EmptySeq
<1>3. Len(mmio') = Len(mmio) - 1 /\ \A i \in 1..Len(mmio') : mmio'[i] = mmio[i + 1]
  BY <1>1, HeadTailProperties
<1>4. \A i \in 1..Len(mmio) : mmio[i].val \in Nat
  <2>1. \A i \in 1..Len(mmio) : mmio[i] \in Write  BY <1>1, ElementOfSeq
  <2>2. QED  BY <2>1 DEF Write
<1>5. \A i \in 1..Len(mmio) : mmio[i].reg = reg =>
        /\ low <= mmio[i].val /\ mmio[i].val <= high
        /\ \A j \in 1..i : mmio[j].reg = reg => mmio[j].val <= mmio[i].val
  BY DEF PostedInOrder
<1>6. low1 \in Nat /\ low <= low1 /\ low1 <= high
  <2>1. 1 \in 1..Len(mmio) /\ low <= high  BY <1>2 DEF PostedInOrder
  <2>2. QED  BY <1>4, <1>5, <2>1
<1>7. ASSUME NEW i \in 1..Len(mmio'), mmio'[i].reg = reg
      PROVE  /\ low1 <= mmio'[i].val /\ mmio'[i].val <= high
             /\ \A j \in 1..i : mmio'[j].reg = reg => mmio'[j].val <= mmio'[i].val
  <2>1. i + 1 \in 1..Len(mmio) /\ mmio'[i] = mmio[i + 1] /\ 1 \in 1..i + 1  BY <1>2, <1>3
  <2>2. low1 <= mmio'[i].val /\ mmio'[i].val <= high  BY <1>5, <1>7, <2>1
  <2>3. \A j \in 1..i : j + 1 \in 1..i + 1 /\ mmio'[j] = mmio[j + 1]  BY <1>2, <1>3
  <2>4. \A j \in 1..i : mmio'[j].reg = reg => mmio'[j].val <= mmio'[i].val  BY <1>5, <1>7, <2>1, <2>3
  <2>5. QED  BY <2>2, <2>4
<1>8. QED  BY <1>6, <1>7

(* The device then knows what it has to about the room in the completion   *)
(* queue.                                                                  *)
LEMMA ApplyWriteStep ==
    ASSUME IInv, ApplyWrite
    PROVE  IInv'
<1> USE DEF driverVars
<1> DEFINE h == mmio[1]
           n == Len(mmio')
<1>1. TypeOK /\ Pointers /\ Posted  BY DEF IInv
<1>2. mmio \in Seq(Write) /\ mmio # <<>> /\ mmio' = Tail(mmio)  BY <1>1 DEF TypeOK, Write, ApplyWrite
<1>3. /\ mmio' \in Seq(Write) /\ Len(mmio) \in Nat \ {0} /\ n = Len(mmio) - 1 /\ n \in Nat
      /\ \A i \in 1..n : mmio'[i] = mmio[i + 1]
      /\ Head(mmio) = h /\ h \in Write /\ 1 \in 1..Len(mmio)
  <2>1. Len(mmio) \in Nat \ {0}  BY <1>2, EmptySeq
  <2>2. Head(mmio) = h  BY <1>2
  <2>3. QED  BY <1>2, <2>1, <2>2, HeadTailProperties
<1>4. /\ prod_ptr \in Nat /\ cq_cons_ptr \in Nat /\ hw_prod \in Nat /\ hw_cq_cons \in Nat
      /\ full_size \in Nat /\ \A i \in 1..Len(mmio) : mmio[i].val \in Nat
  <2>1. \A i \in 1..Len(mmio) : mmio[i] \in Write  BY <1>2, ElementOfSeq
  <2>2. QED  BY <1>1, <2>1, Sizes DEF TypeOK, Write
<1>5. /\ h.reg \in {"prod", "cq_cons"}
      /\ hw_prod' = IF h.reg = "prod" THEN h.val ELSE hw_prod
      /\ hw_cq_cons' = IF h.reg = "cq_cons" THEN h.val ELSE hw_cq_cons
  BY <1>3 DEF ApplyWrite, Write
<1>6. /\ hw_prod' \in Nat /\ hw_prod <= hw_prod' /\ hw_prod' <= prod_ptr
      /\ PostedInOrder("prod", hw_prod, prod_ptr)'
  <2>1. PostedInOrder("prod", hw_prod, prod_ptr)  BY <1>1 DEF Posted
  <2>2. prod_ptr' = prod_ptr  BY DEF ApplyWrite
  <2>3. QED  BY <1>1, <1>2, <1>4, <1>5, <2>1, <2>2, AppliedInOrder DEF PostedInOrder
<1>7. /\ hw_cq_cons' \in Nat /\ hw_cq_cons <= hw_cq_cons' /\ hw_cq_cons' <= cq_cons_ptr
      /\ PostedInOrder("cq_cons", hw_cq_cons, cq_cons_ptr)'
  <2>1. PostedInOrder("cq_cons", hw_cq_cons, cq_cons_ptr)  BY <1>1 DEF Posted
  <2>2. cq_cons_ptr' = cq_cons_ptr  BY DEF ApplyWrite
  <2>3. QED  BY <1>1, <1>2, <1>4, <1>5, <2>1, <2>2, AppliedInOrder DEF PostedInOrder
<1> HIDE DEF h, n
<1>8. hw_prod' <= hw_cq_cons' + full_size
  <2>1. CASE h.reg = "prod"
    <3>1. RoomKnown(1, h.val)  BY <1>1, <1>3, <2>1 DEF Posted, h
    <3>2. h.val <= hw_cq_cons + full_size  BY <3>1 DEF RoomKnown
    <3>3. QED  BY <1>5, <2>1, <3>2
  <2>2. CASE h.reg = "cq_cons"
    <3>1. hw_prod <= hw_cq_cons + full_size  BY <1>1 DEF Posted
    <3>2. QED  BY <1>4, <1>5, <1>7, <2>2, <3>1
  <2>3. QED  BY <1>5, <2>1, <2>2
<1>9. ASSUME NEW i \in 1..n, mmio'[i].reg = "prod"
      PROVE  RoomKnown(i, mmio[i].val)'
  <2>1. i + 1 \in 1..Len(mmio) /\ mmio'[i] = mmio[i + 1] /\ mmio[i + 1].val \in Nat  BY <1>3, <1>4
  <2>2. RoomKnown(i + 1, mmio[i + 1].val)  BY <1>1, <1>9, <2>1 DEF Posted
  <2>3. CASE mmio[i + 1].val <= hw_cq_cons + full_size
    <3>1. mmio'[i].val <= hw_cq_cons' + full_size  BY <1>4, <1>7, <2>1, <2>3
    <3>2. QED  BY <3>1 DEF RoomKnown
  <2>4. CASE \E j \in 1..i + 1 - 1 : mmio[j].reg = "cq_cons" /\ mmio[i + 1].val <= mmio[j].val + full_size
    <3>1. PICK j \in 1..i + 1 - 1 : mmio[j].reg = "cq_cons" /\ mmio[i + 1].val <= mmio[j].val + full_size
      BY <2>4
    <3>2. CASE j = 1
      <4>1. mmio'[i].val <= hw_cq_cons' + full_size  BY <1>5, <2>1, <3>1, <3>2 DEF h
      <4>2. QED  BY <4>1 DEF RoomKnown
    <3>3. CASE j # 1
      <4>1. j - 1 \in 1..i - 1 /\ j - 1 \in 1..n /\ (j - 1) + 1 = j  BY <1>3, <3>3
      <4>2. mmio'[j - 1] = mmio[j]  BY <1>3, <4>1
      <4>3. QED  BY <2>1, <3>1, <4>1, <4>2 DEF RoomKnown
    <3>4. QED  BY <3>2, <3>3
  <2>5. QED  BY <2>2, <2>3, <2>4 DEF RoomKnown
<1>10. hw_cq_cons' = cq_cons_ptr \/ \E j \in 1..n : mmio'[j] = [reg |-> "cq_cons", val |-> cq_cons_ptr]
  <2>1. CASE hw_cq_cons = cq_cons_ptr  BY <1>4, <1>7, <2>1
  <2>2. CASE \E j \in 1..Len(mmio) : mmio[j] = [reg |-> "cq_cons", val |-> cq_cons_ptr]
    <3>1. PICK j \in 1..Len(mmio) : mmio[j] = [reg |-> "cq_cons", val |-> cq_cons_ptr]  BY <2>2
    <3>2. CASE j = 1
      <4>1. h.reg = "cq_cons" /\ h.val = cq_cons_ptr  BY <3>1, <3>2 DEF h
      <4>2. QED  BY <1>5, <4>1
    <3>3. CASE j # 1
      <4>1. j - 1 \in 1..n /\ (j - 1) + 1 = j  BY <1>3, <3>3
      <4>2. mmio'[j - 1] = mmio[j]  BY <1>3, <4>1
      <4>3. QED  BY <3>1, <4>1, <4>2
    <3>4. QED  BY <3>2, <3>3
  <2>3. QED  BY <1>1, <2>1, <2>2 DEF Posted
<1>11. prod_ptr' = prod_ptr /\ cq_cons_ptr' = cq_cons_ptr  BY DEF ApplyWrite
<1>12. Posted'  BY <1>6, <1>7, <1>8, <1>9, <1>10, <1>11 DEF Posted, n
<1>13. TypeOK'  BY <1>1, <1>3, <1>6, <1>7 DEF TypeOK, ApplyWrite, Write
<1>14. Pointers'
  <2>1. hw_cons \in Nat /\ hw_cons <= hw_prod'
    <3>1. hw_cons \in Nat /\ hw_cons <= hw_prod  BY <1>1, Order
    <3>2. QED  BY <1>4, <1>6, <3>1
  <2>2. QED  BY <1>1, <1>6, <2>1 DEF Pointers, ApplyWrite, delivered
<1>15. Records' /\ InUse'  BY DEF IInv, Records, InUse, ApplyWrite, delivered
<1>16. BuffersOwned' /\ BuffersCounted' /\ WireInOrder'
  BY DEF IInv, BuffersOwned, BuffersCounted, WireInOrder, ApplyWrite
<1>17. QED  BY <1>12, <1>13, <1>14, <1>15, <1>16 DEF IInv

(***************************************************************************)
(* The handler takes the new records                                       *)
(***************************************************************************)
(* The slots of the new records are emptied and no others.                 *)
LEMMA Emptied ==
    ASSUME IInv, ProcessCq
    PROVE  /\ tx_info' \in [Slots -> Buffers(pool) \cup {None}]
           /\ \A s \in Slots : \/ s \in completed_slots /\ tx_info'[s] = None
                               \/ s \notin completed_slots /\ tx_info'[s] = tx_info[s]
           /\ \A p \in cq_cons_ptr..delivered - 1 : slot(p) \in completed_slots
           /\ \A p \in delivered..cq_cons_ptr + SIZE - 1 : tx_info'[slot(p)] = tx_info[slot(p)]
           /\ \A p \in cq_cons_ptr + SIZE..delivered + SIZE - 1 : tx_info'[slot(p)] = None
<1>1. TypeOK /\ Pointers /\ Records /\ InUse  BY DEF IInv
<1>2. SIZE \in Nat \ {0} /\ cq_cons_ptr \in Nat /\ delivered \in Nat /\ cq_cons_ptr <= delivered
      /\ delivered <= cq_cons_ptr + SIZE
  <2>1. SIZE \in Nat \ {0} /\ prod_ptr <= cq_cons_ptr + SIZE  BY <1>1, Sizes, RingSlots
  <2>2. /\ cq_cons_ptr \in Nat /\ delivered \in Nat /\ cq_cons_ptr <= delivered
        /\ prod_ptr \in Nat /\ delivered <= prod_ptr
    BY <1>1, Order
  <2>3. QED  BY <2>1, <2>2
<1>3. tx_info' \in [Slots -> Buffers(pool) \cup {None}]  BY <1>1 DEF TypeOK, ProcessCq
<1>4. \A s \in Slots : \/ s \in completed_slots /\ tx_info'[s] = None
                       \/ s \notin completed_slots /\ tx_info'[s] = tx_info[s]
  BY DEF ProcessCq
<1>5. ASSUME NEW p \in cq_cons_ptr..delivered - 1 PROVE slot(p) \in completed_slots
  <2>1. p \in Nat /\ slot(p) \in Slots  BY <1>2, SlotFacts
  <2>2. QED  BY <1>1, <2>1, CompletedSlots
<1>6. ASSUME NEW p \in delivered..cq_cons_ptr + SIZE - 1 PROVE tx_info'[slot(p)] = tx_info[slot(p)]
  <2>1. p \in Nat /\ slot(p) \in Slots  BY <1>2, SlotFacts
  <2>2. ASSUME NEW q \in cq_cons_ptr..delivered - 1 PROVE slot(q) # slot(p)
    <3>1. /\ q \in cq_cons_ptr..cq_cons_ptr + SIZE - 1 /\ q # p
          /\ p \in cq_cons_ptr..cq_cons_ptr + SIZE - 1
      BY <1>2
    <3>2. QED  BY <1>1, <3>1, RingSlots
  <2>3. slot(p) \notin completed_slots  BY <1>1, <2>1, <2>2, CompletedSlots
  <2>4. QED  BY <1>4, <2>1, <2>3
<1>7. ASSUME NEW p \in cq_cons_ptr + SIZE..delivered + SIZE - 1 PROVE tx_info'[slot(p)] = None
  <2>1. p - SIZE \in cq_cons_ptr..delivered - 1 /\ p - SIZE \in Nat /\ (p - SIZE) + SIZE = p  BY <1>2
  <2>2. slot(p) = slot(p - SIZE) /\ slot(p) \in Slots  BY <2>1, SlotFacts
  <2>3. QED  BY <1>4, <1>5, <2>1, <2>2
<1>8. QED  BY <1>3, <1>4, <1>5, <1>6, <1>7

(* The buffers of the new records are added to the free ones.              *)
LEMMA Freed ==
    ASSUME IInv, ProcessCq
    PROVE  /\ pool'.allocated = pool.allocated /\ pool' = [allocated |-> pool'.allocated, free |-> pool'.free]
           /\ pool'.free \in Seq(Buffers(pool))
           /\ Len(pool'.free) = Len(pool.free) + (delivered - cq_cons_ptr)
           /\ \A i \in 1..Len(pool.free) : pool'.free[i] = pool.free[i]
           /\ \A i \in 1..delivered - cq_cons_ptr :
                /\ pool'.free[Len(pool.free) + i] = tx_info[slot(cq_cons_ptr + i - 1)]
                /\ tx_info[slot(cq_cons_ptr + i - 1)] # None
                /\ slot(cq_cons_ptr + i - 1) \in completed_slots
<1> DEFINE n == delivered - cq_cons_ptr
           B == Buffers(pool)
           pkt(i) == tx_info[slot(cq_cons_ptr + i - 1)]
           pkts == [i \in 1..n |-> pkt(i)]
<1>1. TypeOK /\ Pointers /\ Records /\ InUse  BY DEF IInv
<1>2. /\ cq_cons_ptr \in Nat /\ delivered \in Nat /\ n \in Nat /\ prod_ptr \in Nat
      /\ delivered <= prod_ptr /\ Len(pool.free) \in Nat
  <2>1. /\ cq_cons_ptr \in Nat /\ delivered \in Nat /\ cq_cons_ptr <= delivered
        /\ prod_ptr \in Nat /\ delivered <= prod_ptr /\ Len(pool.free) \in Nat
    BY <1>1, Order
  <2>2. n \in Nat  BY <2>1
  <2>3. QED  BY <2>1, <2>2
<1>3. completed_pkts = pkts  BY <1>1, CompletedPkts
<1>4. ASSUME NEW i \in 1..n
      PROVE  pkt(i) \in B /\ pkt(i) # None /\ slot(cq_cons_ptr + i - 1) \in completed_slots
  <2>1. /\ cq_cons_ptr + i - 1 \in cq_cons_ptr..delivered - 1
        /\ cq_cons_ptr + i - 1 \in cq_cons_ptr..prod_ptr - 1 /\ cq_cons_ptr + i - 1 \in Nat
    BY <1>2
  <2>2. slot(cq_cons_ptr + i - 1) \in Slots /\ pkt(i) # None  BY <1>1, <2>1, SlotFacts DEF InUse
  <2>3. QED  BY <1>1, <2>1, <2>2, Emptied DEF TypeOK
<1> HIDE DEF n, pkt, B
<1>5. pkts \in Seq(B) /\ Len(pkts) = n /\ \A i \in 1..n : pkts[i] = pkt(i)
  <2>1. pkts \in [1..n -> B]  BY <1>4
  <2>2. pkts \in Seq(B)  BY <1>2, <2>1, SeqDef
  <2>3. Len(pkts) = n  BY <1>2, <2>2, LenProperties
  <2>4. QED  BY <2>2, <2>3
<1> HIDE DEF pkts
<1>6. pool.free \in Seq(B)  BY <1>1 DEF TypeOK, B
<1>7. pool' = [pool EXCEPT !.free = pool.free \o pkts]  BY <1>3 DEF ProcessCq, free_pkts
<1>8. pool = [allocated |-> pool.allocated, free |-> pool.free]  BY <1>1 DEF TypeOK
<1>9. /\ pool'.allocated = pool.allocated /\ pool'.free = pool.free \o pkts
      /\ pool' = [allocated |-> pool'.allocated, free |-> pool'.free]
  BY <1>7, <1>8
<1>10. /\ pool'.free \in Seq(B) /\ Len(pool'.free) = Len(pool.free) + n
       /\ \A i \in 1..Len(pool.free) + n :
            pool'.free[i] = IF i <= Len(pool.free) THEN pool.free[i] ELSE pkts[i - Len(pool.free)]
  <2> DEFINE both == pool.free \o pkts
             front == pool.free
  <2>1. /\ both \in Seq(B) /\ Len(both) = Len(front) + Len(pkts)
        /\ \A i \in 1..Len(front) + Len(pkts) :
             both[i] = IF i <= Len(front) THEN front[i] ELSE pkts[i - Len(front)]
    BY <1>5, <1>6, ConcatProperties
  <2> HIDE DEF both
  <2>2. QED  BY <1>5, <1>9, <2>1 DEF both
<1>11. ASSUME NEW i \in 1..n PROVE pool'.free[Len(pool.free) + i] = pkt(i)
  <2>1. /\ Len(pool.free) + i \in 1..Len(pool.free) + n /\ ~(Len(pool.free) + i <= Len(pool.free))
        /\ (Len(pool.free) + i) - Len(pool.free) = i
    BY <1>2
  <2>2. QED  BY <1>5, <1>10, <2>1
<1>12. \A i \in 1..Len(pool.free) : pool'.free[i] = pool.free[i]
  <2>1. \A i \in 1..Len(pool.free) : i \in 1..Len(pool.free) + n /\ i <= Len(pool.free)  BY <1>2
  <2>2. QED  BY <1>10, <2>1
<1>13. QED  BY <1>4, <1>9, <1>10, <1>11, <1>12 DEF n, pkt, B

LEMMA FreedBuffers ==
    ASSUME IInv, ProcessCq, NEW b
    PROVE  b \in FreeBuffers(pool)' <=>
             \/ b \in FreeBuffers(pool)
             \/ \E i \in 1..delivered - cq_cons_ptr : b = tx_info[slot(cq_cons_ptr + i - 1)]
<1>1. Len(pool.free) \in Nat /\ cq_cons_ptr \in Nat /\ delivered \in Nat /\ cq_cons_ptr <= delivered
  BY Order DEF IInv
<1> DEFINE n == delivered - cq_cons_ptr
           f == Len(pool.free)
<1>2. f \in Nat /\ n \in Nat /\ Len(pool'.free) = f + n  BY <1>1, Freed
<1>3. /\ \A i \in 1..f : pool'.free[i] = pool.free[i]
      /\ \A i \in 1..n : pool'.free[f + i] = tx_info[slot(cq_cons_ptr + i - 1)]
  BY Freed
<1>10. DOMAIN pool.free = 1..f /\ DOMAIN pool'.free = 1..f + n
  <2>1. pool.free \in Seq(Buffers(pool))  BY DEF IInv, TypeOK
  <2>2. pool'.free \in Seq(Buffers(pool))  BY Freed
  <2>3. QED  BY <1>2, <2>1, <2>2, LenProperties
<1> HIDE DEF n, f
<1>4. \A i \in 1..f + n : i \in 1..f \/ (i - f \in 1..n /\ f + (i - f) = i)  BY <1>2
<1>5. \A i \in 1..n : f + i \in 1..f + n  BY <1>2
<1>6. \A i \in 1..f : i \in 1..f + n  BY <1>2
<1>7. ASSUME b \in FreeBuffers(pool)'
      PROVE  b \in FreeBuffers(pool) \/ \E i \in 1..n : b = tx_info[slot(cq_cons_ptr + i - 1)]
  <2>1. PICK i \in 1..f + n : b = pool'.free[i]  BY <1>10, <1>7 DEF FreeBuffers, Range
  <2>2. CASE i \in 1..f  BY <1>3, <1>10, <2>1, <2>2 DEF FreeBuffers, Range
  <2>3. CASE i - f \in 1..n /\ f + (i - f) = i  BY <1>3, <2>1, <2>3
  <2>4. QED  BY <1>4, <2>2, <2>3
<1>8. ASSUME b \in FreeBuffers(pool) \/ \E i \in 1..n : b = tx_info[slot(cq_cons_ptr + i - 1)]
      PROVE  b \in FreeBuffers(pool)'
  <2>1. CASE b \in FreeBuffers(pool)
    <3>1. PICK i \in 1..f : b = pool.free[i]  BY <1>10, <2>1 DEF FreeBuffers, Range
    <3>2. QED  BY <1>3, <1>6, <1>10, <3>1 DEF FreeBuffers, Range
  <2>2. CASE \E i \in 1..n : b = tx_info[slot(cq_cons_ptr + i - 1)]
    <3>1. PICK i \in 1..n : b = tx_info[slot(cq_cons_ptr + i - 1)]  BY <2>2
    <3>2. QED  BY <1>3, <1>5, <1>10, <3>1 DEF FreeBuffers, Range
  <2>3. QED  BY <1>8, <2>1, <2>2
<1>9. QED  BY <1>7, <1>8 DEF n

LEMMA ProcessCqOwned ==
    ASSUME IInv, ProcessCq
    PROVE  BuffersOwned' /\ BuffersCounted'
<1> USE DEF deviceVars
<1> DEFINE c == cq_cons_ptr
           n == delivered - cq_cons_ptr
           f == Len(pool.free)
           done(i) == slot(c + i - 1)
<1>1. TypeOK /\ Pointers /\ Records /\ InUse /\ BuffersOwned /\ BuffersCounted  BY DEF IInv
<1>2. /\ c \in Nat /\ n \in Nat /\ f \in Nat /\ SIZE \in Nat \ {0} /\ prod_ptr \in Nat
      /\ delivered = c + n /\ c + n <= c + SIZE /\ c + n <= Len(wire) /\ Len(wire) \in Nat
      /\ Len(engine) \in Nat /\ Len(wire) + Len(engine) <= prod_ptr /\ prod_ptr <= c + SIZE
  <2>1. /\ c \in Nat /\ delivered \in Nat /\ f \in Nat /\ prod_ptr \in Nat /\ Len(wire) \in Nat
        /\ Len(engine) \in Nat /\ c <= delivered /\ delivered <= Len(wire)
        /\ Len(wire) + Len(engine) <= prod_ptr
    BY <1>1, Order
  <2>2. SIZE \in Nat \ {0} /\ prod_ptr <= c + SIZE  BY <1>1, Sizes, RingSlots
  <2> HIDE DEF f
  <2>3. QED  BY <2>1, <2>2
<1>3. /\ pool'.allocated = pool.allocated /\ Len(pool'.free) = f + n
      /\ \A i \in 1..f : pool'.free[i] = pool.free[i]
      /\ \A i \in 1..n : pool'.free[f + i] = tx_info[done(i)] /\ tx_info[done(i)] # None
                         /\ done(i) \in completed_slots
  BY Freed
<1>4. ASSUME NEW i \in 1..n PROVE done(i) \in Slots /\ \A j \in 1..n : i # j => done(i) # done(j)
  <2>1. \A j \in 1..n : c + j - 1 \in c..c + SIZE - 1 /\ c + j - 1 \in Nat  BY <1>2
  <2>2. \A j \in 1..n : i # j => c + i - 1 # c + j - 1  BY <1>2
  <2>3. QED  BY <1>1, <2>1, <2>2, SlotFacts, RingSlots
<1> HIDE DEF n, f, done
<1>5. IsInjective(pool.free)'
  <2> SUFFICES ASSUME NEW i \in 1..f + n, NEW j \in 1..f + n, i # j
               PROVE  pool'.free[i] # pool'.free[j]
    BY <1>3 DEF IsInjective
  <2>1. \A k \in 1..f + n : k \in 1..f \/ (k - f \in 1..n /\ f + (k - f) = k)  BY <1>2
  <2>2. \A k \in 1..f : pool'.free[k] \in FreeBuffers(pool)  BY <1>3 DEF FreeBuffers, Range, f
  <2>3. \A k \in 1..n : pool'.free[f + k] \notin FreeBuffers(pool)
    BY <1>1, <1>3, <1>4 DEF BuffersOwned
  <2>4. CASE i \in 1..f /\ j \in 1..f
    <3>1. pool.free[i] # pool.free[j]  BY <1>1, <2>4 DEF BuffersOwned, IsInjective, f
    <3>2. QED  BY <1>3, <2>4, <3>1
  <2>5. CASE i \in 1..f /\ j - f \in 1..n /\ f + (j - f) = j
    <3>1. pool'.free[f + (j - f)] \notin FreeBuffers(pool)  BY <2>3, <2>5
    <3>2. QED  BY <2>2, <2>5, <3>1
  <2>6. CASE j \in 1..f /\ i - f \in 1..n /\ f + (i - f) = i
    <3>1. pool'.free[f + (i - f)] \notin FreeBuffers(pool)  BY <2>3, <2>6
    <3>2. QED  BY <2>2, <2>6, <3>1
  <2>7. CASE i - f \in 1..n /\ f + (i - f) = i /\ j - f \in 1..n /\ f + (j - f) = j
    <3>1. i - f # j - f  BY <1>2, <2>7
    <3>2. done(i - f) # done(j - f) /\ done(i - f) \in Slots /\ done(j - f) \in Slots  BY <1>4, <2>7, <3>1
    <3>3. tx_info[done(i - f)] # tx_info[done(j - f)]  BY <1>1, <1>3, <2>7, <3>2 DEF BuffersOwned
    <3>4. pool'.free[f + (i - f)] = tx_info[done(i - f)] /\ pool'.free[f + (j - f)] = tx_info[done(j - f)]
      BY <1>3, <2>7
    <3>5. QED  BY <2>7, <3>3, <3>4
  <2>8. QED  BY <2>1, <2>4, <2>5, <2>6, <2>7
<1>6. \A s \in Slots : \/ s \in completed_slots /\ tx_info'[s] = None
                       \/ s \notin completed_slots /\ tx_info'[s] = tx_info[s]
  BY Emptied
<1>7. \A b : b \in FreeBuffers(pool)' <=> b \in FreeBuffers(pool) \/ \E i \in 1..n : b = tx_info[done(i)]
  BY FreedBuffers DEF n, done
<1>8. ASSUME NEW s \in Slots PROVE tx_info'[s] \notin FreeBuffers(pool)'
  <2>1. tx_info[s] \notin FreeBuffers(pool) /\ None \notin FreeBuffers(pool)
    <3>1. \A i \in 1..Len(pool.free) : pool.free[i] \in Buffers(pool)  BY <1>1, ElementOfSeq DEF TypeOK
    <3>2. None \notin Buffers(pool)  BY <1>1 DEF TypeOK, Buffers, None
    <3>3. None \notin FreeBuffers(pool)  BY <3>1, <3>2 DEF FreeBuffers, Range
    <3>4. QED  BY <1>1, <3>3 DEF BuffersOwned
  <2>2. CASE tx_info'[s] = None  BY <1>3, <1>7, <2>1, <2>2
  <2>3. CASE s \notin completed_slots /\ tx_info'[s] = tx_info[s]
    <3>1. \A i \in 1..n : done(i) # s /\ done(i) \in Slots /\ tx_info[done(i)] # None  BY <1>3, <1>4, <2>3
    <3>2. \A i \in 1..n : tx_info[done(i)] # tx_info[s]  BY <1>1, <3>1 DEF BuffersOwned
    <3>3. QED  BY <1>7, <2>1, <2>3, <3>2
  <2>4. QED  BY <1>6, <2>2, <2>3
<1>9. ASSUME NEW s \in Slots, NEW u \in Slots, s # u, tx_info'[s] # None
      PROVE  tx_info'[s] # tx_info'[u]
  <2>1. tx_info'[s] = tx_info[s]  BY <1>6, <1>9
  <2>2. tx_info[s] # tx_info[u]  BY <1>1, <1>9, <2>1 DEF BuffersOwned
  <2>3. QED  BY <1>6, <1>9, <2>1, <2>2
<1>10. ASSUME NEW b \in Buffers(pool)
       PROVE  b \in FreeBuffers(pool)' \/ \E s \in Slots : tx_info'[s] = b
  <2>1. CASE b \in FreeBuffers(pool)  BY <1>7, <2>1
  <2>2. CASE \E s \in Slots : tx_info[s] = b
    <3>1. PICK s \in Slots : tx_info[s] = b  BY <2>2
    <3>2. CASE s \notin completed_slots  BY <1>6, <3>1, <3>2
    <3>3. CASE s \in completed_slots
      <4>1. PICK p \in c..delivered - 1 : slot(p) = s  BY <1>1, <3>3, CompletedSlots
      <4>2. p - c + 1 \in 1..n /\ c + (p - c + 1) - 1 = p  BY <1>2
      <4>3. b = tx_info[done(p - c + 1)]  BY <3>1, <4>1, <4>2 DEF done
      <4>4. QED  BY <1>7, <4>2, <4>3
    <3>4. QED  BY <3>2, <3>3
  <2>3. QED  BY <1>1, <2>1, <2>2 DEF BuffersOwned
<1>11. ASSUME NEW i \in 1..Len(engine) PROVE engine[i].pkt = tx_info'[slot(engine[i].index)]
  <2>1. Len(wire) + i - 1 \in delivered..c + SIZE - 1  BY <1>2
  <2>2. engine[i].index = Len(wire) + i - 1 /\ engine[i].pkt = tx_info[slot(Len(wire) + i - 1)]
    BY <1>1 DEF InUse
  <2>3. tx_info'[slot(Len(wire) + i - 1)] = tx_info[slot(Len(wire) + i - 1)]  BY <2>1, Emptied
  <2>4. QED  BY <2>2, <2>3
<1>12. BuffersOwned'
  <2>1. engine' = engine /\ Buffers(pool)' = Buffers(pool)  BY <1>3 DEF ProcessCq, Buffers
  <2>2. pool'.allocated <= full_size  BY <1>1, <1>3 DEF BuffersOwned
  <2>3. QED  BY <1>5, <1>8, <1>9, <1>10, <1>11, <2>1, <2>2 DEF BuffersOwned
<1>13. BuffersCounted'
  <2>1. cq_cons_ptr' = delivered /\ prod_ptr' = prod_ptr  BY <1>1, CqEnd DEF ProcessCq
  <2>2. pool.allocated = f + (prod_ptr - c)  BY <1>1 DEF BuffersCounted, f
  <2>3. f + (prod_ptr - c) = (f + n) + (prod_ptr - delivered)  BY <1>2
  <2>4. QED  BY <1>3, <2>1, <2>2, <2>3 DEF BuffersCounted
<1>14. QED  BY <1>12, <1>13

LEMMA ProcessCqStep ==
    ASSUME IInv, ProcessCq
    PROVE  IInv'
<1> USE DEF deviceVars
<1> DEFINE c == cq_cons_ptr
           d == delivered
<1>1. TypeOK /\ Pointers /\ Posted /\ Records /\ InUse  BY DEF IInv
<1>2. /\ c \in Nat /\ d \in Nat /\ prod_ptr \in Nat /\ hw_cons \in Nat /\ Len(wire) \in Nat
      /\ Len(engine) \in Nat /\ c <= d /\ d <= Len(wire) /\ Len(wire) + Len(engine) <= prod_ptr
      /\ hw_cons = Len(wire) + Len(engine) /\ hw_cons <= prod_ptr
  BY <1>1, Order
<1>3. SIZE \in Nat \ {0} /\ CQ_SIZE \in Nat \ {0} /\ prod_ptr <= c + SIZE /\ d <= c + CQ_SIZE
  <2>1. /\ SIZE \in Nat \ {0} /\ CQ_SIZE \in Nat \ {0} /\ full_size \in Nat /\ full_size <= CQ_SIZE
        /\ prod_ptr <= c + SIZE
    BY <1>1, Sizes, RingSlots
  <2>2. prod_ptr <= cons_ptr + full_size /\ cons_ptr <= c /\ cons_ptr \in Nat  BY <1>1, Order
  <2> HIDE DEF c, d
  <2>3. QED  BY <1>2, <2>1, <2>2
<1>4. /\ cq_cons_ptr' = d /\ delivered' = d /\ mmio' = Append(mmio, [reg |-> "cq_cons", val |-> d])
      /\ handler' = "ring"
  BY <1>1, CqEnd DEF ProcessCq, post, delivered
<1>5. /\ \A p \in d..c + SIZE - 1 : tx_info'[slot(p)] = tx_info[slot(p)]
      /\ \A p \in c + SIZE..d + SIZE - 1 : tx_info'[slot(p)] = None
  BY Emptied
<1> HIDE DEF c, d
<1>6. TypeOK'
  <2>1. [reg |-> "cq_cons", val |-> d] \in Write  BY <1>2 DEF Write
  <2>2. mmio' \in Seq(Write)  BY <1>1, <1>4, <2>1, PostFacts
  <2>3. Buffers(pool)' = Buffers(pool) /\ pool'.allocated \in Nat  BY <1>1, Freed DEF Buffers, TypeOK
  <2>4. tx_info' \in [Slots -> Buffers(pool)' \cup {None}]  BY <2>3, Emptied
  <2>5. /\ pool'.free \in Seq(Buffers(pool)') /\ pool' = [allocated |-> pool'.allocated, free |-> pool'.free]
        /\ Len(data') = pool'.allocated
    BY <1>1, <2>3, Freed DEF TypeOK, ProcessCq
  <2>6. /\ buf' \in [Slots -> Buffers(pool)' \cup {None}]
        /\ engine' \in Seq([index : Nat, pkt : Buffers(pool)'])
    BY <1>1, <2>3 DEF TypeOK, ProcessCq
  <2>7. QED  BY <1>1, <1>2, <1>4, <2>2, <2>3, <2>4, <2>5, <2>6 DEF TypeOK, ProcessCq, Write
<1>7. Pointers'
  <2>1. cons_ptr' <= d
    <3>1. cons_ptr \in Nat /\ cons_ptr <= c  BY <1>1, Order DEF c
    <3>2. cons_ptr' = cons_ptr  BY DEF ProcessCq
    <3>3. QED  BY <1>2, <3>1, <3>2
  <2>2. QED  BY <1>1, <1>2, <1>4, <2>1 DEF Pointers, ProcessCq
<1>8. Posted'
  <2>1. cq_cons_ptr <= d /\ d \in Nat  BY <1>2 DEF c
  <2>2. QED  BY <1>1, <1>4, <2>1, PostCqCons DEF ProcessCq
<1>9. Records'
  <2>1. ASSUME NEW p \in d..d + CQ_SIZE - 1 PROVE cq_buf[Cq!slot(p)].phase # Cq!phase(p)
    <3>1. CASE p < c + CQ_SIZE
      <4>1. p \in delivered..cq_cons_ptr + CQ_SIZE - 1  BY <1>2, <1>3, <3>1 DEF c, d
      <4>2. QED  BY <1>1, <4>1 DEF Records
    <3>2. CASE p >= c + CQ_SIZE
      <4>1. p - CQ_SIZE \in c..d - 1 /\ p - CQ_SIZE \in Nat /\ (p - CQ_SIZE) + CQ_SIZE = p
        BY <1>2, <1>3, <3>2
      <4>2. cq_buf[Cq!slot(p - CQ_SIZE)].phase = Cq!phase(p - CQ_SIZE)
        BY <1>1, <4>1 DEF Records, c, d
      <4>3. Cq!slot(p) = Cq!slot(p - CQ_SIZE) /\ Cq!phase(p) # Cq!phase(p - CQ_SIZE)
        BY <4>1, CqSlotFacts
      <4>4. QED  BY <4>2, <4>3
    <3>3. QED  BY <1>2, <1>3, <3>1, <3>2
  <2>2. \A p : p \notin d..d - 1  BY <1>2
  <2>3. cq_buf' = cq_buf /\ upstream' = upstream  BY DEF ProcessCq
  <2>4. \A i \in 1..Len(upstream) : upstream[i].ptr = d + i - 1 /\ upstream[i].index = d + i - 1
    BY <1>1 DEF Records, d
  <2>5. QED  BY <1>4, <2>1, <2>2, <2>3, <2>4 DEF Records
<1>10. InUse'
  <2>1. ASSUME NEW p \in d..prod_ptr - 1
        PROVE  tx_info'[slot(p)] = tx_info[slot(p)] /\ p \in cq_cons_ptr..prod_ptr - 1
    <3>1. p \in d..c + SIZE - 1 /\ p \in c..prod_ptr - 1  BY <1>2, <1>3
    <3>2. QED  BY <1>5, <3>1 DEF c
  <2>2. \A p \in d..prod_ptr - 1 : tx_info'[slot(p)] # None  BY <1>1, <2>1 DEF InUse
  <2>3. ASSUME NEW p \in prod_ptr..d + SIZE - 1 PROVE tx_info'[slot(p)] = None
    <3>1. CASE p < c + SIZE
      <4>1. p \in d..c + SIZE - 1 /\ p \in prod_ptr..c + SIZE - 1  BY <1>2, <1>3, <3>1
      <4>2. QED  BY <1>1, <1>5, <4>1 DEF InUse, c
    <3>2. CASE p >= c + SIZE
      <4>1. p \in c + SIZE..d + SIZE - 1  BY <1>2, <1>3, <3>2
      <4>2. QED  BY <1>5, <4>1
    <3>3. QED  BY <1>2, <1>3, <3>1, <3>2
  <2>4. \A p \in hw_cons..prod_ptr - 1 : p \in d..prod_ptr - 1  BY <1>2
  <2>5. \A p \in Len(wire)..prod_ptr - 1 : p \in d..prod_ptr - 1  BY <1>2
  <2>6. \A i \in 1..Len(engine) : Len(wire) + i - 1 \in d..prod_ptr - 1  BY <1>2
  <2>7. \A p \in hw_cons..prod_ptr - 1 : buf[slot(p)] = tx_info'[slot(p)]
    BY <1>1, <2>1, <2>4 DEF InUse
  <2>8. \A p \in Len(wire)..prod_ptr - 1 : data[tx_info'[slot(p)]] = accepted[p + 1]
    BY <1>1, <2>1, <2>5 DEF InUse
  <2>9. \A i \in 1..Len(engine) :
          /\ engine[i].index = Len(wire) + i - 1
          /\ engine[i].pkt = tx_info'[slot(Len(wire) + i - 1)]
    BY <1>1, <2>1, <2>6 DEF InUse
  <2>10. UNCHANGED <<prod_ptr, buf, data, hw_cons, wire, engine, accepted>>  BY DEF ProcessCq
  <2>11. QED  BY <1>4, <2>2, <2>3, <2>7, <2>8, <2>9, <2>10 DEF InUse
<1>11. WireInOrder'  BY DEF IInv, WireInOrder, ProcessCq
<1>12. QED  BY <1>6, <1>7, <1>8, <1>9, <1>10, <1>11, ProcessCqOwned DEF IInv

(***************************************************************************)
(* start_xmit takes a buffer                                               *)
(***************************************************************************)
(* The next buffer is in nobody's hands, and is then counted as one more.  *)
LEMMA NextBuffer ==
    ASSUME TypeOK, BuffersOwned, BuffersCounted, Pointers, has_space, pool' = alloc_pkt(pool)
    PROVE  /\ pool'.allocated \in Nat /\ pool.allocated <= pool'.allocated
           /\ pool' = [allocated |-> pool'.allocated, free |-> pool'.free]
           /\ pool'.free \in Seq(Buffers(pool)') /\ IsInjective(pool.free)'
           /\ next_pkt(pool) \in Buffers(pool)' /\ next_pkt(pool) # None
           /\ \A s \in Slots : tx_info[s] # next_pkt(pool)
           /\ \A b \in FreeBuffers(pool)' : b \in FreeBuffers(pool) /\ b # next_pkt(pool)
           /\ \A b \in Buffers(pool)' : b = next_pkt(pool) \/ b \in FreeBuffers(pool)' \/ \E s \in Slots : tx_info[s] = b
           /\ pool'.allocated - Len(pool'.free) = pool.allocated - Len(pool.free) + 1
           /\ Len(pool'.free) \in Nat /\ pool'.allocated <= full_size
           /\ \/ next_pkt(pool) \in 1..Len(data) /\ pool'.allocated = pool.allocated
              \/ next_pkt(pool) = Len(data) + 1 /\ pool'.allocated = pool.allocated + 1
<1> DEFINE a == pool.allocated
           free == pool.free
           B == Buffers(pool)
           pkt == next_pkt(pool)
<1>1. a \in Nat /\ free \in Seq(B) /\ Len(free) \in Nat /\ B = 1..a /\ Len(data) = a
      /\ pool = [allocated |-> a, free |-> free]
  BY LenProperties DEF TypeOK, Buffers
<1>2. \A i \in 1..Len(free) : free[i] \in B  BY <1>1, ElementOfSeq
<1>3. /\ IsInjective(free) /\ a <= full_size
      /\ \A s \in Slots : tx_info[s] \notin FreeBuffers(pool)
      /\ \A b \in B : b \in FreeBuffers(pool) \/ \E s \in Slots : tx_info[s] = b
  BY DEF BuffersOwned
<1>4. CASE free # <<>>
  <2>1. pool' = [pool EXCEPT !.free = Tail(free)] /\ pkt = Head(free)
    BY <1>4 DEF alloc_pkt, next_pkt
  <2>2. pool'.allocated = a /\ pool'.free = Tail(free) /\ pool' = [allocated |-> a, free |-> Tail(free)]
    BY <1>1, <2>1
  <2>3. Len(free) \in Nat \ {0} /\ pkt = free[1]  BY <1>1, <1>4, <2>1, EmptySeq
  <2>4. /\ Tail(free) \in Seq(B) /\ Len(Tail(free)) = Len(free) - 1
        /\ \A i \in 1..Len(Tail(free)) : Tail(free)[i] = free[i + 1]
    BY <1>1, <1>4, HeadTailProperties
  <2>5. Buffers(pool)' = B  BY <2>2 DEF Buffers
  <2>6. pkt \in B /\ pkt # None /\ pkt \in 1..Len(data) /\ pkt \in FreeBuffers(pool)
    <3>1. 1 \in 1..Len(free)  BY <2>3
    <3>2. pkt \in B /\ pkt \in FreeBuffers(pool)  BY <1>2, <2>3, <3>1 DEF FreeBuffers, Range
    <3>3. QED  BY <1>1, <3>2 DEF None
  <2> HIDE DEF pkt, a, free, B
  <2>7. \A i \in 1..Len(pool'.free) : i + 1 \in 1..Len(free) /\ i + 1 # 1 /\ pool'.free[i] = free[i + 1]
    BY <2>2, <2>3, <2>4
  <2>8. IsInjective(pool.free)'
    <3> SUFFICES ASSUME NEW i \in 1..Len(pool'.free), NEW j \in 1..Len(pool'.free), i # j
                 PROVE  pool'.free[i] # pool'.free[j]
      BY DEF IsInjective
    <3>1. i + 1 # j + 1 /\ i + 1 \in 1..Len(free) /\ j + 1 \in 1..Len(free)
      <4>1. Len(pool'.free) \in Nat  BY <2>2, <2>3, <2>4
      <4>2. QED  BY <4>1, <2>7
    <3>2. free[i + 1] # free[j + 1]  BY <1>3, <3>1 DEF IsInjective
    <3>3. QED  BY <2>7, <3>2
  <2>9. ASSUME NEW b \in FreeBuffers(pool)' PROVE b \in FreeBuffers(pool) /\ b # pkt
    <3>1. PICK i \in 1..Len(pool'.free) : b = pool'.free[i]  BY DEF FreeBuffers, Range
    <3>2. b = free[i + 1] /\ i + 1 \in 1..Len(free) /\ i + 1 # 1 /\ 1 \in 1..Len(free)  BY <2>3, <2>7, <3>1
    <3>3. free[i + 1] # free[1]  BY <1>3, <3>2 DEF IsInjective
    <3>4. QED  BY <2>3, <3>2, <3>3 DEF FreeBuffers, Range, free
  <2>10. ASSUME NEW b \in B
         PROVE  b = pkt \/ b \in FreeBuffers(pool)' \/ \E s \in Slots : tx_info[s] = b
    <3>1. CASE b \in FreeBuffers(pool)
      <4>1. PICK i \in 1..Len(free) : b = free[i]  BY <3>1 DEF FreeBuffers, Range, free
      <4>2. CASE i = 1  BY <2>3, <4>1, <4>2
      <4>3. CASE i # 1
        <5>1. i - 1 \in 1..Len(pool'.free) /\ (i - 1) + 1 = i  BY <2>2, <2>3, <2>4, <4>3
        <5>2. b = pool'.free[i - 1]  BY <2>7, <4>1, <5>1
        <5>3. DOMAIN pool'.free = 1..Len(pool'.free)  BY <2>2, <2>4, LenProperties
        <5>4. QED  BY <5>1, <5>2, <5>3 DEF FreeBuffers, Range
      <4>4. QED  BY <4>2, <4>3
    <3>2. CASE \E s \in Slots : tx_info[s] = b  BY <3>2
    <3>3. QED  BY <1>3, <3>1, <3>2
  <2>11. pool'.allocated - Len(pool'.free) = a - Len(free) + 1 /\ Len(pool'.free) \in Nat
    BY <1>1, <2>2, <2>3, <2>4
  <2>12. \A s \in Slots : tx_info[s] # pkt  BY <1>3, <2>6
  <2>13. pool'.allocated \in Nat /\ a <= pool'.allocated /\ pool'.allocated <= full_size
    BY <1>1, <1>3, <2>2
  <2>14. pool'.free \in Seq(Buffers(pool)')  BY <2>2, <2>4, <2>5
  <2>15. pool' = [allocated |-> pool'.allocated, free |-> pool'.free]  BY <2>2
  <2>16. pkt \in Buffers(pool)' /\ \A b \in Buffers(pool)' : b \in B  BY <2>5, <2>6
  <2>17. pool'.allocated = a  BY <2>2
  <2>18. QED
    BY <2>6, <2>8, <2>9, <2>10, <2>11, <2>12, <2>13, <2>14, <2>15, <2>16, <2>17 DEF pkt, a, free
<1>5. CASE free = <<>>
  <2>1. pool' = [pool EXCEPT !.allocated = a + 1] /\ pkt = a + 1
    BY <1>5 DEF alloc_pkt, next_pkt
  <2>2. pool'.allocated = a + 1 /\ pool'.free = <<>> /\ pool' = [allocated |-> pool'.allocated, free |-> pool'.free]
    BY <1>1, <1>5, <2>1
  <2>3. Len(free) = 0 /\ Len(pool'.free) = 0  BY <1>5, <2>2
  <2>4. Buffers(pool)' = 1..a + 1  BY <2>2 DEF Buffers
  <2>5. FreeBuffers(pool)' = {} /\ FreeBuffers(pool) = {} /\ IsInjective(pool.free)'
    BY <2>3 DEF FreeBuffers, Range, IsInjective
  <2>6. pool'.free \in Seq(Buffers(pool)')  BY <2>2
  <2>7. ASSUME NEW s \in Slots PROVE tx_info[s] # pkt
    <3>1. tx_info[s] \in B \cup {None}  BY DEF TypeOK
    <3>2. QED  BY <1>1, <2>1, <3>1 DEF None
  <2>8. a + 1 <= full_size
    <3>1. a = prod_ptr - cq_cons_ptr /\ prod_ptr \in Nat /\ cq_cons_ptr \in Nat
      BY <1>1, <2>3, Order DEF BuffersCounted
    <3>2. prod_ptr - cons_ptr < full_size /\ cons_ptr \in Nat /\ cons_ptr <= cq_cons_ptr
      BY Order DEF has_space
    <3>3. full_size \in Nat  BY Sizes
    <3> HIDE DEF a
    <3>4. QED  BY <3>1, <3>2, <3>3
  <2>9. pkt \in Buffers(pool)' /\ pkt # None /\ pkt = Len(data) + 1  BY <1>1, <2>1, <2>4 DEF None
  <2>10. \A b \in Buffers(pool)' : b = pkt \/ b \in B  BY <1>1, <2>1, <2>4
  <2>11. \A b \in B : \E s \in Slots : tx_info[s] = b  BY <1>3, <2>5
  <2> HIDE DEF pkt, a, free, B
  <2>12. pool'.allocated \in Nat /\ a <= pool'.allocated /\ pool'.allocated - Len(pool'.free) = a - Len(free) + 1
    BY <1>1, <2>2, <2>3
  <2>13. QED
    BY <2>2, <2>3, <2>5, <2>6, <2>7, <2>8, <2>9, <2>10, <2>11, <2>12 DEF pkt, a, free
<1>6. QED  BY <1>4, <1>5

(* The frame is put into it, and the other buffers keep theirs.            *)
LEMMA BufferFilled ==
    ASSUME TypeOK, BuffersOwned, BuffersCounted, Pointers, NEW t \in TASKS, NEW frame \in Frame,
           Enqueue(t, frame)
    PROVE  /\ data' \in Seq(Frame) /\ Len(data') = pool'.allocated
           /\ data'[next_pkt(pool)] = frame
           /\ \A b \in Buffers(pool) : b # next_pkt(pool) => data'[b] = data[b]
<1> DEFINE pkt == next_pkt(pool)
<1>1. data \in Seq(Frame) /\ Len(data) = pool.allocated /\ Len(data) \in Nat /\ DOMAIN data = 1..Len(data)
  BY LenProperties DEF TypeOK
<1>2. data' = IF pkt \in DOMAIN data THEN [data EXCEPT ![pkt] = frame] ELSE Append(data, frame)
  BY DEF Enqueue
<1>3. \/ pkt \in 1..Len(data) /\ pool'.allocated = pool.allocated
      \/ pkt = Len(data) + 1 /\ pool'.allocated = pool.allocated + 1
  BY NextBuffer DEF Enqueue
<1>4. Buffers(pool) = 1..Len(data)  BY <1>1 DEF Buffers
<1> HIDE DEF pkt
<1>5. CASE pkt \in 1..Len(data) /\ pool'.allocated = pool.allocated
  <2>1. data' = [data EXCEPT ![pkt] = frame]  BY <1>1, <1>2, <1>5
  <2>2. /\ data' \in Seq(Frame) /\ Len(data') = Len(data)
        /\ \A i \in 1..Len(data) : data'[i] = IF i = pkt THEN frame ELSE data[i]
    BY <1>1, <1>5, <2>1, ExceptSeq
  <2>3. QED  BY <1>1, <1>4, <1>5, <2>2 DEF pkt
<1>6. CASE pkt = Len(data) + 1 /\ pool'.allocated = pool.allocated + 1
  <2>1. pkt \notin DOMAIN data  BY <1>1, <1>6
  <2>2. data' = Append(data, frame)  BY <1>2, <2>1
  <2>3. /\ data' \in Seq(Frame) /\ Len(data') = Len(data) + 1
        /\ \A i \in 1..Len(data) : data'[i] = data[i]
        /\ data'[Len(data) + 1] = frame
    BY <1>1, <2>2, AppendProperties
  <2>4. QED  BY <1>1, <1>4, <1>6, <2>3 DEF pkt
<1>7. QED  BY <1>3, <1>5, <1>6

(* The slot of the new descriptor is free; the others in use keep theirs.  *)
LEMMA SlotTaken ==
    ASSUME TypeOK, Pointers, InUse, NEW t \in TASKS, NEW frame \in Frame, Enqueue(t, frame)
    PROVE  /\ slot(prod_ptr) \in Slots /\ tx_info[slot(prod_ptr)] = None
           /\ tx_info'[slot(prod_ptr)] = next_pkt(pool) /\ buf'[slot(prod_ptr)] = next_pkt(pool)
           /\ \A s \in Slots : s # slot(prod_ptr) => tx_info'[s] = tx_info[s] /\ buf'[s] = buf[s]
           /\ \A p \in cq_cons_ptr..cq_cons_ptr + SIZE - 1 : p # prod_ptr =>
                slot(p) # slot(prod_ptr) /\ tx_info'[slot(p)] = tx_info[slot(p)] /\ buf'[slot(p)] = buf[slot(p)]
           /\ prod_ptr + 1 <= cons_ptr + full_size /\ prod_ptr + 1 <= cq_cons_ptr + full_size
           /\ prod_ptr + 1 <= cq_cons_ptr + SIZE
<1>1. /\ prod_ptr \in Nat /\ cons_ptr \in Nat /\ cq_cons_ptr \in Nat /\ cons_ptr <= cq_cons_ptr
      /\ cq_cons_ptr <= prod_ptr
  BY Order
<1>2. prod_ptr + 1 <= cons_ptr + full_size /\ full_size \in Nat /\ full_size <= SIZE /\ SIZE \in Nat
  BY <1>1, Sizes DEF Enqueue, has_space
<1>3. prod_ptr + 1 <= cq_cons_ptr + full_size /\ prod_ptr + 1 <= cq_cons_ptr + SIZE  BY <1>1, <1>2
<1>4. prod_ptr \in prod_ptr..cq_cons_ptr + SIZE - 1 /\ prod_ptr \in cq_cons_ptr..cq_cons_ptr + SIZE - 1
  BY <1>1, <1>2, <1>3
<1>5. slot(prod_ptr) \in Slots /\ tx_info[slot(prod_ptr)] = None  BY <1>1, <1>4, SlotFacts DEF InUse
<1>6. /\ tx_info' = [tx_info EXCEPT ![slot(prod_ptr)] = next_pkt(pool)]
      /\ buf' = [buf EXCEPT ![slot(prod_ptr)] = next_pkt(pool)]
  BY DEF Enqueue
<1>7. DOMAIN tx_info = Slots /\ DOMAIN buf = Slots  BY DEF TypeOK
<1>8. \A s \in Slots : s # slot(prod_ptr) => tx_info'[s] = tx_info[s] /\ buf'[s] = buf[s]
  BY <1>6, <1>7
<1>9. ASSUME NEW p \in cq_cons_ptr..cq_cons_ptr + SIZE - 1, p # prod_ptr
      PROVE  slot(p) # slot(prod_ptr) /\ tx_info'[slot(p)] = tx_info[slot(p)] /\ buf'[slot(p)] = buf[slot(p)]
  <2>1. p \in Nat  BY <1>1
  <2>2. slot(p) \in Slots /\ slot(p) # slot(prod_ptr)  BY <1>4, <1>9, <2>1, SlotFacts, RingSlots
  <2>3. QED  BY <1>8, <2>2
<1>10. tx_info'[slot(prod_ptr)] = next_pkt(pool) /\ buf'[slot(prod_ptr)] = next_pkt(pool)
  BY <1>5, <1>6, <1>7
<1>11. QED  BY <1>2, <1>3, <1>5, <1>8, <1>9, <1>10

LEMMA EnqueueOwned ==
    ASSUME IInv, NEW t \in TASKS, NEW frame \in Frame, Enqueue(t, frame)
    PROVE  BuffersOwned' /\ BuffersCounted'
<1> USE DEF deviceVars
<1> DEFINE pkt == next_pkt(pool)
           index == slot(prod_ptr)
<1>1. TypeOK /\ Pointers /\ InUse /\ BuffersOwned /\ BuffersCounted  BY DEF IInv
<1>2. has_space /\ pool' = alloc_pkt(pool)  BY DEF Enqueue
<1>3. /\ IsInjective(pool.free)' /\ pkt # None /\ pool'.allocated <= full_size
      /\ \A s \in Slots : tx_info[s] # pkt
      /\ \A b \in FreeBuffers(pool)' : b \in FreeBuffers(pool) /\ b # pkt
      /\ \A b \in Buffers(pool)' : b = pkt \/ b \in FreeBuffers(pool)' \/ \E s \in Slots : tx_info[s] = b
      /\ pool'.allocated - Len(pool'.free) = pool.allocated - Len(pool.free) + 1
      /\ pool'.allocated \in Nat /\ Len(pool'.free) \in Nat
  BY <1>1, <1>2, NextBuffer
<1>4. /\ index \in Slots /\ tx_info[index] = None /\ tx_info'[index] = pkt
      /\ \A s \in Slots : s # index => tx_info'[s] = tx_info[s]
      /\ \A p \in cq_cons_ptr..cq_cons_ptr + SIZE - 1 : p # prod_ptr => tx_info'[slot(p)] = tx_info[slot(p)]
  BY <1>1, SlotTaken
<1> HIDE DEF pkt, index
<1>5. /\ \A s \in Slots : tx_info[s] \notin FreeBuffers(pool)
      /\ \A s, u \in Slots : s # u /\ tx_info[s] # None => tx_info[s] # tx_info[u]
  BY <1>1 DEF BuffersOwned
<1>6. ASSUME NEW s \in Slots PROVE tx_info'[s] \notin FreeBuffers(pool)'
  <2>1. CASE s = index  BY <1>3, <1>4, <2>1
  <2>2. CASE s # index  BY <1>3, <1>4, <1>5, <2>2
  <2>3. QED  BY <2>1, <2>2
<1>7. ASSUME NEW s \in Slots, NEW u \in Slots, s # u, tx_info'[s] # None
      PROVE  tx_info'[s] # tx_info'[u]
  <2>1. CASE s = index  BY <1>3, <1>4, <1>7, <2>1
  <2>2. CASE u = index  BY <1>3, <1>4, <1>7, <2>2
  <2>3. CASE s # index /\ u # index  BY <1>4, <1>5, <1>7, <2>3
  <2>4. QED  BY <2>1, <2>2, <2>3
<1>8. None \notin Buffers(pool)'
  BY <1>3 DEF Buffers, None
<1>9. ASSUME NEW b \in Buffers(pool)'
      PROVE  b \in FreeBuffers(pool)' \/ \E s \in Slots : tx_info'[s] = b
  <2>1. CASE b = pkt  BY <1>4, <2>1
  <2>2. CASE \E s \in Slots : tx_info[s] = b
    <3>1. PICK s \in Slots : tx_info[s] = b  BY <2>2
    <3>2. s # index  BY <1>4, <1>8, <1>9, <3>1
    <3>3. QED  BY <1>4, <3>1, <3>2
  <2>3. QED  BY <1>3, <2>1, <2>2
<1>10. ASSUME NEW i \in 1..Len(engine) PROVE engine[i].pkt = tx_info'[slot(engine[i].index)]
  <2>1. /\ cq_cons_ptr \in Nat /\ Len(wire) \in Nat /\ Len(engine) \in Nat /\ prod_ptr \in Nat
        /\ cq_cons_ptr <= Len(wire) /\ Len(wire) + Len(engine) <= prod_ptr
    BY <1>1, Order
  <2>2. prod_ptr <= cq_cons_ptr + SIZE /\ SIZE \in Nat  BY <1>1, RingSlots, Sizes
  <2>3. Len(wire) + i - 1 \in cq_cons_ptr..cq_cons_ptr + SIZE - 1 /\ Len(wire) + i - 1 # prod_ptr
    BY <2>1, <2>2
  <2>4. engine[i].index = Len(wire) + i - 1 /\ engine[i].pkt = tx_info[slot(Len(wire) + i - 1)]
    BY <1>1 DEF InUse
  <2>5. QED  BY <1>4, <2>3, <2>4
<1>11. BuffersOwned'
  <2>1. engine' = engine  BY DEF Enqueue
  <2>2. QED  BY <1>3, <1>6, <1>7, <1>9, <1>10, <2>1 DEF BuffersOwned
<1>12. BuffersCounted'
  <2>1. cq_cons_ptr' = cq_cons_ptr /\ prod_ptr' = prod_ptr + 1  BY DEF Enqueue
  <2>2. /\ pool.allocated = Len(pool.free) + (prod_ptr - cq_cons_ptr) /\ pool.allocated \in Nat
        /\ Len(pool.free) \in Nat /\ prod_ptr \in Nat /\ cq_cons_ptr \in Nat
    BY <1>1, Order DEF BuffersCounted, TypeOK
  <2>3. pool'.allocated = Len(pool'.free) + ((prod_ptr + 1) - cq_cons_ptr)
    <3> DEFINE a1 == pool'.allocated
               f1 == Len(pool'.free)
               a0 == pool.allocated
               f0 == Len(pool.free)
    <3>1. a1 \in Nat /\ f1 \in Nat /\ a1 - f1 = a0 - f0 + 1  BY <1>3
    <3> HIDE DEF a1, f1, a0, f0
    <3>2. a0 \in Nat /\ f0 \in Nat /\ a0 = f0 + (prod_ptr - cq_cons_ptr)  BY <2>2 DEF a0, f0
    <3>3. a1 = f1 + ((prod_ptr + 1) - cq_cons_ptr)  BY <2>2, <3>1, <3>2
    <3>4. QED  BY <3>3 DEF a1, f1
  <2>4. QED  BY <2>1, <2>3 DEF BuffersCounted
<1>13. QED  BY <1>11, <1>12

LEMMA EnqueueStep ==
    ASSUME IInv, NEW t \in TASKS, NEW frame \in Frame, Enqueue(t, frame), calls' \in Nat
    PROVE  IInv'
<1> USE DEF deviceVars
<1> DEFINE pkt == next_pkt(pool)
           n == prod_ptr
           c == cq_cons_ptr
           w == Len(wire)
<1>1. /\ TypeOK /\ Pointers /\ Posted /\ Records /\ InUse /\ BuffersOwned /\ BuffersCounted
      /\ WireInOrder /\ has_space /\ pool' = alloc_pkt(pool)
  BY DEF IInv, Enqueue
<1>2. /\ n \in Nat /\ c \in Nat /\ w \in Nat /\ hw_cons \in Nat /\ Len(engine) \in Nat /\ SIZE \in Nat
      /\ c <= w /\ w + Len(engine) = hw_cons /\ hw_cons <= n /\ Len(accepted) = n
  <2>1. /\ n \in Nat /\ c \in Nat /\ w \in Nat /\ hw_cons \in Nat /\ Len(engine) \in Nat
        /\ w + Len(engine) = hw_cons /\ Len(accepted) = n
    BY <1>1, Order
  <2>2. SIZE \in Nat  BY Sizes
  <2>3. c <= w /\ hw_cons <= n  BY <1>1, Order
  <2>4. QED  BY <2>1, <2>2, <2>3
<1>3. /\ pool'.allocated \in Nat /\ pool.allocated <= pool'.allocated /\ pool.allocated \in Nat
      /\ pool' = [allocated |-> pool'.allocated, free |-> pool'.free]
      /\ pool'.free \in Seq(Buffers(pool)')
      /\ pkt \in Buffers(pool)' /\ pkt # None /\ \A s \in Slots : tx_info[s] # pkt
  BY <1>1, NextBuffer DEF TypeOK
<1>4. /\ data' \in Seq(Frame) /\ Len(data') = pool'.allocated /\ data'[pkt] = frame
      /\ \A b \in Buffers(pool) : b # pkt => data'[b] = data[b]
  BY <1>1, BufferFilled
<1>5. /\ slot(n) \in Slots /\ tx_info[slot(n)] = None /\ tx_info'[slot(n)] = pkt /\ buf'[slot(n)] = pkt
      /\ \A p \in c..c + SIZE - 1 : p # n => tx_info'[slot(p)] = tx_info[slot(p)] /\ buf'[slot(p)] = buf[slot(p)]
      /\ n + 1 <= cons_ptr + full_size /\ n + 1 <= c + full_size /\ n + 1 <= c + SIZE
  BY <1>1, SlotTaken
<1>6. /\ accepted' \in Seq(Frame) /\ Len(accepted') = n + 1 /\ accepted'[n + 1] = frame
      /\ \A i \in 1..n : accepted'[i] = accepted[i]
  <2>1. accepted' = Append(accepted, frame) /\ accepted \in Seq(Frame)  BY <1>1 DEF Enqueue, TypeOK
  <2>2. QED  BY <1>2, <2>1, AppendProperties
<1>7. prod_ptr' = n + 1 /\ mmio' = Append(mmio, [reg |-> "prod", val |-> n + 1])
  BY DEF Enqueue, post
<1>8. UNCHANGED <<port_up, cons_ptr, cq_cons_ptr, handler, deviceVars, cq_buf, upstream>>  BY DEF Enqueue
<1>9. delivered' = delivered  BY <1>8 DEF delivered
<1> HIDE DEF pkt
<1>10. TypeOK'
  <2>1. \A b \in Buffers(pool) : b \in Buffers(pool)'  BY <1>3 DEF Buffers
  <2>2. tx_info' = [tx_info EXCEPT ![slot(n)] = pkt] /\ buf' = [buf EXCEPT ![slot(n)] = pkt]
    BY DEF Enqueue, pkt
  <2>3. /\ tx_info \in [Slots -> Buffers(pool)' \cup {None}]
        /\ buf \in [Slots -> Buffers(pool)' \cup {None}]
    BY <1>1, <2>1 DEF TypeOK
  <2>4. /\ tx_info' \in [Slots -> Buffers(pool)' \cup {None}]
        /\ buf' \in [Slots -> Buffers(pool)' \cup {None}]
    BY <1>3, <2>2, <2>3
  <2>5. engine' \in Seq([index : Nat, pkt : Buffers(pool)'])
    <3>1. engine \in Seq([index : Nat, pkt : Buffers(pool)])  BY <1>1 DEF TypeOK
    <3>2. \A i \in 1..Len(engine) : engine[i] \in [index : Nat, pkt : Buffers(pool)']
      <4>1. \A i \in 1..Len(engine) : engine[i] \in [index : Nat, pkt : Buffers(pool)]
        BY <3>1, ElementOfSeq
      <4>2. QED  BY <2>1, <4>1
    <3>3. engine \in Seq([index : Nat, pkt : Buffers(pool)'])
      <4> DEFINE R == [index : Nat, pkt : Buffers(pool)']
      <4>1. engine \in [1..Len(engine) -> R]  BY <3>1, <3>2, LenProperties
      <4> HIDE DEF R
      <4>2. engine \in Seq(R)  BY <1>2, <4>1, SeqDef
      <4>3. QED  BY <4>2 DEF R
    <3>4. QED  BY <1>8, <3>3
  <2>6. mmio' \in Seq(Write)
    <3>1. [reg |-> "prod", val |-> n + 1] \in Write  BY <1>2 DEF Write
    <3>2. QED  BY <1>1, <1>7, <3>1, PostFacts
  <2>7. /\ pc' \in [TASKS -> {"idle", "waiting", "woken"}] /\ skb' \in [TASKS -> Nat]
        /\ \A u \in TASKS : pc'[u] # "idle" => skb'[u] \in Frame
    BY <1>1 DEF TypeOK, Enqueue
  <2>8. prod_ptr' \in Nat /\ calls' \in Nat  BY <1>2, <1>7
  <2>9. QED
    BY <1>1, <1>3, <1>4, <1>6, <1>8, <2>4, <2>5, <2>6, <2>7, <2>8 DEF TypeOK, Write
<1>11. Pointers'
  <2>1. hw_prod \in Nat /\ hw_prod <= n  BY <1>1, Order
  <2>2. hw_prod <= n + 1  BY <1>2, <2>1
  <2>3. QED  BY <1>1, <1>5, <1>6, <1>7, <1>8, <1>9, <2>2 DEF Pointers
<1>12. Posted'  BY <1>1, <1>5, <1>7, <1>8, PostProd
<1>13. Records'  BY <1>1, <1>8, <1>9 DEF Records
<1> HIDE DEF n, c, w
<1>14. ASSUME NEW p \in w..n - 1
       PROVE  /\ slot(p) \in Slots /\ tx_info'[slot(p)] = tx_info[slot(p)] /\ buf'[slot(p)] = buf[slot(p)]
              /\ tx_info[slot(p)] \in Buffers(pool) /\ tx_info[slot(p)] # pkt
  <2>1. p \in c..c + SIZE - 1 /\ p # n /\ p \in Nat /\ p \in c..n - 1  BY <1>2, <1>5
  <2>2. slot(p) \in Slots  BY <2>1, SlotFacts
  <2>3. tx_info[slot(p)] # None  BY <1>1, <2>1 DEF InUse, c, n
  <2>4. QED  BY <1>1, <1>3, <1>5, <2>1, <2>2, <2>3 DEF TypeOK
<1>15. InUse'
  <2>1. ASSUME NEW p \in c..n PROVE tx_info'[slot(p)] # None
    <3>1. CASE p = n  BY <1>3, <1>5, <3>1
    <3>2. CASE p # n
      <4>1. p \in c..n - 1 /\ p \in c..c + SIZE - 1  BY <1>2, <1>5, <3>2
      <4>2. QED  BY <1>1, <1>5, <3>2, <4>1 DEF InUse, c, n
    <3>3. QED  BY <3>1, <3>2
  <2>2. ASSUME NEW p \in n + 1..c + SIZE - 1 PROVE tx_info'[slot(p)] = None
    <3>1. p \in c..c + SIZE - 1 /\ p # n /\ p \in n..c + SIZE - 1  BY <1>2
    <3>2. QED  BY <1>1, <1>5, <3>1 DEF InUse, c, n
  <2>3. ASSUME NEW p \in hw_cons..n PROVE buf'[slot(p)] = tx_info'[slot(p)]
    <3>1. CASE p = n  BY <1>5, <3>1
    <3>2. CASE p # n
      <4>1. p \in hw_cons..n - 1 /\ p \in w..n - 1  BY <1>2, <3>2
      <4>2. QED  BY <1>1, <1>14, <4>1 DEF InUse, n
    <3>3. QED  BY <3>1, <3>2
  <2>4. ASSUME NEW p \in w..n PROVE data'[tx_info'[slot(p)]] = accepted'[p + 1]
    <3>1. CASE p = n  BY <1>4, <1>5, <1>6, <3>1
    <3>2. CASE p # n
      <4>1. p \in w..n - 1 /\ p + 1 \in 1..n  BY <1>2, <3>2
      <4>2. data[tx_info[slot(p)]] = accepted[p + 1]  BY <1>1, <4>1 DEF InUse, w, n
      <4>3. QED  BY <1>4, <1>6, <1>14, <4>1, <4>2
    <3>3. QED  BY <3>1, <3>2
  <2>5. ASSUME NEW i \in 1..Len(engine)
        PROVE  engine[i].index = w + i - 1 /\ engine[i].pkt = tx_info'[slot(w + i - 1)]
    <3>1. w + i - 1 \in w..n - 1  BY <1>2
    <3>2. engine[i].index = w + i - 1 /\ engine[i].pkt = tx_info[slot(w + i - 1)]  BY <1>1 DEF InUse, w
    <3>3. QED  BY <1>14, <3>1, <3>2
  <2>6. (n + 1) - 1 = n  BY <1>2
  <2>7. QED  BY <1>7, <1>8, <2>1, <2>2, <2>3, <2>4, <2>5, <2>6 DEF InUse, n, c, w
<1>16. WireInOrder'
  <2>1. \A i \in 1..w : i \in 1..n  BY <1>2
  <2>2. \A i \in 1..w : wire[i] = accepted'[i]  BY <1>1, <1>6, <2>1 DEF WireInOrder, w
  <2>3. w <= Len(accepted')  BY <1>2, <1>6
  <2>4. QED  BY <1>8, <2>2, <2>3 DEF WireInOrder, w
<1>17. QED  BY <1>10, <1>11, <1>12, <1>13, <1>15, <1>16, EnqueueOwned DEF IInv

(***************************************************************************)
(* The theorems                                                            *)
(***************************************************************************)
LEMMA NextStep == IInv /\ [Next]_vars => IInv'
<1> SUFFICES ASSUME IInv, [Next]_vars PROVE IInv'
  OBVIOUS
<1>1. ASSUME NEW t \in TASKS, StartXmit(t) PROVE IInv'
  <2>1. calls \in Nat  BY DEF IInv, TypeOK
  <2>2. calls' = calls + 1  BY <1>1 DEF StartXmit
  <2>3. calls + 1 \in Frame /\ calls' \in Nat  BY <2>1, <2>2 DEF Frame
  <2>4. CASE Enqueue(t, calls + 1)  BY <2>3, <2>4, EnqueueStep
  <2>5. CASE Wait(t, calls + 1)  BY <2>3, <2>5, WaitStep
  <2>6. QED  BY <1>1, <2>4, <2>5 DEF StartXmit
<1>2. ASSUME NEW t \in TASKS, Resume(t) PROVE IInv'
  <2>1. skb[t] \in Frame /\ calls' \in Nat  BY <1>2 DEF IInv, TypeOK, Resume
  <2>2. CASE Enqueue(t, skb[t])  BY <2>1, <2>2, EnqueueStep
  <2>3. CASE Wait(t, skb[t])  BY <2>1, <2>3, WaitStep
  <2>4. QED  BY <1>2, <2>2, <2>3 DEF Resume
<1>3. ASSUME NEW t \in TASKS, Abandon(t) PROVE IInv'
  BY <1>3, AbandonStep
<1>4. CASE PortDown  BY <1>4, PortDownStep
<1>5. CASE ProcessCq  BY <1>5, ProcessCqStep
<1>6. CASE ProcessRing  BY <1>6, ProcessRingStep
<1>7. CASE ApplyWrite  BY <1>7, ApplyWriteStep
<1>8. CASE Fetch  BY <1>8, FetchStep
<1>9. CASE Transmit  BY <1>9, TransmitStep
<1>10. CASE Deliver  BY <1>10, DeliverStep
<1>11. CASE UNCHANGED vars
  <2>1. UNCHANGED ringVars  BY <1>11 DEF vars, driverVars, deviceVars, ringVars
  <2>2. TypeOK'  BY <1>11 DEF IInv, TypeOK, vars, driverVars, deviceVars
  <2>3. QED  BY <2>1, <2>2, RingUnchanged
<1>12. QED
  BY <1>1, <1>2, <1>3, <1>4, <1>5, <1>6, <1>7, <1>8, <1>9, <1>10, <1>11 DEF Next

(* In every reachable state the pointers of start_xmit, process_tx_cq, the *)
(* queue managers and the posted writes between them are in the order IInv *)
(* states, and the slots between two of them hold what it says.            *)
THEOREM TxRingInvariant == Spec => []IInv
<1>1. Init => IInv  BY InitInv
<1>2. IInv /\ [Next]_vars => IInv'  BY NextStep
<1>3. QED  BY <1>1, <1>2, PTL DEF Spec

(* Every variable of the driver, of the device and between them keeps to   *)
(* its type.                                                               *)
THEOREM TxTypeCorrect == Spec => []TypeOK
<1>1. IInv => TypeOK  BY DEF IInv
<1>2. QED  BY <1>1, TxRingInvariant, PTL

(* The completion queue never drops a record: cpl_queue_manager has room   *)
(* for every descriptor that tx_engine finishes.                           *)
THEOREM NoCompletionIsDropped == Spec => []NoCompletionDropped
<1>1. IInv => NoCompletionDropped  BY DEF IInv, Pointers, NoCompletionDropped
<1>2. QED  BY <1>1, TxRingInvariant, PTL

(* No assertion of start_xmit or of free_pkt fails.                        *)
THEOREM DriverAssertionsHold == Spec => []AssertionsHold
<1>1. ASSUME IInv PROVE AssertionsHold
  <2>1. TypeOK /\ Pointers /\ Records /\ InUse  BY <1>1 DEF IInv
  <2>2. /\ cons_ptr \in Nat /\ cq_cons_ptr \in Nat /\ prod_ptr \in Nat /\ delivered \in Nat
        /\ cons_ptr <= cq_cons_ptr /\ delivered <= prod_ptr
    BY <2>1, Order
  <2>3. full_size \in Nat /\ SIZE \in Nat /\ full_size <= SIZE /\ prod_ptr <= cq_cons_ptr + SIZE
    BY <2>1, Sizes, RingSlots
  <2>4. ASSUME has_space PROVE tx_info[slot(prod_ptr)] = None
    <3>1. prod_ptr \in prod_ptr..cq_cons_ptr + SIZE - 1  BY <2>2, <2>3, <2>4 DEF has_space
    <3>2. QED  BY <2>1, <3>1 DEF InUse
  <2>5. ASSUME NEW p \in cq_cons_ptr..cq_end - 1
        PROVE  /\ p \in cq_cons_ptr..cq_cons_ptr + SIZE - 1 /\ cpl_slot(p) = slot(p)
               /\ tx_info[cpl_slot(p)] # None
    <3>1. p \in cq_cons_ptr..delivered - 1 /\ cpl_slot(p) = slot(p)  BY <2>1, NewCompletions
    <3>2. p \in cq_cons_ptr..prod_ptr - 1 /\ p \in cq_cons_ptr..cq_cons_ptr + SIZE - 1
      BY <2>2, <2>3, <3>1
    <3>3. QED  BY <2>1, <3>1, <3>2 DEF InUse
  <2>6. ASSUME NEW p \in cq_cons_ptr..cq_end - 1, NEW q \in cq_cons_ptr..cq_end - 1, p # q
        PROVE  cpl_slot(p) # cpl_slot(q)
    BY <2>1, <2>5, <2>6, RingSlots
  <2>7. QED  BY <2>4, <2>5, <2>6 DEF AssertionsHold
<1>2. IInv => AssertionsHold  BY <1>1
<1>3. QED  BY <1>2, TxRingInvariant, PTL

(* alloc_pkt and free_pkt lose no buffer and hand none out twice, and the  *)
(* pool never grows beyond half the ring.                                  *)
THEOREM BuffersAreOwned == Spec => []BuffersOwned
<1>1. IInv => BuffersOwned  BY DEF IInv
<1>2. QED  BY <1>1, TxRingInvariant, PTL

(* What tx_engine has sent is a beginning of what start_xmit has taken.    *)
THEOREM WireIsInOrder == Spec => []WireInOrder
<1>1. IInv => WireInOrder  BY DEF IInv
<1>2. QED  BY <1>1, TxRingInvariant, PTL

(* Frames are numbered by the calls that brought them. *)
Numbered ==
    /\ calls <= MAX_CALLS
    /\ \A t \in TASKS : pc[t] # "idle" => skb[t] <= MAX_CALLS

LEMMA NumberedInvariant == Spec => []Numbered
<1>1. Init => Numbered
  <2>1. 0 <= MAX_CALLS  BY TxRingAssumption
  <2>2. QED  BY <2>1 DEF Init, Numbered
<1>2. IInv /\ Numbered /\ [Next]_vars => Numbered'
  <2> SUFFICES ASSUME IInv, Numbered, [Next]_vars PROVE Numbered'
    OBVIOUS
  <2> USE DEF Numbered
  <2>1. calls \in Nat /\ MAX_CALLS \in Nat /\ pc \in [TASKS -> {"idle", "waiting", "woken"}]
        /\ skb \in [TASKS -> Nat]
    BY TxRingAssumption DEF IInv, TypeOK
  <2>2. ASSUME NEW t \in TASKS, StartXmit(t) PROVE Numbered'
    <3>1. calls' = calls + 1 /\ calls' <= MAX_CALLS  BY <2>1, <2>2 DEF StartXmit
    <3>2. ASSUME NEW u \in TASKS, pc'[u] # "idle" PROVE skb'[u] <= MAX_CALLS
      BY <2>1, <2>2, <3>1, <3>2 DEF StartXmit, Enqueue, Wait
    <3>3. QED  BY <3>1, <3>2
  <2>3. ASSUME NEW t \in TASKS, Resume(t) PROVE Numbered'
    BY <2>1, <2>3 DEF Resume, Enqueue, Wait
  <2>4. ASSUME NEW t \in TASKS, Abandon(t) PROVE Numbered'
    BY <2>1, <2>4 DEF Abandon
  <2>5. CASE PortDown \/ ProcessCq  BY <2>1, <2>5 DEF PortDown, ProcessCq
  <2>6. CASE ProcessRing  BY <2>1, <2>6 DEF ProcessRing, woken
  <2>7. CASE ApplyWrite \/ Fetch \/ Transmit \/ Deliver
    BY <2>7 DEF ApplyWrite, Fetch, Transmit, Deliver, driverVars
  <2>8. CASE UNCHANGED vars  BY <2>8 DEF vars, driverVars
  <2>9. QED  BY <2>2, <2>3, <2>4, <2>5, <2>6, <2>7, <2>8 DEF Next
<1>3. QED  BY <1>1, <1>2, TxRingInvariant, PTL DEF Spec

LEMMA EnqueueAccepts ==
    ASSUME NEW t \in TASKS, NEW frame \in 1..MAX_CALLS, Enqueue(t, frame)
    PROVE  Line!Accept
  BY DEF Enqueue, Line!Accept, deviceVars

(* The steps of the ring are those of the line: start_xmit's last step     *)
(* takes a frame, the device's step to the wire hands on the next one, and *)
(* nothing else shows.  That the line hands on all it takes is liveness    *)
(* and left to the run.                                                    *)
THEOREM RingStepsAreLine ==
    Spec => /\ Line!LineInit
            /\ [][Line!Accept \/ Line!Send \/ Line!AcceptAndSend]_<<accepted, wire>>
<1>1. Init => Line!LineInit  BY DEF Init, Line!LineInit
<1>2. IInv /\ Numbered /\ Numbered' /\ [Next]_vars
      => [Line!Accept \/ Line!Send \/ Line!AcceptAndSend]_<<accepted, wire>>
  <2> SUFFICES ASSUME IInv, Numbered, Numbered', [Next]_vars
               PROVE  [Line!Accept \/ Line!Send \/ Line!AcceptAndSend]_<<accepted, wire>>
    OBVIOUS
  <2>1. TypeOK /\ Pointers /\ InUse  BY DEF IInv
  <2>2. ASSUME NEW t \in TASKS, StartXmit(t)
        PROVE  Line!Accept \/ UNCHANGED <<accepted, wire>>
    <3>1. calls \in Nat /\ calls + 1 <= MAX_CALLS  BY <2>1, <2>2 DEF Numbered, TypeOK, StartXmit
    <3>2. calls + 1 \in 1..MAX_CALLS  BY <3>1, TxRingAssumption
    <3>3. QED  BY <2>2, <3>2, EnqueueAccepts DEF StartXmit, Wait, deviceVars
  <2>3. ASSUME NEW t \in TASKS, Resume(t)
        PROVE  Line!Accept \/ UNCHANGED <<accepted, wire>>
    <3>1. skb[t] \in Nat /\ skb[t] # 0 /\ skb[t] <= MAX_CALLS
      BY <2>1, <2>3 DEF Numbered, TypeOK, Frame, Resume
    <3>2. skb[t] \in 1..MAX_CALLS  BY <3>1, TxRingAssumption
    <3>3. QED  BY <2>3, <3>2, EnqueueAccepts DEF Resume, Wait, deviceVars
  <2>4. ASSUME NEW t \in TASKS, Abandon(t) PROVE UNCHANGED <<accepted, wire>>
    BY <2>4 DEF Abandon, deviceVars
  <2>5. CASE PortDown \/ ProcessCq \/ ProcessRing
    BY <2>5 DEF PortDown, ProcessCq, ProcessRing, deviceVars
  <2>6. CASE ApplyWrite \/ Fetch \/ Deliver
    BY <2>6 DEF ApplyWrite, Fetch, Deliver, deviceVars
  <2>7. CASE Transmit
    <3> DEFINE w == Len(wire)
    <3>1. w \in Nat /\ Len(engine) \in Nat \ {0} /\ engine # <<>> /\ w + Len(engine) <= Len(accepted)
          /\ Len(accepted) \in Nat /\ prod_ptr = Len(accepted)
      <4>1. engine \in Seq([index : Nat, pkt : Buffers(pool)]) /\ engine # <<>>
        BY <2>1, <2>7 DEF TypeOK, Transmit
      <4>2. Len(engine) \in Nat \ {0}  BY <4>1, EmptySeq
      <4>3. QED  BY <2>1, <4>1, <4>2, Order
    <3>2. w < Len(accepted) /\ w \in w..prod_ptr - 1 /\ 1 \in 1..Len(engine) /\ w + 1 - 1 = w
      BY <3>1
    <3>3. Head(engine) = engine[1]  BY <3>1
    <3>4. engine[1].pkt = tx_info[slot(w)]  BY <2>1, <3>2 DEF InUse
    <3>5. data[tx_info[slot(w)]] = accepted[w + 1]  BY <2>1, <3>2 DEF InUse
    <3>6. wire' = Append(wire, accepted[w + 1]) /\ accepted' = accepted
      BY <2>7, <3>3, <3>4, <3>5 DEF Transmit
    <3>7. Line!Send  BY <3>2, <3>6 DEF Line!Send, Unsealed
    <3>8. QED  BY <3>7
  <2>8. CASE UNCHANGED vars  BY <2>8 DEF vars, deviceVars
  <2>9. QED  BY <2>2, <2>3, <2>4, <2>5, <2>6, <2>7, <2>8 DEF Next
<1>3. QED  BY <1>1, <1>2, TxRingInvariant, NumberedInvariant, PTL DEF Spec
=============================================================================
