---------------------------- MODULE RxRingProofs ----------------------------
(***************************************************************************)
(* The receive ring, for every size of the ring, of its completion queue   *)
(* and of a refill, every number of readers and frames: IInv of RxRing is  *)
(* an invariant, and with it the properties that follow from it.           *)
(***************************************************************************)
EXTENDS RxRing, SequenceTheorems, TLAPS

(***************************************************************************)
(* Pointers that count for ever, and their slots and phase bits            *)
(***************************************************************************)
(* A pointer is a number of turns and a slot. *)
LEMMA Turns ==
    ASSUME NEW a \in Nat, NEW S \in Nat \ {0}
    PROVE  /\ a % S \in Nat /\ a % S < S /\ a % S \in 0..S - 1
           /\ a \div S \in Nat /\ a = S * (a \div S) + (a % S)
  BY SMT

(* A turn later the slot is the same. *)
LEMMA NextTurn ==
    ASSUME NEW a \in Nat, NEW S \in Nat \ {0}
    PROVE  (a + S) % S = a % S /\ (a + S) \div S = (a \div S) + 1
  BY SMT

(* Less than a turn later it is not. *)
LEMMA WithinTurn ==
    ASSUME NEW a \in Nat, NEW b \in Nat, NEW S \in Nat \ {0}, a < b, b - a < S
    PROVE  a % S # b % S
<1> SUFFICES ASSUME a % S = b % S PROVE FALSE
  OBVIOUS
<1> DEFINE ta == a \div S
           tb == b \div S
<1>1. a = S * ta + (a % S) /\ b = S * tb + (b % S) /\ ta \in Nat /\ tb \in Nat /\ a % S \in Nat
  BY Turns
<1> HIDE DEF ta, tb
<1>2. b - a = S * (tb - ta)  BY <1>1
<1>3. CASE tb <= ta
  <2>1. S * (tb - ta) <= 0  BY <1>1, <1>3
  <2>2. QED  BY <2>1, <1>2
<1>4. CASE tb >= ta + 1
  <2>1. S * (tb - ta) >= S  BY <1>1, <1>4
  <2>2. QED  BY <2>1, <1>2
<1>5. QED  BY <1>1, <1>3, <1>4

(* Every slot is some pointer's within a turn. *)
LEMMA EverySlot ==
    ASSUME NEW c \in Nat, NEW S \in Nat \ {0}, NEW s \in 0..S - 1
    PROVE  \E p \in c..c + S - 1 : p % S = s
<1> DEFINE k == c \div S
<1>1. c = S * k + (c % S) /\ k \in Nat /\ c % S \in 0..S - 1
  BY Turns
<1>2. \A j \in Nat : (S * j + s) % S = s  BY SMT
<1>3. S * k \in Nat /\ S * (k + 1) = S * k + S  BY <1>1
<1> HIDE DEF k
<1>4. CASE s >= c % S
  <2>1. S * k + s \in c..c + S - 1  BY <1>1, <1>3, <1>4
  <2>2. (S * k + s) % S = s  BY <1>1, <1>2
  <2>3. QED  BY <2>1, <2>2
<1>5. CASE s < c % S
  <2>1. S * (k + 1) + s \in c..c + S - 1  BY <1>1, <1>3, <1>5
  <2>2. k + 1 \in Nat  BY <1>1
  <2>3. (S * (k + 1) + s) % S = s  BY <1>2, <2>2
  <2>4. QED  BY <2>1, <2>3
<1>6. QED  BY <1>1, <1>4, <1>5

(* Consecutive turns have different phase bits. *)
LEMMA PhaseFacts ==
    ASSUME NEW a \in Nat
    PROVE  a % 2 \in {0, 1} /\ (a + 1) % 2 # a % 2
  BY SMT

LEMMA Sizes ==
    /\ SIZE \in Nat \ {0} /\ CQ_SIZE \in Nat \ {0} /\ SIZE <= CQ_SIZE
    /\ MIN_REFILL \in Nat \ {0} /\ MIN_REFILL <= SIZE
  BY RxRingAssumption

(* The ring and its completion queue, whose phase bit tells one turn from  *)
(* the next.                                                               *)
LEMMA SlotFacts ==
    ASSUME NEW p \in Nat
    PROVE  /\ slot(p) \in Slots /\ slot(p + SIZE) = slot(p)
           /\ \A q \in Nat : p < q /\ q - p < SIZE => slot(p) # slot(q)
           /\ \A s \in Slots : \E q \in p..p + SIZE - 1 : slot(q) = s
<1>1. SIZE \in Nat \ {0}  BY Sizes
<1>2. slot(p) \in Slots /\ slot(p + SIZE) = slot(p)  BY <1>1, Turns, NextTurn DEF slot, Slots
<1>3. ASSUME NEW q \in Nat, p < q, q - p < SIZE PROVE slot(p) # slot(q)
  BY <1>1, <1>3, WithinTurn DEF slot
<1>4. ASSUME NEW s \in Slots PROVE \E q \in p..p + SIZE - 1 : slot(q) = s
  BY <1>1, EverySlot DEF slot, Slots
<1>5. QED  BY <1>2, <1>3, <1>4

LEMMA CqSlotFacts ==
    ASSUME NEW p \in Nat
    PROVE  /\ Cq!slot(p) \in Cq!Slots /\ Cq!slot(p + CQ_SIZE) = Cq!slot(p)
           /\ Cq!phase(p) \in {0, 1} /\ Cq!phase(p + CQ_SIZE) # Cq!phase(p)
           /\ \A q \in Nat : p < q /\ q - p < CQ_SIZE => Cq!slot(p) # Cq!slot(q)
<1> DEFINE t == p \div CQ_SIZE
<1>1. t \in Nat /\ (p + CQ_SIZE) \div CQ_SIZE = t + 1  BY Sizes, Turns, NextTurn
<1>2. t % 2 \in {0, 1} /\ (t + 1) % 2 \in {0, 1} /\ (t + 1) % 2 # t % 2  BY <1>1, PhaseFacts
<1>3. Cq!phase(p) = 1 - (t % 2) /\ Cq!phase(p + CQ_SIZE) = 1 - ((t + 1) % 2)
  BY <1>1 DEF Cq!phase
<1> HIDE DEF t
<1>4. Cq!phase(p) \in {0, 1} /\ Cq!phase(p + CQ_SIZE) # Cq!phase(p)  BY <1>2, <1>3
<1>5. Cq!slot(p) \in Cq!Slots /\ Cq!slot(p + CQ_SIZE) = Cq!slot(p)
  BY Sizes, Turns, NextTurn DEF Cq!slot, Cq!Slots
<1>6. ASSUME NEW q \in Nat, p < q, q - p < CQ_SIZE PROVE Cq!slot(p) # Cq!slot(q)
  BY <1>6, Sizes, WithinTurn DEF Cq!slot
<1>7. QED  BY <1>4, <1>5, <1>6

(* The driver's test compares a record's phase with that of its pointer.   *)
LEMMA NewRecord ==
    ASSUME NEW p \in Nat, NEW b, b[Cq!slot(p)].phase \in {0, 1}
    PROVE  Cq!is_new(b, p) <=> b[Cq!slot(p)].phase = Cq!phase(p)
<1> DEFINE t == p \div CQ_SIZE
           f == b[Cq!slot(p)].phase
<1>1. t \in Nat  BY Sizes, Turns
<1>2. t % 2 \in {0, 1} /\ f \in {0, 1}  BY <1>1, PhaseFacts
<1>3. Cq!phase(p) = 1 - (t % 2) /\ (Cq!is_new(b, p) <=> f # t % 2)  BY DEF Cq!phase, Cq!is_new
<1> HIDE DEF t, f
<1>4. (f # t % 2) <=> (f = 1 - (t % 2))  BY <1>2
<1>5. QED  BY <1>3, <1>4 DEF f

(***************************************************************************)
(* The pointers, as numbers in their order                                 *)
(***************************************************************************)
Completion == [index : Nat, pkt : Buffers(pool), frame : Frame]

LEMMA Order ==
    ASSUME TypeOK, Pointers
    PROVE  /\ Len(engine) \in Nat /\ Len(upstream) \in Nat /\ Len(received) \in Nat
           /\ Len(taken) \in Nat /\ Len(pkt_rx_queue) \in Nat
           /\ delivered \in Nat /\ delivered = hw_cq_prod - Len(upstream)
           /\ prod_ptr \in Nat /\ cons_ptr \in Nat /\ cq_cons_ptr \in Nat
           /\ hw_prod \in Nat /\ hw_cons \in Nat /\ hw_cq_prod \in Nat /\ hw_cq_cons \in Nat
           /\ cons_ptr <= cq_cons_ptr /\ cq_cons_ptr <= delivered /\ delivered <= hw_cq_prod
           /\ hw_cq_prod <= hw_cons /\ hw_cons <= hw_prod /\ hw_prod <= prod_ptr
           /\ hw_cons = Len(received) /\ hw_cons = hw_cq_prod + Len(engine)
           /\ prod_ptr <= cons_ptr + SIZE /\ prod_ptr <= cq_cons_ptr + SIZE
           /\ cq_cons_ptr <= prod_ptr /\ delivered <= prod_ptr /\ hw_cons <= prod_ptr
           /\ cq_cons_ptr <= hw_cons /\ delivered <= hw_cons /\ delivered <= cq_cons_ptr + SIZE
<1>1. /\ Len(engine) \in Nat /\ Len(upstream) \in Nat /\ Len(received) \in Nat
      /\ Len(taken) \in Nat /\ Len(pkt_rx_queue) \in Nat
  BY LenProperties DEF TypeOK
<1>2. /\ prod_ptr \in Nat /\ cons_ptr \in Nat /\ cq_cons_ptr \in Nat
      /\ hw_prod \in Nat /\ hw_cons \in Nat /\ hw_cq_prod \in Nat /\ hw_cq_cons \in Nat
  BY DEF TypeOK
<1>3. delivered \in Nat /\ delivered = hw_cq_prod - Len(upstream) /\ delivered <= hw_cq_prod
  BY <1>1, <1>2 DEF Pointers, delivered
<1>4. /\ cons_ptr <= cq_cons_ptr /\ cq_cons_ptr <= delivered
      /\ hw_cons <= hw_prod /\ hw_prod <= prod_ptr /\ prod_ptr <= cons_ptr + SIZE
      /\ hw_cons = Len(received) /\ hw_cons = hw_cq_prod + Len(engine) /\ hw_cq_prod <= hw_cons
  BY <1>1, <1>2 DEF Pointers
<1> DEFINE e == Len(engine)
           u == Len(upstream)
<1>5. e \in Nat /\ u \in Nat  BY <1>1
<1> HIDE DEF e, u
<1>6. /\ prod_ptr <= cq_cons_ptr + SIZE /\ cq_cons_ptr <= prod_ptr /\ delivered <= prod_ptr
      /\ hw_cons <= prod_ptr /\ cq_cons_ptr <= hw_cons /\ delivered <= hw_cons
      /\ delivered <= cq_cons_ptr + SIZE
  BY <1>2, <1>3, <1>4, Sizes
<1>7. QED  BY <1>1, <1>2, <1>3, <1>4, <1>6

(***************************************************************************)
(* What the handler finds                                                  *)
(***************************************************************************)
(* Its first loop stops behind the last record that reached memory.        *)
LEMMA CqEnd ==
    ASSUME TypeOK, Pointers, Records
    PROVE  cq_end = delivered
<1> DEFINE c == cq_cons_ptr
           d == delivered
           Stops(p) == /\ ~Cq!is_new(cq_buf, p)
                       /\ \A q \in c..p - 1 : Cq!is_new(cq_buf, q)
<1>1. c \in Nat /\ d \in Nat /\ c <= d /\ d <= c + CQ_SIZE /\ CQ_SIZE \in Nat \ {0}
  <2>1. c \in Nat /\ d \in Nat /\ c <= d /\ d <= c + SIZE  BY Order
  <2>2. CQ_SIZE \in Nat \ {0} /\ SIZE \in Nat /\ SIZE <= CQ_SIZE  BY Sizes
  <2> HIDE DEF c, d
  <2>3. QED  BY <2>1, <2>2
<1>2. ASSUME NEW p \in Nat PROVE cq_buf[Cq!slot(p)].phase \in {0, 1}
  BY CqSlotFacts DEF TypeOK
<1>3. ASSUME NEW q \in c..d - 1 PROVE Cq!is_new(cq_buf, q)
  <2>1. q \in Nat  BY <1>1
  <2>2. QED  BY <2>1, <1>2, <1>3, NewRecord DEF Records
<1>4. ~Cq!is_new(cq_buf, d)
  <2>1. cq_buf[Cq!slot(d)].phase # Cq!phase(d)
    <3>1. CASE d < c + CQ_SIZE
      <4>1. d \in delivered..cq_cons_ptr + CQ_SIZE - 1  BY <1>1, <3>1
      <4>2. QED  BY <4>1 DEF Records
    <3>2. CASE d = c + CQ_SIZE
      <4>1. c \in cq_cons_ptr..delivered - 1  BY <1>1, <3>2
      <4>2. cq_buf[Cq!slot(c)].phase = Cq!phase(c)  BY <4>1 DEF Records
      <4>3. QED  BY <4>2, <3>2, <1>1, CqSlotFacts
    <3>3. QED  BY <1>1, <3>1, <3>2
  <2>2. QED  BY <2>1, <1>1, <1>2, NewRecord
<1>5. d \in c..c + CQ_SIZE /\ Stops(d)  BY <1>1, <1>3, <1>4
<1>6. ASSUME NEW p \in c..c + CQ_SIZE, Stops(p) PROVE p = d
  <2>1. CASE p < d
    <3>1. p \in c..d - 1  BY <1>1, <2>1
    <3>2. QED  BY <3>1, <1>3, <1>6
  <2>2. CASE p > d
    <3>1. d \in c..p - 1  BY <1>1, <2>2
    <3>2. QED  BY <3>1, <1>4, <1>6
  <2>3. QED  BY <1>1, <2>1, <2>2
<1>7. cq_end = CHOOSE p \in c..c + CQ_SIZE : Stops(p)
  BY DEF cq_end, Cq!first_empty
<1> HIDE DEF Stops, c, d
<1>8. QED  BY <1>5, <1>6, <1>7 DEF d

(* The records name the slots in the order of the ring.                    *)
LEMMA NewCompletions ==
    ASSUME TypeOK, Pointers, Records, NEW p \in cq_cons_ptr..cq_end - 1
    PROVE  p \in Nat /\ p \in cq_cons_ptr..delivered - 1 /\ cpl_slot(p) = slot(p)
<1>1. cq_end = delivered  BY CqEnd
<1>2. cq_buf[Cq!slot(p)].index = p  BY <1>1 DEF Records
<1>3. cq_cons_ptr \in Nat /\ delivered \in Nat  BY Order
<1>4. QED  BY <1>1, <1>2, <1>3 DEF cpl_slot

LEMMA CompletedSlots ==
    ASSUME TypeOK, Pointers, Records, NEW s \in Slots
    PROVE  s \in completed_slots <=> \E p \in cq_cons_ptr..delivered - 1 : slot(p) = s
  BY CqEnd, NewCompletions DEF completed_slots

LEMMA CompletedPkts ==
    ASSUME TypeOK, Pointers, Records
    PROVE  completed_pkts = [i \in 1..delivered - cq_cons_ptr |-> rx_info[slot(cq_cons_ptr + i - 1)]]
<1>1. cq_end = delivered /\ cq_cons_ptr \in Nat /\ delivered \in Nat  BY CqEnd, Order
<1>2. ASSUME NEW i \in 1..delivered - cq_cons_ptr
      PROVE  cpl_slot(cq_cons_ptr + i - 1) = slot(cq_cons_ptr + i - 1)
  <2>1. cq_cons_ptr + i - 1 \in cq_cons_ptr..cq_end - 1  BY <1>1
  <2>2. QED  BY <2>1, NewCompletions
<1>3. QED  BY <1>1, <1>2 DEF completed_pkts

(* Slots in use differ, and the slots of pointers that are not in use hold *)
(* nothing, up to a turn back.                                             *)
LEMMA RingSlots ==
    ASSUME TypeOK, Pointers, InUse
    PROVE  /\ \A p, q \in cq_cons_ptr..cq_cons_ptr + SIZE - 1 : p # q => slot(p) # slot(q)
           /\ \A p \in cons_ptr..cq_cons_ptr - 1 : rx_info[slot(p)] = None
<1>1. SIZE \in Nat \ {0}  BY Sizes
<1>2. /\ prod_ptr \in Nat /\ cons_ptr \in Nat /\ cq_cons_ptr \in Nat
      /\ prod_ptr <= cons_ptr + SIZE /\ cons_ptr <= cq_cons_ptr
  BY Order
<1>3. ASSUME NEW p \in cq_cons_ptr..cq_cons_ptr + SIZE - 1,
             NEW q \in cq_cons_ptr..cq_cons_ptr + SIZE - 1, p # q
      PROVE  slot(p) # slot(q)
  <2>1. p \in Nat /\ q \in Nat /\ p - q < SIZE /\ q - p < SIZE  BY <1>1, <1>2
  <2>2. CASE p < q  BY <2>1, <2>2, SlotFacts
  <2>3. CASE q < p  BY <2>1, <2>3, SlotFacts
  <2>4. QED  BY <2>1, <2>2, <2>3, <1>3
<1>4. ASSUME NEW p \in cons_ptr..cq_cons_ptr - 1 PROVE rx_info[slot(p)] = None
  <2>1. p \in Nat /\ p + SIZE \in prod_ptr..cq_cons_ptr + SIZE - 1  BY <1>1, <1>2
  <2>2. rx_info[slot(p + SIZE)] = None  BY <2>1 DEF InUse
  <2>3. QED  BY <2>1, <2>2, SlotFacts
<1>5. QED  BY <1>3, <1>4

(* Its second loop moves the ring's pointer to where the first one came.   *)
LEMMA RingEnd ==
    ASSUME TypeOK, Pointers, InUse
    PROVE  ring_end = cq_cons_ptr
<1> DEFINE Stops(p) == /\ p = prod_ptr \/ rx_info[slot(p)] # None
                       /\ \A q \in cons_ptr..p - 1 : rx_info[slot(q)] = None
<1>1. /\ cons_ptr \in Nat /\ cq_cons_ptr \in Nat /\ prod_ptr \in Nat
      /\ cons_ptr <= cq_cons_ptr /\ cq_cons_ptr <= prod_ptr
  BY Order
<1>2. Stops(cq_cons_ptr)
  <2>1. CASE cq_cons_ptr = prod_ptr  BY <2>1, RingSlots
  <2>2. CASE cq_cons_ptr # prod_ptr
    <3>1. cq_cons_ptr \in cq_cons_ptr..prod_ptr - 1  BY <1>1, <2>2
    <3>2. QED  BY <3>1, RingSlots DEF InUse
  <2>3. QED  BY <2>1, <2>2
<1>3. ASSUME NEW p \in cons_ptr..prod_ptr, Stops(p) PROVE p = cq_cons_ptr
  <2>1. CASE p < cq_cons_ptr
    <3>1. p \in cons_ptr..cq_cons_ptr - 1 /\ p # prod_ptr  BY <1>1, <2>1
    <3>2. QED  BY <3>1, <1>3, RingSlots
  <2>2. CASE p > cq_cons_ptr
    <3>1. cq_cons_ptr \in cons_ptr..p - 1 /\ cq_cons_ptr \in cq_cons_ptr..prod_ptr - 1
      BY <1>1, <2>2
    <3>2. QED  BY <3>1, <1>3 DEF InUse
  <2>3. QED  BY <1>1, <2>1, <2>2
<1>4. ring_end = CHOOSE p \in cons_ptr..prod_ptr : Stops(p)
  BY DEF ring_end
<1>5. cq_cons_ptr \in cons_ptr..prod_ptr  BY <1>1
<1> HIDE DEF Stops
<1>6. QED  BY <1>2, <1>3, <1>4, <1>5

(***************************************************************************)
(* The invariant holds at first                                            *)
(***************************************************************************)
LEMMA InitInv == Init => IInv
<1> SUFFICES ASSUME Init PROVE IInv
  OBVIOUS
<1> USE DEF Init
<1>1. SIZE \in Nat \ {0} /\ CQ_SIZE \in Nat \ {0} /\ SIZE <= CQ_SIZE  BY Sizes
<1>2. pool.allocated = 0 /\ pool.free = <<>> /\ pool = [allocated |-> pool.allocated, free |-> pool.free]
  BY DEF EmptyPool
<1>3. delivered = 0
  <2>1. hw_cq_prod = 0 /\ upstream = <<>>  OBVIOUS
  <2> HIDE DEF Init
  <2> DEFINE u == Len(upstream)
  <2>2. u = 0  BY <2>1
  <2>3. delivered = hw_cq_prod - u  BY DEF delivered
  <2> HIDE DEF u
  <2>4. QED  BY <2>1, <2>2, <2>3
<1>4. TypeOK
  <2>1. cq_buf \in [Cq!Slots -> [phase : {0, 1}, index : Nat]]  BY DEF Cq!Zeroed
  <2>2. /\ pool.free \in Seq(Buffers(pool)) /\ data \in Seq(Nat)
        /\ mmio \in Seq([reg : {"prod", "cq_cons", "enable"}, val : Nat])
    BY <1>2
  <2>3. /\ upstream \in Seq([ptr : Nat, cpl : [index : Nat, pkt : Buffers(pool), frame : Frame]])
        /\ engine \in Seq([index : Nat, pkt : Buffers(pool), frame : Frame])
    OBVIOUS
  <2>4. received \in Seq(Frame) /\ taken \in Seq(Frame) /\ pkt_rx_queue \in Seq(Frame)
    OBVIOUS
  <2>5. Len(data) = pool.allocated  BY <1>2
  <2>6. /\ pc \in [READERS -> {"idle", "recv", "wait", "woken"}]
        /\ rx_info \in [Slots -> Buffers(pool) \cup {None}] /\ buf \in [Slots -> Buffers(pool) \cup {None}]
    OBVIOUS
  <2>7. port \in {"opening", "up"} /\ handler \in {"open", "idle", "ring"}
    OBVIOUS
  <2>8. hw_enabled \in BOOLEAN /\ got_none \in BOOLEAN /\ overtaken \in BOOLEAN
    OBVIOUS
  <2>9. /\ prod_ptr \in Nat /\ cons_ptr \in Nat /\ cq_cons_ptr \in Nat /\ pool.allocated \in Nat
        /\ hw_prod \in Nat /\ hw_cons \in Nat /\ hw_cq_prod \in Nat /\ hw_cq_cons \in Nat /\ arrived \in Nat
    BY <1>2
  <2> HIDE DEF Init
  <2>10. QED  BY <1>2, <2>1, <2>2, <2>3, <2>4, <2>5, <2>6, <2>7, <2>8, <2>9 DEF TypeOK
<1>5. Pointers  BY <1>1, <1>3 DEF Pointers
<1>6. Posted  BY <1>1 DEF Posted, PostedWrites, PostedInOrder, Latest
<1>7. Records
  <2>1. ASSUME NEW p \in 0..CQ_SIZE - 1 PROVE cq_buf[Cq!slot(p)].phase # Cq!phase(p)
    <3>1. p \div CQ_SIZE = 0 /\ p \in Nat  BY <1>1, SMT
    <3>2. Cq!phase(p) = 1  BY <3>1, SMT DEF Cq!phase
    <3>3. cq_buf[Cq!slot(p)].phase = 0  BY <3>1, CqSlotFacts DEF Cq!Zeroed
    <3>4. QED  BY <3>2, <3>3
  <2>2. QED  BY <1>1, <1>3, <2>1 DEF Records
<1>8. InUse
  <2>1. ASSUME NEW p \in 0..SIZE - 1 PROVE rx_info[slot(p)] = None
    BY <1>1, SlotFacts
  <2>2. QED  BY <1>1, <2>1 DEF InUse
<1>9. Frames  BY <1>3 DEF Frames
<1>10. BuffersOwned  BY <1>1, <1>2 DEF BuffersOwned, IsInjective, FreeBuffers, Range, Buffers, None
<1>11. TakenInOrder /\ NoLostWakeup /\ WokenForPacket /\ RecvGetsPacket
  BY DEF TakenInOrder, NoLostWakeup, WokenForPacket, RecvGetsPacket
<1>12. QED  BY <1>4, <1>5, <1>6, <1>7, <1>8, <1>9, <1>10, <1>11 DEF IInv

(***************************************************************************)
(* The readers                                                             *)
(***************************************************************************)
(* IInv, of the ring and of the readers, each with what it depends on.     *)
RingInv == Pointers /\ Posted /\ Records /\ InUse /\ Frames /\ BuffersOwned
ReadersInv == TakenInOrder /\ NoLostWakeup /\ WokenForPacket /\ RecvGetsPacket

ringVars == <<handler, prod_ptr, cons_ptr, rx_info, buf, pool, cq_cons_ptr, data, mmio, cq_buf, upstream,
              hw_prod, hw_cons, hw_cq_prod, hw_cq_cons, engine, received>>

LEMMA RingUnchanged ==
    ASSUME IInv, UNCHANGED ringVars
    PROVE  RingInv'
<1> USE DEF ringVars
<1>1. Pointers'  BY DEF IInv, Pointers, delivered, missing, worth_refilling
<1>2. Posted'  BY DEF IInv, Posted
<1>3. Records' /\ InUse'  BY DEF IInv, Records, InUse, delivered
<1>4. Frames'  BY DEF IInv, Frames, CompletionOf, delivered
<1>5. BuffersOwned'  BY DEF IInv, BuffersOwned
<1>6. QED  BY <1>1, <1>2, <1>3, <1>4, <1>5 DEF RingInv

LEMMA ReadersUnchanged ==
    ASSUME IInv, UNCHANGED <<readerVars, cq_cons_ptr, received>>
    PROVE  ReadersInv'
<1> USE DEF readerVars
<1>1. TakenInOrder'  BY DEF IInv, TakenInOrder
<1>2. NoLostWakeup' /\ WokenForPacket' /\ RecvGetsPacket'
  BY DEF IInv, NoLostWakeup, WokenForPacket, RecvGetsPacket
<1>3. QED  BY <1>1, <1>2 DEF ReadersInv

LEMMA PortUpStep ==
    ASSUME IInv, PortUp
    PROVE  IInv'
<1> USE DEF deviceVars, memoryVars, readerVars
<1>1. RingInv' /\ ReadersInv'  BY RingUnchanged, ReadersUnchanged DEF PortUp, ringVars
<1>2. TypeOK'  BY DEF IInv, TypeOK, PortUp
<1>3. QED  BY <1>1, <1>2 DEF IInv, RingInv, ReadersInv

(* The packet taken is the next one of those received.                     *)
LEMMA TakeStep ==
    ASSUME TypeOK, TakenInOrder, NEW others, pkt_rx_queue # <<>>, Take(others),
           UNCHANGED <<cq_cons_ptr, received>>
    PROVE  /\ pkt_rx_queue' \in Seq(Frame) /\ taken' \in Seq(Frame)
           /\ taken' = Append(taken, received[Len(taken) + 1])
           /\ TakenInOrder'
<1> DEFINE q == Len(pkt_rx_queue)
           n == Len(taken)
<1>1. /\ pkt_rx_queue \in Seq(Frame) /\ taken \in Seq(Frame) /\ n \in Nat /\ q \in Nat \ {0}
      /\ Head(pkt_rx_queue) = pkt_rx_queue[1] /\ pkt_rx_queue[1] \in Frame
  <2>1. pkt_rx_queue \in Seq(Frame) /\ taken \in Seq(Frame)  BY DEF TypeOK
  <2>2. n \in Nat /\ q \in Nat \ {0}  BY <2>1, LenProperties, EmptySeq
  <2>3. QED  BY <2>1, <2>2, ElementOfSeq
<1>2. /\ pkt_rx_queue' \in Seq(Frame) /\ Len(pkt_rx_queue') = q - 1
      /\ \A i \in 1..q - 1 : pkt_rx_queue'[i] = pkt_rx_queue[i + 1]
  BY <1>1, HeadTailProperties DEF Take
<1>3. /\ taken' \in Seq(Frame) /\ Len(taken') = n + 1 /\ taken'[n + 1] = pkt_rx_queue[1]
      /\ \A i \in 1..n : taken'[i] = taken[i]
  <2>1. taken' = Append(taken, pkt_rx_queue[1])  BY <1>1 DEF Take
  <2>2. QED  BY <1>1, <2>1, AppendProperties
<1>4. /\ n + q = cq_cons_ptr /\ \A i \in 1..n : taken[i] = received[i]
      /\ \A i \in 1..q : pkt_rx_queue[i] = received[n + i]
  BY DEF TakenInOrder
<1>5. taken' = Append(taken, received[n + 1])  BY <1>1, <1>4 DEF Take
<1> HIDE DEF q, n
<1>6. (n + 1) + (q - 1) = cq_cons_ptr  BY <1>1, <1>4
<1>7. ASSUME NEW i \in 1..n + 1 PROVE taken'[i] = received[i]
  <2>1. CASE i \in 1..n  BY <1>3, <1>4, <2>1
  <2>2. CASE i = n + 1
    <3>1. 1 \in 1..q  BY <1>1
    <3>2. QED  BY <1>3, <1>4, <2>2, <3>1
  <2>3. QED  BY <1>1, <2>1, <2>2
<1>8. ASSUME NEW i \in 1..q - 1 PROVE pkt_rx_queue'[i] = received[(n + 1) + i]
  <2>1. i + 1 \in 1..q /\ n + (i + 1) = (n + 1) + i  BY <1>1
  <2>2. QED  BY <1>2, <1>4, <2>1
<1>9. TakenInOrder'  BY <1>2, <1>3, <1>6, <1>7, <1>8 DEF TakenInOrder
<1>10. QED  BY <1>2, <1>3, <1>5, <1>9 DEF n

(* No reader waits while it is taken, and one still to be woken for it is  *)
(* overtaken.                                                              *)
LEMMA RecvStep ==
    ASSUME IInv, NEW t \in READERS, Recv(t) \/ RecvWoken(t) \/ WaitPacket(t)
    PROVE  IInv'
<1> USE DEF driverVars, deviceVars, memoryVars
<1>1. TypeOK /\ TakenInOrder /\ NoLostWakeup /\ WokenForPacket /\ RecvGetsPacket  BY DEF IInv
<1>2. RingInv'  BY RingUnchanged DEF ringVars, Recv, RecvWoken, WaitPacket
<1>3. UNCHANGED <<cq_cons_ptr, received>>  BY DEF Recv, RecvWoken, WaitPacket
<1>4. pc \in [READERS -> {"idle", "recv", "wait", "woken"}]  BY <1>1 DEF TypeOK
<1>5. CASE Recv(t) /\ pkt_rx_queue # <<>> /\ Take(READERS) /\ UNCHANGED pc
  <2>1. /\ pkt_rx_queue' \in Seq(Frame) /\ taken' \in Seq(Frame) /\ TakenInOrder'
    BY <1>1, <1>3, <1>5, TakeStep
  <2>2. overtaken' = (overtaken \/ \E u \in READERS : pc[u] = "woken") /\ UNCHANGED <<got_none, pc>>
    BY <1>5 DEF Take
  <2>3. NoLostWakeup' /\ WokenForPacket' /\ RecvGetsPacket'
    BY <1>1, <1>5, <2>2 DEF NoLostWakeup, WokenForPacket, RecvGetsPacket
  <2>4. overtaken' \in BOOLEAN  BY <2>2
  <2>5. TypeOK'
    <3>1. UNCHANGED <<driverVars, deviceVars, memoryVars, mmio>>  BY <1>5 DEF Recv
    <3>2. QED  BY <1>1, <2>1, <2>2, <2>4, <3>1 DEF TypeOK
  <2>6. QED  BY <1>2, <2>1, <2>3, <2>5 DEF IInv, RingInv
<1>6. CASE RecvWoken(t) /\ pkt_rx_queue # <<>> /\ Take(READERS \ {t})
  <2>1. /\ pkt_rx_queue' \in Seq(Frame) /\ taken' \in Seq(Frame) /\ TakenInOrder'
    BY <1>1, <1>3, <1>6, TakeStep
  <2>2. /\ overtaken' = (overtaken \/ \E u \in READERS \ {t} : pc[u] = "woken") /\ got_none' = got_none
        /\ pc' = [pc EXCEPT ![t] = "idle"]
    BY <1>6 DEF Take, RecvWoken
  <2>3. /\ pc' \in [READERS -> {"idle", "recv", "wait", "woken"}] /\ pc'[t] = "idle"
        /\ \A u \in READERS : u # t => pc'[u] = pc[u]
    BY <1>4, <2>2
  <2>4. NoLostWakeup' /\ WokenForPacket' /\ RecvGetsPacket'
    BY <1>1, <1>6, <2>2, <2>3 DEF NoLostWakeup, WokenForPacket, RecvGetsPacket
  <2>5. overtaken' \in BOOLEAN  BY <2>2
  <2>6. TypeOK'
    <3>1. UNCHANGED <<driverVars, deviceVars, memoryVars, mmio, got_none>>  BY <1>6, <2>2 DEF RecvWoken
    <3>2. QED  BY <1>1, <2>1, <2>3, <2>5, <3>1 DEF TypeOK
  <2>7. QED  BY <1>2, <2>1, <2>4, <2>6 DEF IInv, RingInv
<1>7. CASE RecvWoken(t) /\ pkt_rx_queue = <<>>
  <2>1. /\ got_none' = TRUE /\ UNCHANGED <<pkt_rx_queue, taken, overtaken>>
        /\ pc' = [pc EXCEPT ![t] = "idle"] /\ pc[t] = "woken"
    BY <1>7 DEF RecvWoken
  <2>2. /\ pc' \in [READERS -> {"idle", "recv", "wait", "woken"}] /\ pc'[t] = "idle"
        /\ \A u \in READERS : u # t => pc'[u] = pc[u]
    BY <1>4, <2>1
  <2>3. overtaken  BY <1>1, <1>7, <2>1 DEF WokenForPacket
  <2>4. NoLostWakeup' /\ WokenForPacket' /\ RecvGetsPacket'
    BY <1>1, <1>7, <2>1, <2>2, <2>3 DEF NoLostWakeup, WokenForPacket, RecvGetsPacket
  <2>5. TakenInOrder'  BY <1>1, <1>3, <2>1 DEF TakenInOrder
  <2>6. TypeOK'
    <3>1. UNCHANGED <<driverVars, deviceVars, memoryVars, mmio>>  BY <1>7 DEF RecvWoken
    <3>2. QED  BY <1>1, <2>1, <2>2, <3>1 DEF TypeOK
  <2>7. QED  BY <1>2, <2>4, <2>5, <2>6 DEF IInv, RingInv
<1>8. CASE (Recv(t) \/ WaitPacket(t)) /\ pkt_rx_queue = <<>>
  <2>1. /\ UNCHANGED <<pkt_rx_queue, taken, got_none, overtaken>>
        /\ \/ pc' = [pc EXCEPT ![t] = "recv"]
           \/ pc' = [pc EXCEPT ![t] = "wait"]
    BY <1>8 DEF Recv, WaitPacket
  <2>2. /\ pc' \in [READERS -> {"idle", "recv", "wait", "woken"}] /\ pc'[t] # "woken"
        /\ \A u \in READERS : u # t => pc'[u] = pc[u]
    BY <1>4, <2>1
  <2>3. NoLostWakeup' /\ WokenForPacket' /\ RecvGetsPacket'
    BY <1>1, <1>8, <2>1, <2>2 DEF NoLostWakeup, WokenForPacket, RecvGetsPacket
  <2>4. TakenInOrder'  BY <1>1, <1>3, <2>1 DEF TakenInOrder
  <2>5. TypeOK'
    <3>1. UNCHANGED <<driverVars, deviceVars, memoryVars, mmio>>  BY <1>8 DEF Recv, WaitPacket
    <3>2. QED  BY <1>1, <2>1, <2>2, <3>1 DEF TypeOK
  <2>6. QED  BY <1>2, <2>3, <2>4, <2>5 DEF IInv, RingInv
<1>9. QED  BY <1>5, <1>6, <1>7, <1>8 DEF Recv, RecvWoken, WaitPacket

LEMMA RecvNowaitStep ==
    ASSUME IInv, RecvNowait
    PROVE  IInv'
<1> USE DEF driverVars, deviceVars, memoryVars
<1>1. TypeOK /\ TakenInOrder /\ NoLostWakeup /\ WokenForPacket /\ RecvGetsPacket  BY DEF IInv
<1>2. RingInv'  BY RingUnchanged DEF ringVars, RecvNowait
<1>3. UNCHANGED <<cq_cons_ptr, received>> /\ pkt_rx_queue # <<>> /\ Take(READERS)  BY DEF RecvNowait
<1>4. /\ pkt_rx_queue' \in Seq(Frame) /\ taken' \in Seq(Frame) /\ TakenInOrder'
  BY <1>1, <1>3, TakeStep
<1>5. overtaken' = (overtaken \/ \E u \in READERS : pc[u] = "woken") /\ UNCHANGED <<got_none, pc>>
  BY DEF Take, RecvNowait
<1>6. NoLostWakeup' /\ WokenForPacket' /\ RecvGetsPacket'
  BY <1>1, <1>3, <1>5 DEF NoLostWakeup, WokenForPacket, RecvGetsPacket
<1>7. overtaken' \in BOOLEAN  BY <1>5
<1>8. TypeOK'
  <2>1. UNCHANGED <<driverVars, deviceVars, memoryVars, mmio>>  BY DEF RecvNowait
  <2>2. QED  BY <1>1, <1>4, <1>5, <1>7, <2>1 DEF TypeOK
<1>9. QED  BY <1>2, <1>4, <1>6, <1>8 DEF IInv, RingInv

(***************************************************************************)
(* The posted writes                                                       *)
(***************************************************************************)
Register == {"prod", "cq_cons", "enable"}
Write == [reg : Register, val : Nat]

LEMMA PostFacts ==
    ASSUME NEW m \in Seq(Write), NEW w \in Write
    PROVE  /\ Append(m, w) \in Seq(Write) /\ Len(m) \in Nat /\ Len(Append(m, w)) = Len(m) + 1
           /\ Append(m, w)[Len(m) + 1] = w
           /\ \A i \in 1..Len(m) : Append(m, w)[i] = m[i] /\ m[i].val \in Nat /\ m[i].reg \in Register
           /\ \A i \in 1..Len(Append(m, w)) : i \in 1..Len(m) \/ i = Len(m) + 1
<1> DEFINE a == Append(m, w)
<1>1. /\ a \in Seq(Write) /\ Len(m) \in Nat /\ Len(a) = Len(m) + 1 /\ a[Len(m) + 1] = w
      /\ \A i \in 1..Len(m) : a[i] = m[i]
  BY AppendProperties, LenProperties
<1>2. \A i \in 1..Len(m) : m[i] \in Write  BY ElementOfSeq
<1> HIDE DEF a
<1>3. \A i \in 1..Len(a) : i \in 1..Len(m) \/ i = Len(m) + 1  BY <1>1
<1>4. \A i \in 1..Len(m) : m[i].val \in Nat /\ m[i].reg \in Register  BY <1>2 DEF Write
<1>5. QED  BY <1>1, <1>3, <1>4 DEF a

(* The newest write of a register is not below those before it.            *)
LEMMA PostedNewest ==
    ASSUME NEW m \in Seq(Write), NEW reg \in Register, NEW low \in Nat, NEW high \in Nat, NEW v \in Nat,
           PostedInOrder(m, reg, low, high), high <= v
    PROVE  /\ PostedInOrder(Append(m, write(reg, v)), reg, low, v)
           /\ Latest(Append(m, write(reg, v)), reg, low, v)
<1> DEFINE n == Len(m)
           w == write(reg, v)
           a == Append(m, w)
<1>1. w \in Write /\ w.reg = reg /\ w.val = v  BY DEF Write, write
<1>2. /\ n \in Nat /\ Len(a) = n + 1 /\ a[n + 1] = w
      /\ \A i \in 1..n : a[i] = m[i] /\ m[i].val \in Nat
      /\ \A i \in 1..Len(a) : i \in 1..n \/ i = n + 1
  BY <1>1, PostFacts
<1>3. /\ low <= high
      /\ \A i \in 1..n : m[i].reg = reg =>
           /\ low <= m[i].val /\ m[i].val <= high
           /\ \A j \in 1..i : m[j].reg = reg => m[j].val <= m[i].val
  BY DEF PostedInOrder
<1> HIDE DEF w, n, a
<1>4. low <= v  BY <1>3
<1>5. ASSUME NEW i \in 1..Len(a), a[i].reg = reg
      PROVE  /\ low <= a[i].val /\ a[i].val <= v
             /\ \A j \in 1..i : a[j].reg = reg => a[j].val <= a[i].val
  <2>1. CASE i \in 1..n
    <3>1. \A j \in 1..i : j \in 1..n  BY <1>2, <2>1
    <3>2. a[i] = m[i] /\ m[i].reg = reg /\ m[i].val \in Nat  BY <1>2, <1>5, <2>1
    <3>3. low <= m[i].val /\ m[i].val <= high  BY <1>3, <2>1, <3>2
    <3>4. m[i].val <= v  BY <3>2, <3>3
    <3>5. \A j \in 1..i : a[j].reg = reg => a[j].val <= m[i].val  BY <1>2, <1>3, <2>1, <3>1, <3>2
    <3>6. QED  BY <3>2, <3>3, <3>4, <3>5
  <2>2. CASE i = n + 1
    <3>1. a[i].val = v  BY <1>1, <1>2, <2>2
    <3>2. ASSUME NEW j \in 1..i, a[j].reg = reg PROVE a[j].val <= v
      <4>1. CASE j = n + 1  BY <3>1, <2>2, <4>1
      <4>2. CASE j # n + 1
        <5>1. j \in 1..n  BY <1>2, <2>2, <4>2
        <5>2. a[j] = m[j] /\ m[j].reg = reg /\ m[j].val \in Nat  BY <1>2, <3>2, <5>1
        <5>3. m[j].val <= high  BY <1>3, <5>1, <5>2
        <5>4. m[j].val <= v  BY <5>2, <5>3
        <5>5. QED  BY <5>2, <5>4
      <4>3. QED  BY <4>1, <4>2
    <3>3. QED  BY <1>4, <3>1, <3>2
  <2>3. QED  BY <1>2, <2>1, <2>2
<1>6. PostedInOrder(a, reg, low, v)  BY <1>4, <1>5 DEF PostedInOrder
<1>7. n + 1 \in 1..Len(a)  BY <1>2
<1>8. Latest(a, reg, low, v)  BY <1>2, <1>7 DEF Latest, w
<1>9. QED  BY <1>6, <1>8 DEF a, w

(* A write of another register changes nothing for this one.               *)
LEMMA PostedOther ==
    ASSUME NEW m \in Seq(Write), NEW reg \in Register, NEW low, NEW high, NEW w \in Write, w.reg # reg,
           PostedInOrder(m, reg, low, high), Latest(m, reg, low, high)
    PROVE  PostedInOrder(Append(m, w), reg, low, high) /\ Latest(Append(m, w), reg, low, high)
<1> DEFINE n == Len(m)
           a == Append(m, w)
<1>1. /\ n \in Nat /\ Len(a) = n + 1 /\ a[n + 1] = w
      /\ \A i \in 1..n : a[i] = m[i]
      /\ \A i \in 1..Len(a) : i \in 1..n \/ i = n + 1
  BY PostFacts
<1>2. /\ low <= high
      /\ \A i \in 1..n : m[i].reg = reg =>
           /\ low <= m[i].val /\ m[i].val <= high
           /\ \A j \in 1..i : m[j].reg = reg => m[j].val <= m[i].val
  BY DEF PostedInOrder
<1>3. low = high \/ \E j \in 1..n : m[j] = write(reg, high)  BY DEF Latest
<1> HIDE DEF n, a
<1>4. ASSUME NEW i \in 1..Len(a), a[i].reg = reg
      PROVE  /\ low <= a[i].val /\ a[i].val <= high
             /\ \A j \in 1..i : a[j].reg = reg => a[j].val <= a[i].val
  <2>1. i \in 1..n
    <3>1. i # n + 1  BY <1>1, <1>4
    <3>2. QED  BY <1>1, <3>1
  <2>2. \A j \in 1..i : j \in 1..n  BY <1>1, <2>1
  <2>3. QED  BY <1>1, <1>2, <1>4, <2>1, <2>2
<1>5. PostedInOrder(a, reg, low, high)  BY <1>2, <1>4 DEF PostedInOrder
<1>6. \A j \in 1..n : j \in 1..Len(a)  BY <1>1
<1>7. Latest(a, reg, low, high)  BY <1>1, <1>3, <1>6 DEF Latest
<1>8. QED  BY <1>5, <1>7 DEF a

(* What a write on its way knows, it still knows with another behind it.   *)
LEMMA RoomKept ==
    ASSUME NEW m \in Seq(Write), NEW w \in Write, NEW room, NEW i \in 1..Len(m), NEW v,
           RoomKnown(m, room, i, v)
    PROVE  RoomKnown(Append(m, w), room, i, v)
<1> DEFINE a == Append(m, w)
<1>1. Len(m) \in Nat /\ \A j \in 1..Len(m) : a[j] = m[j]  BY PostFacts
<1>2. \A j \in 1..i - 1 : j \in 1..Len(m)  BY <1>1
<1> HIDE DEF a
<1>3. RoomKnown(a, room, i, v)  BY <1>1, <1>2 DEF RoomKnown
<1>4. QED  BY <1>3 DEF a

(* The producer pointer is posted behind the consumer pointer of the       *)
(* completion queue that it was counted on.                                *)
LEMMA PostProd ==
    ASSUME NEW m \in Seq(Write), NEW prod \in Nat, NEW cons \in Nat, NEW P \in Nat, NEW C \in Nat,
           PostedWrites(m, prod, cons, P, C), NEW v \in Nat, P <= v, v <= C + SIZE
    PROVE  PostedWrites(Append(m, write("prod", v)), prod, cons, v, C)
<1> DEFINE n == Len(m)
           w == write("prod", v)
           a == Append(m, w)
<1>1. w \in Write /\ w.reg = "prod" /\ w.val = v  BY DEF Write, write, Register
<1>2. /\ n \in Nat /\ Len(a) = n + 1 /\ a[n + 1] = w
      /\ \A i \in 1..n : a[i] = m[i]
      /\ \A i \in 1..Len(a) : i \in 1..n \/ i = n + 1
  BY <1>1, PostFacts
<1>3. /\ PostedInOrder(m, "prod", prod, P) /\ PostedInOrder(m, "cq_cons", cons, C)
      /\ Latest(m, "cq_cons", cons, C) /\ prod <= cons + SIZE
      /\ \A i \in 1..n : m[i].reg = "prod" => RoomKnown(m, cons, i, m[i].val)
  BY DEF PostedWrites
<1>4. PostedInOrder(a, "prod", prod, v) /\ Latest(a, "prod", prod, v)  BY <1>3, PostedNewest DEF Register
<1>5. PostedInOrder(a, "cq_cons", cons, C) /\ Latest(a, "cq_cons", cons, C)
  BY <1>1, <1>3, PostedOther DEF Register
<1>6. \A i \in 1..n : m[i].reg = "prod" => RoomKnown(a, cons, i, m[i].val)  BY <1>1, <1>3, RoomKept
<1> HIDE DEF w, n, a
<1>7. ASSUME NEW i \in 1..Len(a), a[i].reg = "prod" PROVE RoomKnown(a, cons, i, a[i].val)
  <2>1. CASE i \in 1..n  BY <1>2, <1>6, <1>7, <2>1
  <2>2. CASE i = n + 1
    <3>1. a[i].val = v  BY <1>1, <1>2, <2>2
    <3>2. CASE cons = C  BY <3>1, <3>2 DEF RoomKnown
    <3>3. CASE \E j \in 1..n : m[j] = write("cq_cons", C)
      <4>1. PICK j \in 1..n : m[j] = write("cq_cons", C)  BY <3>3
      <4>2. j \in 1..i - 1 /\ a[j].reg = "cq_cons" /\ a[j].val = C  BY <1>2, <2>2, <4>1 DEF write
      <4>3. QED  BY <3>1, <4>2 DEF RoomKnown
    <3>4. QED  BY <1>3, <3>2, <3>3 DEF Latest, n
  <2>3. QED  BY <1>2, <2>1, <2>2
<1>8. PostedWrites(a, prod, cons, v, C)  BY <1>3, <1>4, <1>5, <1>7 DEF PostedWrites
<1>9. QED  BY <1>8 DEF a, w

LEMMA PostCqCons ==
    ASSUME NEW m \in Seq(Write), NEW prod \in Nat, NEW cons \in Nat, NEW P \in Nat, NEW C \in Nat,
           PostedWrites(m, prod, cons, P, C), NEW v \in Nat, C <= v
    PROVE  PostedWrites(Append(m, write("cq_cons", v)), prod, cons, P, v)
<1> DEFINE n == Len(m)
           w == write("cq_cons", v)
           a == Append(m, w)
<1>1. w \in Write /\ w.reg = "cq_cons"  BY DEF Write, write, Register
<1>2. /\ n \in Nat /\ Len(a) = n + 1 /\ a[n + 1] = w
      /\ \A i \in 1..n : a[i] = m[i]
      /\ \A i \in 1..Len(a) : i \in 1..n \/ i = n + 1
  BY <1>1, PostFacts
<1>3. /\ PostedInOrder(m, "prod", prod, P) /\ Latest(m, "prod", prod, P)
      /\ PostedInOrder(m, "cq_cons", cons, C) /\ prod <= cons + SIZE
      /\ \A i \in 1..n : m[i].reg = "prod" => RoomKnown(m, cons, i, m[i].val)
  BY DEF PostedWrites
<1>4. PostedInOrder(a, "cq_cons", cons, v) /\ Latest(a, "cq_cons", cons, v)
  BY <1>3, PostedNewest DEF Register
<1>5. PostedInOrder(a, "prod", prod, P) /\ Latest(a, "prod", prod, P)
  BY <1>1, <1>3, PostedOther DEF Register
<1>6. \A i \in 1..n : m[i].reg = "prod" => RoomKnown(a, cons, i, m[i].val)  BY <1>1, <1>3, RoomKept
<1> HIDE DEF w, n, a
<1>7. \A i \in 1..Len(a) : a[i].reg = "prod" => RoomKnown(a, cons, i, a[i].val)
  BY <1>1, <1>2, <1>6
<1>8. PostedWrites(a, prod, cons, P, v)  BY <1>3, <1>4, <1>5, <1>7 DEF PostedWrites
<1>9. QED  BY <1>8 DEF a, w

LEMMA PostEnable ==
    ASSUME NEW m \in Seq(Write), NEW prod \in Nat, NEW cons \in Nat, NEW P \in Nat, NEW C \in Nat,
           PostedWrites(m, prod, cons, P, C)
    PROVE  PostedWrites(Append(m, write("enable", 1)), prod, cons, P, C)
<1> DEFINE n == Len(m)
           w == write("enable", 1)
           a == Append(m, w)
<1>1. w \in Write /\ w.reg = "enable"  BY DEF Write, write, Register
<1>2. /\ n \in Nat /\ Len(a) = n + 1 /\ a[n + 1] = w
      /\ \A i \in 1..n : a[i] = m[i]
      /\ \A i \in 1..Len(a) : i \in 1..n \/ i = n + 1
  BY <1>1, PostFacts
<1>3. /\ PostedInOrder(m, "prod", prod, P) /\ Latest(m, "prod", prod, P)
      /\ PostedInOrder(m, "cq_cons", cons, C) /\ Latest(m, "cq_cons", cons, C) /\ prod <= cons + SIZE
      /\ \A i \in 1..n : m[i].reg = "prod" => RoomKnown(m, cons, i, m[i].val)
  BY DEF PostedWrites
<1>4. /\ PostedInOrder(a, "prod", prod, P) /\ Latest(a, "prod", prod, P)
      /\ PostedInOrder(a, "cq_cons", cons, C) /\ Latest(a, "cq_cons", cons, C)
  BY <1>1, <1>3, PostedOther DEF Register
<1>5. \A i \in 1..n : m[i].reg = "prod" => RoomKnown(a, cons, i, m[i].val)  BY <1>1, <1>3, RoomKept
<1> HIDE DEF w, n, a
<1>6. \A i \in 1..Len(a) : a[i].reg = "prod" => RoomKnown(a, cons, i, a[i].val)
  BY <1>1, <1>2, <1>5
<1>7. PostedWrites(a, prod, cons, P, C)  BY <1>3, <1>4, <1>6 DEF PostedWrites
<1>8. QED  BY <1>7 DEF a, w

(* When the oldest write takes effect, those behind it move up.            *)
LEMMA AppliedInOrder ==
    ASSUME NEW m \in Seq(Write), m # <<>>,
           NEW reg \in Register, NEW low \in Nat, NEW high \in Nat,
           PostedInOrder(m, reg, low, high), Latest(m, reg, low, high),
           NEW low1, low1 = IF m[1].reg = reg THEN m[1].val ELSE low
    PROVE  /\ low1 \in Nat /\ low <= low1 /\ low1 <= high
           /\ PostedInOrder(Tail(m), reg, low1, high) /\ Latest(Tail(m), reg, low1, high)
<1> DEFINE n == Len(m)
           b == Tail(m)
<1>1. n \in Nat \ {0} /\ 1 \in 1..n  BY EmptySeq
<1>2. Len(b) = n - 1 /\ \A i \in 1..n - 1 : b[i] = m[i + 1]
  BY HeadTailProperties
<1>3. \A i \in 1..n : m[i].val \in Nat
  <2>1. \A i \in 1..n : m[i] \in Write  BY ElementOfSeq
  <2>2. QED  BY <2>1 DEF Write
<1>4. /\ low <= high
      /\ \A i \in 1..n : m[i].reg = reg =>
           /\ low <= m[i].val /\ m[i].val <= high
           /\ \A j \in 1..i : m[j].reg = reg => m[j].val <= m[i].val
  BY DEF PostedInOrder
<1>5. low = high \/ \E j \in 1..n : m[j] = write(reg, high)  BY DEF Latest
<1> HIDE DEF n, b
<1>6. low1 \in Nat /\ low <= low1 /\ low1 <= high  BY <1>1, <1>3, <1>4
<1>7. ASSUME NEW i \in 1..n - 1, b[i].reg = reg
      PROVE  /\ low1 <= b[i].val /\ b[i].val <= high
             /\ \A j \in 1..i : b[j].reg = reg => b[j].val <= b[i].val
  <2>1. i + 1 \in 1..n /\ b[i] = m[i + 1] /\ 1 \in 1..i + 1  BY <1>1, <1>2
  <2>2. low1 <= b[i].val /\ b[i].val <= high  BY <1>4, <1>7, <2>1
  <2>3. \A j \in 1..i : j + 1 \in 1..i + 1 /\ b[j] = m[j + 1]
    <3>1. \A j \in 1..i : j + 1 \in 1..i + 1 /\ j \in 1..n - 1  BY <1>1
    <3>2. QED  BY <1>2, <3>1
  <2>4. \A j \in 1..i : b[j].reg = reg => b[j].val <= b[i].val  BY <1>4, <1>7, <2>1, <2>3
  <2>5. QED  BY <2>2, <2>4
<1>8. PostedInOrder(b, reg, low1, high)  BY <1>2, <1>6, <1>7 DEF PostedInOrder
<1>9. low1 = high \/ \E j \in 1..n - 1 : b[j] = write(reg, high)
  <2>1. CASE low = high  BY <1>6, <2>1
  <2>2. CASE \E j \in 1..n : m[j] = write(reg, high)
    <3>1. PICK j \in 1..n : m[j] = write(reg, high)  BY <2>2
    <3>2. CASE j = 1
      <4>1. m[1].reg = reg /\ m[1].val = high  BY <3>1, <3>2 DEF write
      <4>2. QED  BY <4>1
    <3>3. CASE j # 1
      <4>1. j - 1 \in 1..n - 1 /\ (j - 1) + 1 = j  BY <1>1, <3>3
      <4>2. b[j - 1] = m[j]  BY <1>2, <4>1
      <4>3. QED  BY <3>1, <4>1, <4>2
    <3>4. QED  BY <3>2, <3>3
  <2>3. QED  BY <1>5, <2>1, <2>2
<1>10. Latest(b, reg, low1, high)  BY <1>2, <1>9 DEF Latest
<1>11. QED  BY <1>6, <1>8, <1>10 DEF b

(* The device then knows what it has to about the room in the completion   *)
(* queue.                                                                  *)
LEMMA Applied ==
    ASSUME NEW m \in Seq(Write), m # <<>>,
           NEW prod \in Nat, NEW cons \in Nat, NEW P \in Nat, NEW C \in Nat,
           PostedWrites(m, prod, cons, P, C),
           NEW prod1, prod1 = IF m[1].reg = "prod" THEN m[1].val ELSE prod,
           NEW cons1, cons1 = IF m[1].reg = "cq_cons" THEN m[1].val ELSE cons
    PROVE  /\ prod1 \in Nat /\ prod <= prod1 /\ prod1 <= P
           /\ cons1 \in Nat
           /\ PostedWrites(Tail(m), prod1, cons1, P, C)
<1> DEFINE n == Len(m)
           b == Tail(m)
           h == m[1]
<1>1. n \in Nat \ {0} /\ 1 \in 1..n /\ SIZE \in Nat  BY EmptySeq, Sizes
<1>2. Len(b) = n - 1 /\ \A i \in 1..n - 1 : b[i] = m[i + 1]
  BY HeadTailProperties
<1>3. \A i \in 1..n : m[i].val \in Nat
  <2>1. \A i \in 1..n : m[i] \in Write  BY ElementOfSeq
  <2>2. QED  BY <2>1 DEF Write
<1>4. /\ PostedInOrder(m, "prod", prod, P) /\ Latest(m, "prod", prod, P)
      /\ PostedInOrder(m, "cq_cons", cons, C) /\ Latest(m, "cq_cons", cons, C)
      /\ prod <= cons + SIZE
      /\ \A i \in 1..n : m[i].reg = "prod" => RoomKnown(m, cons, i, m[i].val)
  BY DEF PostedWrites
<1>5. /\ prod1 \in Nat /\ prod <= prod1 /\ prod1 <= P
      /\ PostedInOrder(b, "prod", prod1, P) /\ Latest(b, "prod", prod1, P)
  BY <1>4, AppliedInOrder DEF Register
<1>6. /\ cons1 \in Nat /\ cons <= cons1 /\ cons1 <= C
      /\ PostedInOrder(b, "cq_cons", cons1, C) /\ Latest(b, "cq_cons", cons1, C)
  BY <1>4, AppliedInOrder DEF Register
<1>7. /\ prod1 = IF h.reg = "prod" THEN h.val ELSE prod
      /\ cons1 = IF h.reg = "cq_cons" THEN h.val ELSE cons
  OBVIOUS
<1> HIDE DEF h, n, b
<1>8. prod1 <= cons1 + SIZE
  <2>1. CASE h.reg = "prod"
    <3>1. RoomKnown(m, cons, 1, h.val)  BY <1>1, <1>4, <2>1 DEF h
    <3>2. h.val <= cons + SIZE  BY <3>1 DEF RoomKnown
    <3>3. cons1 = cons  BY <1>7, <2>1
    <3>4. QED  BY <1>7, <2>1, <3>2, <3>3
  <2>2. CASE h.reg # "prod"
    <3>1. prod1 = prod  BY <1>7, <2>2
    <3>2. QED  BY <1>1, <1>4, <1>6, <3>1
  <2>3. QED  BY <2>1, <2>2
<1>9. ASSUME NEW i \in 1..n - 1, b[i].reg = "prod" PROVE RoomKnown(b, cons1, i, b[i].val)
  <2>1. i + 1 \in 1..n /\ b[i] = m[i + 1] /\ m[i + 1].val \in Nat  BY <1>1, <1>2, <1>3
  <2>2. RoomKnown(m, cons, i + 1, m[i + 1].val)  BY <1>4, <1>9, <2>1
  <2>3. CASE m[i + 1].val <= cons + SIZE
    <3> DEFINE v == m[i + 1].val
    <3>1. v \in Nat /\ v <= cons + SIZE  BY <2>1, <2>3
    <3> HIDE DEF v
    <3>2. v <= cons1 + SIZE  BY <1>1, <1>6, <3>1
    <3>3. b[i].val <= cons1 + SIZE  BY <2>1, <3>2 DEF v
    <3>4. QED  BY <3>3 DEF RoomKnown
  <2>4. CASE \E j \in 1..(i + 1) - 1 : m[j].reg = "cq_cons" /\ m[i + 1].val <= m[j].val + SIZE
    <3>1. PICK j \in 1..(i + 1) - 1 : m[j].reg = "cq_cons" /\ m[i + 1].val <= m[j].val + SIZE
      BY <2>4
    <3>2. CASE j = 1
      <4>1. cons1 = m[1].val  BY <3>1, <3>2
      <4>2. b[i].val <= cons1 + SIZE  BY <2>1, <3>1, <3>2, <4>1
      <4>3. QED  BY <4>2 DEF RoomKnown
    <3>3. CASE j # 1
      <4>1. j - 1 \in 1..i - 1 /\ j - 1 \in 1..n - 1 /\ (j - 1) + 1 = j  BY <1>1, <3>3
      <4>2. b[j - 1] = m[j]  BY <1>2, <4>1
      <4>3. QED  BY <2>1, <3>1, <4>1, <4>2 DEF RoomKnown
    <3>4. QED  BY <3>2, <3>3
  <2>5. QED  BY <2>2, <2>3, <2>4 DEF RoomKnown
<1>10. PostedWrites(b, prod1, cons1, P, C)  BY <1>2, <1>5, <1>6, <1>8, <1>9 DEF PostedWrites
<1>11. QED  BY <1>5, <1>6, <1>10 DEF b

(***************************************************************************)
(* The device's steps                                                      *)
(***************************************************************************)
LEMMA MmioWrites == TypeOK <=> TypeOK /\ mmio \in Seq(Write)
  BY DEF TypeOK, Write, Register

LEMMA ApplyWriteStep ==
    ASSUME IInv, ApplyWrite
    PROVE  IInv'
<1> USE DEF driverVars, readerVars, memoryVars
<1> DEFINE h == mmio[1]
<1>1. TypeOK /\ Pointers /\ Posted  BY DEF IInv
<1>2. mmio \in Seq(Write) /\ mmio # <<>> /\ mmio' = Tail(mmio)  BY <1>1, MmioWrites DEF ApplyWrite
<1>3. Head(mmio) = h  BY <1>2
<1>4. /\ hw_prod' = IF h.reg = "prod" THEN h.val ELSE hw_prod
      /\ hw_cq_cons' = IF h.reg = "cq_cons" THEN h.val ELSE hw_cq_cons
      /\ hw_enabled' = IF h.reg = "enable" THEN TRUE ELSE hw_enabled
  BY <1>3 DEF ApplyWrite
<1>5. /\ prod_ptr \in Nat /\ cq_cons_ptr \in Nat /\ hw_prod \in Nat /\ hw_cq_cons \in Nat
      /\ hw_cons \in Nat /\ hw_cons <= hw_prod
  BY <1>1, Order
<1>6. UNCHANGED <<hw_cons, hw_cq_prod, engine, arrived, received, driverVars, readerVars, memoryVars>>
  BY DEF ApplyWrite
<1>7. /\ hw_prod' \in Nat /\ hw_prod <= hw_prod' /\ hw_prod' <= prod_ptr /\ hw_cq_cons' \in Nat
      /\ PostedWrites(mmio', hw_prod', hw_cq_cons', prod_ptr, cq_cons_ptr)
  BY <1>1, <1>2, <1>4, <1>5, Applied DEF Posted
<1>8. mmio' \in Seq(Write)  BY <1>2, HeadTailProperties
<1>9. hw_enabled' \in BOOLEAN  BY <1>1, <1>4 DEF TypeOK
<1> HIDE DEF h
<1>10. Posted'  BY <1>6, <1>7 DEF Posted
<1>11. TypeOK'  BY <1>1, <1>6, <1>7, <1>8, <1>9 DEF TypeOK, Write, Register
<1>12. Pointers'
  <2>1. hw_cons <= hw_prod'  BY <1>5, <1>7
  <2>2. QED  BY <1>1, <1>6, <1>7, <2>1 DEF Pointers, delivered, missing, worth_refilling
<1>13. Records' /\ InUse'  BY <1>6 DEF IInv, Records, InUse, delivered
<1>14. Frames' /\ BuffersOwned'  BY <1>6 DEF IInv, Frames, CompletionOf, BuffersOwned, delivered
<1>15. ReadersInv'  BY <1>6, ReadersUnchanged
<1>16. QED  BY <1>10, <1>11, <1>12, <1>13, <1>14, <1>15 DEF IInv, ReadersInv

(* The descriptor taken for a frame is one that a refill has written.      *)
LEMMA ReceiveStep ==
    ASSUME IInv, Receive
    PROVE  IInv'
<1> USE DEF driverVars, readerVars, memoryVars
<1>1. TypeOK /\ Pointers /\ InUse /\ Frames /\ TakenInOrder /\ BuffersOwned  BY DEF IInv
<1>2. /\ arrived' = arrived + 1 /\ arrived \in Nat
      /\ UNCHANGED <<hw_enabled, hw_prod, hw_cq_prod, hw_cq_cons, driverVars, readerVars, memoryVars, mmio>>
  BY <1>1 DEF Receive, TypeOK
<1>3. arrived' \in Nat /\ arrived' \in Frame  BY <1>2 DEF Frame
<1>4. CASE UNCHANGED <<engine, hw_cons, received>>
  <2>1. RingInv' /\ ReadersInv'  BY <1>2, <1>4, RingUnchanged, ReadersUnchanged DEF ringVars
  <2>2. TypeOK'  BY <1>1, <1>2, <1>3, <1>4 DEF TypeOK
  <2>3. QED  BY <2>1, <2>2 DEF IInv, RingInv, ReadersInv
<1>5. CASE /\ hw_cons # hw_prod /\ hw_cons' = hw_cons + 1
           /\ engine' = Append(engine, [index |-> hw_cons, pkt |-> buf[slot(hw_cons)], frame |-> arrived'])
           /\ received' = Append(received, arrived')
  <2> DEFINE f == arrived'
             d == [index |-> hw_cons, pkt |-> buf[slot(hw_cons)], frame |-> f]
             e == Len(engine)
             r == Len(received)
  <2>1. /\ hw_cons = r /\ r = hw_cq_prod + e /\ r \in Nat /\ e \in Nat /\ hw_cq_prod \in Nat
        /\ hw_prod \in Nat /\ prod_ptr \in Nat /\ cq_cons_ptr \in Nat /\ delivered \in Nat
        /\ Len(upstream) \in Nat /\ Len(taken) \in Nat /\ Len(pkt_rx_queue) \in Nat
        /\ hw_prod <= prod_ptr /\ r <= hw_prod /\ cq_cons_ptr <= r /\ delivered <= r
        /\ delivered + Len(upstream) = hw_cq_prod
    <3> DEFINE u == Len(upstream)
    <3>1. u \in Nat /\ delivered = hw_cq_prod - u /\ hw_cq_prod \in Nat  BY <1>1, Order
    <3> HIDE DEF u
    <3>2. delivered + u = hw_cq_prod  BY <3>1
    <3>3. QED  BY <1>1, <3>2, Order DEF u
  <2> HIDE DEF e, r, f
  <2>2. r + 1 <= hw_prod /\ r \in r..prod_ptr - 1 /\ r \in cq_cons_ptr..prod_ptr - 1
    <3>1. r # hw_prod  BY <1>5, <2>1
    <3>2. QED  BY <2>1, <3>1
  <2>3. buf[slot(hw_cons)] = rx_info[slot(r)] /\ rx_info[slot(r)] \in Buffers(pool)
    <3>1. buf[slot(hw_cons)] = rx_info[slot(r)] /\ rx_info[slot(r)] # None
      BY <1>1, <2>1, <2>2 DEF InUse
    <3>2. slot(r) \in Slots  BY <2>1, SlotFacts
    <3>3. QED  BY <1>1, <3>1, <3>2 DEF TypeOK
  <2>4. engine \in Seq(Completion) /\ d \in Completion /\ f \in Frame
    BY <1>1, <1>3, <2>1, <2>3 DEF TypeOK, Completion, f
  <2>5. engine' = Append(engine, d) /\ received' = Append(received, f)  BY <1>5 DEF f
  <2> HIDE DEF d
  <2>6. /\ engine' \in Seq(Completion) /\ Len(engine') = e + 1 /\ engine'[e + 1] = d
        /\ \A i \in 1..e : engine'[i] = engine[i]
    BY <2>4, <2>5, AppendProperties DEF e
  <2>7. /\ received' \in Seq(Frame) /\ Len(received') = r + 1 /\ received'[r + 1] = f
        /\ \A i \in 1..r : received'[i] = received[i]
    <3>1. received \in Seq(Frame)  BY <1>1 DEF TypeOK
    <3>2. QED  BY <2>4, <2>5, <3>1, AppendProperties DEF r
  <2>8. hw_cons' = r + 1 /\ hw_cons' \in Nat  BY <1>5, <2>1
  <2>9. delivered' = delivered  BY <1>2 DEF delivered
  <2>10. TypeOK'  BY <1>1, <1>2, <1>3, <2>6, <2>7, <2>8 DEF TypeOK, Completion
  <2>11. Pointers'
    <3>1. hw_cq_prod + (e + 1) = r + 1  BY <2>1
    <3>2. QED
      BY <1>1, <1>2, <2>1, <2>2, <2>6, <2>7, <2>8, <2>9, <3>1 DEF Pointers, missing, worth_refilling
  <2>12. Posted' /\ Records'  BY <1>2, <2>9 DEF IInv, Posted, Records
  <2>13. InUse'
    <3>1. \A p \in hw_cons'..prod_ptr - 1 : p \in hw_cons..prod_ptr - 1  BY <2>1, <2>8
    <3>2. QED  BY <1>1, <1>2, <3>1 DEF InUse
  <2>14. \A p \in 0..r - 1 : received'[p + 1] = received[p + 1]
    <3>1. \A p \in 0..r - 1 : p + 1 \in 1..r  BY <2>1
    <3>2. QED  BY <2>7, <3>1
  <2>15. ASSUME NEW i \in 1..e + 1 PROVE CompletionOf(engine[i], hw_cq_prod + i - 1)'
    <3>1. CASE i \in 1..e
      <4>1. CompletionOf(engine[i], hw_cq_prod + i - 1)  BY <1>1, <3>1 DEF Frames, e
      <4>2. hw_cq_prod + i - 1 \in 0..r - 1  BY <2>1, <3>1
      <4>3. QED  BY <1>2, <2>6, <2>14, <3>1, <4>1, <4>2 DEF CompletionOf
    <3>2. CASE i = e + 1
      <4>1. hw_cq_prod + i - 1 = r  BY <2>1, <3>2
      <4>2. d = [index |-> r, pkt |-> rx_info[slot(r)], frame |-> f]  BY <2>1, <2>3 DEF d
      <4>3. QED  BY <1>2, <2>6, <2>7, <3>2, <4>1, <4>2 DEF CompletionOf
    <3>3. QED  BY <2>1, <3>1, <3>2
  <2>16. ASSUME NEW i \in 1..Len(upstream) PROVE CompletionOf(upstream[i].cpl, delivered + i - 1)'
    <3>1. CompletionOf(upstream[i].cpl, delivered + i - 1)  BY <1>1 DEF Frames
    <3>2. delivered + i - 1 \in 0..r - 1  BY <2>1
    <3>3. QED  BY <1>2, <2>9, <2>14, <3>1, <3>2 DEF CompletionOf
  <2>17. \A p \in cq_cons_ptr..delivered - 1 : p \in 0..r - 1  BY <2>1
  <2>18. Frames'  BY <1>1, <1>2, <2>6, <2>9, <2>14, <2>15, <2>16, <2>17 DEF Frames
  <2>19. BuffersOwned'
    <3>1. \A i \in 1..Len(engine') : engine'[i].pkt = rx_info'[slot(engine'[i].index)]
      BY <2>6, <2>15 DEF CompletionOf
    <3>2. QED  BY <1>1, <1>2, <3>1 DEF BuffersOwned
  <2>20. TakenInOrder'
    <3> DEFINE n == Len(taken)
               q == Len(pkt_rx_queue)
    <3>1. n \in Nat /\ q \in Nat /\ n + q = cq_cons_ptr  BY <1>1, <2>1 DEF TakenInOrder
    <3> HIDE DEF n, q
    <3>2. (\A i \in 1..n : i \in 1..r) /\ (\A i \in 1..q : n + i \in 1..r)  BY <2>1, <3>1
    <3>3. QED  BY <1>1, <1>2, <2>7, <3>2 DEF TakenInOrder, n, q
  <2>21. NoLostWakeup' /\ WokenForPacket' /\ RecvGetsPacket'
    BY <1>2 DEF IInv, NoLostWakeup, WokenForPacket, RecvGetsPacket
  <2>22. QED  BY <2>10, <2>11, <2>12, <2>13, <2>18, <2>19, <2>20, <2>21 DEF IInv
<1>6. QED  BY <1>4, <1>5 DEF Receive

(* The completion queue has room: no more descriptors are out than it has  *)
(* records the driver has posted as read.                                  *)
LEMMA CompleteStep ==
    ASSUME IInv, Complete
    PROVE  IInv'
<1> USE DEF driverVars, readerVars
<1> DEFINE w == hw_cq_prod
           e == Len(engine)
           n == Len(upstream)
           u == [ptr |-> hw_cq_prod, cpl |-> engine[1]]
           Record == [ptr : Nat, cpl : Completion]
<1>1. TypeOK /\ Pointers /\ Posted /\ Records /\ Frames /\ BuffersOwned  BY DEF IInv
<1>2. engine \in Seq(Completion) /\ engine # <<>> /\ engine' = Tail(engine) /\ Head(engine) = engine[1]
  BY <1>1 DEF TypeOK, Complete, Completion
<1>3. /\ engine' \in Seq(Completion) /\ e \in Nat \ {0} /\ 1 \in 1..e /\ Len(engine') = e - 1
      /\ \A i \in 1..e - 1 : engine'[i] = engine[i + 1]
      /\ engine[1] \in Completion
  <2>1. e \in Nat \ {0}  BY <1>2, EmptySeq
  <2>2. 1 \in 1..e  BY <2>1
  <2>3. QED  BY <1>2, <2>1, <2>2, HeadTailProperties, ElementOfSeq
<1>4. /\ w \in Nat /\ n \in Nat /\ delivered \in Nat /\ w = delivered + n /\ hw_cons \in Nat
      /\ hw_cons = w + e /\ hw_prod \in Nat /\ hw_cons <= hw_prod
  <2>1. /\ w \in Nat /\ n \in Nat /\ delivered = w - n /\ hw_cons \in Nat
        /\ hw_cons = w + e /\ hw_prod \in Nat /\ hw_cons <= hw_prod /\ delivered \in Nat
    BY <1>1, Order
  <2> HIDE DEF w, n
  <2>2. w = delivered + n  BY <2>1
  <2>3. QED  BY <2>1, <2>2
<1> HIDE DEF w, e, n
<1>5. ~Cq!queue_full(hw_cq_prod, hw_cq_cons)
  <2>1. hw_prod <= hw_cq_cons + SIZE /\ hw_cq_cons \in Nat  BY <1>1 DEF Posted, PostedWrites, TypeOK
  <2>2. SIZE \in Nat /\ CQ_SIZE \in Nat /\ SIZE <= CQ_SIZE  BY Sizes
  <2>3. w - hw_cq_cons < CQ_SIZE  BY <1>3, <1>4, <2>1, <2>2
  <2>4. ~(w - hw_cq_cons >= CQ_SIZE)  BY <1>4, <2>1, <2>2, <2>3
  <2>5. QED  BY <2>4 DEF Cq!queue_full, w
<1>6. hw_cq_prod' = w + 1 /\ upstream' = Append(upstream, u)
  BY <1>2, <1>5 DEF Complete, w
<1>7. upstream \in Seq(Record) /\ u \in Record /\ u.ptr = w /\ u.cpl = engine[1]
  BY <1>1, <1>3, <1>4 DEF TypeOK, Completion, w
<1> HIDE DEF u
<1>8. /\ upstream' \in Seq(Record) /\ Len(upstream') = n + 1 /\ upstream'[n + 1] = u
      /\ \A i \in 1..n : upstream'[i] = upstream[i]
  BY <1>6, <1>7, AppendProperties DEF n
<1>9. delivered' = delivered
  <2>1. delivered' = (w + 1) - (n + 1)  BY <1>6, <1>8 DEF delivered
  <2>2. QED  BY <1>4, <2>1
<1>10. UNCHANGED <<hw_enabled, hw_prod, hw_cons, hw_cq_cons, arrived, received,
                   data, cq_buf, driverVars, readerVars, mmio>>
  BY DEF Complete
<1>11. CompletionOf(engine[1], w) /\ \A i \in 1..e : CompletionOf(engine[i], w + i - 1)
  <2>1. \A i \in 1..e : CompletionOf(engine[i], w + i - 1)  BY <1>1 DEF Frames, w, e
  <2>2. CompletionOf(engine[1], w + 1 - 1) /\ w + 1 - 1 = w  BY <1>3, <1>4, <2>1
  <2>3. QED  BY <2>1, <2>2
<1>12. TypeOK'
  <2>1. hw_cq_prod' \in Nat  BY <1>4, <1>6
  <2>2. QED  BY <1>1, <1>3, <1>8, <1>10, <2>1 DEF TypeOK, Completion
<1>13. Pointers'
  <2>1. (w + 1) + (e - 1) = w + e /\ n + 1 <= w + 1  BY <1>3, <1>4
  <2>2. hw_cq_prod' + Len(engine') = Len(received') /\ Len(upstream') <= hw_cq_prod'
    BY <1>1, <1>3, <1>6, <1>8, <1>10, <2>1 DEF Pointers, w, e
  <2>3. QED  BY <1>1, <1>9, <1>10, <2>2 DEF Pointers, missing, worth_refilling
<1>14. Posted'  BY <1>1, <1>10 DEF Posted
<1>15. Records'
  <2>1. ASSUME NEW i \in 1..n + 1 PROVE upstream'[i].ptr = delivered + i - 1
    <3>1. CASE i \in 1..n  BY <1>1, <1>8, <3>1 DEF Records, n
    <3>2. CASE i = n + 1
      <4>1. delivered + i - 1 = w  BY <1>4, <3>2
      <4>2. QED  BY <1>7, <1>8, <3>2, <4>1
    <3>3. QED  BY <1>4, <3>1, <3>2
  <2>2. QED  BY <1>1, <1>8, <1>9, <1>10, <2>1 DEF Records
<1>16. InUse'  BY <1>10 DEF IInv, InUse
<1>17. ASSUME NEW i \in 1..e - 1 PROVE CompletionOf(engine[i], hw_cq_prod + i - 1)'
  <2>1. i + 1 \in 1..e /\ w + (i + 1) - 1 = hw_cq_prod' + i - 1  BY <1>3, <1>4, <1>6
  <2>2. CompletionOf(engine[i + 1], w + (i + 1) - 1)  BY <1>11, <2>1
  <2>3. QED  BY <1>3, <1>10, <2>1, <2>2 DEF CompletionOf
<1>18. ASSUME NEW i \in 1..n + 1 PROVE CompletionOf(upstream[i].cpl, delivered + i - 1)'
  <2>1. CASE i \in 1..n
    <3>1. CompletionOf(upstream[i].cpl, delivered + i - 1)  BY <1>1, <2>1 DEF Frames, n
    <3>2. QED  BY <1>8, <1>9, <1>10, <2>1, <3>1 DEF CompletionOf
  <2>2. CASE i = n + 1
    <3>1. delivered + i - 1 = w  BY <1>4, <2>2
    <3>2. QED  BY <1>7, <1>8, <1>9, <1>10, <1>11, <2>2, <3>1 DEF CompletionOf
  <2>3. QED  BY <1>4, <2>1, <2>2
<1>19. Frames'
  <2>1. \A p \in cq_cons_ptr..delivered - 1 : data[rx_info[slot(p)]] = received[p + 1]
    BY <1>1 DEF Frames
  <2>2. QED  BY <1>3, <1>8, <1>9, <1>10, <1>17, <1>18, <2>1 DEF Frames
<1>20. BuffersOwned'
  <2>1. ASSUME NEW i \in 1..Len(engine') PROVE engine'[i].pkt = rx_info'[slot(engine'[i].index)]
    <3>1. CompletionOf(engine[i], hw_cq_prod + i - 1)'  BY <1>3, <1>17
    <3>2. engine'[i].index = (hw_cq_prod + i - 1)' /\ engine'[i].pkt = rx_info'[slot((hw_cq_prod + i - 1)')]
      BY <3>1 DEF CompletionOf
    <3>3. QED  BY <3>2
  <2>2. ASSUME NEW i \in 1..Len(upstream') PROVE upstream'[i].cpl.pkt = rx_info'[slot(upstream'[i].cpl.index)]
    <3>1. CompletionOf(upstream[i].cpl, delivered + i - 1)'  BY <1>8, <1>18
    <3>2. /\ upstream'[i].cpl.index = (delivered + i - 1)'
          /\ upstream'[i].cpl.pkt = rx_info'[slot((delivered + i - 1)')]
      BY <3>1 DEF CompletionOf
    <3>3. QED  BY <3>2
  <2>3. QED  BY <1>1, <1>10, <2>1, <2>2 DEF BuffersOwned
<1>21. ReadersInv'  BY <1>10, ReadersUnchanged
<1>22. QED  BY <1>12, <1>13, <1>14, <1>15, <1>16, <1>19, <1>20, <1>21 DEF IInv, ReadersInv

(* The record written is the next one the driver waits for, and neither it *)
(* nor the frame overwrites one that the driver has yet to read.           *)
LEMMA DeliverStep ==
    ASSUME IInv, Deliver
    PROVE  IInv'
<1> USE DEF driverVars, deviceVars, readerVars
<1> DEFINE d == delivered
           u == Len(upstream)
           b == rx_info[slot(d)]
           f == received[d + 1]
           Record == [ptr : Nat, cpl : Completion]
<1>1. TypeOK /\ Pointers /\ Records /\ InUse /\ Frames /\ BuffersOwned  BY DEF IInv
<1>2. upstream \in Seq(Record) /\ upstream # <<>> /\ upstream' = Tail(upstream)
  BY <1>1 DEF TypeOK, Completion, Deliver
<1>3. /\ upstream' \in Seq(Record) /\ u \in Nat \ {0} /\ Len(upstream') = u - 1 /\ 1 \in 1..u
      /\ \A i \in 1..u - 1 : upstream'[i] = upstream[i + 1]
      /\ Head(upstream) = upstream[1] /\ upstream[1] \in Record
  <2>1. u \in Nat \ {0}  BY <1>2, EmptySeq
  <2>2. Head(upstream) = upstream[1] /\ 1 \in 1..u  BY <1>2, <2>1
  <2>3. QED  BY <1>2, <2>1, <2>2, HeadTailProperties, ElementOfSeq
<1>4. UNCHANGED <<driverVars, readerVars, deviceVars, mmio>>  BY DEF Deliver
<1>5. /\ d \in Nat /\ cq_cons_ptr \in Nat /\ prod_ptr \in Nat /\ cq_cons_ptr <= d /\ CQ_SIZE \in Nat
      /\ SIZE \in Nat /\ d + 1 <= prod_ptr /\ d + 1 <= cq_cons_ptr + SIZE /\ d < cq_cons_ptr + CQ_SIZE
      /\ delivered' = d + 1
  <2>1. /\ d \in Nat /\ cq_cons_ptr \in Nat /\ hw_cq_prod \in Nat /\ prod_ptr \in Nat
        /\ cq_cons_ptr <= d /\ prod_ptr <= cq_cons_ptr + SIZE /\ hw_cons \in Nat
        /\ hw_cq_prod <= hw_cons /\ hw_cons <= prod_ptr /\ d = hw_cq_prod - u
    BY <1>1, Order
  <2>2. CQ_SIZE \in Nat /\ SIZE \in Nat /\ SIZE <= CQ_SIZE  BY Sizes
  <2>3. delivered' = hw_cq_prod - (u - 1)  BY <1>3, <1>4 DEF delivered
  <2> HIDE DEF d, u
  <2>4. d + 1 <= prod_ptr /\ delivered' = d + 1  BY <1>3, <2>1, <2>3
  <2>5. QED  BY <2>1, <2>2, <2>4
<1> HIDE DEF u
<1>6. upstream[1].ptr = d /\ upstream[1].cpl = [index |-> d, pkt |-> b, frame |-> f]
  <2>1. d + 1 - 1 = d  BY <1>5
  <2>2. upstream[1].ptr = d + 1 - 1  BY <1>1, <1>3 DEF Records, u
  <2>3. CompletionOf(upstream[1].cpl, d + 1 - 1)  BY <1>1, <1>3 DEF Frames, u
  <2>4. QED  BY <2>1, <2>2, <2>3 DEF CompletionOf
<1>7. /\ cq_buf' = [cq_buf EXCEPT ![Cq!slot(d)] = [phase |-> Cq!phase(d), index |-> d]]
      /\ data' = [data EXCEPT ![b] = f]
  <2>1. upstream[1].cpl.index = d /\ upstream[1].cpl.pkt = b /\ upstream[1].cpl.frame = f  BY <1>6
  <2>2. QED  BY <1>3, <1>6, <2>1 DEF Deliver, Cq!written
<1>8. b \in Buffers(pool) /\ f \in Nat
  <2>1. upstream[1].cpl \in Completion  BY <1>3
  <2>2. upstream[1].cpl.pkt = b /\ upstream[1].cpl.frame = f  BY <1>6
  <2>3. QED  BY <2>1, <2>2 DEF Completion, Frame
<1> HIDE DEF d, b, f
<1>9. cq_buf \in [Cq!Slots -> [phase : {0, 1}, index : Nat]]  BY <1>1 DEF TypeOK
<1>10. Cq!slot(d) \in Cq!Slots /\ Cq!phase(d) \in {0, 1}  BY <1>5, CqSlotFacts
<1>11. /\ cq_buf'[Cq!slot(d)].phase = Cq!phase(d) /\ cq_buf'[Cq!slot(d)].index = d
       /\ \A s \in Cq!Slots : s # Cq!slot(d) => cq_buf'[s] = cq_buf[s]
       /\ cq_buf' \in [Cq!Slots -> [phase : {0, 1}, index : Nat]]
  BY <1>5, <1>7, <1>9, <1>10
<1>12. ASSUME NEW p \in cq_cons_ptr..cq_cons_ptr + CQ_SIZE - 1, p # d
       PROVE  cq_buf'[Cq!slot(p)] = cq_buf[Cq!slot(p)]
  <2>1. p \in Nat /\ ((p < d /\ d - p < CQ_SIZE) \/ (d < p /\ p - d < CQ_SIZE))  BY <1>5, <1>12
  <2>2. Cq!slot(p) # Cq!slot(d) /\ Cq!slot(p) \in Cq!Slots  BY <1>5, <2>1, CqSlotFacts
  <2>3. QED  BY <1>11, <2>2
<1>13. /\ data' \in Seq(Nat) /\ Len(data') = pool.allocated /\ data'[b] = f
       /\ \A i \in Buffers(pool) : i # b => data'[i] = data[i]
  <2>1. data \in Seq(Nat) /\ Len(data) = pool.allocated /\ Buffers(pool) = 1..Len(data)
    BY <1>1 DEF TypeOK, Buffers
  <2>2. /\ data' \in Seq(Nat) /\ Len(data') = Len(data)
        /\ \A i \in 1..Len(data) : data'[i] = IF i = b THEN f ELSE data[i]
    BY <1>7, <1>8, <2>1, ExceptSeq
  <2>3. QED  BY <1>8, <2>1, <2>2
<1>14. TypeOK'  BY <1>1, <1>3, <1>4, <1>11, <1>13 DEF TypeOK, Completion
<1>15. Pointers'
  <2> DEFINE m == Len(upstream')
             k == hw_cq_prod
  <2>1. m = u - 1 /\ k \in Nat /\ u <= k  BY <1>1, <1>3, Order DEF Pointers, u
  <2> HIDE DEF m, k
  <2>2. m <= k  BY <1>3, <2>1
  <2>3. hw_cq_prod' = k /\ Len(upstream') = m  BY <1>4 DEF k, m
  <2>4. cq_cons_ptr' <= delivered'  BY <1>4, <1>5
  <2>5. QED  BY <1>1, <1>4, <2>2, <2>3, <2>4 DEF Pointers, missing, worth_refilling
<1>16. Posted' /\ InUse'  BY <1>4 DEF IInv, Posted, InUse
<1>17. Records'
  <2>1. ASSUME NEW p \in cq_cons_ptr..delivered' - 1
        PROVE  cq_buf'[Cq!slot(p)].phase = Cq!phase(p) /\ cq_buf'[Cq!slot(p)].index = p
    <3>1. CASE p = d  BY <1>11, <3>1
    <3>2. CASE p # d
      <4>1. p \in cq_cons_ptr..delivered - 1 /\ p \in cq_cons_ptr..cq_cons_ptr + CQ_SIZE - 1
        BY <1>5, <3>2 DEF d
      <4>2. QED  BY <1>1, <1>12, <3>2, <4>1 DEF Records
    <3>3. QED  BY <3>1, <3>2
  <2>2. ASSUME NEW p \in delivered'..cq_cons_ptr + CQ_SIZE - 1
        PROVE  cq_buf'[Cq!slot(p)].phase # Cq!phase(p)
    <3>1. /\ p \in delivered..cq_cons_ptr + CQ_SIZE - 1 /\ p # d
          /\ p \in cq_cons_ptr..cq_cons_ptr + CQ_SIZE - 1
      BY <1>5 DEF d
    <3>2. QED  BY <1>1, <1>12, <3>1 DEF Records
  <2>3. ASSUME NEW i \in 1..u - 1 PROVE upstream'[i].ptr = delivered' + i - 1
    <3>1. i + 1 \in 1..u /\ upstream'[i] = upstream[i + 1]  BY <1>3
    <3>2. d + (i + 1) - 1 = delivered' + i - 1  BY <1>3, <1>5
    <3>3. QED  BY <1>1, <3>1, <3>2 DEF Records, u, d
  <2>4. QED  BY <1>3, <1>4, <2>1, <2>2, <2>3 DEF Records
<1>18. ASSUME NEW i \in 1..u - 1 PROVE CompletionOf(upstream[i].cpl, delivered + i - 1)'
  <2>1. i + 1 \in 1..u /\ upstream'[i] = upstream[i + 1]  BY <1>3
  <2>2. d + (i + 1) - 1 = delivered' + i - 1  BY <1>3, <1>5
  <2>3. CompletionOf(upstream[i + 1].cpl, d + (i + 1) - 1)  BY <1>1, <2>1 DEF Frames, u, d
  <2>4. QED  BY <1>4, <2>1, <2>2, <2>3 DEF CompletionOf
<1>19. ASSUME NEW p \in cq_cons_ptr..d PROVE data'[rx_info[slot(p)]] = received[p + 1]
  <2>1. CASE p = d  BY <1>13, <2>1 DEF b, f
  <2>2. CASE p # d
    <3>1. /\ p \in Nat /\ p \in cq_cons_ptr..delivered - 1 /\ p \in cq_cons_ptr..prod_ptr - 1
          /\ p \in cq_cons_ptr..cq_cons_ptr + SIZE - 1 /\ d \in cq_cons_ptr..cq_cons_ptr + SIZE - 1
      BY <1>5, <2>2 DEF d
    <3>2. slot(p) \in Slots /\ slot(d) \in Slots /\ slot(p) # slot(d) /\ rx_info[slot(p)] # None
      BY <1>1, <1>5, <2>2, <3>1, SlotFacts, RingSlots DEF InUse
    <3>3. rx_info[slot(p)] # b /\ rx_info[slot(p)] \in Buffers(pool)
      BY <1>1, <3>2 DEF BuffersOwned, TypeOK, b
    <3>4. data[rx_info[slot(p)]] = received[p + 1]  BY <1>1, <3>1 DEF Frames
    <3>5. QED  BY <1>13, <3>3, <3>4
  <2>3. QED  BY <2>1, <2>2
<1>20. Frames'
  <2>1. \A i \in 1..Len(engine) : CompletionOf(engine[i], hw_cq_prod + i - 1)'
    BY <1>1, <1>4 DEF Frames, CompletionOf
  <2>2. \A p \in cq_cons_ptr..delivered' - 1 : p \in cq_cons_ptr..d  BY <1>5
  <2>3. QED  BY <1>3, <1>4, <1>18, <1>19, <2>1, <2>2 DEF Frames
<1>21. BuffersOwned'
  <2>1. ASSUME NEW i \in 1..Len(upstream') PROVE upstream'[i].cpl.pkt = rx_info'[slot(upstream'[i].cpl.index)]
    <3>1. CompletionOf(upstream[i].cpl, delivered + i - 1)'  BY <1>3, <1>18
    <3>2. /\ upstream'[i].cpl.index = (delivered + i - 1)'
          /\ upstream'[i].cpl.pkt = rx_info'[slot((delivered + i - 1)')]
      BY <3>1 DEF CompletionOf
    <3>3. QED  BY <3>2
  <2>2. QED  BY <1>1, <1>4, <2>1 DEF BuffersOwned
<1>22. ReadersInv'  BY <1>4, ReadersUnchanged
<1>23. QED  BY <1>14, <1>15, <1>16, <1>17, <1>20, <1>21, <1>22 DEF IInv, ReadersInv

(***************************************************************************)
(* The handler takes the new records                                       *)
(***************************************************************************)
(* The slots of the new records are emptied and no others.                 *)
LEMMA Emptied ==
    ASSUME IInv, ProcessCq
    PROVE  /\ rx_info' \in [Slots -> Buffers(pool) \cup {None}]
           /\ \A s \in Slots : \/ s \in completed_slots /\ rx_info'[s] = None
                               \/ s \notin completed_slots /\ rx_info'[s] = rx_info[s]
           /\ \A p \in cq_cons_ptr..delivered - 1 : slot(p) \in completed_slots
           /\ \A p \in delivered..cq_cons_ptr + SIZE - 1 : rx_info'[slot(p)] = rx_info[slot(p)]
           /\ \A p \in cq_cons_ptr + SIZE..delivered + SIZE - 1 : rx_info'[slot(p)] = None
<1>1. TypeOK /\ Pointers /\ Records /\ InUse  BY DEF IInv
<1>2. SIZE \in Nat \ {0} /\ cq_cons_ptr \in Nat /\ delivered \in Nat /\ cq_cons_ptr <= delivered
      /\ delivered <= cq_cons_ptr + SIZE
  BY <1>1, Sizes, Order
<1>3. rx_info' \in [Slots -> Buffers(pool) \cup {None}]  BY <1>1 DEF TypeOK, ProcessCq
<1>4. \A s \in Slots : \/ s \in completed_slots /\ rx_info'[s] = None
                       \/ s \notin completed_slots /\ rx_info'[s] = rx_info[s]
  BY DEF ProcessCq
<1>5. ASSUME NEW p \in cq_cons_ptr..delivered - 1 PROVE slot(p) \in completed_slots
  <2>1. p \in Nat /\ slot(p) \in Slots  BY <1>2, SlotFacts
  <2>2. QED  BY <1>1, <2>1, CompletedSlots
<1>6. ASSUME NEW p \in delivered..cq_cons_ptr + SIZE - 1 PROVE rx_info'[slot(p)] = rx_info[slot(p)]
  <2>1. p \in Nat /\ slot(p) \in Slots  BY <1>2, SlotFacts
  <2>2. ASSUME NEW q \in cq_cons_ptr..delivered - 1 PROVE slot(q) # slot(p)
    <3>1. /\ q \in cq_cons_ptr..cq_cons_ptr + SIZE - 1 /\ q # p
          /\ p \in cq_cons_ptr..cq_cons_ptr + SIZE - 1
      BY <1>2
    <3>2. QED  BY <1>1, <3>1, RingSlots
  <2>3. slot(p) \notin completed_slots  BY <1>1, <2>1, <2>2, CompletedSlots
  <2>4. QED  BY <1>4, <2>1, <2>3
<1>7. ASSUME NEW p \in cq_cons_ptr + SIZE..delivered + SIZE - 1 PROVE rx_info'[slot(p)] = None
  <2>1. p - SIZE \in cq_cons_ptr..delivered - 1 /\ p - SIZE \in Nat /\ (p - SIZE) + SIZE = p  BY <1>2
  <2>2. slot(p) = slot(p - SIZE) /\ slot(p) \in Slots  BY <2>1, SlotFacts
  <2>3. QED  BY <1>4, <1>5, <2>1, <2>2
<1>8. QED  BY <1>3, <1>4, <1>5, <1>6, <1>7

(* The buffers of the new records are added to the free ones.              *)
LEMMA Freed ==
    ASSUME IInv, ProcessCq
    PROVE  /\ pool'.allocated = pool.allocated /\ pool' = [allocated |-> pool'.allocated, free |-> pool'.free]
           /\ pool'.free \in Seq(Buffers(pool))
           /\ Len(pool'.free) = Len(pool.free) + (delivered - cq_cons_ptr)
           /\ \A i \in 1..Len(pool.free) : pool'.free[i] = pool.free[i]
           /\ \A i \in 1..delivered - cq_cons_ptr :
                /\ pool'.free[Len(pool.free) + i] = rx_info[slot(cq_cons_ptr + i - 1)]
                /\ rx_info[slot(cq_cons_ptr + i - 1)] # None
                /\ slot(cq_cons_ptr + i - 1) \in completed_slots
<1> DEFINE n == delivered - cq_cons_ptr
           B == Buffers(pool)
           pkt(i) == rx_info[slot(cq_cons_ptr + i - 1)]
           pkts == [i \in 1..n |-> pkt(i)]
<1>1. TypeOK /\ Pointers /\ Records /\ InUse  BY DEF IInv
<1>2. /\ cq_cons_ptr \in Nat /\ delivered \in Nat /\ n \in Nat /\ prod_ptr \in Nat
      /\ delivered <= prod_ptr /\ Len(pool.free) \in Nat
  <2>1. /\ cq_cons_ptr \in Nat /\ delivered \in Nat /\ cq_cons_ptr <= delivered
        /\ prod_ptr \in Nat /\ delivered <= prod_ptr /\ Len(pool.free) \in Nat
    BY <1>1, Order, LenProperties DEF TypeOK
  <2>2. n \in Nat  BY <2>1
  <2>3. QED  BY <2>1, <2>2
<1>3. completed_pkts = pkts  BY <1>1, CompletedPkts
<1>4. ASSUME NEW i \in 1..n
      PROVE  pkt(i) \in B /\ pkt(i) # None /\ slot(cq_cons_ptr + i - 1) \in completed_slots
  <2>1. /\ cq_cons_ptr + i - 1 \in cq_cons_ptr..delivered - 1
        /\ cq_cons_ptr + i - 1 \in cq_cons_ptr..prod_ptr - 1 /\ cq_cons_ptr + i - 1 \in Nat
    BY <1>2
  <2>2. slot(cq_cons_ptr + i - 1) \in Slots /\ pkt(i) # None  BY <1>1, <2>1, SlotFacts DEF InUse
  <2>3. QED  BY <1>1, <2>1, <2>2, Emptied DEF TypeOK
<1> HIDE DEF n, pkt, B
<1>5. pkts \in Seq(B) /\ Len(pkts) = n /\ \A i \in 1..n : pkts[i] = pkt(i)
  <2>1. pkts \in [1..n -> B]  BY <1>4
  <2>2. pkts \in Seq(B)  BY <1>2, <2>1, SeqDef
  <2>3. Len(pkts) = n  BY <1>2, <2>2, LenProperties
  <2>4. QED  BY <2>2, <2>3
<1> HIDE DEF pkts
<1>6. pool.free \in Seq(B)  BY <1>1 DEF TypeOK, B
<1>7. pool' = [pool EXCEPT !.free = pool.free \o pkts]  BY <1>3 DEF ProcessCq, free_pkts
<1>8. pool = [allocated |-> pool.allocated, free |-> pool.free]  BY <1>1 DEF TypeOK
<1>9. /\ pool'.allocated = pool.allocated /\ pool'.free = pool.free \o pkts
      /\ pool' = [allocated |-> pool'.allocated, free |-> pool'.free]
  BY <1>7, <1>8
<1>10. /\ pool'.free \in Seq(B) /\ Len(pool'.free) = Len(pool.free) + n
       /\ \A i \in 1..Len(pool.free) + n :
            pool'.free[i] = IF i <= Len(pool.free) THEN pool.free[i] ELSE pkts[i - Len(pool.free)]
  <2> DEFINE both == pool.free \o pkts
             front == pool.free
  <2>1. /\ both \in Seq(B) /\ Len(both) = Len(front) + Len(pkts)
        /\ \A i \in 1..Len(front) + Len(pkts) :
             both[i] = IF i <= Len(front) THEN front[i] ELSE pkts[i - Len(front)]
    BY <1>5, <1>6, ConcatProperties
  <2> HIDE DEF both
  <2>2. QED  BY <1>5, <1>9, <2>1 DEF both
<1>11. ASSUME NEW i \in 1..n PROVE pool'.free[Len(pool.free) + i] = pkt(i)
  <2>1. /\ Len(pool.free) + i \in 1..Len(pool.free) + n /\ ~(Len(pool.free) + i <= Len(pool.free))
        /\ (Len(pool.free) + i) - Len(pool.free) = i
    BY <1>2
  <2>2. QED  BY <1>5, <1>10, <2>1
<1>12. \A i \in 1..Len(pool.free) : pool'.free[i] = pool.free[i]
  <2>1. \A i \in 1..Len(pool.free) : i \in 1..Len(pool.free) + n /\ i <= Len(pool.free)  BY <1>2
  <2>2. QED  BY <1>10, <2>1
<1>13. QED  BY <1>4, <1>9, <1>10, <1>11, <1>12 DEF n, pkt, B

LEMMA FreedBuffers ==
    ASSUME IInv, ProcessCq, NEW b
    PROVE  b \in FreeBuffers(pool)' <=>
             \/ b \in FreeBuffers(pool)
             \/ \E i \in 1..delivered - cq_cons_ptr : b = rx_info[slot(cq_cons_ptr + i - 1)]
<1>1. Len(pool.free) \in Nat /\ cq_cons_ptr \in Nat /\ delivered \in Nat /\ cq_cons_ptr <= delivered
  BY Order, LenProperties DEF IInv, TypeOK
<1> DEFINE n == delivered - cq_cons_ptr
           f == Len(pool.free)
<1>2. f \in Nat /\ n \in Nat /\ Len(pool'.free) = f + n  BY <1>1, Freed
<1>3. /\ \A i \in 1..f : pool'.free[i] = pool.free[i]
      /\ \A i \in 1..n : pool'.free[f + i] = rx_info[slot(cq_cons_ptr + i - 1)]
  BY Freed
<1>10. DOMAIN pool.free = 1..f /\ DOMAIN pool'.free = 1..f + n
  <2>1. pool.free \in Seq(Buffers(pool))  BY DEF IInv, TypeOK
  <2>2. pool'.free \in Seq(Buffers(pool))  BY Freed
  <2>3. QED  BY <1>2, <2>1, <2>2, LenProperties
<1> HIDE DEF n, f
<1>4. \A i \in 1..f + n : i \in 1..f \/ (i - f \in 1..n /\ f + (i - f) = i)  BY <1>2
<1>5. \A i \in 1..n : f + i \in 1..f + n  BY <1>2
<1>6. \A i \in 1..f : i \in 1..f + n  BY <1>2
<1>7. ASSUME b \in FreeBuffers(pool)'
      PROVE  b \in FreeBuffers(pool) \/ \E i \in 1..n : b = rx_info[slot(cq_cons_ptr + i - 1)]
  <2>1. PICK i \in 1..f + n : b = pool'.free[i]  BY <1>10, <1>7 DEF FreeBuffers, Range
  <2>2. CASE i \in 1..f  BY <1>3, <1>10, <2>1, <2>2 DEF FreeBuffers, Range
  <2>3. CASE i - f \in 1..n /\ f + (i - f) = i  BY <1>3, <2>1, <2>3
  <2>4. QED  BY <1>4, <2>2, <2>3
<1>8. ASSUME b \in FreeBuffers(pool) \/ \E i \in 1..n : b = rx_info[slot(cq_cons_ptr + i - 1)]
      PROVE  b \in FreeBuffers(pool)'
  <2>1. CASE b \in FreeBuffers(pool)
    <3>1. PICK i \in 1..f : b = pool.free[i]  BY <1>10, <2>1 DEF FreeBuffers, Range
    <3>2. QED  BY <1>3, <1>6, <1>10, <3>1 DEF FreeBuffers, Range
  <2>2. CASE \E i \in 1..n : b = rx_info[slot(cq_cons_ptr + i - 1)]
    <3>1. PICK i \in 1..n : b = rx_info[slot(cq_cons_ptr + i - 1)]  BY <2>2
    <3>2. QED  BY <1>3, <1>5, <1>10, <3>1 DEF FreeBuffers, Range
  <2>3. QED  BY <1>8, <2>1, <2>2
<1>9. QED  BY <1>7, <1>8 DEF n

LEMMA ProcessCqOwned ==
    ASSUME IInv, ProcessCq
    PROVE  BuffersOwned'
<1> USE DEF deviceVars, memoryVars
<1> DEFINE c == cq_cons_ptr
           n == delivered - cq_cons_ptr
           f == Len(pool.free)
           done(i) == slot(c + i - 1)
<1>1. TypeOK /\ Pointers /\ Records /\ InUse /\ Frames /\ BuffersOwned  BY DEF IInv
<1>2. c \in Nat /\ n \in Nat /\ f \in Nat /\ SIZE \in Nat \ {0} /\ delivered = c + n /\ n <= SIZE
  <2>1. c \in Nat /\ delivered \in Nat /\ c <= delivered /\ delivered <= c + SIZE  BY <1>1, Order
  <2>2. f \in Nat /\ SIZE \in Nat \ {0}  BY <1>1, Sizes, LenProperties DEF TypeOK
  <2> HIDE DEF f
  <2>3. QED  BY <2>1, <2>2
<1>3. /\ pool'.allocated = pool.allocated /\ Len(pool'.free) = f + n
      /\ \A i \in 1..f : pool'.free[i] = pool.free[i]
      /\ \A i \in 1..n : pool'.free[f + i] = rx_info[done(i)] /\ rx_info[done(i)] # None
                         /\ done(i) \in completed_slots
  BY Freed
<1>4. ASSUME NEW i \in 1..n PROVE done(i) \in Slots /\ \A j \in 1..n : i # j => done(i) # done(j)
  <2>1. \A j \in 1..n : c + j - 1 \in c..c + SIZE - 1 /\ c + j - 1 \in Nat  BY <1>2
  <2>2. \A j \in 1..n : i # j => c + i - 1 # c + j - 1  BY <1>2
  <2>3. QED  BY <1>1, <2>1, <2>2, SlotFacts, RingSlots
<1> HIDE DEF n, f, done
<1>5. IsInjective(pool.free)'
  <2> SUFFICES ASSUME NEW i \in 1..f + n, NEW j \in 1..f + n, i # j
               PROVE  pool'.free[i] # pool'.free[j]
    BY <1>3 DEF IsInjective
  <2>1. \A k \in 1..f + n : k \in 1..f \/ (k - f \in 1..n /\ f + (k - f) = k)  BY <1>2
  <2>2. \A k \in 1..f : pool'.free[k] \in FreeBuffers(pool)  BY <1>3 DEF FreeBuffers, Range, f
  <2>3. \A k \in 1..n : pool'.free[f + k] \notin FreeBuffers(pool)
    BY <1>1, <1>3, <1>4 DEF BuffersOwned
  <2>4. CASE i \in 1..f /\ j \in 1..f
    <3>1. pool.free[i] # pool.free[j]  BY <1>1, <2>4 DEF BuffersOwned, IsInjective, f
    <3>2. QED  BY <1>3, <2>4, <3>1
  <2>5. CASE i \in 1..f /\ j - f \in 1..n /\ f + (j - f) = j
    <3>1. pool'.free[f + (j - f)] \notin FreeBuffers(pool)  BY <2>3, <2>5
    <3>2. QED  BY <2>2, <2>5, <3>1
  <2>6. CASE j \in 1..f /\ i - f \in 1..n /\ f + (i - f) = i
    <3>1. pool'.free[f + (i - f)] \notin FreeBuffers(pool)  BY <2>3, <2>6
    <3>2. QED  BY <2>2, <2>6, <3>1
  <2>7. CASE i - f \in 1..n /\ f + (i - f) = i /\ j - f \in 1..n /\ f + (j - f) = j
    <3>1. i - f # j - f  BY <1>2, <2>7
    <3>2. done(i - f) # done(j - f) /\ done(i - f) \in Slots /\ done(j - f) \in Slots  BY <1>4, <2>7, <3>1
    <3>3. rx_info[done(i - f)] # rx_info[done(j - f)]  BY <1>1, <1>3, <2>7, <3>2 DEF BuffersOwned
    <3>4. pool'.free[f + (i - f)] = rx_info[done(i - f)] /\ pool'.free[f + (j - f)] = rx_info[done(j - f)]
      BY <1>3, <2>7
    <3>5. QED  BY <2>7, <3>3, <3>4
  <2>8. QED  BY <2>1, <2>4, <2>5, <2>6, <2>7
<1>6. \A s \in Slots : \/ s \in completed_slots /\ rx_info'[s] = None
                       \/ s \notin completed_slots /\ rx_info'[s] = rx_info[s]
  BY Emptied
<1>7. \A b : b \in FreeBuffers(pool)' <=> b \in FreeBuffers(pool) \/ \E i \in 1..n : b = rx_info[done(i)]
  BY FreedBuffers DEF n, done
<1>8. ASSUME NEW s \in Slots PROVE rx_info'[s] \notin FreeBuffers(pool)'
  <2>1. rx_info[s] \notin FreeBuffers(pool) /\ None \notin FreeBuffers(pool)
    <3>1. \A i \in 1..Len(pool.free) : pool.free[i] \in Buffers(pool)  BY <1>1, ElementOfSeq DEF TypeOK
    <3>2. None \notin Buffers(pool)  BY <1>1 DEF TypeOK, Buffers, None
    <3>3. None \notin FreeBuffers(pool)  BY <3>1, <3>2 DEF FreeBuffers, Range
    <3>4. QED  BY <1>1, <3>3 DEF BuffersOwned
  <2>2. CASE rx_info'[s] = None  BY <1>3, <1>7, <2>1, <2>2
  <2>3. CASE s \notin completed_slots /\ rx_info'[s] = rx_info[s]
    <3>1. \A i \in 1..n : done(i) # s /\ done(i) \in Slots /\ rx_info[done(i)] # None  BY <1>3, <1>4, <2>3
    <3>2. \A i \in 1..n : rx_info[done(i)] # rx_info[s]  BY <1>1, <3>1 DEF BuffersOwned
    <3>3. QED  BY <1>7, <2>1, <2>3, <3>2
  <2>4. QED  BY <1>6, <2>2, <2>3
<1>9. ASSUME NEW s \in Slots, NEW u \in Slots, s # u, rx_info'[s] # None
      PROVE  rx_info'[s] # rx_info'[u]
  <2>1. rx_info'[s] = rx_info[s]  BY <1>6, <1>9
  <2>2. rx_info[s] # rx_info[u]  BY <1>1, <1>9, <2>1 DEF BuffersOwned
  <2>3. QED  BY <1>6, <1>9, <2>1, <2>2
<1>10. ASSUME NEW b \in Buffers(pool)
       PROVE  b \in FreeBuffers(pool)' \/ \E s \in Slots : rx_info'[s] = b
  <2>1. CASE b \in FreeBuffers(pool)  BY <1>7, <2>1
  <2>2. CASE \E s \in Slots : rx_info[s] = b
    <3>1. PICK s \in Slots : rx_info[s] = b  BY <2>2
    <3>2. CASE s \notin completed_slots  BY <1>6, <3>1, <3>2
    <3>3. CASE s \in completed_slots
      <4>1. PICK p \in c..delivered - 1 : slot(p) = s  BY <1>1, <3>3, CompletedSlots
      <4>2. p - c + 1 \in 1..n /\ c + (p - c + 1) - 1 = p  BY <1>2
      <4>3. b = rx_info[done(p - c + 1)]  BY <3>1, <4>1, <4>2 DEF done
      <4>4. QED  BY <1>7, <4>2, <4>3
    <3>4. QED  BY <3>2, <3>3
  <2>3. QED  BY <1>1, <2>1, <2>2 DEF BuffersOwned
<1>11. /\ Len(engine) \in Nat /\ Len(upstream) \in Nat /\ hw_cq_prod \in Nat /\ hw_cons \in Nat
       /\ delivered + Len(upstream) = hw_cq_prod /\ hw_cq_prod + Len(engine) = hw_cons
       /\ hw_cons <= c + SIZE /\ delivered \in Nat
  <2> DEFINE e == Len(engine)
             u == Len(upstream)
  <2>1. /\ e \in Nat /\ u \in Nat /\ hw_cq_prod \in Nat /\ hw_cons \in Nat /\ delivered = hw_cq_prod - u
        /\ hw_cons = hw_cq_prod + e /\ hw_cons <= prod_ptr /\ prod_ptr <= c + SIZE /\ prod_ptr \in Nat
        /\ delivered \in Nat
    BY <1>1, Order
  <2> HIDE DEF e, u
  <2>2. delivered + u = hw_cq_prod /\ hw_cons <= c + SIZE  BY <1>2, <2>1
  <2>3. QED  BY <2>1, <2>2 DEF e, u
<1>12. ASSUME NEW i \in 1..Len(engine) PROVE engine[i].pkt = rx_info'[slot(engine[i].index)]
  <2>1. hw_cq_prod + i - 1 \in delivered..c + SIZE - 1  BY <1>2, <1>11
  <2>2. CompletionOf(engine[i], hw_cq_prod + i - 1)  BY <1>1 DEF Frames
  <2>3. engine[i].index = hw_cq_prod + i - 1 /\ engine[i].pkt = rx_info[slot(hw_cq_prod + i - 1)]
    BY <2>2 DEF CompletionOf
  <2>4. rx_info'[slot(hw_cq_prod + i - 1)] = rx_info[slot(hw_cq_prod + i - 1)]  BY <2>1, Emptied
  <2>5. QED  BY <2>3, <2>4
<1>13. ASSUME NEW i \in 1..Len(upstream) PROVE upstream[i].cpl.pkt = rx_info'[slot(upstream[i].cpl.index)]
  <2>1. delivered + i - 1 \in delivered..c + SIZE - 1  BY <1>2, <1>11
  <2>2. CompletionOf(upstream[i].cpl, delivered + i - 1)  BY <1>1 DEF Frames
  <2>3. /\ upstream[i].cpl.index = delivered + i - 1
        /\ upstream[i].cpl.pkt = rx_info[slot(delivered + i - 1)]
    BY <2>2 DEF CompletionOf
  <2>4. rx_info'[slot(delivered + i - 1)] = rx_info[slot(delivered + i - 1)]  BY <2>1, Emptied
  <2>5. QED  BY <2>3, <2>4
<1>14. UNCHANGED <<engine, upstream>> /\ Buffers(pool)' = Buffers(pool)  BY <1>3 DEF ProcessCq, Buffers
<1>15. QED  BY <1>5, <1>8, <1>9, <1>10, <1>12, <1>13, <1>14 DEF BuffersOwned

(* The packets put into the queue are the frames received next.            *)
LEMMA NewPackets ==
    ASSUME IInv, ProcessCq
    PROVE  /\ new_skbs \in Seq(Frame) /\ Len(new_skbs) = delivered - cq_cons_ptr
           /\ \A i \in 1..delivered - cq_cons_ptr : new_skbs[i] = received[cq_cons_ptr + i]
<1> DEFINE n == delivered - cq_cons_ptr
           pkts == [i \in 1..n |-> rx_info[slot(cq_cons_ptr + i - 1)]]
           s == [i \in 1..n |-> received[cq_cons_ptr + i]]
<1>1. TypeOK /\ Pointers /\ Records /\ InUse /\ Frames  BY DEF IInv
<1>2. /\ cq_cons_ptr \in Nat /\ delivered \in Nat /\ n \in Nat /\ delivered <= Len(received)
      /\ Len(received) \in Nat
  <2>1. /\ cq_cons_ptr \in Nat /\ delivered \in Nat /\ cq_cons_ptr <= delivered
        /\ delivered <= hw_cons /\ hw_cons = Len(received) /\ Len(received) \in Nat
    BY <1>1, Order
  <2>2. n \in Nat  BY <2>1
  <2>3. QED  BY <2>1, <2>2
<1>3. completed_pkts = pkts  BY <1>1, CompletedPkts
<1>4. ASSUME NEW i \in 1..n
      PROVE  data[rx_info[slot(cq_cons_ptr + i - 1)]] = received[cq_cons_ptr + i]
             /\ received[cq_cons_ptr + i] \in Frame
  <2>1. /\ cq_cons_ptr + i - 1 \in cq_cons_ptr..delivered - 1 /\ (cq_cons_ptr + i - 1) + 1 = cq_cons_ptr + i
        /\ cq_cons_ptr + i \in 1..Len(received)
    BY <1>2
  <2>2. received \in Seq(Frame)  BY <1>1 DEF TypeOK
  <2>3. QED  BY <1>1, <2>1, <2>2, ElementOfSeq DEF Frames
<1> HIDE DEF n
<1>5. Len(pkts) = n
  <2> DEFINE B == {pkts[i] : i \in 1..n}
  <2>1. pkts \in [1..n -> B]  OBVIOUS
  <2> HIDE DEF B, pkts
  <2>2. pkts \in Seq(B)  BY <1>2, <2>1, SeqDef
  <2>3. DOMAIN pkts = 1..n  BY <2>1
  <2>4. QED  BY <1>2, <2>2, <2>3, LenProperties
<1>6. new_skbs = s
  <2>1. new_skbs = [i \in 1..n |-> data[pkts[i]]]  BY <1>3, <1>5 DEF new_skbs
  <2>2. \A i \in 1..n : pkts[i] = rx_info[slot(cq_cons_ptr + i - 1)]  OBVIOUS
  <2> HIDE DEF pkts
  <2>3. \A i \in 1..n : data[pkts[i]] = received[cq_cons_ptr + i]  BY <1>4, <2>2
  <2>4. QED  BY <2>1, <2>3
<1>7. s \in Seq(Frame) /\ Len(s) = n /\ \A i \in 1..n : s[i] = received[cq_cons_ptr + i]
  <2>1. s \in [1..n -> Frame]  BY <1>4
  <2>2. s \in Seq(Frame)  BY <1>2, <2>1, SeqDef
  <2>3. Len(s) = n  BY <1>2, <2>2, LenProperties
  <2>4. QED  BY <2>2, <2>3
<1> HIDE DEF s
<1>8. QED  BY <1>6, <1>7 DEF n

(* Every reader that waits is woken, for at least one packet.              *)
LEMMA ProcessCqReaders ==
    ASSUME IInv, ProcessCq
    PROVE  ReadersInv' /\ pc' \in [READERS -> {"idle", "recv", "wait", "woken"}] /\ pkt_rx_queue' \in Seq(Frame)
<1> DEFINE q == Len(pkt_rx_queue)
           n == delivered - cq_cons_ptr
           t == Len(taken)
           queue == pkt_rx_queue \o new_skbs
<1> USE DEF deviceVars
<1>1. TypeOK /\ Pointers /\ Records /\ TakenInOrder /\ NoLostWakeup /\ WokenForPacket /\ RecvGetsPacket
  BY DEF IInv
<1>2. /\ new_skbs \in Seq(Frame) /\ Len(new_skbs) = n
      /\ \A i \in 1..n : new_skbs[i] = received[cq_cons_ptr + i]
  BY NewPackets
<1>3. pkt_rx_queue \in Seq(Frame) /\ pc \in [READERS -> {"idle", "recv", "wait", "woken"}]  BY <1>1 DEF TypeOK
<1>4. /\ q \in Nat /\ t \in Nat /\ n \in Nat /\ cq_cons_ptr \in Nat /\ t + q = cq_cons_ptr
      /\ cq_cons_ptr + n = delivered
  <2>1. /\ q \in Nat /\ t \in Nat /\ cq_cons_ptr \in Nat /\ delivered \in Nat /\ cq_cons_ptr <= delivered
        /\ t + q = cq_cons_ptr
    BY <1>1, Order DEF TakenInOrder
  <2> HIDE DEF q, t
  <2>2. n \in Nat /\ cq_cons_ptr + n = delivered  BY <2>1
  <2>3. QED  BY <2>1, <2>2
<1>5. /\ pkt_rx_queue' = queue /\ pc' = synced /\ cq_cons_ptr' = delivered
      /\ UNCHANGED <<taken, received, got_none, overtaken>>
  BY <1>1, CqEnd DEF ProcessCq
<1>6. /\ queue \in Seq(Frame) /\ Len(queue) = q + n
      /\ \A i \in 1..q + n : queue[i] = IF i <= q THEN pkt_rx_queue[i] ELSE new_skbs[i - q]
  <2> DEFINE skbs == new_skbs
  <2>1. skbs \in Seq(Frame) /\ Len(skbs) = n  BY <1>2
  <2> HIDE DEF skbs, n
  <2>2. /\ pkt_rx_queue \o skbs \in Seq(Frame) /\ Len(pkt_rx_queue \o skbs) = q + n
        /\ \A i \in 1..q + n : (pkt_rx_queue \o skbs)[i] = IF i <= q THEN pkt_rx_queue[i] ELSE skbs[i - q]
    BY <1>3, <2>1, ConcatProperties
  <2>3. QED  BY <2>2 DEF skbs
<1> HIDE DEF q, n, t, queue
<1>7. TakenInOrder'
  <2>1. t + (q + n) = delivered  BY <1>4
  <2>2. ASSUME NEW i \in 1..q + n PROVE queue[i] = received[t + i]
    <3>1. CASE i <= q
      <4>1. i \in 1..q  BY <1>4, <3>1
      <4>2. QED  BY <1>1, <1>6, <3>1, <4>1 DEF TakenInOrder, q, t
    <3>2. CASE ~(i <= q)
      <4>1. i - q \in 1..n /\ cq_cons_ptr + (i - q) = t + i  BY <1>4, <3>2
      <4>2. QED  BY <1>2, <1>6, <3>2, <4>1
    <3>3. QED  BY <3>1, <3>2
  <2>3. QED  BY <1>1, <1>5, <1>6, <2>1, <2>2 DEF TakenInOrder, t
<1>8. pc' \in [READERS -> {"idle", "recv", "wait", "woken"}]  BY <1>3, <1>5 DEF synced, woken
<1>9. CASE new_skbs = <<>>
  <2>1. n = 0  BY <1>2, <1>9
  <2>2. pc' = pc  BY <1>5, <1>9 DEF synced
  <2>3. Len(pkt_rx_queue') = q  BY <1>4, <1>5, <1>6, <2>1
  <2>4. pkt_rx_queue' = <<>> <=> pkt_rx_queue = <<>>
    <3>1. pkt_rx_queue' = <<>> <=> q = 0  BY <1>5, <1>6, <2>3, EmptySeq
    <3>2. pkt_rx_queue = <<>> <=> q = 0  BY <1>3, EmptySeq DEF q
    <3>3. QED  BY <3>1, <3>2
  <2>5. NoLostWakeup' /\ WokenForPacket' /\ RecvGetsPacket'
    BY <1>1, <1>5, <2>2, <2>4 DEF NoLostWakeup, WokenForPacket, RecvGetsPacket
  <2>6. QED  BY <1>5, <1>6, <1>7, <1>8, <2>5 DEF ReadersInv
<1>10. CASE new_skbs # <<>>
  <2>1. n \in Nat \ {0}  BY <1>2, <1>10, EmptySeq
  <2>2. pkt_rx_queue' # <<>>
    <3>1. Len(pkt_rx_queue') # 0  BY <1>4, <1>5, <1>6, <2>1
    <3>2. QED  BY <3>1
  <2>3. pc' = woken  BY <1>5, <1>10 DEF synced
  <2>4. \A r \in READERS : pc'[r] \notin {"recv", "wait"}  BY <1>3, <2>3 DEF woken
  <2>5. NoLostWakeup' /\ WokenForPacket' /\ RecvGetsPacket'
    BY <1>1, <1>5, <2>2, <2>4 DEF NoLostWakeup, WokenForPacket, RecvGetsPacket
  <2>6. QED  BY <1>5, <1>6, <1>7, <1>8, <2>5 DEF ReadersInv
<1>11. QED  BY <1>9, <1>10

LEMMA ProcessCqStep ==
    ASSUME IInv, ProcessCq
    PROVE  IInv'
<1> USE DEF deviceVars, memoryVars
<1> DEFINE c == cq_cons_ptr
           d == delivered
<1>1. TypeOK /\ Pointers /\ Posted /\ Records /\ InUse /\ Frames  BY DEF IInv
<1>2. /\ c \in Nat /\ d \in Nat /\ prod_ptr \in Nat /\ hw_cons \in Nat /\ hw_cq_prod \in Nat
      /\ c <= d /\ d <= hw_cons /\ hw_cons <= prod_ptr /\ d <= hw_cq_prod
      /\ SIZE \in Nat \ {0} /\ CQ_SIZE \in Nat \ {0} /\ SIZE <= CQ_SIZE /\ prod_ptr <= c + SIZE
  BY <1>1, Order, Sizes
<1>3. /\ cq_cons_ptr' = d /\ delivered' = d /\ mmio' = Append(mmio, write("cq_cons", d))
      /\ handler' = "ring" /\ handler = "idle"
      /\ UNCHANGED <<port, prod_ptr, cons_ptr, buf, taken, got_none, overtaken, deviceVars, memoryVars>>
  BY <1>1, CqEnd DEF ProcessCq, cq_report, delivered
<1>4. /\ \A p \in d..c + SIZE - 1 : rx_info'[slot(p)] = rx_info[slot(p)]
      /\ \A p \in c + SIZE..d + SIZE - 1 : rx_info'[slot(p)] = None
  BY Emptied
<1> HIDE DEF c, d
<1>5. ReadersInv' /\ pc' \in [READERS -> {"idle", "recv", "wait", "woken"}] /\ pkt_rx_queue' \in Seq(Frame)
  BY ProcessCqReaders
<1>6. mmio \in Seq(Write) /\ write("cq_cons", d) \in Write
  BY <1>1, <1>2, MmioWrites DEF Write, write, Register
<1>7. TypeOK'
  <2>1. mmio' \in Seq(Write)  BY <1>3, <1>6, PostFacts
  <2>2. Buffers(pool)' = Buffers(pool) /\ pool'.allocated \in Nat  BY <1>1, Freed DEF Buffers, TypeOK
  <2>3. rx_info' \in [Slots -> Buffers(pool)' \cup {None}]  BY <2>2, Emptied
  <2>4. /\ pool'.free \in Seq(Buffers(pool)') /\ pool' = [allocated |-> pool'.allocated, free |-> pool'.free]
        /\ Len(data') = pool'.allocated /\ data' \in Seq(Nat)
    BY <1>1, <1>3, <2>2, Freed DEF TypeOK
  <2>5. /\ buf' \in [Slots -> Buffers(pool)' \cup {None}]
        /\ engine' \in Seq([index : Nat, pkt : Buffers(pool)', frame : Frame])
        /\ upstream' \in Seq([ptr : Nat, cpl : [index : Nat, pkt : Buffers(pool)', frame : Frame]])
    BY <1>1, <1>3, <2>2 DEF TypeOK
  <2>6. cq_cons_ptr' \in Nat /\ handler' \in {"open", "idle", "ring"}  BY <1>2, <1>3
  <2>7. QED  BY <1>1, <1>3, <1>5, <2>1, <2>2, <2>3, <2>4, <2>5, <2>6 DEF TypeOK, Write, Register
<1>8. Pointers'
  <2>1. cons_ptr \in Nat /\ cons_ptr <= c /\ cons_ptr = c  BY <1>1, <1>3, Order DEF c, Pointers
  <2>2. cons_ptr <= d  BY <1>2, <2>1
  <2>3. handler' # "idle" /\ ~(handler' # "ring")  BY <1>3
  <2>4. QED  BY <1>1, <1>2, <1>3, <2>2, <2>3 DEF Pointers
<1>9. Posted'
  <2>1. /\ hw_prod \in Nat /\ hw_cq_cons \in Nat /\ prod_ptr \in Nat /\ cq_cons_ptr \in Nat
        /\ cq_cons_ptr <= d /\ d \in Nat
    BY <1>1, <1>2, Order DEF c
  <2>2. PostedWrites(mmio', hw_prod, hw_cq_cons, prod_ptr, d)
    BY <1>1, <1>3, <1>6, <2>1, PostCqCons DEF Posted
  <2>3. QED  BY <1>3, <2>2 DEF Posted
<1>10. Records'
  <2>1. ASSUME NEW p \in d..d + CQ_SIZE - 1 PROVE cq_buf[Cq!slot(p)].phase # Cq!phase(p)
    <3>1. CASE p < c + CQ_SIZE
      <4>1. p \in delivered..cq_cons_ptr + CQ_SIZE - 1  BY <1>2, <3>1 DEF c, d
      <4>2. QED  BY <1>1, <4>1 DEF Records
    <3>2. CASE p >= c + CQ_SIZE
      <4>1. p - CQ_SIZE \in c..d - 1 /\ p - CQ_SIZE \in Nat /\ (p - CQ_SIZE) + CQ_SIZE = p
        BY <1>2, <3>2
      <4>2. cq_buf[Cq!slot(p - CQ_SIZE)].phase = Cq!phase(p - CQ_SIZE)
        BY <1>1, <4>1 DEF Records, c, d
      <4>3. Cq!slot(p) = Cq!slot(p - CQ_SIZE) /\ Cq!phase(p) # Cq!phase(p - CQ_SIZE)
        BY <4>1, CqSlotFacts
      <4>4. QED  BY <4>2, <4>3
    <3>3. QED  BY <1>2, <3>1, <3>2
  <2>2. \A p : p \notin d..d - 1  BY <1>2
  <2>3. \A i \in 1..Len(upstream) : upstream[i].ptr = d + i - 1  BY <1>1 DEF Records, d
  <2>4. QED  BY <1>3, <2>1, <2>2, <2>3 DEF Records
<1>11. ASSUME NEW p \in d..prod_ptr - 1
       PROVE  rx_info'[slot(p)] = rx_info[slot(p)] /\ p \in cq_cons_ptr..prod_ptr - 1
  <2>1. p \in d..c + SIZE - 1 /\ p \in c..prod_ptr - 1  BY <1>2
  <2>2. QED  BY <1>4, <2>1 DEF c
<1>12. InUse'
  <2>1. \A p \in d..prod_ptr - 1 : rx_info'[slot(p)] # None  BY <1>1, <1>11 DEF InUse
  <2>2. ASSUME NEW p \in prod_ptr..d + SIZE - 1 PROVE rx_info'[slot(p)] = None
    <3>1. CASE p < c + SIZE
      <4>1. p \in d..c + SIZE - 1 /\ p \in prod_ptr..c + SIZE - 1  BY <1>2, <3>1
      <4>2. QED  BY <1>1, <1>4, <4>1 DEF InUse, c
    <3>2. CASE p >= c + SIZE
      <4>1. p \in c + SIZE..d + SIZE - 1  BY <1>2, <3>2
      <4>2. QED  BY <1>4, <4>1
    <3>3. QED  BY <1>2, <3>1, <3>2
  <2>3. \A p \in hw_cons..prod_ptr - 1 : p \in d..prod_ptr - 1  BY <1>2
  <2>4. \A p \in hw_cons..prod_ptr - 1 : buf[slot(p)] = rx_info'[slot(p)]
    BY <1>1, <1>11, <2>3 DEF InUse
  <2>5. QED  BY <1>3, <2>1, <2>2, <2>4 DEF InUse
<1>13. Frames'
  <2> DEFINE e == Len(engine)
             u == Len(upstream)
             w == hw_cq_prod
  <2>1. e \in Nat /\ u \in Nat /\ w \in Nat /\ w + e <= prod_ptr /\ d = w - u
    BY <1>1, Order DEF d
  <2> HIDE DEF e, u, w
  <2>2. ASSUME NEW i \in 1..e PROVE CompletionOf(engine[i], hw_cq_prod + i - 1)'
    <3>1. w + i - 1 \in d..prod_ptr - 1  BY <1>2, <2>1 DEF w
    <3>2. CompletionOf(engine[i], w + i - 1)  BY <1>1 DEF Frames, e, w
    <3>3. rx_info'[slot(w + i - 1)] = rx_info[slot(w + i - 1)]  BY <1>11, <3>1
    <3>4. QED  BY <1>3, <3>2, <3>3 DEF CompletionOf, w
  <2>3. ASSUME NEW i \in 1..u PROVE CompletionOf(upstream[i].cpl, delivered + i - 1)'
    <3>1. d + i - 1 \in d..prod_ptr - 1  BY <1>2, <2>1
    <3>2. CompletionOf(upstream[i].cpl, d + i - 1)  BY <1>1 DEF Frames, u, d
    <3>3. rx_info'[slot(d + i - 1)] = rx_info[slot(d + i - 1)]  BY <1>11, <3>1
    <3>4. QED  BY <1>3, <3>2, <3>3 DEF CompletionOf
  <2>4. \A p : p \notin d..d - 1  BY <1>2
  <2>5. QED  BY <1>3, <2>2, <2>3, <2>4 DEF Frames, e, u
<1>14. BuffersOwned'  BY ProcessCqOwned
<1>15. QED  BY <1>5, <1>7, <1>8, <1>9, <1>10, <1>12, <1>13, <1>14 DEF IInv, ReadersInv

(***************************************************************************)
(* Buffers from the pool                                                   *)
(***************************************************************************)
(* The pool that k calls of alloc_pkt leave, by its two cases.             *)
LEMMA AfterAlloc ==
    ASSUME TypeOK, NEW k \in Nat, NEW after, after = alloc_pkts(pool, k)
    PROVE  /\ Len(pool.free) \in Nat
           /\ after = [allocated |-> after.allocated, free |-> after.free]
           /\ k <= Len(pool.free) =>
                /\ after.allocated = pool.allocated /\ after.free \in Seq(Buffers(pool))
                /\ Len(after.free) = Len(pool.free) - k
                /\ \A i \in 1..Len(pool.free) - k : after.free[i] = pool.free[k + i]
           /\ k > Len(pool.free) =>
                after.allocated = pool.allocated + k - Len(pool.free) /\ after.free = <<>>
<1> DEFINE f == pool.free
           n == Len(f)
           B == Buffers(pool)
<1>1. f \in Seq(B) /\ n \in Nat /\ pool = [allocated |-> pool.allocated, free |-> f]
  BY LenProperties DEF TypeOK
<1>2. CASE k <= n
  <2>1. after = [allocated |-> pool.allocated, free |-> SubSeq(f, k + 1, n)]
    BY <1>1, <1>2 DEF alloc_pkts
  <2>2. k + 1 \in 1..n + 1 /\ n \in (k + 1) - 1..n  BY <1>1, <1>2
  <2> HIDE DEF f, B
  <2>3. /\ SubSeq(f, k + 1, n) \in Seq(B)
        /\ Len(SubSeq(f, k + 1, n)) = IF k + 1 <= n THEN n - (k + 1) + 1 ELSE 0
        /\ \A i \in 1..n - (k + 1) + 1 : SubSeq(f, k + 1, n)[i] = f[(k + 1) + i - 1]
    BY <1>1, <2>2, SubSeqProperties
  <2>4. n - (k + 1) + 1 = n - k /\ (~(k + 1 <= n) => n - k = 0)  BY <1>1, <1>2
  <2>5. \A i \in 1..n - k : (k + 1) + i - 1 = k + i  BY <1>1
  <2>6. Len(SubSeq(f, k + 1, n)) = n - k  BY <2>3, <2>4
  <2>7. \A i \in 1..n - k : SubSeq(f, k + 1, n)[i] = f[k + i]  BY <2>3, <2>4, <2>5
  <2>8. ~(k > n)  BY <1>1, <1>2
  <2>9. QED  BY <1>1, <2>1, <2>3, <2>6, <2>7, <2>8 DEF f, B
<1>3. CASE ~(k <= n)
  <2>1. after = [allocated |-> pool.allocated + k - n, free |-> <<>>]  BY <1>3 DEF alloc_pkts
  <2>2. QED  BY <1>1, <1>3, <2>1
<1>4. QED  BY <1>2, <1>3

(* Where the buffers are afterwards: those handed out were free, or new,   *)
(* and are different ones; the others are where they were.                 *)
LEMMA AllocPkts ==
    ASSUME TypeOK, IsInjective(pool.free), NEW k \in Nat, NEW after, after = alloc_pkts(pool, k)
    PROVE  /\ after = [allocated |-> after.allocated, free |-> after.free]
           /\ after.allocated \in Nat /\ pool.allocated <= after.allocated
           /\ after.free \in Seq(Buffers(after)) /\ IsInjective(after.free)
           /\ FreeBuffers(after) \subseteq FreeBuffers(pool)
           /\ \A i \in 1..k :
                /\ nth_pkt(pool, i) \in Buffers(after) /\ nth_pkt(pool, i) \notin FreeBuffers(after)
                /\ nth_pkt(pool, i) \in FreeBuffers(pool) \/ nth_pkt(pool, i) \notin Buffers(pool)
                /\ \A j \in 1..k : i # j => nth_pkt(pool, i) # nth_pkt(pool, j)
           /\ \A b \in Buffers(after) :
                \/ b \in FreeBuffers(after)
                \/ b \in Buffers(pool) /\ b \notin FreeBuffers(pool)
                \/ \E i \in 1..k : b = nth_pkt(pool, i)
<1> DEFINE f == pool.free
           n == Len(f)
           A == pool.allocated
           g == after.free
           B == Buffers(pool)
<1>1. /\ n \in Nat /\ after = [allocated |-> after.allocated, free |-> g] /\ A \in Nat
      /\ k <= n => /\ after.allocated = A /\ g \in Seq(B) /\ Len(g) = n - k
                   /\ \A i \in 1..n - k : g[i] = f[k + i]
      /\ k > n => after.allocated = A + k - n /\ g = <<>>
  <2>1. A \in Nat  BY DEF TypeOK
  <2>2. QED  BY <2>1, AfterAlloc
<1>2. /\ \A i \in 1..n : f[i] \in 1..A
      /\ \A i, j \in 1..n : i # j => f[i] # f[j]
      /\ \A i \in 1..n : f[i] \in FreeBuffers(pool)
      /\ \A b \in FreeBuffers(pool) : \E i \in 1..n : b = f[i]
  <2>1. f \in Seq(1..A)  BY DEF TypeOK, Buffers
  <2>2. DOMAIN f = 1..n  BY <2>1, LenProperties
  <2>3. /\ \A i \in 1..n : f[i] \in FreeBuffers(pool)
        /\ \A b \in FreeBuffers(pool) : \E i \in 1..n : b = f[i]
    BY <2>2 DEF FreeBuffers, Range
  <2>4. \A i, j \in 1..n : i # j => f[i] # f[j]  BY <2>2 DEF IsInjective
  <2>5. \A i \in 1..n : f[i] \in 1..A  BY <2>1, ElementOfSeq
  <2>6. QED  BY <2>3, <2>4, <2>5
<1>3. B = 1..A /\ Buffers(after) = 1..after.allocated  BY DEF Buffers
<1>4. \A i : nth_pkt(pool, i) = IF i <= n THEN f[i] ELSE A + i - n  BY DEF nth_pkt
<1>5. /\ \A b \in FreeBuffers(after) : \E i \in 1..Len(g) : b = g[i]
      /\ \A i \in 1..Len(g) : g[i] \in FreeBuffers(after)
  BY DEF FreeBuffers, Range
<1>6. FreeBuffers(pool) \subseteq 1..A  BY <1>2
<1> HIDE DEF f, n, A, g, B
<1>7. CASE k <= n
  <2>1. after.allocated = A /\ g \in Seq(B) /\ Len(g) = n - k /\ \A i \in 1..n - k : g[i] = f[k + i]
    BY <1>1, <1>7
  <2>2. \A i \in 1..n - k : k + i \in 1..n /\ k + i \notin 1..k  BY <1>1, <1>7
  <2>3. \A i, j \in 1..n - k : i # j => k + i # k + j  BY <1>1
  <2>4. IsInjective(g)
    <3> SUFFICES ASSUME NEW i \in 1..n - k, NEW j \in 1..n - k, i # j PROVE g[i] # g[j]
      BY <2>1 DEF IsInjective
    <3>1. k + i \in 1..n /\ k + j \in 1..n /\ k + i # k + j  BY <2>2, <2>3
    <3>2. QED  BY <1>2, <2>1, <3>1
  <2>5. FreeBuffers(after) \subseteq FreeBuffers(pool)
    <3> SUFFICES ASSUME NEW b \in FreeBuffers(after) PROVE b \in FreeBuffers(pool)
      OBVIOUS
    <3>1. PICK i \in 1..n - k : b = g[i]  BY <1>5, <2>1
    <3>2. QED  BY <1>2, <2>1, <2>2, <3>1
  <2>6. \A i \in 1..k : nth_pkt(pool, i) = f[i] /\ i \in 1..n  BY <1>1, <1>4, <1>7
  <2>7. ASSUME NEW i \in 1..k PROVE f[i] \notin FreeBuffers(after)
    <3> SUFFICES ASSUME f[i] \in FreeBuffers(after) PROVE FALSE
      OBVIOUS
    <3>1. PICK j \in 1..n - k : f[i] = g[j]  BY <1>5, <2>1
    <3>2. f[i] = f[k + j] /\ k + j \in 1..n /\ i \in 1..n  BY <2>1, <2>2, <2>6, <3>1
    <3>3. i # k + j  BY <2>2
    <3>4. QED  BY <1>2, <3>2, <3>3
  <2>8. ASSUME NEW b \in 1..A
        PROVE  \/ b \in FreeBuffers(after) \/ b \notin FreeBuffers(pool)
               \/ \E i \in 1..k : b = nth_pkt(pool, i)
    <3> SUFFICES ASSUME b \in FreeBuffers(pool)
                 PROVE  b \in FreeBuffers(after) \/ \E i \in 1..k : b = nth_pkt(pool, i)
      OBVIOUS
    <3>1. PICK i \in 1..n : b = f[i]  BY <1>2
    <3>2. CASE i \in 1..k  BY <2>6, <3>1, <3>2
    <3>3. CASE i - k \in 1..n - k /\ k + (i - k) = i
      <4>1. b = g[i - k]  BY <2>1, <3>1, <3>3
      <4>2. QED  BY <1>5, <2>1, <3>3, <4>1
    <3>4. i \in 1..k \/ (i - k \in 1..n - k /\ k + (i - k) = i)  BY <1>1
    <3>5. QED  BY <3>2, <3>3, <3>4
  <2>9. A <= A /\ Buffers(after) = B  BY <1>1, <1>3, <2>1
  <2>10. \A i \in 1..k : \A j \in 1..k : i # j => nth_pkt(pool, i) # nth_pkt(pool, j)
    BY <1>2, <2>6
  <2>11. ASSUME NEW i \in 1..k
         PROVE  /\ nth_pkt(pool, i) \in Buffers(after) /\ nth_pkt(pool, i) \notin FreeBuffers(after)
                /\ nth_pkt(pool, i) \in FreeBuffers(pool)
    <3>1. nth_pkt(pool, i) = f[i] /\ i \in 1..n  BY <2>6
    <3>2. QED  BY <1>2, <1>3, <2>7, <2>9, <3>1 DEF B
  <2>12. \A b \in Buffers(after) :
           \/ b \in FreeBuffers(after)
           \/ b \in B /\ b \notin FreeBuffers(pool)
           \/ \E i \in 1..k : b = nth_pkt(pool, i)
    BY <1>3, <2>8, <2>9
  <2>13. g \in Seq(Buffers(after)) /\ after.allocated \in Nat /\ A <= after.allocated
    BY <1>1, <2>1, <2>9
  <2>14. QED  BY <1>1, <2>4, <2>5, <2>10, <2>11, <2>12, <2>13 DEF A, g, B
<1>8. CASE k > n
  <2>1. after.allocated = A + k - n /\ g = <<>>  BY <1>1, <1>8
  <2>2. after.allocated \in Nat /\ A <= after.allocated  BY <1>1, <1>8, <2>1
  <2>3. Len(g) = 0 /\ g \in Seq(Buffers(after)) /\ IsInjective(g)  BY <2>1 DEF IsInjective
  <2>4. \A b : b \notin FreeBuffers(after)  BY <1>5, <2>3
  <2>5. ASSUME NEW i \in 1..k
        PROVE  /\ nth_pkt(pool, i) \in Buffers(after)
               /\ nth_pkt(pool, i) \in FreeBuffers(pool) \/ nth_pkt(pool, i) \notin B
               /\ \A j \in 1..k : i # j => nth_pkt(pool, i) # nth_pkt(pool, j)
    <3>1. CASE i <= n
      <4>1. i \in 1..n /\ nth_pkt(pool, i) = f[i] /\ f[i] \in 1..A  BY <1>1, <1>2, <1>4, <3>1
      <4>2. f[i] \in 1..after.allocated  BY <1>1, <2>2, <4>1
      <4>3. ASSUME NEW j \in 1..k, i # j PROVE f[i] # nth_pkt(pool, j)
        <5>1. CASE j <= n
          <6>1. j \in 1..n  BY <1>1, <5>1
          <6>2. QED  BY <1>2, <1>4, <4>1, <4>3, <5>1, <6>1
        <5>2. CASE ~(j <= n)
          <6>1. A + j - n > A  BY <1>1, <5>2
          <6>2. nth_pkt(pool, j) > A  BY <1>4, <5>2, <6>1
          <6>3. f[i] <= A /\ f[i] \in Nat  BY <1>1, <4>1
          <6>4. QED  BY <1>1, <6>2, <6>3
        <5>3. QED  BY <5>1, <5>2
      <4>4. QED  BY <1>2, <1>3, <4>1, <4>2, <4>3
    <3>2. CASE ~(i <= n)
      <4>1. nth_pkt(pool, i) = A + i - n  BY <1>4, <3>2
      <4>2. A + i - n \in 1..A + k - n /\ A + i - n \notin 1..A  BY <1>1, <3>2
      <4>3. ASSUME NEW j \in 1..k, i # j PROVE nth_pkt(pool, j) # A + i - n
        <5>1. CASE j <= n
          <6>1. j \in 1..n  BY <1>1, <5>1
          <6>2. nth_pkt(pool, j) \in 1..A  BY <1>2, <1>4, <5>1, <6>1
          <6>3. QED  BY <4>2, <6>2
        <5>2. CASE ~(j <= n)
          <6>1. nth_pkt(pool, j) = A + j - n  BY <1>4, <5>2
          <6>2. A + j - n # A + i - n  BY <1>1, <4>3
          <6>3. QED  BY <6>1, <6>2
        <5>3. QED  BY <5>1, <5>2
      <4>4. QED  BY <1>3, <2>1, <4>1, <4>2, <4>3
    <3>3. QED  BY <3>1, <3>2
  <2>6. ASSUME NEW b \in 1..after.allocated
        PROVE  (b \in B /\ b \notin FreeBuffers(pool)) \/ \E i \in 1..k : b = nth_pkt(pool, i)
    <3>1. CASE b \in FreeBuffers(pool)
      <4>1. PICK i \in 1..n : b = f[i]  BY <1>2, <3>1
      <4>2. i \in 1..k /\ i <= n  BY <1>1, <1>8
      <4>3. QED  BY <1>4, <4>1, <4>2
    <3>2. CASE b \in 1..A /\ b \notin FreeBuffers(pool)  BY <1>3, <3>2
    <3>3. CASE b \notin 1..A
      <4>1. b - A + n \in 1..k /\ ~(b - A + n <= n) /\ A + (b - A + n) - n = b
        BY <1>1, <1>8, <2>1, <3>3
      <4>2. b = nth_pkt(pool, b - A + n)  BY <1>4, <4>1
      <4>3. QED  BY <4>1, <4>2
    <3>4. QED  BY <3>1, <3>2, <3>3
  <2>7. QED  BY <1>1, <1>3, <2>2, <2>3, <2>4, <2>5, <2>6 DEF A, g, B
<1>9. QED  BY <1>1, <1>7, <1>8

(***************************************************************************)
(* Refilling the ring                                                      *)
(***************************************************************************)
(* After a refill the ring is full: the slots from the producer pointer to *)
(* its end hold the buffers taken from the pool, the others what they did, *)
(* and the buffers that are not new have their contents.                   *)
LEMMA Refilled ==
    ASSUME IInv, NEW follows, Refill(cq_cons_ptr, follows), worth_refilling(missing(cq_cons_ptr)),
           NEW n, n = cq_cons_ptr + SIZE - prod_ptr
    PROVE  /\ n \in Nat /\ prod_ptr' = cq_cons_ptr + SIZE /\ pool' = alloc_pkts(pool, n)
           /\ \A p \in prod_ptr..cq_cons_ptr + SIZE - 1 :
                /\ rx_info'[slot(p)] = nth_pkt(pool, p - prod_ptr + 1)
                /\ buf'[slot(p)] = nth_pkt(pool, p - prod_ptr + 1)
                /\ p - prod_ptr + 1 \in 1..n
           /\ \A p \in cq_cons_ptr..prod_ptr - 1 :
                rx_info'[slot(p)] = rx_info[slot(p)] /\ buf'[slot(p)] = buf[slot(p)]
           /\ DOMAIN rx_info' = Slots /\ DOMAIN buf' = Slots
           /\ rx_info' = [s \in Slots |-> rx_info'[s]] /\ buf' = [s \in Slots |-> buf'[s]]
           /\ data' = data \o [i \in 1..pool'.allocated - pool.allocated |-> 0]
           /\ mmio' = mmio \o <<write("prod", cq_cons_ptr + SIZE)>> \o follows
<1> DEFINE c == cq_cons_ptr
           P == prod_ptr
           filled == {slot(p) : p \in P..P + n - 1}
           nth(s) == CHOOSE k \in 1..n : slot(P + k - 1) = s
           info(f) == [s \in Slots |-> IF s \in filled THEN nth_pkt(pool, nth(s)) ELSE f[s]]
<1>1. TypeOK /\ Pointers /\ InUse  BY DEF IInv
<1>2. c \in Nat /\ P \in Nat /\ c <= P /\ P <= c + SIZE /\ SIZE \in Nat  BY <1>1, Order, Sizes
<1>3. n \in Nat /\ P + n = c + SIZE  BY <1>2
<1>4. missing(c) = n  BY <1>2 DEF missing
<1>5. /\ prod_ptr' = P + n /\ rx_info' = info(rx_info) /\ buf' = info(buf)
      /\ pool' = alloc_pkts(pool, n)
      /\ data' = data \o [i \in 1..pool'.allocated - pool.allocated |-> 0]
      /\ mmio' = mmio \o <<write("prod", P + n)>> \o follows
  BY <1>4 DEF Refill
<1>6. \A p, q \in c..c + SIZE - 1 : p # q => slot(p) # slot(q)  BY <1>1, RingSlots
<1>7. ASSUME NEW p \in c..c + SIZE - 1 PROVE slot(p) \in Slots
  <2>1. p \in Nat  BY <1>2
  <2>2. QED  BY <2>1, SlotFacts
<1> HIDE DEF c, P
<1>8. ASSUME NEW p \in P..c + SIZE - 1
      PROVE  /\ slot(p) \in filled /\ p \in c..c + SIZE - 1
             /\ p - P + 1 \in 1..n /\ nth(slot(p)) = p - P + 1
  <2>1. p \in P..P + n - 1 /\ p \in c..c + SIZE - 1 /\ p - P + 1 \in 1..n /\ P + (p - P + 1) - 1 = p
    BY <1>2, <1>3
  <2>2. ASSUME NEW k \in 1..n, slot(P + k - 1) = slot(p) PROVE k = p - P + 1
    <3>1. P + k - 1 \in c..c + SIZE - 1  BY <1>2, <1>3
    <3>2. P + k - 1 = p  BY <1>6, <2>1, <2>2, <3>1
    <3>3. QED  BY <1>2, <1>3, <3>2
  <2>3. nth(slot(p)) = p - P + 1  BY <2>1, <2>2
  <2>4. QED  BY <2>1, <2>3
<1>9. ASSUME NEW p \in c..P - 1
      PROVE  slot(p) \notin filled /\ p \in c..c + SIZE - 1
  <2>1. p \in c..c + SIZE - 1  BY <1>2
  <2>2. ASSUME NEW q \in P..P + n - 1 PROVE slot(q) # slot(p)
    <3>1. q \in c..c + SIZE - 1 /\ q # p  BY <1>2, <1>3
    <3>2. QED  BY <1>6, <2>1, <3>1
  <2>3. QED  BY <2>1, <2>2
<1> HIDE DEF filled, nth
<1>10. ASSUME NEW p \in P..c + SIZE - 1
       PROVE  /\ rx_info'[slot(p)] = nth_pkt(pool, p - P + 1) /\ buf'[slot(p)] = nth_pkt(pool, p - P + 1)
              /\ p - P + 1 \in 1..n
  BY <1>5, <1>7, <1>8
<1>11. ASSUME NEW p \in c..P - 1
       PROVE  rx_info'[slot(p)] = rx_info[slot(p)] /\ buf'[slot(p)] = buf[slot(p)]
  BY <1>5, <1>7, <1>9
<1>12. /\ DOMAIN rx_info' = Slots /\ DOMAIN buf' = Slots
       /\ rx_info' = [s \in Slots |-> rx_info'[s]] /\ buf' = [s \in Slots |-> buf'[s]]
  BY <1>5
<1> HIDE DEF info
<1>13. QED  BY <1>3, <1>5, <1>10, <1>11, <1>12 DEF c, P

(* Every slot of the ring is that of one pointer of the turn after c.      *)
LEMMA EveryRingSlot ==
    ASSUME TypeOK, Pointers, NEW s \in Slots
    PROVE  \E p \in cq_cons_ptr..cq_cons_ptr + SIZE - 1 :
             slot(p) = s /\ (p \in cq_cons_ptr..prod_ptr - 1 \/ p \in prod_ptr..cq_cons_ptr + SIZE - 1)
<1>1. cq_cons_ptr \in Nat /\ prod_ptr \in Nat /\ SIZE \in Nat  BY Order, Sizes
<1>2. PICK p \in cq_cons_ptr..cq_cons_ptr + SIZE - 1 : slot(p) = s  BY <1>1, SlotFacts
<1>3. p \in cq_cons_ptr..prod_ptr - 1 \/ p \in prod_ptr..cq_cons_ptr + SIZE - 1  BY <1>1
<1>4. QED  BY <1>2, <1>3

(* New buffers are empty, and the others keep their contents.              *)
LEMMA NewBuffers ==
    ASSUME TypeOK, NEW k \in Nat, data' = data \o [i \in 1..k |-> 0]
    PROVE  /\ data' \in Seq(Nat) /\ Len(data') = pool.allocated + k
           /\ \A i \in 1..pool.allocated : data'[i] = data[i]
<1> DEFINE z == [i \in 1..k |-> 0]
<1>1. data \in Seq(Nat) /\ Len(data) = pool.allocated /\ pool.allocated \in Nat  BY DEF TypeOK
<1>2. z \in Seq(Nat) /\ Len(z) = k
  <2>1. z \in [1..k -> Nat]  OBVIOUS
  <2>2. z \in Seq(Nat)  BY <2>1, SeqDef
  <2>3. QED  BY <2>2, LenProperties
<1> HIDE DEF z
<1>3. /\ data \o z \in Seq(Nat) /\ Len(data \o z) = Len(data) + Len(z)
      /\ \A i \in 1..Len(data) + Len(z) : (data \o z)[i] = IF i <= Len(data) THEN data[i] ELSE z[i - Len(data)]
  BY <1>1, <1>2, ConcatProperties
<1>4. \A i \in 1..pool.allocated : i <= Len(data) /\ i \in 1..Len(data) + Len(z)  BY <1>1, <1>2
<1>5. QED  BY <1>1, <1>2, <1>3, <1>4 DEF z

(* What a refill posts: the producer pointer, if it moved, and then what   *)
(* the caller does.                                                        *)
LEMMA RefillPosted ==
    ASSUME IInv, NEW follows, follows = <<>> \/ follows = <<write("enable", 1)>>,
           Refill(cq_cons_ptr, follows)
    PROVE  mmio' \in Seq(Write) /\ PostedWrites(mmio', hw_prod, hw_cq_cons, prod_ptr', cq_cons_ptr)
<1>1. TypeOK /\ Pointers /\ Posted  BY DEF IInv
<1>2. /\ hw_prod \in Nat /\ hw_cq_cons \in Nat /\ prod_ptr \in Nat /\ cq_cons_ptr \in Nat
      /\ prod_ptr <= cq_cons_ptr + SIZE /\ cq_cons_ptr + SIZE \in Nat
  <2>1. /\ hw_prod \in Nat /\ hw_cq_cons \in Nat /\ prod_ptr \in Nat /\ cq_cons_ptr \in Nat
        /\ prod_ptr <= cq_cons_ptr + SIZE
    BY <1>1, Order
  <2>2. QED  BY <2>1, Sizes
<1>3. mmio \in Seq(Write)  BY <1>1, MmioWrites
<1>4. PICK m \in Seq(Write) :
        mmio' = m \o follows /\ PostedWrites(m, hw_prod, hw_cq_cons, prod_ptr', cq_cons_ptr)
  <2>1. CASE ~worth_refilling(missing(cq_cons_ptr))
    <3>1. mmio' = mmio \o follows /\ prod_ptr' = prod_ptr  BY <2>1 DEF Refill
    <3>2. QED  BY <1>1, <1>3, <3>1 DEF Posted
  <2>2. CASE worth_refilling(missing(cq_cons_ptr))
    <3> DEFINE w == write("prod", cq_cons_ptr + SIZE)
    <3>1. mmio' = mmio \o <<w>> \o follows /\ prod_ptr' = cq_cons_ptr + SIZE  BY <2>2, Refilled
    <3>2. w \in Write  BY <1>2 DEF Write, write, Register
    <3>3. PostedWrites(Append(mmio, w), hw_prod, hw_cq_cons, prod_ptr', cq_cons_ptr)
      BY <1>1, <1>2, <1>3, <3>1, PostProd DEF Posted
    <3> HIDE DEF w
    <3>4. Append(mmio, w) = mmio \o <<w>> /\ Append(mmio, w) \in Seq(Write)
      BY <1>3, <3>2, AppendIsConcat, AppendProperties
    <3>5. QED  BY <3>1, <3>3, <3>4
  <2>3. QED  BY <2>1, <2>2
<1>5. prod_ptr' \in Nat
  <2>1. CASE ~worth_refilling(missing(cq_cons_ptr))  BY <1>2, <2>1 DEF Refill
  <2>2. CASE worth_refilling(missing(cq_cons_ptr))
    <3>1. prod_ptr' = cq_cons_ptr + SIZE  BY <2>2, Refilled
    <3>2. QED  BY <1>2, <3>1
  <2>3. QED  BY <2>1, <2>2
<1>6. CASE follows = <<>>
  <2>1. mmio' = m  BY <1>4, <1>6, ConcatEmptySeq
  <2>2. QED  BY <1>4, <2>1
<1>7. CASE follows = <<write("enable", 1)>>
  <2> DEFINE w == write("enable", 1)
  <2>1. w \in Write  BY DEF Write, write, Register
  <2>2. PostedWrites(Append(m, w), hw_prod, hw_cq_cons, prod_ptr', cq_cons_ptr)
    BY <1>2, <1>4, <1>5, PostEnable
  <2>3. mmio' = m \o <<w>>  BY <1>4, <1>7
  <2> HIDE DEF w
  <2>4. Append(m, w) = m \o <<w>> /\ Append(m, w) \in Seq(Write)
    BY <2>1, AppendIsConcat, AppendProperties
  <2>5. QED  BY <2>2, <2>3, <2>4
<1>8. QED  BY <1>6, <1>7

(* After a refill every slot holds a buffer, each another one.             *)
LEMMA RefilledOwned ==
    ASSUME IInv, NEW follows, Refill(cq_cons_ptr, follows), worth_refilling(missing(cq_cons_ptr)),
           UNCHANGED <<engine, upstream>>
    PROVE  /\ BuffersOwned'
           /\ rx_info' \in [Slots -> Buffers(pool)'] /\ buf' \in [Slots -> Buffers(pool)' \cup {None}]
           /\ Buffers(pool) \subseteq Buffers(pool)' /\ pool.allocated <= pool'.allocated
           /\ pool'.allocated \in Nat /\ pool'.free \in Seq(Buffers(pool)')
           /\ pool' = [allocated |-> pool'.allocated, free |-> pool'.free]
<1> DEFINE c == cq_cons_ptr
           P == prod_ptr
           n == c + SIZE - P
           got(p) == nth_pkt(pool, p - P + 1)
<1>1. TypeOK /\ Pointers /\ Records /\ InUse /\ Frames /\ BuffersOwned  BY DEF IInv
<1>2. c \in Nat /\ P \in Nat /\ c <= P /\ P <= c + SIZE /\ SIZE \in Nat /\ None \notin Buffers(pool)
  <2>1. pool.allocated \in Nat  BY <1>1 DEF TypeOK
  <2>2. None \notin Buffers(pool)  BY <2>1 DEF Buffers, None
  <2>3. QED  BY <1>1, <2>2, Order, Sizes
<1>3. /\ n \in Nat /\ pool' = alloc_pkts(pool, n)
      /\ \A p \in P..c + SIZE - 1 :
           rx_info'[slot(p)] = got(p) /\ buf'[slot(p)] = got(p) /\ p - P + 1 \in 1..n
      /\ \A p \in c..P - 1 : rx_info'[slot(p)] = rx_info[slot(p)] /\ buf'[slot(p)] = buf[slot(p)]
      /\ rx_info' = [s \in Slots |-> rx_info'[s]] /\ buf' = [s \in Slots |-> buf'[s]]
  BY Refilled
<1>4. /\ pool' = [allocated |-> pool'.allocated, free |-> pool'.free]
      /\ pool'.allocated \in Nat /\ pool.allocated <= pool'.allocated
      /\ pool'.free \in Seq(Buffers(pool')) /\ IsInjective(pool'.free)
      /\ FreeBuffers(pool') \subseteq FreeBuffers(pool)
      /\ \A i \in 1..n :
           /\ nth_pkt(pool, i) \in Buffers(pool') /\ nth_pkt(pool, i) \notin FreeBuffers(pool')
           /\ nth_pkt(pool, i) \in FreeBuffers(pool) \/ nth_pkt(pool, i) \notin Buffers(pool)
           /\ \A j \in 1..n : i # j => nth_pkt(pool, i) # nth_pkt(pool, j)
      /\ \A b \in Buffers(pool') :
           \/ b \in FreeBuffers(pool')
           \/ b \in Buffers(pool) /\ b \notin FreeBuffers(pool)
           \/ \E i \in 1..n : b = nth_pkt(pool, i)
  BY <1>1, <1>3, AllocPkts DEF BuffersOwned
<1>5. /\ Buffers(pool)' = Buffers(pool') /\ FreeBuffers(pool)' = FreeBuffers(pool')
      /\ IsInjective(pool.free)' = IsInjective(pool'.free)
  BY DEF Buffers, FreeBuffers, Range, IsInjective
<1>6. Buffers(pool) \subseteq Buffers(pool') /\ None \notin Buffers(pool')
  BY <1>1, <1>4 DEF Buffers, None, TypeOK
<1>7. ASSUME NEW p \in c..P - 1
      PROVE  /\ slot(p) \in Slots /\ rx_info'[slot(p)] = rx_info[slot(p)]
             /\ rx_info[slot(p)] \in Buffers(pool) /\ rx_info[slot(p)] \notin FreeBuffers(pool)
  <2>1. p \in Nat  BY <1>2
  <2>2. slot(p) \in Slots /\ rx_info[slot(p)] # None  BY <1>1, <2>1, SlotFacts DEF InUse
  <2>3. QED  BY <1>1, <1>3, <2>2 DEF TypeOK, BuffersOwned
<1>8. ASSUME NEW p \in P..c + SIZE - 1
      PROVE  /\ rx_info'[slot(p)] = got(p) /\ p - P + 1 \in 1..n
             /\ got(p) \in Buffers(pool') /\ got(p) \notin FreeBuffers(pool')
             /\ got(p) \in FreeBuffers(pool) \/ got(p) \notin Buffers(pool)
  BY <1>3, <1>4
<1>9. ASSUME NEW s \in Slots
      PROVE  \/ \E p \in c..P - 1 : slot(p) = s
             \/ \E p \in P..c + SIZE - 1 : slot(p) = s
  BY <1>1, EveryRingSlot
<1> HIDE DEF c, P, n, got
<1>10. ASSUME NEW s \in Slots
       PROVE  /\ rx_info'[s] \in Buffers(pool') /\ rx_info'[s] \notin FreeBuffers(pool')
              /\ buf'[s] \in Buffers(pool') \cup {None}
  <2>1. CASE \E p \in c..P - 1 : slot(p) = s
    <3>1. PICK p \in c..P - 1 : slot(p) = s  BY <2>1
    <3>2. buf'[s] = buf[s] /\ buf[s] \in Buffers(pool) \cup {None}  BY <1>1, <1>3, <3>1 DEF TypeOK
    <3>3. QED  BY <1>4, <1>6, <1>7, <3>1, <3>2
  <2>2. CASE \E p \in P..c + SIZE - 1 : slot(p) = s
    <3>1. PICK p \in P..c + SIZE - 1 : slot(p) = s  BY <2>2
    <3>2. buf'[s] = got(p)  BY <1>3, <3>1
    <3>3. QED  BY <1>8, <3>1, <3>2
  <2>3. QED  BY <1>9, <2>1, <2>2
<1>11. ASSUME NEW s \in Slots, NEW u \in Slots, s # u PROVE rx_info'[s] # rx_info'[u]
  <2>1. ASSUME NEW p \in c..P - 1, NEW q \in P..c + SIZE - 1 PROVE rx_info'[slot(p)] # rx_info'[slot(q)]
    BY <1>7, <1>8
  <2>2. CASE (\E p \in c..P - 1 : slot(p) = s) /\ (\E q \in c..P - 1 : slot(q) = u)
    <3>1. /\ rx_info'[s] = rx_info[s] /\ rx_info'[u] = rx_info[u] /\ rx_info[s] \in Buffers(pool)
      BY <1>7, <2>2
    <3>2. rx_info[s] # None  BY <1>2, <3>1
    <3>3. QED  BY <1>1, <1>11, <3>1, <3>2 DEF BuffersOwned
  <2>3. CASE (\E p \in P..c + SIZE - 1 : slot(p) = s) /\ (\E q \in P..c + SIZE - 1 : slot(q) = u)
    <3>1. PICK p \in P..c + SIZE - 1 : slot(p) = s  BY <2>3
    <3>2. PICK q \in P..c + SIZE - 1 : slot(q) = u  BY <2>3
    <3>3. p - P + 1 # q - P + 1  BY <1>2, <1>11, <3>1, <3>2
    <3>4. p - P + 1 \in 1..n /\ q - P + 1 \in 1..n  BY <1>8
    <3>5. got(p) # got(q)  BY <1>4, <3>3, <3>4 DEF got
    <3>6. QED  BY <1>8, <3>1, <3>2, <3>5
  <2>4. QED  BY <1>9, <2>1, <2>2, <2>3
<1>12. ASSUME NEW b \in Buffers(pool'), b \notin FreeBuffers(pool')
       PROVE  \E s \in Slots : rx_info'[s] = b
  <2>1. CASE b \in Buffers(pool) /\ b \notin FreeBuffers(pool)
    <3>1. PICK s \in Slots : rx_info[s] = b  BY <1>1, <2>1 DEF BuffersOwned
    <3>2. CASE \E p \in c..P - 1 : slot(p) = s  BY <1>7, <3>1, <3>2
    <3>3. CASE \E p \in P..c + SIZE - 1 : slot(p) = s
      <4>1. rx_info[s] = None  BY <1>1, <3>3 DEF InUse, c, P
      <4>2. QED  BY <1>2, <2>1, <3>1, <4>1
    <3>4. QED  BY <1>9, <3>2, <3>3
  <2>2. CASE \E i \in 1..n : b = nth_pkt(pool, i)
    <3>1. PICK i \in 1..n : b = nth_pkt(pool, i)  BY <2>2
    <3>2. /\ P + i - 1 \in P..c + SIZE - 1 /\ (P + i - 1) - P + 1 = i /\ P + i - 1 \in Nat
      BY <1>2 DEF n
    <3>3. slot(P + i - 1) \in Slots /\ rx_info'[slot(P + i - 1)] = b
      BY <1>8, <3>1, <3>2, SlotFacts DEF got
    <3>4. QED  BY <3>3
  <2>3. QED  BY <1>4, <1>12, <2>1, <2>2
<1>13. /\ Len(engine) \in Nat /\ Len(upstream) \in Nat /\ hw_cq_prod \in Nat /\ delivered \in Nat
       /\ delivered + Len(upstream) = hw_cq_prod /\ hw_cq_prod + Len(engine) <= P /\ c <= delivered
  <2> DEFINE e == Len(engine)
             u == Len(upstream)
  <2>1. /\ e \in Nat /\ u \in Nat /\ hw_cq_prod \in Nat /\ hw_cons \in Nat /\ delivered = hw_cq_prod - u
        /\ hw_cons = hw_cq_prod + e /\ hw_cons <= P /\ delivered \in Nat /\ c <= delivered
    BY <1>1, Order DEF c, P
  <2> HIDE DEF e, u
  <2>2. delivered + u = hw_cq_prod  BY <2>1
  <2>3. QED  BY <2>1, <2>2 DEF e, u
<1>14. ASSUME NEW i \in 1..Len(engine) PROVE engine[i].pkt = rx_info'[slot(engine[i].index)]
  <2>1. hw_cq_prod + i - 1 \in c..P - 1  BY <1>2, <1>13
  <2>2. CompletionOf(engine[i], hw_cq_prod + i - 1)  BY <1>1 DEF Frames
  <2>3. engine[i].index = hw_cq_prod + i - 1 /\ engine[i].pkt = rx_info[slot(hw_cq_prod + i - 1)]
    BY <2>2 DEF CompletionOf
  <2>4. QED  BY <1>7, <2>1, <2>3
<1>15. ASSUME NEW i \in 1..Len(upstream) PROVE upstream[i].cpl.pkt = rx_info'[slot(upstream[i].cpl.index)]
  <2>1. delivered + i - 1 \in c..P - 1  BY <1>2, <1>13
  <2>2. CompletionOf(upstream[i].cpl, delivered + i - 1)  BY <1>1 DEF Frames
  <2>3. /\ upstream[i].cpl.index = delivered + i - 1
        /\ upstream[i].cpl.pkt = rx_info[slot(delivered + i - 1)]
    BY <2>2 DEF CompletionOf
  <2>4. QED  BY <1>7, <2>1, <2>3
<1>16. BuffersOwned'  BY <1>4, <1>5, <1>10, <1>11, <1>12, <1>14, <1>15 DEF BuffersOwned
<1>17. rx_info' \in [Slots -> Buffers(pool')] /\ buf' \in [Slots -> Buffers(pool') \cup {None}]
  BY <1>3, <1>10
<1>18. QED  BY <1>4, <1>5, <1>6, <1>16, <1>17

LEMMA RefillStep ==
    ASSUME IInv, NEW follows, follows = <<>> \/ follows = <<write("enable", 1)>>,
           Refill(cq_cons_ptr, follows), cons_ptr' = cq_cons_ptr, handler' = "idle",
           UNCHANGED <<port, cq_cons_ptr, readerVars, deviceVars, cq_buf, upstream>>
    PROVE  IInv'
<1> USE DEF deviceVars
<1> DEFINE c == cq_cons_ptr
           P == prod_ptr
<1>1. TypeOK /\ Pointers /\ Posted /\ Records /\ InUse /\ Frames /\ BuffersOwned  BY DEF IInv
<1>2. /\ c \in Nat /\ P \in Nat /\ c <= P /\ P <= c + SIZE /\ SIZE \in Nat /\ MIN_REFILL \in Nat \ {0}
      /\ c <= delivered /\ delivered <= P /\ hw_cons \in Nat /\ c <= hw_cons /\ hw_cons <= P
      /\ hw_prod \in Nat /\ hw_prod <= P /\ delivered \in Nat
  BY <1>1, Order, Sizes
<1>3. ReadersInv'  BY ReadersUnchanged
<1>4. mmio' \in Seq(Write) /\ PostedWrites(mmio', hw_prod, hw_cq_cons, prod_ptr', cq_cons_ptr)
  BY RefillPosted
<1>5. Posted'  BY <1>4 DEF Posted
<1>6. Records'  BY <1>1 DEF Records, delivered
<1>7. delivered' = delivered  BY DEF delivered
<1>8. CASE ~worth_refilling(missing(c))
  <2>1. UNCHANGED <<prod_ptr, rx_info, buf, data, pool>>  BY <1>8 DEF Refill
  <2>2. TypeOK'
    <3>1. mmio' \in Seq([reg : {"prod", "cq_cons", "enable"}, val : Nat])  BY <1>4 DEF Write, Register
    <3>2. handler' \in {"open", "idle", "ring"} /\ cons_ptr' \in Nat  BY <1>2
    <3>3. QED  BY <1>1, <2>1, <3>1, <3>2 DEF TypeOK, readerVars
  <2>3. Pointers'
    <3>1. ~worth_refilling(missing(cons_ptr))'  BY <1>8, <2>1 DEF worth_refilling, missing
    <3>2. QED  BY <1>1, <1>2, <1>7, <2>1, <3>1 DEF Pointers
  <2>4. InUse'  BY <1>1, <2>1 DEF InUse
  <2>5. Frames'  BY <1>1, <1>7, <2>1 DEF Frames, CompletionOf
  <2>6. BuffersOwned'  BY <1>1, <2>1 DEF BuffersOwned
  <2>7. QED  BY <1>3, <1>5, <1>6, <2>2, <2>3, <2>4, <2>5, <2>6 DEF IInv, ReadersInv
<1>9. CASE worth_refilling(missing(c))
  <2> DEFINE n == c + SIZE - P
  <2>1. /\ BuffersOwned'
        /\ rx_info' \in [Slots -> Buffers(pool)'] /\ buf' \in [Slots -> Buffers(pool)' \cup {None}]
        /\ Buffers(pool) \subseteq Buffers(pool)' /\ pool.allocated <= pool'.allocated
        /\ pool'.allocated \in Nat /\ pool'.free \in Seq(Buffers(pool)')
        /\ pool' = [allocated |-> pool'.allocated, free |-> pool'.free]
    BY <1>9, RefilledOwned
  <2>2. /\ prod_ptr' = c + SIZE
        /\ \A p \in P..c + SIZE - 1 :
             rx_info'[slot(p)] = nth_pkt(pool, p - P + 1) /\ buf'[slot(p)] = nth_pkt(pool, p - P + 1)
        /\ \A p \in c..P - 1 : rx_info'[slot(p)] = rx_info[slot(p)] /\ buf'[slot(p)] = buf[slot(p)]
        /\ data' = data \o [i \in 1..pool'.allocated - pool.allocated |-> 0]
    BY <1>9, Refilled
  <2>3. /\ data' \in Seq(Nat) /\ Len(data') = pool'.allocated
        /\ \A i \in 1..pool.allocated : data'[i] = data[i]
    <3> DEFINE k == pool'.allocated - pool.allocated
    <3>1. pool.allocated \in Nat /\ pool'.allocated \in Nat /\ pool.allocated <= pool'.allocated
      BY <1>1, <2>1 DEF TypeOK
    <3>2. k \in Nat /\ pool.allocated + k = pool'.allocated  BY <3>1
    <3>3. data' = data \o [i \in 1..k |-> 0]  BY <2>2
    <3> HIDE DEF k
    <3>4. QED  BY <1>1, <3>2, <3>3, NewBuffers
  <2>4. ASSUME NEW p \in c..P - 1
        PROVE  rx_info[slot(p)] \in Buffers(pool)
    <3>1. p \in Nat  BY <1>2
    <3>2. slot(p) \in Slots /\ rx_info[slot(p)] # None  BY <1>1, <3>1, SlotFacts DEF InUse
    <3>3. QED  BY <1>1, <3>2 DEF TypeOK
  <2> HIDE DEF c, P
  <2>5. TypeOK'
    <3>1. mmio' \in Seq([reg : {"prod", "cq_cons", "enable"}, val : Nat])  BY <1>4 DEF Write, Register
    <3>2. handler' \in {"open", "idle", "ring"} /\ cons_ptr' \in Nat /\ prod_ptr' \in Nat
      <4>1. c + SIZE \in Nat  BY <1>2
      <4>2. QED  BY <1>2, <2>2, <4>1 DEF c
    <3> DEFINE Cpls(B) == [index : Nat, pkt : B, frame : Frame]
               Ups(B) == [ptr : Nat, cpl : Cpls(B)]
               B0 == Buffers(pool)
               B1 == Buffers(pool)'
    <3>3. engine \in Seq(Cpls(B0)) /\ upstream \in Seq(Ups(B0))  BY <1>1 DEF TypeOK
    <3>4. B0 \subseteq B1  BY <2>1
    <3> HIDE DEF B0, B1
    <3>5. Cpls(B0) \subseteq Cpls(B1)  BY <3>4
    <3>6. Ups(B0) \subseteq Ups(B1)  BY <3>5
    <3> HIDE DEF Cpls, Ups
    <3>7. engine \in Seq(Cpls(B1)) /\ upstream \in Seq(Ups(B1))  BY <3>3, <3>5, <3>6, SeqMonotonic
    <3>8. /\ engine' \in Seq([index : Nat, pkt : Buffers(pool)', frame : Frame])
          /\ upstream' \in Seq([ptr : Nat, cpl : [index : Nat, pkt : Buffers(pool)', frame : Frame]])
      BY <3>7 DEF Cpls, Ups, B1
    <3>9. rx_info' \in [Slots -> Buffers(pool)' \cup {None}]  BY <2>1
    <3>10. /\ port' = port /\ UNCHANGED <<cq_cons_ptr, cq_buf, hw_enabled, hw_prod, hw_cons, hw_cq_prod,
                                           hw_cq_cons, arrived, received>>
           /\ UNCHANGED <<pkt_rx_queue, pc, taken, got_none, overtaken>>
      BY DEF readerVars
    <3>11. QED  BY <1>1, <2>1, <2>3, <3>1, <3>2, <3>8, <3>9, <3>10 DEF TypeOK
  <2>6. Pointers'
    <3>1. SIZE - (prod_ptr' - cons_ptr') = 0  BY <1>2, <2>2 DEF c
    <3>2. ~worth_refilling(missing(cons_ptr))'
      <4>1. missing(cons_ptr)' = 0  BY <3>1 DEF missing
      <4>2. ~(0 >= MIN_REFILL)  BY <1>2
      <4>3. QED  BY <4>1, <4>2 DEF worth_refilling
    <3>3. hw_prod <= prod_ptr' /\ prod_ptr' <= cons_ptr' + SIZE /\ cons_ptr' <= cq_cons_ptr'
      BY <1>2, <2>2 DEF c, P
    <3>4. cq_cons_ptr' <= delivered' /\ cons_ptr' = cq_cons_ptr'  BY <1>2, <1>7 DEF c
    <3>5. QED  BY <1>1, <3>2, <3>3, <3>4 DEF Pointers
  <2>7. ASSUME NEW p \in c..c + SIZE - 1 PROVE slot(p) \in Slots /\ rx_info'[slot(p)] # None
    <3>1. p \in Nat  BY <1>2
    <3>2. slot(p) \in Slots /\ rx_info'[slot(p)] \in 1..pool'.allocated
      BY <2>1, <3>1, SlotFacts DEF Buffers
    <3>3. rx_info'[slot(p)] # 0  BY <2>1, <3>2
    <3>4. QED  BY <3>2, <3>3 DEF None
  <2>8. InUse'
    <3>1. \A p \in prod_ptr'..c + SIZE - 1 : FALSE  BY <1>2, <2>2
    <3>2. ASSUME NEW p \in hw_cons..prod_ptr' - 1 PROVE buf'[slot(p)] = rx_info'[slot(p)]
      <4>1. CASE p \in hw_cons..P - 1
        <5>1. p \in c..P - 1  BY <1>2, <4>1
        <5>2. buf[slot(p)] = rx_info[slot(p)]  BY <1>1, <4>1 DEF InUse, P
        <5>3. QED  BY <2>2, <5>1, <5>2
      <4>2. CASE p \in P..c + SIZE - 1  BY <2>2, <4>2
      <4>3. p \in hw_cons..P - 1 \/ p \in P..c + SIZE - 1  BY <1>2, <2>2
      <4>4. QED  BY <4>1, <4>2, <4>3
    <3>3. prod_ptr' - 1 = c + SIZE - 1 /\ cq_cons_ptr' = c /\ hw_cons' = hw_cons
      <4>1. prod_ptr' = c + SIZE  BY <2>2
      <4>2. cq_cons_ptr' = c /\ hw_cons' = hw_cons  BY DEF c
      <4>3. QED  BY <1>2, <4>1, <4>2
    <3>4. \A p \in cq_cons_ptr'..prod_ptr' - 1 : rx_info'[slot(p)] # None  BY <2>7, <3>3
    <3>5. \A p \in prod_ptr'..cq_cons_ptr' + SIZE - 1 : rx_info'[slot(p)] = None  BY <3>1, <3>3
    <3>6. \A p \in hw_cons'..prod_ptr' - 1 : buf'[slot(p)] = rx_info'[slot(p)]  BY <3>2, <3>3
    <3>7. QED  BY <3>4, <3>5, <3>6 DEF InUse
  <2>9. Frames'
    <3> DEFINE e == Len(engine)
               u == Len(upstream)
               w == hw_cq_prod
    <3>1. e \in Nat /\ u \in Nat /\ w \in Nat /\ w + e <= P /\ delivered = w - u /\ c <= w
      BY <1>1, Order DEF c, P
    <3> HIDE DEF e, u, w
    <3>2. ASSUME NEW i \in 1..e PROVE CompletionOf(engine[i], hw_cq_prod + i - 1)'
      <4>1. w + i - 1 \in c..P - 1  BY <1>2, <3>1
      <4>2. CompletionOf(engine[i], w + i - 1)  BY <1>1 DEF Frames, e, w
      <4>3. rx_info'[slot(w + i - 1)] = rx_info[slot(w + i - 1)]  BY <2>2, <4>1
      <4>4. QED  BY <4>2, <4>3 DEF CompletionOf, w
    <3>3. ASSUME NEW i \in 1..u PROVE CompletionOf(upstream[i].cpl, delivered + i - 1)'
      <4>1. delivered + i - 1 \in c..P - 1  BY <1>2, <3>1
      <4>2. CompletionOf(upstream[i].cpl, delivered + i - 1)  BY <1>1 DEF Frames, u
      <4>3. rx_info'[slot(delivered + i - 1)] = rx_info[slot(delivered + i - 1)]  BY <2>2, <4>1
      <4>4. QED  BY <1>7, <4>2, <4>3 DEF CompletionOf
    <3>4. ASSUME NEW p \in c..delivered - 1 PROVE data'[rx_info'[slot(p)]] = received[p + 1]
      <4>1. p \in c..P - 1  BY <1>2
      <4>2. rx_info'[slot(p)] = rx_info[slot(p)] /\ rx_info[slot(p)] \in 1..pool.allocated
        BY <2>2, <2>4, <4>1 DEF Buffers
      <4>3. data[rx_info[slot(p)]] = received[p + 1]  BY <1>1 DEF Frames, c
      <4>4. QED  BY <2>3, <4>2, <4>3
    <3>5. QED  BY <1>7, <3>2, <3>3, <3>4 DEF Frames, e, u, c
  <2>10. QED  BY <1>3, <1>5, <1>6, <2>1, <2>5, <2>6, <2>8, <2>9 DEF IInv, ReadersInv
<1>10. QED  BY <1>8, <1>9

LEMMA OpenRingStep ==
    ASSUME IInv, OpenRing
    PROVE  IInv'
<1>1. cons_ptr = cq_cons_ptr  BY DEF IInv, Pointers, OpenRing
<1>2. /\ Refill(cq_cons_ptr, <<write("enable", 1)>>) /\ cons_ptr' = cq_cons_ptr /\ handler' = "idle"
      /\ UNCHANGED <<port, cq_cons_ptr, readerVars, deviceVars, cq_buf, upstream>>
  BY <1>1 DEF OpenRing
<1>3. QED  BY <1>2, RefillStep

LEMMA ProcessRingStep ==
    ASSUME IInv, ProcessRing
    PROVE  IInv'
<1>1. ring_end = cq_cons_ptr  BY RingEnd DEF IInv
<1>2. /\ Refill(cq_cons_ptr, <<>>) /\ cons_ptr' = cq_cons_ptr /\ handler' = "idle"
      /\ UNCHANGED <<port, cq_cons_ptr, readerVars, deviceVars, cq_buf, upstream>>
  BY <1>1 DEF ProcessRing
<1>3. QED  BY <1>2, RefillStep

(***************************************************************************)
(* The theorems                                                            *)
(***************************************************************************)
LEMMA NextStep == IInv /\ [Next]_vars => IInv'
<1> SUFFICES ASSUME IInv, [Next]_vars PROVE IInv'
  OBVIOUS
<1>1. CASE OpenRing  BY <1>1, OpenRingStep
<1>2. CASE PortUp  BY <1>2, PortUpStep
<1>3. CASE ProcessCq  BY <1>3, ProcessCqStep
<1>4. CASE ProcessRing  BY <1>4, ProcessRingStep
<1>5. ASSUME NEW t \in READERS, Recv(t) \/ RecvWoken(t) \/ WaitPacket(t) PROVE IInv'
  BY <1>5, RecvStep
<1>6. CASE RecvNowait  BY <1>6, RecvNowaitStep
<1>7. CASE ApplyWrite  BY <1>7, ApplyWriteStep
<1>8. CASE Receive  BY <1>8, ReceiveStep
<1>9. CASE Complete  BY <1>9, CompleteStep
<1>10. CASE Deliver  BY <1>10, DeliverStep
<1>11. CASE UNCHANGED vars
  <2>1. UNCHANGED ringVars /\ UNCHANGED <<readerVars, cq_cons_ptr, received>>
    BY <1>11 DEF vars, driverVars, deviceVars, memoryVars, ringVars
  <2>2. TypeOK'
    BY <1>11 DEF IInv, TypeOK, vars, driverVars, readerVars, deviceVars, memoryVars
  <2>3. QED  BY <2>1, <2>2, RingUnchanged, ReadersUnchanged DEF IInv, RingInv, ReadersInv
<1>12. QED
  BY <1>1, <1>2, <1>3, <1>4, <1>5, <1>6, <1>7, <1>8, <1>9, <1>10, <1>11 DEF Next

(* In every reachable state the pointers of refill_buffers, process_rx_cq, *)
(* the queue managers and the posted writes between them are in the order  *)
(* IInv states, the slots between two of them hold what it says, and the   *)
(* frames not yet taken are where it says.                                 *)
THEOREM RxRingInvariant == Spec => []IInv
<1>1. Init => IInv  BY InitInv
<1>2. IInv /\ [Next]_vars => IInv'  BY NextStep
<1>3. QED  BY <1>1, <1>2, PTL DEF Spec

(* Every variable of the driver, of the readers, of the device and between *)
(* them keeps to its type.                                                 *)
THEOREM RxTypeCorrect == Spec => []TypeOK
<1>1. IInv => TypeOK  BY DEF IInv
<1>2. QED  BY <1>1, RxRingInvariant, PTL

(* The completion queue, no longer than the ring, never drops a record: a  *)
(* descriptor is posted behind the room its completion needs.              *)
THEOREM NoCompletionIsDropped == Spec => []NoCompletionDropped
<1>1. IInv => NoCompletionDropped  BY DEF IInv, Pointers, NoCompletionDropped
<1>2. QED  BY <1>1, RxRingInvariant, PTL

(* No completion makes process_rx_cq free a slot that is empty or freed    *)
(* already, and prepare_desc puts no buffer over another.                  *)
THEOREM DriverAssertionsHold == Spec => []AssertionsHold
<1>1. ASSUME IInv PROVE AssertionsHold
  <2>1. TypeOK /\ Pointers /\ Records /\ InUse  BY <1>1 DEF IInv
  <2>2. /\ cons_ptr \in Nat /\ cq_cons_ptr \in Nat /\ prod_ptr \in Nat /\ delivered \in Nat
        /\ cons_ptr <= cq_cons_ptr /\ delivered <= prod_ptr
        /\ SIZE \in Nat /\ prod_ptr <= cq_cons_ptr + SIZE
    BY <2>1, Order, Sizes
  <2>3. ASSUME NEW p \in prod_ptr..cons_ptr + SIZE - 1 PROVE rx_info[slot(p)] = None
    <3>1. p \in prod_ptr..cq_cons_ptr + SIZE - 1  BY <2>2
    <3>2. QED  BY <2>1, <3>1 DEF InUse
  <2>4. ASSUME NEW p \in cq_cons_ptr..cq_end - 1
        PROVE  /\ p \in cq_cons_ptr..cq_cons_ptr + SIZE - 1 /\ cpl_slot(p) = slot(p)
               /\ rx_info[cpl_slot(p)] # None
    <3>1. p \in cq_cons_ptr..delivered - 1 /\ cpl_slot(p) = slot(p)  BY <2>1, NewCompletions
    <3>2. p \in cq_cons_ptr..prod_ptr - 1 /\ p \in cq_cons_ptr..cq_cons_ptr + SIZE - 1
      BY <2>2, <3>1
    <3>3. QED  BY <2>1, <3>1, <3>2 DEF InUse
  <2>5. ASSUME NEW p \in cq_cons_ptr..cq_end - 1, NEW q \in cq_cons_ptr..cq_end - 1, p # q
        PROVE  cpl_slot(p) # cpl_slot(q)
    BY <2>1, <2>4, <2>5, RingSlots
  <2>6. QED  BY <2>3, <2>4, <2>5 DEF AssertionsHold
<1>2. IInv => AssertionsHold  BY <1>1
<1>3. QED  BY <1>2, RxRingInvariant, PTL

(* alloc_pkt and free_pkt lose no buffer and hand none out twice, and the  *)
(* device writes into no buffer but that of the descriptor it was given.   *)
THEOREM BuffersAreOwned == Spec => []BuffersOwned
<1>1. IInv => BuffersOwned  BY DEF IInv
<1>2. QED  BY <1>1, RxRingInvariant, PTL

(* However completions, posted writes and refills interleave: when nothing *)
(* is under way, refill_buffers has left the device all but at most        *)
(* MIN_REFILL - 1 of its descriptors.                                      *)
THEOREM RingIsKeptFull == Spec => []RingKeptFull
<1>1. ASSUME IInv, Quiescent PROVE hw_prod - hw_cons > SIZE - MIN_REFILL
  <2>1. TypeOK /\ Pointers /\ Posted /\ Records  BY <1>1 DEF IInv
  <2>2. Len(mmio) = 0 /\ Len(engine) = 0 /\ Len(upstream) = 0  BY <1>1 DEF Quiescent
  <2>3. hw_prod = prod_ptr
    <3>1. Latest(mmio, "prod", hw_prod, prod_ptr)  BY <2>1 DEF Posted, PostedWrites
    <3>2. ~\E j \in 1..Len(mmio) : mmio[j] = write("prod", prod_ptr)  BY <2>2
    <3>3. QED  BY <3>1, <3>2 DEF Latest
  <2>4. hw_cons = delivered
    <3> DEFINE e == Len(engine)
               u == Len(upstream)
    <3>1. e = 0 /\ u = 0 /\ hw_cons = hw_cq_prod + e /\ delivered = hw_cq_prod - u /\ hw_cq_prod \in Nat
      BY <2>1, <2>2, Order
    <3> HIDE DEF e, u
    <3>2. QED  BY <3>1
  <2>5. cq_cons_ptr \in Nat /\ delivered \in Nat /\ cq_cons_ptr <= delivered  BY <2>1, Order
  <2>6. cq_cons_ptr = delivered
    <3>1. SUFFICES ASSUME cq_cons_ptr < delivered PROVE FALSE
      BY <2>5
    <3>2. cq_cons_ptr \in cq_cons_ptr..delivered - 1  BY <2>5, <3>1
    <3>3. cq_buf[Cq!slot(cq_cons_ptr)].phase = Cq!phase(cq_cons_ptr)  BY <2>1, <3>2 DEF Records
    <3>4. Cq!is_new(cq_buf, cq_cons_ptr)  BY <2>5, <3>3, CqSlotFacts, NewRecord
    <3>5. QED  BY <1>1, <3>4 DEF Quiescent
  <2>7. handler = "idle" /\ cons_ptr = cq_cons_ptr  BY <1>1, <2>1 DEF Quiescent, Pointers
  <2>8. ~(SIZE - (prod_ptr - cons_ptr) >= MIN_REFILL)
    BY <2>1, <2>7 DEF Pointers, worth_refilling, missing
  <2>9. prod_ptr \in Nat /\ SIZE \in Nat /\ MIN_REFILL \in Nat  BY <2>1, Order, Sizes
  <2>10. QED  BY <2>3, <2>4, <2>5, <2>6, <2>7, <2>8, <2>9
<1>2. IInv => RingKeptFull  BY <1>1 DEF RingKeptFull
<1>3. QED  BY <1>2, RxRingInvariant, PTL

(* recv and wait never leave a reader asleep beside a packet.              *)
THEOREM NoWakeupIsLost == Spec => []NoLostWakeup
<1>1. IInv => NoLostWakeup  BY DEF IInv
<1>2. QED  BY <1>1, RxRingInvariant, PTL

(* recv comes back with a packet, but for one that another task took from  *)
(* under it.                                                               *)
THEOREM RecvHasPacket == Spec => []RecvGetsPacket
<1>1. IInv => RecvGetsPacket  BY DEF IInv
<1>2. QED  BY <1>1, RxRingInvariant, PTL

(* A packet handed to a reader is the next of the frames received.         *)
LEMMA TakeSends ==
    ASSUME IInv, NEW others, pkt_rx_queue # <<>>, Take(others), UNCHANGED <<cq_cons_ptr, received>>
    PROVE  Line!Send
<1>1. TypeOK /\ Pointers /\ TakenInOrder  BY DEF IInv
<1>2. taken' = Append(taken, received[Len(taken) + 1])  BY <1>1, TakeStep
<1> DEFINE q == Len(pkt_rx_queue)
           n == Len(taken)
           r == Len(received)
<1>3. q \in Nat \ {0}  BY <1>1, EmptySeq DEF TypeOK
<1>4. n \in Nat /\ r \in Nat /\ n + q = cq_cons_ptr /\ cq_cons_ptr <= r
  BY <1>1, Order DEF TakenInOrder
<1> HIDE DEF q, n, r
<1>5. n < r  BY <1>3, <1>4
<1>6. QED  BY <1>2, <1>5 DEF Line!Send, Unsealed, n, r

(* The steps of the ring are those of the line: a frame that finds a       *)
(* descriptor is taken, recv hands on the next one whoever calls it, and   *)
(* nothing else shows.  That every frame is handed on is liveness and left *)
(* to the run.                                                             *)
THEOREM RxStepsAreLine ==
    Spec => /\ Line!LineInit
            /\ [][Line!Accept \/ Line!Send \/ Line!AcceptAndSend]_<<received, taken>>
<1>1. Init => Line!LineInit  BY DEF Init, Line!LineInit
<1>2. IInv /\ [Next]_vars => [Line!Accept \/ Line!Send \/ Line!AcceptAndSend]_<<received, taken>>
  <2> SUFFICES ASSUME IInv, [Next]_vars
               PROVE  [Line!Accept \/ Line!Send \/ Line!AcceptAndSend]_<<received, taken>>
    OBVIOUS
  <2>1. CASE OpenRing \/ PortUp \/ ProcessCq \/ ProcessRing
    BY <2>1 DEF OpenRing, PortUp, ProcessCq, ProcessRing, deviceVars, readerVars
  <2>2. ASSUME NEW t \in READERS, Recv(t) \/ RecvWoken(t) \/ WaitPacket(t)
        PROVE  Line!Send \/ UNCHANGED <<received, taken>>
    <3>1. UNCHANGED <<cq_cons_ptr, received>>
      BY <2>2 DEF Recv, RecvWoken, WaitPacket, driverVars, deviceVars
    <3>2. \/ pkt_rx_queue # <<>> /\ Take(READERS)
          \/ pkt_rx_queue # <<>> /\ Take(READERS \ {t})
          \/ taken' = taken
      BY <2>2 DEF Recv, RecvWoken, WaitPacket
    <3>3. QED  BY <3>1, <3>2, TakeSends
  <2>3. CASE RecvNowait
    <3>1. pkt_rx_queue # <<>> /\ Take(READERS) /\ UNCHANGED <<cq_cons_ptr, received>>
      BY <2>3 DEF RecvNowait, driverVars, deviceVars
    <3>2. Line!Send  BY <3>1, TakeSends
    <3>3. QED  BY <3>2
  <2>4. CASE ApplyWrite \/ Complete \/ Deliver
    BY <2>4 DEF ApplyWrite, Complete, Deliver, deviceVars, readerVars
  <2>5. CASE Receive
    <3>1. taken' = taken  BY <2>5 DEF Receive, readerVars
    <3>2. received' = Append(received, arrived + 1) \/ received' = received  BY <2>5 DEF Receive
    <3>3. arrived \in Nat /\ MAX_FRAMES \in Nat /\ arrived < MAX_FRAMES
      BY <2>5, RxRingAssumption DEF Receive, IInv, TypeOK
    <3>4. arrived + 1 \in 1..MAX_FRAMES  BY <3>3
    <3>5. QED  BY <3>1, <3>2, <3>4 DEF Line!Accept
  <2>6. CASE UNCHANGED vars  BY <2>6 DEF vars, deviceVars, readerVars
  <2>7. QED  BY <2>1, <2>2, <2>3, <2>4, <2>5, <2>6 DEF Next
<1>3. QED  BY <1>1, <1>2, RxRingInvariant, PTL DEF Spec
=============================================================================
