------------------------ MODULE MqnicInterfaceProofs ------------------------
(***************************************************************************)
(* Bringing an interface up, for every number of queues of the device,     *)
(* every limit of the driver, every state another driver may have left the *)
(* device's queues in, and every number of posted writes: IInv of          *)
(* MqnicInterface is an invariant, and with it the properties that follow  *)
(* from it.                                                                *)
(***************************************************************************)
EXTENDS MqnicInterface, SequenceTheorems, TLAPS

(***************************************************************************)
(* Queues and numbers                                                      *)
(***************************************************************************)
LEMMA Counts ==
    /\ EQ_COUNT \in Nat /\ CQ_COUNT \in Nat /\ TXQ_COUNT \in Nat /\ RXQ_COUNT \in Nat
    /\ EQ_COUNT >= 1 /\ TXQ_COUNT >= 1 /\ TXQ_COUNT + RXQ_COUNT <= CQ_COUNT
    /\ Count["eq"] = EQ_COUNT /\ Count["cq"] = CQ_COUNT
    /\ Count["txq"] = TXQ_COUNT /\ Count["rxq"] = RXQ_COUNT
<1>1. /\ EQ_COUNT \in Nat /\ CQ_COUNT \in Nat /\ TXQ_COUNT \in Nat /\ RXQ_COUNT \in Nat
      /\ EQ_COUNT >= 1 /\ TXQ_COUNT >= 1
  BY MqnicInterfaceAssumption DEF EQ_COUNT, CQ_COUNT, TXQ_COUNT, RXQ_COUNT, MQNIC_MAX_CQ, Cut
<1>2. QED  BY <1>1, MqnicInterfaceAssumption DEF Count

(* The driver manages the first queues of the device. *)
LEMMA DeviceCounts ==
    /\ DEVICE_EQS \in Nat /\ DEVICE_CQS \in Nat /\ DEVICE_TXQS \in Nat /\ DEVICE_RXQS \in Nat
    /\ EQ_COUNT <= DEVICE_EQS /\ CQ_COUNT <= DEVICE_CQS
    /\ TXQ_COUNT <= DEVICE_TXQS /\ RXQ_COUNT <= DEVICE_RXQS
    /\ DeviceCount["eq"] = DEVICE_EQS /\ DeviceCount["cq"] = DEVICE_CQS
    /\ DeviceCount["txq"] = DEVICE_TXQS /\ DeviceCount["rxq"] = DEVICE_RXQS
    /\ \A kind \in Kinds : /\ Count[kind] \in Nat /\ DeviceCount[kind] \in Nat
                           /\ Count[kind] <= DeviceCount[kind]
<1>1. /\ DEVICE_EQS \in Nat /\ DEVICE_CQS \in Nat /\ DEVICE_TXQS \in Nat /\ DEVICE_RXQS \in Nat
      /\ EQ_COUNT <= DEVICE_EQS /\ CQ_COUNT <= DEVICE_CQS
      /\ TXQ_COUNT <= DEVICE_TXQS /\ RXQ_COUNT <= DEVICE_RXQS
  BY MqnicInterfaceAssumption DEF EQ_COUNT, CQ_COUNT, TXQ_COUNT, RXQ_COUNT, MQNIC_MAX_CQ, Cut
<1>2. /\ DeviceCount["eq"] = DEVICE_EQS /\ DeviceCount["cq"] = DEVICE_CQS
      /\ DeviceCount["txq"] = DEVICE_TXQS /\ DeviceCount["rxq"] = DEVICE_RXQS
  BY DEF DeviceCount
<1>3. QED  BY <1>1, <1>2, Counts DEF Kinds

LEMMA QueueFacts ==
    /\ \A q \in Queues : /\ q.kind \in Kinds /\ q.n \in Nat /\ q.n < Count[q.kind]
                         /\ q = Queue(q.kind, q.n)
    /\ \A kind \in Kinds, n \in Nat : n < Count[kind] => Queue(kind, n) \in Queues
    /\ \A kind, n : Queue(kind, n).kind = kind /\ Queue(kind, n).n = n
<1>1. \A kind \in Kinds : Count[kind] \in Nat  BY Counts DEF Kinds
<1>2. ASSUME NEW q \in Queues
      PROVE  /\ q.kind \in Kinds /\ q.n \in Nat /\ q.n < Count[q.kind]
             /\ q = Queue(q.kind, q.n)
  <2>1. PICK kind \in Kinds : q \in [kind : {kind}, n : 0..Count[kind] - 1]  BY DEF Queues
  <2>2. q.kind = kind /\ q.n \in 0..Count[kind] - 1 /\ q = [kind |-> q.kind, n |-> q.n]  BY <2>1
  <2>3. QED  BY <1>1, <2>2 DEF Queue
<1>3. ASSUME NEW kind \in Kinds, NEW n \in Nat, n < Count[kind] PROVE Queue(kind, n) \in Queues
  <2>1. n \in 0..Count[kind] - 1  BY <1>1, <1>3
  <2>2. Queue(kind, n) \in [kind : {kind}, n : 0..Count[kind] - 1]  BY <2>1 DEF Queue
  <2>3. QED  BY <2>2 DEF Queues
<1>4. \A kind, n : Queue(kind, n).kind = kind /\ Queue(kind, n).n = n  BY DEF Queue
<1>5. QED  BY <1>2, <1>3, <1>4

LEMMA DeviceQueueFacts ==
    /\ Queues \subseteq DeviceQueues
    /\ \A q \in DeviceQueues : /\ q.kind \in Kinds /\ q.n \in Nat /\ q.n < DeviceCount[q.kind]
                               /\ q = Queue(q.kind, q.n)
    /\ \A kind \in Kinds, n \in Nat : n < DeviceCount[kind] => Queue(kind, n) \in DeviceQueues
<1>1. ASSUME NEW q \in DeviceQueues
      PROVE  /\ q.kind \in Kinds /\ q.n \in Nat /\ q.n < DeviceCount[q.kind]
             /\ q = Queue(q.kind, q.n)
  <2>1. PICK kind \in Kinds : q \in [kind : {kind}, n : 0..DeviceCount[kind] - 1]
    BY DEF DeviceQueues
  <2>2. q.kind = kind /\ q.n \in 0..DeviceCount[kind] - 1 /\ q = [kind |-> q.kind, n |-> q.n]
    BY <2>1
  <2>3. QED  BY <2>2, DeviceCounts DEF Queue
<1>2. ASSUME NEW kind \in Kinds, NEW n \in Nat, n < DeviceCount[kind]
      PROVE  Queue(kind, n) \in DeviceQueues
  <2>1. n \in 0..DeviceCount[kind] - 1  BY <1>2, DeviceCounts
  <2>2. Queue(kind, n) \in [kind : {kind}, n : 0..DeviceCount[kind] - 1]  BY <2>1 DEF Queue
  <2>3. QED  BY <2>2 DEF DeviceQueues
<1>3. ASSUME NEW q \in Queues PROVE q \in DeviceQueues
  <2>1. q.kind \in Kinds /\ q.n \in Nat /\ q.n < DeviceCount[q.kind] /\ q = Queue(q.kind, q.n)
    BY QueueFacts, DeviceCounts
  <2>2. QED  BY <1>2, <2>1
<1>4. QED  BY <1>1, <1>2, <1>3

(* Which queues of the device are the driver's. *)
LEMMA ManagedQueue ==
    ASSUME NEW q \in DeviceQueues
    PROVE  q \in Queues <=> q.n < Count[q.kind]
  BY QueueFacts, DeviceQueueFacts

LEMMA DeviceQueueIn ==
    ASSUME NEW n \in Nat
    PROVE  /\ n < DEVICE_EQS => Queue("eq", n) \in DeviceQueues
           /\ n < DEVICE_CQS => Queue("cq", n) \in DeviceQueues
           /\ Queue("eq", n) \in Queues <=> n < EQ_COUNT
           /\ Queue("cq", n) \in Queues <=> n < CQ_COUNT
<1>1. /\ n < DEVICE_EQS => Queue("eq", n) \in DeviceQueues
      /\ n < DEVICE_CQS => Queue("cq", n) \in DeviceQueues
  BY DeviceQueueFacts, DeviceCounts DEF Kinds
<1>2. \A kind \in Kinds : Queue(kind, n) \in Queues <=> n < Count[kind]
  BY QueueFacts
<1>3. QED  BY <1>1, <1>2, Counts DEF Kinds

(* A queue by its kind. *)
LEMMA FourKinds ==
    ASSUME NEW q \in Queues
    PROVE  /\ q.n \in Nat
           /\ \/ q.kind = "eq" /\ q.n < EQ_COUNT
              \/ q.kind = "cq" /\ q.n < CQ_COUNT
              \/ q.kind = "txq" /\ q.n < TXQ_COUNT
              \/ q.kind = "rxq" /\ q.n < RXQ_COUNT
  BY QueueFacts, Counts DEF Kinds

LEMMA SameQueue ==
    ASSUME NEW q \in Queues, NEW p \in Queues, q.kind = p.kind, q.n = p.n
    PROVE  q = p
  BY QueueFacts

LEMMA QueueIn ==
    ASSUME NEW n \in Nat
    PROVE  /\ n < EQ_COUNT => Queue("eq", n) \in Queues
           /\ n < CQ_COUNT => Queue("cq", n) \in Queues
           /\ n < TXQ_COUNT => Queue("txq", n) \in Queues
           /\ n < RXQ_COUNT => Queue("rxq", n) \in Queues
  BY QueueFacts, Counts DEF Kinds

(* The number of the write that disables a queue is its own. *)
LEMMA DisableNumbers ==
    /\ Disables \in Nat
    /\ \A q \in Queues : DisableNumber(q) \in 1..Disables
    /\ \A q, p \in Queues : q # p => DisableNumber(q) # DisableNumber(p)
<1>1. ASSUME NEW q \in Queues
      PROVE  \/ q.kind = "eq" /\ DisableNumber(q) = q.n + 1
             \/ q.kind = "cq" /\ DisableNumber(q) = EQ_COUNT + q.n + 1
             \/ q.kind = "txq" /\ DisableNumber(q) = EQ_COUNT + CQ_COUNT + q.n + 1
             \/ q.kind = "rxq" /\ DisableNumber(q) = EQ_COUNT + CQ_COUNT + TXQ_COUNT + q.n + 1
  BY FourKinds, Counts DEF DisableNumber, Offset
<1>2. Disables \in Nat  BY Counts DEF Disables
<1>3. \A q \in Queues : DisableNumber(q) \in 1..Disables
  BY <1>1, FourKinds, Counts DEF Disables
<1>4. ASSUME NEW q \in Queues, NEW p \in Queues, DisableNumber(q) = DisableNumber(p)
      PROVE  q = p
  <2>1. q.kind = p.kind /\ q.n = p.n  BY <1>1, <1>4, FourKinds, Counts
  <2>2. QED  BY <2>1, SameQueue
<1>5. QED  BY <1>2, <1>3, <1>4

(***************************************************************************)
(* The calls that open the queues                                          *)
(***************************************************************************)
(* A ring, its completion queue and its event queue belong together. *)
LEMMA RingFacts ==
    ASSUME NEW r \in Queues, r.kind \in Rings
    PROVE  /\ CqnOf(r) \in Nat /\ CqnOf(r) < RXQ_COUNT + TXQ_COUNT
           /\ RingOf(CqnOf(r)) = r /\ r \in Opened
<1>1. /\ r.n \in Nat
      /\ (r.kind = "txq" /\ r.n < TXQ_COUNT) \/ (r.kind = "rxq" /\ r.n < RXQ_COUNT)
  BY FourKinds DEF Rings
<1>2. r \in Opened  BY <1>1 DEF Opened
<1>3. r = Queue(r.kind, r.n)  BY QueueFacts
<1>4. CASE r.kind = "rxq"
  <2>1. CqnOf(r) = r.n  BY <1>4 DEF CqnOf
  <2>2. r.n < RXQ_COUNT  BY <1>1, <1>4
  <2>3. RingOf(r.n) = Queue("rxq", r.n)  BY <2>2 DEF RingOf
  <2>4. QED  BY <1>1, <1>2, <1>3, <1>4, <2>1, <2>2, <2>3, Counts
<1>5. CASE r.kind = "txq"
  <2>1. CqnOf(r) = RXQ_COUNT + r.n  BY <1>5 DEF CqnOf
  <2>2. r.n < TXQ_COUNT  BY <1>1, <1>5
  <2>3. ~(RXQ_COUNT + r.n < RXQ_COUNT) /\ (RXQ_COUNT + r.n) - RXQ_COUNT = r.n  BY <1>1, Counts
  <2>4. RingOf(RXQ_COUNT + r.n) = Queue("txq", r.n)  BY <2>3 DEF RingOf
  <2>5. QED  BY <1>1, <1>2, <1>3, <1>5, <2>1, <2>2, <2>4, Counts
<1>6. QED  BY <1>1, <1>4, <1>5

LEMMA CqFacts ==
    ASSUME NEW c \in Nat, c < RXQ_COUNT + TXQ_COUNT
    PROVE  /\ RingOf(c) \in Queues /\ RingOf(c) \in Opened /\ RingOf(c).kind \in Rings
           /\ RingOf(c).n \in Nat /\ CqnOf(RingOf(c)) = c
           /\ Queue("cq", c) \in Queues /\ Queue("cq", c) \in Opened /\ c < CQ_COUNT
           /\ EqnOf(c) \in Nat /\ EqnOf(c) < EQ_COUNT
           /\ Queue("eq", EqnOf(c)) \in Queues /\ Queue("eq", EqnOf(c)) \in Opened
           /\ RingOf(c).kind = IF c < RXQ_COUNT THEN "rxq" ELSE "txq"
<1>1. c < CQ_COUNT  BY Counts
<1>2. Queue("cq", c) \in Queues /\ Queue("cq", c) \in Opened
  BY <1>1, QueueIn, QueueFacts DEF Opened
<1>3. /\ RingOf(c) \in Queues /\ RingOf(c).kind \in Rings /\ RingOf(c).n \in Nat
      /\ CqnOf(RingOf(c)) = c
      /\ RingOf(c).kind = IF c < RXQ_COUNT THEN "rxq" ELSE "txq"
  <2>1. CASE c < RXQ_COUNT
    <3>1. RingOf(c) = Queue("rxq", c)  BY <2>1 DEF RingOf
    <3>2. RingOf(c) \in Queues  BY <2>1, <3>1, QueueIn
    <3>3. RingOf(c).kind = "rxq" /\ RingOf(c).n = c  BY <3>1, QueueFacts
    <3>4. QED  BY <2>1, <3>2, <3>3 DEF Rings, CqnOf
  <2>2. CASE ~(c < RXQ_COUNT)
    <3>1. RingOf(c) = Queue("txq", c - RXQ_COUNT)  BY <2>2 DEF RingOf
    <3>2. c - RXQ_COUNT \in Nat /\ c - RXQ_COUNT < TXQ_COUNT /\ RXQ_COUNT + (c - RXQ_COUNT) = c
      BY <2>2, Counts
    <3>3. RingOf(c) \in Queues  BY <3>1, <3>2, QueueIn
    <3>4. RingOf(c).kind = "txq" /\ RingOf(c).n = c - RXQ_COUNT  BY <3>1, QueueFacts
    <3>5. CqnOf(RingOf(c)) = RXQ_COUNT + (c - RXQ_COUNT)  BY <3>4 DEF CqnOf
    <3>6. QED  BY <2>2, <3>2, <3>3, <3>4, <3>5 DEF Rings
  <2>3. QED  BY <2>1, <2>2
<1>4. RingOf(c) \in Opened  BY <1>3 DEF Opened, Rings
<1>5. EqnOf(c) \in Nat /\ EqnOf(c) < EQ_COUNT
  <2>1. \A n \in Nat, m \in Nat : m >= 1 => n % m \in Nat /\ n % m < m  BY SMT
  <2>2. QED  BY <1>3, <2>1, Counts DEF EqnOf
<1>6. Queue("eq", EqnOf(c)) \in Queues /\ Queue("eq", EqnOf(c)) \in Opened
  BY <1>5, QueueIn, QueueFacts DEF Opened
<1>7. QED  BY <1>1, <1>2, <1>3, <1>4, <1>5, <1>6

LEMMA CqBases ==
    /\ InitEnd \in Nat /\ InitEnd = Disables + 3 + 9 * EQ_COUNT
    /\ \A c \in Nat : c <= RXQ_COUNT + TXQ_COUNT =>
         /\ CqBase(c) \in Nat /\ InitEnd <= CqBase(c)
         /\ c <= RXQ_COUNT => CqBase(c) = InitEnd + 18 * c
         /\ c >= RXQ_COUNT => CqBase(c) = InitEnd + 18 * RXQ_COUNT + 17 * (c - RXQ_COUNT)
    /\ \A c, d \in Nat : c < d /\ d <= RXQ_COUNT + TXQ_COUNT =>
         CqBase(c) + (IF c < RXQ_COUNT THEN 18 ELSE 17) <= CqBase(d)
    /\ \A c \in Nat : c < RXQ_COUNT + TXQ_COUNT =>
         CqBase(c + 1) = CqBase(c) + (IF c < RXQ_COUNT THEN 18 ELSE 17)
    /\ OpenEnd \in Nat /\ OpenEnd = CqBase(RXQ_COUNT + TXQ_COUNT) + 1
<1>1. InitEnd \in Nat /\ InitEnd = Disables + 3 + 9 * EQ_COUNT
  BY DisableNumbers, Counts DEF InitEnd
<1>2. ASSUME NEW c \in Nat, c <= RXQ_COUNT + TXQ_COUNT
      PROVE  /\ CqBase(c) \in Nat /\ InitEnd <= CqBase(c)
             /\ c <= RXQ_COUNT => CqBase(c) = InitEnd + 18 * c
             /\ c >= RXQ_COUNT => CqBase(c) = InitEnd + 18 * RXQ_COUNT + 17 * (c - RXQ_COUNT)
  BY <1>1, <1>2, Counts DEF CqBase
<1>3. \A c, d \in Nat : c < d /\ d <= RXQ_COUNT + TXQ_COUNT =>
         CqBase(c) + (IF c < RXQ_COUNT THEN 18 ELSE 17) <= CqBase(d)
  BY <1>1, Counts DEF CqBase
<1>4. \A c \in Nat : c < RXQ_COUNT + TXQ_COUNT =>
         CqBase(c + 1) = CqBase(c) + (IF c < RXQ_COUNT THEN 18 ELSE 17)
  BY <1>1, Counts DEF CqBase
<1>5. OpenEnd \in Nat /\ OpenEnd = CqBase(RXQ_COUNT + TXQ_COUNT) + 1
  <2>1. RXQ_COUNT + TXQ_COUNT \in Nat /\ RXQ_COUNT + TXQ_COUNT <= RXQ_COUNT + TXQ_COUNT  BY Counts
  <2>2. CqBase(RXQ_COUNT + TXQ_COUNT) \in Nat  BY <1>2, <2>1
  <2>3. QED  BY <2>2 DEF OpenEnd
<1>6. QED  BY <1>1, <1>2, <1>3, <1>4, <1>5

(* How many accesses open a queue, and where they are. *)
Length(q) == IF q.kind = "txq" THEN 8 ELSE 9

LEMMA Bases ==
    /\ \A q \in Opened : /\ Base(q) \in Nat /\ Disables + 2 <= Base(q)
                         /\ Base(q) + Length(q) < OpenEnd
    /\ \A q \in Opened : q.kind = "eq" => Base(q) = Disables + 2 + 9 * q.n /\ Base(q) + 9 < InitEnd
    /\ \A q \in Opened : q.kind # "eq" => InitEnd <= Base(q)
    /\ \A c \in Nat : c < RXQ_COUNT + TXQ_COUNT =>
          /\ Base(Queue("cq", c)) = CqBase(c) /\ Base(RingOf(c)) = CqBase(c) + 9
          /\ Base(RingOf(c)) + Length(RingOf(c)) = CqBase(c + 1)
    /\ InitEnd < OpenEnd
<1>1. \A e \in Nat : e < EQ_COUNT => Disables + 2 + 9 * e + 9 < InitEnd
  BY CqBases, DisableNumbers, Counts
<1>2. InitEnd < OpenEnd
  <2>1. RXQ_COUNT + TXQ_COUNT \in Nat /\ RXQ_COUNT + TXQ_COUNT <= RXQ_COUNT + TXQ_COUNT  BY Counts
  <2>2. InitEnd <= CqBase(RXQ_COUNT + TXQ_COUNT) /\ CqBase(RXQ_COUNT + TXQ_COUNT) \in Nat
    BY <2>1, CqBases
  <2>3. QED  BY <2>2, CqBases
<1>3. ASSUME NEW c \in Nat, c < RXQ_COUNT + TXQ_COUNT
      PROVE  /\ Base(Queue("cq", c)) = CqBase(c) /\ Base(RingOf(c)) = CqBase(c) + 9
             /\ Base(RingOf(c)) + Length(RingOf(c)) = CqBase(c + 1)
             /\ CqBase(c) \in Nat /\ InitEnd <= CqBase(c) /\ CqBase(c + 1) < OpenEnd
             /\ CqBase(c) + 9 < OpenEnd
  <2>1. CqBase(c) \in Nat /\ InitEnd <= CqBase(c)  BY <1>3, CqBases, Counts
  <2>2. Base(Queue("cq", c)) = CqBase(c)  BY QueueFacts DEF Base
  <2>3. Base(RingOf(c)) = CqBase(c) + 9  BY <1>3, CqFacts DEF Base, Rings
  <2>4. Length(RingOf(c)) = IF c < RXQ_COUNT THEN 9 ELSE 8  BY <1>3, CqFacts DEF Length
  <2>5. CqBase(c + 1) = CqBase(c) + (IF c < RXQ_COUNT THEN 18 ELSE 17)  BY <1>3, CqBases
  <2>6. CqBase(c + 1) <= CqBase(RXQ_COUNT + TXQ_COUNT) /\ CqBase(RXQ_COUNT + TXQ_COUNT) \in Nat
    <3>1. c + 1 \in Nat /\ RXQ_COUNT + TXQ_COUNT \in Nat /\ RXQ_COUNT + TXQ_COUNT <= RXQ_COUNT + TXQ_COUNT
      BY Counts
    <3>2. CASE c + 1 = RXQ_COUNT + TXQ_COUNT
      BY <3>1, <3>2, CqBases
    <3>3. CASE c + 1 < RXQ_COUNT + TXQ_COUNT
      <4>1. CqBase(c + 1) + (IF c + 1 < RXQ_COUNT THEN 18 ELSE 17) <= CqBase(RXQ_COUNT + TXQ_COUNT)
        BY <3>1, <3>3, CqBases
      <4>2. CqBase(c + 1) \in Nat /\ CqBase(RXQ_COUNT + TXQ_COUNT) \in Nat
        BY <3>1, <3>3, CqBases
      <4>3. QED  BY <4>1, <4>2
    <3>4. QED  BY <1>3, <3>1, <3>2, <3>3
  <2>7. QED  BY <2>1, <2>2, <2>3, <2>4, <2>5, <2>6, CqBases
<1>4. ASSUME NEW q \in Opened
      PROVE  /\ Base(q) \in Nat /\ Disables + 2 <= Base(q)
             /\ Base(q) + Length(q) < OpenEnd
             /\ q.kind = "eq" => Base(q) = Disables + 2 + 9 * q.n /\ Base(q) + 9 < InitEnd
             /\ q.kind # "eq" => InitEnd <= Base(q)
  <2>1. q \in Queues  BY DEF Opened
  <2>2. CASE q.kind = "eq"
    <3>1. q.n \in Nat /\ q.n < EQ_COUNT  BY <2>1, <2>2, FourKinds
    <3>2. Base(q) = Disables + 2 + 9 * q.n /\ Length(q) = 9  BY <2>2 DEF Base, Length
    <3>3. QED  BY <1>1, <1>2, <2>2, <3>1, <3>2, CqBases, DisableNumbers
  <2>3. CASE q.kind = "cq"
    <3>1. q.n \in Nat /\ q.n < RXQ_COUNT + TXQ_COUNT  BY <2>1, <2>3, FourKinds DEF Opened
    <3>2. q = Queue("cq", q.n)  BY <2>1, <2>3, QueueFacts
    <3>3. Base(q) = CqBase(q.n) /\ Length(q) = 9  BY <2>3 DEF Base, Length
    <3>4. QED  BY <1>3, <2>3, <3>1, <3>3, CqBases, DisableNumbers, Counts
  <2>4. CASE q.kind \in Rings
    <3>1. CqnOf(q) \in Nat /\ CqnOf(q) < RXQ_COUNT + TXQ_COUNT /\ RingOf(CqnOf(q)) = q
      BY <2>1, <2>4, RingFacts
    <3>2. Base(q) = CqBase(CqnOf(q)) + 9 /\ Length(q) \in {8, 9} /\ q.kind # "eq"
      BY <2>4 DEF Base, Length, Rings
    <3>3. Base(q) + Length(q) = CqBase(CqnOf(q) + 1) /\ CqBase(CqnOf(q) + 1) < OpenEnd
      BY <1>3, <3>1
    <3>4. QED  BY <1>3, <3>1, <3>2, <3>3, CqBases, DisableNumbers, Counts
  <2>5. QED  BY <2>1, <2>2, <2>3, <2>4, FourKinds DEF Rings
<1>5. QED  BY <1>2, <1>3, <1>4

(* The calls come one after the other. *)
LEMMA Apart ==
    ASSUME NEW q \in Opened, NEW p \in Opened, q # p
    PROVE  Base(q) + Length(q) <= Base(p) \/ Base(p) + Length(p) <= Base(q)
<1>1. q \in Queues /\ p \in Queues  BY DEF Opened
<1> DEFINE c(x) == IF x.kind = "cq" THEN x.n ELSE CqnOf(x)
<1>2. ASSUME NEW x \in Opened, x.kind # "eq"
      PROVE  /\ c(x) \in Nat /\ c(x) < RXQ_COUNT + TXQ_COUNT
             /\ \/ x = Queue("cq", c(x)) /\ Base(x) = CqBase(c(x)) /\ Length(x) = 9
                \/ /\ x = RingOf(c(x)) /\ Base(x) = CqBase(c(x)) + 9
                   /\ Base(x) + Length(x) = CqBase(c(x) + 1)
             /\ CqBase(c(x)) \in Nat
             /\ CqBase(c(x) + 1) = CqBase(c(x)) + (IF c(x) < RXQ_COUNT THEN 18 ELSE 17)
  <2>1. x \in Queues  BY DEF Opened
  <2>2. /\ c(x) \in Nat /\ c(x) < RXQ_COUNT + TXQ_COUNT
        /\ x = Queue("cq", c(x)) \/ x = RingOf(c(x))
    <3>1. CASE x.kind = "cq"
      <4>1. x.n \in Nat /\ x.n < RXQ_COUNT + TXQ_COUNT  BY <2>1, <3>1, FourKinds DEF Opened
      <4>2. QED  BY <2>1, <3>1, <4>1, QueueFacts
    <3>2. CASE x.kind \in Rings
      <4>1. x.kind # "cq"  BY <3>2 DEF Rings
      <4>2. QED  BY <2>1, <3>2, <4>1, RingFacts
    <3>3. QED  BY <1>2, <2>1, <3>1, <3>2, FourKinds DEF Rings
  <2> HIDE DEF c
  <2>3. Length(Queue("cq", c(x))) = 9  BY QueueFacts DEF Length
  <2>4. QED  BY <2>2, <2>3, Bases, CqBases, Counts
<1>3. CASE q.kind = "eq" /\ p.kind = "eq"
  <2>1. q.n # p.n /\ q.n \in Nat /\ p.n \in Nat  BY <1>1, <1>3, SameQueue, FourKinds
  <2>2. Length(q) = 9 /\ Length(p) = 9  BY <1>3 DEF Length
  <2>3. QED  BY <1>3, <2>1, <2>2, Bases, DisableNumbers
<1>4. CASE q.kind = "eq" /\ p.kind # "eq"
  <2>1. Length(q) = 9  BY <1>4 DEF Length
  <2>2. QED  BY <1>4, <2>1, Bases, CqBases
<1>5. CASE q.kind # "eq" /\ p.kind = "eq"
  <2>1. Length(p) = 9  BY <1>5 DEF Length
  <2>2. QED  BY <1>5, <2>1, Bases, CqBases
<1>6. CASE q.kind # "eq" /\ p.kind # "eq"
  <2> HIDE DEF c
  <2>1. CASE c(q) = c(p)
    <3>1. \/ q = Queue("cq", c(q)) /\ p = RingOf(c(q))
          \/ p = Queue("cq", c(q)) /\ q = RingOf(c(q))
      BY <1>2, <1>6, <2>1
    <3>2. /\ Length(Queue("cq", c(q))) = 9 /\ CqBase(c(q)) \in Nat
          /\ Base(Queue("cq", c(q))) = CqBase(c(q)) /\ Base(RingOf(c(q))) = CqBase(c(q)) + 9
      <4>1. Length(Queue("cq", c(q))) = 9  BY QueueFacts DEF Length
      <4>2. c(q) \in Nat /\ c(q) < RXQ_COUNT + TXQ_COUNT /\ CqBase(c(q)) \in Nat  BY <1>2, <1>6
      <4>3. QED  BY <4>1, <4>2, Bases
    <3>3. QED  BY <3>1, <3>2
  <2>2. ASSUME NEW x \in Opened, NEW y \in Opened, x.kind # "eq", y.kind # "eq", c(x) < c(y)
        PROVE  Base(x) + Length(x) <= Base(y)
    <3>1. CqBase(c(x)) + (IF c(x) < RXQ_COUNT THEN 18 ELSE 17) <= CqBase(c(y))
      BY <1>2, <2>2, CqBases, Counts
    <3>2. Base(x) + Length(x) <= CqBase(c(x) + 1)
      BY <1>2, <2>2, Counts
    <3>3. CqBase(c(y)) <= Base(y)  BY <1>2, <2>2
    <3>4. Base(x) \in Nat /\ Base(y) \in Nat /\ Length(x) \in {8, 9}  BY Bases DEF Length
    <3>5. QED  BY <1>2, <2>2, <3>1, <3>2, <3>3, <3>4
  <2>3. QED  BY <1>2, <1>6, <2>1, <2>2
<1>7. QED  BY <1>3, <1>4, <1>5, <1>6

(* The access of each step. *)
Opening(q, k) ==
    IF k = 1 THEN Enable(q, 0)
    ELSE IF k = 2 THEN Access("base_lo", q, 0)
    ELSE IF k = 3 THEN Access("base_hi", q, 0)
    ELSE IF k = 4 THEN Access("size", q, 0)
    ELSE IF k = 5 THEN Access("target", q, TargetOf(q))
    ELSE IF k = 6 THEN Access("prod", q, 0)
    ELSE IF k = 7 THEN Access("cons", q, 0)
    ELSE IF q.kind = "rxq" /\ k = 8 THEN Access("prod", q, 1)
    ELSE IF k = EnableStep(q) THEN Enable(q, 1)
    ELSE Arm(q)

Ops == Fields \cup {"enable", "arm"}

LEMMA OpenWritesAre ==
    ASSUME NEW q, NEW target
    PROVE  /\ OpenWrites(q, target) \in Seq([op : Ops, q : {q}, val : {0, 1, target}])
           /\ Len(OpenWrites(q, target)) = 7
           /\ OpenWrites(q, target)[1] = Enable(q, 0)
           /\ OpenWrites(q, target)[2] = Access("base_lo", q, 0)
           /\ OpenWrites(q, target)[3] = Access("base_hi", q, 0)
           /\ OpenWrites(q, target)[4] = Access("size", q, 0)
           /\ OpenWrites(q, target)[5] = Access("target", q, target)
           /\ OpenWrites(q, target)[6] = Access("prod", q, 0)
           /\ OpenWrites(q, target)[7] = Access("cons", q, 0)
<1> DEFINE A == [op : Ops, q : {q}, val : {0, 1, target}]
<1>1. /\ Enable(q, 0) \in A /\ Access("base_lo", q, 0) \in A /\ Access("base_hi", q, 0) \in A
      /\ Access("size", q, 0) \in A /\ Access("target", q, target) \in A
      /\ Access("prod", q, 0) \in A /\ Access("cons", q, 0) \in A
  BY DEF Enable, Access, Ops, Fields
<1> HIDE DEF A
<1>2. OpenWrites(q, target) \in Seq(A)  BY <1>1 DEF OpenWrites
<1>3. QED  BY <1>2 DEF OpenWrites, A

(* Two sequences one after the other. *)
Joined(s, t) == s \o t
IsJoined(u, s, t) ==
    /\ Len(u) = Len(s) + Len(t) /\ Len(s) \in Nat /\ Len(t) \in Nat
    /\ \A k \in 1..Len(s) : u[k] = s[k]
    /\ \A k \in 1..Len(t) : \A j \in Nat : j = Len(s) + k => u[j] = t[k]

LEMMA Concatenated ==
    ASSUME NEW S, NEW s \in Seq(S), NEW t \in Seq(S)
    PROVE  Joined(s, t) \in Seq(S) /\ IsJoined(Joined(s, t), s, t)
<1>1. Len(s) \in Nat /\ Len(t) \in Nat  BY LenProperties
<1>2. s \o t \in Seq(S) /\ Len(s \o t) = Len(s) + Len(t)  BY ConcatProperties
<1>3. \A k \in 1..Len(s) + Len(t) : (s \o t)[k] = IF k <= Len(s) THEN s[k] ELSE t[k - Len(s)]
  BY ConcatProperties
<1>4. ASSUME NEW k \in 1..Len(t), NEW j \in Nat, j = Len(s) + k PROVE (s \o t)[j] = t[k]
  <2>1. j \in 1..Len(s) + Len(t) /\ ~(j <= Len(s)) /\ j - Len(s) = k
    BY <1>1, <1>4
  <2>2. QED  BY <1>3, <2>1
<1>5. QED  BY <1>1, <1>2, <1>3, <1>4 DEF Joined, IsJoined

LEMMA Calls ==
    ASSUME NEW q \in Opened
    PROVE  /\ Len(Call(q)) = Length(q)
           /\ Call(q) \in Seq([op : Ops, q : {q}, val : {0, 1, TargetOf(q)}])
           /\ \A k \in 1..Length(q) : Call(q)[k] = Opening(q, k)
<1> DEFINE A == [op : Ops, q : {q}, val : {0, 1, TargetOf(q)}]
           W == OpenWrites(q, TargetOf(q))
<1>1. q \in Queues /\ q = Queue(q.kind, q.n)  BY QueueFacts DEF Opened
<1>2. /\ W \in Seq(A) /\ Len(W) = 7
      /\ \A k \in 1..7 : W[k] = Opening(q, k)
  <2>1. W \in Seq(A) /\ Len(W) = 7  BY OpenWritesAre
  <2>2. ASSUME NEW k \in 1..7 PROVE W[k] = Opening(q, k)
    <3>1. k = 1 \/ k = 2 \/ k = 3 \/ k = 4 \/ k = 5 \/ k = 6 \/ k = 7  OBVIOUS
    <3>2. QED  BY <3>1, OpenWritesAre DEF Opening
  <2>3. QED  BY <2>1, <2>2
<1>3. /\ Enable(q, 1) \in A /\ Arm(q) \in A /\ Access("prod", q, 1) \in A
  BY DEF Enable, Arm, Access, Ops, Fields
<1> HIDE DEF W, A
<1>4. CASE q.kind \in {"eq", "cq"}
  <2> DEFINE rest == <<Enable(q, 1), Arm(q)>>
  <2>1. Call(q) = Joined(W, rest)
    BY <1>1, <1>4 DEF Call, EqCalls, CqCalls, TargetOf, W, Joined, IRQ
  <2>2. rest \in Seq(A) /\ Len(rest) = 2 /\ rest[1] = Enable(q, 1) /\ rest[2] = Arm(q)  BY <1>3
  <2> HIDE DEF rest
  <2>3. /\ Call(q) \in Seq(A) /\ Len(Call(q)) = 9
        /\ \A k \in 1..7 : Call(q)[k] = W[k]
        /\ Call(q)[8] = rest[1] /\ Call(q)[9] = rest[2]
    <3>1. Joined(W, rest) \in Seq(A) /\ IsJoined(Joined(W, rest), W, rest)
      BY <1>2, <2>2, Concatenated
    <3>2. QED  BY <1>2, <2>1, <2>2, <3>1 DEF IsJoined
  <2>4. Opening(q, 8) = Enable(q, 1) /\ Opening(q, 9) = Arm(q) /\ Length(q) = 9
    BY <1>4 DEF Opening, EnableStep, Length
  <2>5. \A k \in 1..9 : k \in 1..7 \/ k = 8 \/ k = 9  OBVIOUS
  <2>6. \A k \in 1..9 : Call(q)[k] = Opening(q, k)  BY <1>2, <2>2, <2>3, <2>4, <2>5
  <2>7. QED  BY <2>3, <2>4, <2>6 DEF A
<1>5. CASE q.kind = "rxq"
  <2> DEFINE rest == <<Access("prod", q, 1), Enable(q, 1)>>
             one == <<Access("prod", q, 1)>>
             two == <<Enable(q, 1)>>
  <2>1. Call(q) = Joined(Joined(W, one), two)
    BY <1>1, <1>5 DEF Call, RingCalls, TargetOf, W, Joined
  <2>2. /\ one \in Seq(A) /\ Len(one) = 1 /\ one[1] = Access("prod", q, 1)
        /\ two \in Seq(A) /\ Len(two) = 1 /\ two[1] = Enable(q, 1)
    BY <1>3
  <2> HIDE DEF one, two
  <2>3. /\ Joined(W, one) \in Seq(A) /\ Len(Joined(W, one)) = 8
        /\ \A k \in 1..7 : Joined(W, one)[k] = W[k]
        /\ Joined(W, one)[8] = one[1]
    <3>1. Joined(W, one) \in Seq(A) /\ IsJoined(Joined(W, one), W, one)
      BY <1>2, <2>2, Concatenated
    <3>2. QED  BY <1>2, <2>2, <3>1 DEF IsJoined
  <2>4. /\ Call(q) \in Seq(A) /\ Len(Call(q)) = 9
        /\ \A k \in 1..8 : Call(q)[k] = Joined(W, one)[k]
        /\ Call(q)[9] = two[1]
    <3>1. Joined(Joined(W, one), two) \in Seq(A) /\ IsJoined(Joined(Joined(W, one), two), Joined(W, one), two)
      BY <2>2, <2>3, Concatenated
    <3>2. QED  BY <2>1, <2>2, <2>3, <3>1 DEF IsJoined
  <2>5. /\ Opening(q, 8) = Access("prod", q, 1) /\ Opening(q, 9) = Enable(q, 1)
        /\ Length(q) = 9
    BY <1>5 DEF Opening, EnableStep, Length
  <2>6. \A k \in 1..9 : k \in 1..7 \/ k = 8 \/ k = 9  OBVIOUS
  <2>7. \A k \in 1..7 : k \in 1..8  OBVIOUS
  <2>8. \A k \in 1..9 : Call(q)[k] = Opening(q, k)  BY <1>2, <2>2, <2>3, <2>4, <2>5, <2>6, <2>7
  <2>9. QED  BY <2>4, <2>5, <2>8 DEF A
<1>6. CASE q.kind = "txq"
  <2> DEFINE none == <<>>
             two == <<Enable(q, 1)>>
  <2>1. Call(q) = Joined(Joined(W, none), two)
    BY <1>1, <1>6 DEF Call, RingCalls, TargetOf, W, Joined
  <2>2. /\ none \in Seq(A) /\ Len(none) = 0
        /\ two \in Seq(A) /\ Len(two) = 1 /\ two[1] = Enable(q, 1)
    BY <1>3
  <2> HIDE DEF none, two
  <2>3. /\ Joined(W, none) \in Seq(A) /\ Len(Joined(W, none)) = 7
        /\ \A k \in 1..7 : Joined(W, none)[k] = W[k]
    <3>1. Joined(W, none) \in Seq(A) /\ IsJoined(Joined(W, none), W, none)
      BY <1>2, <2>2, Concatenated
    <3>2. QED  BY <1>2, <2>2, <3>1 DEF IsJoined
  <2>4. /\ Call(q) \in Seq(A) /\ Len(Call(q)) = 8
        /\ \A k \in 1..7 : Call(q)[k] = Joined(W, none)[k]
        /\ Call(q)[8] = two[1]
    <3>1. Joined(Joined(W, none), two) \in Seq(A) /\ IsJoined(Joined(Joined(W, none), two), Joined(W, none), two)
      BY <2>2, <2>3, Concatenated
    <3>2. QED  BY <2>1, <2>2, <2>3, <3>1 DEF IsJoined
  <2>5. Opening(q, 8) = Enable(q, 1) /\ Length(q) = 8
    BY <1>6 DEF Opening, EnableStep, Length
  <2>6. \A k \in 1..8 : k \in 1..7 \/ k = 8  OBVIOUS
  <2>7. \A k \in 1..8 : Call(q)[k] = Opening(q, k)  BY <1>2, <2>2, <2>3, <2>4, <2>5, <2>6
  <2>8. QED  BY <2>4, <2>5, <2>7 DEF A
<1>7. QED  BY <1>1, <1>4, <1>5, <1>6, FourKinds DEF A

(* The writes that disable the queues. *)
LEMMA DisabledAre ==
    ASSUME NEW kind \in Kinds
    PROVE  /\ Disabled(kind) \in Seq([op : {"enable"}, q : Queues, val : {0}])
           /\ Len(Disabled(kind)) = Count[kind] /\ Count[kind] \in Nat
           /\ \A i \in 1..Count[kind] : /\ Disabled(kind)[i] = Enable(Queue(kind, i - 1), 0)
                                        /\ Queue(kind, i - 1) \in Queues
<1>1. Count[kind] \in Nat  BY Counts DEF Kinds
<1>2. ASSUME NEW i \in 1..Count[kind]
      PROVE  /\ Enable(Queue(kind, i - 1), 0) \in [op : {"enable"}, q : Queues, val : {0}]
             /\ Queue(kind, i - 1) \in Queues
  <2>1. i - 1 \in Nat /\ i - 1 < Count[kind]  BY <1>1
  <2>2. Queue(kind, i - 1) \in Queues  BY <2>1, QueueFacts
  <2>3. QED  BY <2>2 DEF Enable, Access
<1> DEFINE A == [op : {"enable"}, q : Queues, val : {0}]
<1>3. \A i \in 1..Count[kind] : Enable(Queue(kind, i - 1), 0) \in A  BY <1>2
<1> HIDE DEF A
<1>4. Disabled(kind) \in Seq(A) /\ Len(Disabled(kind)) = Count[kind]
  BY <1>1, <1>3, IsASeq DEF Disabled
<1>5. QED  BY <1>1, <1>2, <1>4 DEF Disabled, A

LEMMA AllDisabledAre ==
    /\ Len(AllDisabled) = Disables
    /\ AllDisabled \in Seq([op : {"enable"}, q : Queues, val : {0}])
    /\ \A n \in 1..Disables : \E q \in Queues :
          n = DisableNumber(q) /\ AllDisabled[n] = Enable(q, 0)
<1> DEFINE A == [op : {"enable"}, q : Queues, val : {0}]
           e == Disabled("eq")
           c == Disabled("cq")
           t == Disabled("txq")
           r == Disabled("rxq")
<1>1. /\ e \in Seq(A) /\ c \in Seq(A) /\ t \in Seq(A) /\ r \in Seq(A)
      /\ Len(e) = EQ_COUNT /\ Len(c) = CQ_COUNT /\ Len(t) = TXQ_COUNT /\ Len(r) = RXQ_COUNT
  BY DisabledAre, Counts DEF Kinds
<1>2. AllDisabled = Joined(Joined(Joined(e, c), t), r)  BY DEF AllDisabled, Joined
<1>3. ASSUME NEW kind \in Kinds, NEW i \in 1..Count[kind]
      PROVE  \E q \in Queues : /\ Offset[kind] + i = DisableNumber(q)
                               /\ Disabled(kind)[i] = Enable(q, 0)
  <2> DEFINE q == Queue(kind, i - 1)
  <2>1. q \in Queues /\ Disabled(kind)[i] = Enable(q, 0)  BY DisabledAre
  <2>2. q.kind = kind /\ q.n = i - 1 /\ Count[kind] \in Nat  BY QueueFacts, DisabledAre
  <2>3. Offset[kind] \in Nat  BY Counts DEF Offset, Kinds
  <2>4. Offset[kind] + i = DisableNumber(q)
    <3>1. DisableNumber(q) = Offset[kind] + (i - 1) + 1  BY <2>2 DEF DisableNumber
    <3>2. QED  BY <2>2, <2>3, <3>1
  <2>5. QED  BY <2>1, <2>4
<1>4. /\ Offset["eq"] = 0 /\ Offset["cq"] = EQ_COUNT /\ Offset["txq"] = EQ_COUNT + CQ_COUNT
      /\ Offset["rxq"] = EQ_COUNT + CQ_COUNT + TXQ_COUNT
  BY DEF Offset
<1> HIDE DEF e, c, t, r, A
<1> DEFINE ec == Joined(e, c)
           ect == Joined(ec, t)
<1>5. /\ ec \in Seq(A) /\ Len(ec) = EQ_COUNT + CQ_COUNT
      /\ \A i \in 1..EQ_COUNT : ec[i] = e[i]
      /\ \A i \in 1..CQ_COUNT : \A j \in Nat : j = EQ_COUNT + i => ec[j] = c[i]
  <2>1. ec \in Seq(A) /\ IsJoined(ec, e, c)  BY <1>1, Concatenated
  <2>2. /\ Len(ec) = Len(e) + Len(c)
        /\ \A k \in 1..Len(e) : ec[k] = e[k]
        /\ \A k \in 1..Len(c) : \A j \in Nat : j = Len(e) + k => ec[j] = c[k]
    BY <2>1, Zenon DEF IsJoined
  <2>3. Len(e) = EQ_COUNT /\ Len(c) = CQ_COUNT  BY <1>1
  <2>4. QED  BY <2>1, <2>2, <2>3, Zenon
<1> HIDE DEF ec
<1>6. /\ ect \in Seq(A) /\ Len(ect) = EQ_COUNT + CQ_COUNT + TXQ_COUNT
      /\ \A i \in 1..EQ_COUNT + CQ_COUNT : ect[i] = ec[i]
      /\ \A i \in 1..TXQ_COUNT : \A j \in Nat : j = EQ_COUNT + CQ_COUNT + i => ect[j] = t[i]
  <2>1. ect \in Seq(A) /\ IsJoined(ect, ec, t)  BY <1>1, <1>5, Concatenated
  <2>2. /\ Len(ect) = Len(ec) + Len(t)
        /\ \A k \in 1..Len(ec) : ect[k] = ec[k]
        /\ \A k \in 1..Len(t) : \A j \in Nat : j = Len(ec) + k => ect[j] = t[k]
    BY <2>1, Zenon DEF IsJoined
  <2>3. Len(ec) = EQ_COUNT + CQ_COUNT /\ Len(t) = TXQ_COUNT  BY <1>1, <1>5
  <2>4. QED  BY <2>1, <2>2, <2>3, Zenon
<1> HIDE DEF ect
<1>7. /\ AllDisabled \in Seq(A) /\ Len(AllDisabled) = EQ_COUNT + CQ_COUNT + TXQ_COUNT + RXQ_COUNT
      /\ \A i \in 1..EQ_COUNT + CQ_COUNT + TXQ_COUNT : AllDisabled[i] = ect[i]
      /\ \A i \in 1..RXQ_COUNT : \A j \in Nat : j = EQ_COUNT + CQ_COUNT + TXQ_COUNT + i => AllDisabled[j] = r[i]
  <2>1. AllDisabled = Joined(ect, r)  BY <1>2 DEF ect, ec
  <2>2. AllDisabled \in Seq(A) /\ IsJoined(AllDisabled, ect, r)  BY <1>1, <1>6, <2>1, Concatenated
  <2>3. /\ Len(AllDisabled) = Len(ect) + Len(r)
        /\ \A k \in 1..Len(ect) : AllDisabled[k] = ect[k]
        /\ \A k \in 1..Len(r) : \A j \in Nat : j = Len(ect) + k => AllDisabled[j] = r[k]
    BY <2>2, Zenon DEF IsJoined
  <2>4. Len(ect) = EQ_COUNT + CQ_COUNT + TXQ_COUNT /\ Len(r) = RXQ_COUNT  BY <1>1, <1>6
  <2>5. QED  BY <2>2, <2>3, <2>4, Zenon
<1>8. ASSUME NEW n \in 1..Disables
      PROVE  \E kind \in Kinds : \E i \in 1..Count[kind] :
                n = Offset[kind] + i /\ AllDisabled[n] = Disabled(kind)[i]
  <2>1. n \in Nat /\ n >= 1 /\ n <= EQ_COUNT + CQ_COUNT + TXQ_COUNT + RXQ_COUNT
    BY Counts DEF Disables
  <2>2. "eq" \in Kinds /\ "cq" \in Kinds /\ "txq" \in Kinds /\ "rxq" \in Kinds  BY DEF Kinds
  <2>3. CASE n <= EQ_COUNT
    <3>1. n \in 1..EQ_COUNT /\ n \in 1..EQ_COUNT + CQ_COUNT /\ n \in 1..EQ_COUNT + CQ_COUNT + TXQ_COUNT
      BY <2>1, <2>3, Counts
    <3>2. AllDisabled[n] = Disabled("eq")[n]  BY <1>5, <1>6, <1>7, <3>1 DEF e
    <3>3. n \in 1..Count["eq"] /\ n = Offset["eq"] + n  BY <1>4, <2>1, <3>1, Counts
    <3>4. QED  BY <2>2, <3>2, <3>3
  <2>4. CASE n > EQ_COUNT /\ n <= EQ_COUNT + CQ_COUNT
    <3> DEFINE i == n - EQ_COUNT
    <3>1. /\ i \in 1..CQ_COUNT /\ n = EQ_COUNT + i
          /\ n \in 1..EQ_COUNT + CQ_COUNT /\ n \in 1..EQ_COUNT + CQ_COUNT + TXQ_COUNT
      BY <2>1, <2>4, Counts
    <3> HIDE DEF i
    <3>2. AllDisabled[n] = Disabled("cq")[i]  BY <1>5, <1>6, <1>7, <3>1 DEF c
    <3>3. i \in 1..Count["cq"] /\ n = Offset["cq"] + i  BY <1>4, <3>1, Counts
    <3>4. QED  BY <2>2, <3>2, <3>3
  <2>5. CASE n > EQ_COUNT + CQ_COUNT /\ n <= EQ_COUNT + CQ_COUNT + TXQ_COUNT
    <3> DEFINE i == n - (EQ_COUNT + CQ_COUNT)
    <3>1. /\ i \in 1..TXQ_COUNT /\ n = EQ_COUNT + CQ_COUNT + i
          /\ n \in 1..EQ_COUNT + CQ_COUNT + TXQ_COUNT
      BY <2>1, <2>5, Counts
    <3> HIDE DEF i
    <3>2. AllDisabled[n] = Disabled("txq")[i]  BY <1>6, <1>7, <3>1 DEF t
    <3>3. i \in 1..Count["txq"] /\ n = Offset["txq"] + i  BY <1>4, <3>1, Counts
    <3>4. QED  BY <2>2, <3>2, <3>3
  <2>6. CASE n > EQ_COUNT + CQ_COUNT + TXQ_COUNT
    <3> DEFINE i == n - (EQ_COUNT + CQ_COUNT + TXQ_COUNT)
    <3>1. i \in 1..RXQ_COUNT /\ n = EQ_COUNT + CQ_COUNT + TXQ_COUNT + i
      BY <2>1, <2>6, Counts
    <3> HIDE DEF i
    <3>2. AllDisabled[n] = Disabled("rxq")[i]  BY <1>7, <3>1 DEF r
    <3>3. i \in 1..Count["rxq"] /\ n = Offset["rxq"] + i  BY <1>4, <3>1, Counts
    <3>4. QED  BY <2>2, <3>2, <3>3
  <2>7. QED  BY <2>1, <2>3, <2>4, <2>5, <2>6, Counts
<1>9. ASSUME NEW n \in 1..Disables
      PROVE  \E q \in Queues : n = DisableNumber(q) /\ AllDisabled[n] = Enable(q, 0)
  <2>1. PICK kind \in Kinds : \E i \in 1..Count[kind] :
          n = Offset[kind] + i /\ AllDisabled[n] = Disabled(kind)[i]
    BY <1>8
  <2>2. QED  BY <1>3, <2>1
<1>10. QED  BY <1>7, <1>9 DEF Disables, A

(***************************************************************************)
(* The program of accesses                                                 *)
(***************************************************************************)
LEMMA Targets ==
    ASSUME NEW q \in Opened
    PROVE  TargetOf(q) \in Nat /\ Length(q) \in {8, 9} /\ EnableStep(q) \in 8..Length(q)
<1>1. q \in Queues  BY DEF Opened
<1>2. CASE q.kind = "eq"
  BY <1>2 DEF TargetOf, Length, EnableStep
<1>3. CASE q.kind = "cq"
  <2>1. q.n \in Nat /\ q.n < RXQ_COUNT + TXQ_COUNT  BY <1>1, <1>3, FourKinds DEF Opened
  <2>2. EqnOf(q.n) \in Nat  BY <2>1, CqFacts
  <2>3. QED  BY <1>3, <2>2 DEF TargetOf, Length, EnableStep
<1>4. CASE q.kind \in Rings
  <2>1. CqnOf(q) \in Nat  BY <1>1, <1>4, RingFacts
  <2>2. QED  BY <1>4, <2>1 DEF TargetOf, Length, EnableStep, Rings
<1>5. QED  BY <1>1, <1>2, <1>3, <1>4, FourKinds DEF Rings

LEMMA OpeningIn ==
    ASSUME NEW q \in Opened, NEW k \in 1..Length(q)
    PROVE  Opening(q, k) \in Accesses /\ Opening(q, k).op \in Ops
<1>1. q \in Queues \cup {NoQueue} /\ TargetOf(q) \in Nat  BY Targets DEF Opened
<1>2. QED  BY <1>1 DEF Opening, Enable, Arm, Access, Accesses, Ops, Fields

LEMMA CallIn ==
    ASSUME NEW q \in Opened
    PROVE  /\ Call(q) \in Seq(Accesses) /\ Len(Call(q)) = Length(q) /\ Length(q) \in Nat
           /\ \A k \in 1..Length(q) : Program(Base(q) + k, Call(q)[k])
<1>1. /\ Len(Call(q)) = Length(q) /\ Length(q) \in Nat
      /\ \A k \in 1..Length(q) : Call(q)[k] = Opening(q, k)
  <2>1. Length(q) \in Nat  BY Targets
  <2>2. QED  BY <2>1, Calls
<1>2. \A k \in 1..Length(q) : Call(q)[k] \in Accesses  BY <1>1, OpeningIn
<1>3. Call(q) \in Seq(Accesses)
  <2>1. q \in Queues \cup {NoQueue} /\ TargetOf(q) \in Nat  BY Targets DEF Opened
  <2>2. [op : Ops, q : {q}, val : {0, 1, TargetOf(q)}] \subseteq Accesses
    BY <2>1 DEF Accesses, Ops
  <2> DEFINE A == [op : Ops, q : {q}, val : {0, 1, TargetOf(q)}]
  <2>3. Call(q) \in Seq(A) /\ A \subseteq Accesses  BY <2>2, Calls
  <2> HIDE DEF A
  <2>4. QED  BY <1>1, <1>2, <2>3
<1>4. \A k \in 1..Length(q) : Program(Base(q) + k, Call(q)[k])  BY <1>1 DEF Program
<1>5. QED  BY <1>1, <1>3, <1>4

(* What the n-th access can be. *)
LEMMA ProgramCases ==
    ASSUME NEW n, NEW w, Program(n, w)
    PROVE  \/ \E q \in Queues : n = DisableNumber(q) /\ w = Enable(q, 0)
           \/ n = Disables + 1 /\ w = TxCtrl(0)
           \/ n = Disables + 2 /\ w = RxCtrl(0)
           \/ \E q \in Opened : \E k \in 1..Length(q) : n = Base(q) + k /\ w = Opening(q, k)
           \/ n \in {InitEnd, OpenEnd} /\ w = Read
<1>1. CASE \E q \in Opened : \E k \in 1..Len(Call(q)) : n = Base(q) + k /\ w = Call(q)[k]
  <2>1. PICK q \in Opened : \E k \in 1..Len(Call(q)) : n = Base(q) + k /\ w = Call(q)[k]  BY <1>1
  <2>2. PICK k \in 1..Len(Call(q)) : n = Base(q) + k /\ w = Call(q)[k]  BY <2>1
  <2>3. k \in 1..Length(q) /\ w = Opening(q, k)  BY <2>2, Calls
  <2>4. QED  BY <2>2, <2>3
<1>2. QED  BY <1>1 DEF Program

LEMMA ProgramFacts ==
    ASSUME NEW n, NEW w, Program(n, w)
    PROVE  /\ n \in Nat /\ 1 <= n /\ n <= OpenEnd /\ w \in Accesses
           /\ w = Read <=> n \in {InitEnd, OpenEnd}
           /\ w.op = "read" <=> w = Read
<1>1. Disables \in Nat /\ InitEnd \in Nat /\ OpenEnd \in Nat /\ Disables + 2 < InitEnd /\ InitEnd < OpenEnd
  BY DisableNumbers, CqBases, Bases, Counts
<1>2. Read.op = "read"  BY DEF Read, Access
<1>3. CASE \E q \in Queues : n = DisableNumber(q) /\ w = Enable(q, 0)
  <2>1. PICK q \in Queues : n = DisableNumber(q) /\ w = Enable(q, 0)  BY <1>3
  <2>2. DisableNumber(q) \in 1..Disables  BY DisableNumbers
  <2>3. w \in Accesses /\ w.op = "enable"  BY <2>1 DEF Enable, Access, Accesses
  <2>4. QED  BY <1>1, <1>2, <2>1, <2>2, <2>3
<1>4. CASE (n = Disables + 1 /\ w = TxCtrl(0)) \/ (n = Disables + 2 /\ w = RxCtrl(0))
  <2>1. w \in Accesses /\ w.op \in {"tx_ctrl", "rx_ctrl"}
    BY <1>4 DEF TxCtrl, RxCtrl, Access, Accesses
  <2>2. QED  BY <1>1, <1>2, <1>4, <2>1
<1>5. CASE \E q \in Opened : \E k \in 1..Length(q) : n = Base(q) + k /\ w = Opening(q, k)
  <2>1. PICK q \in Opened : \E k \in 1..Length(q) : n = Base(q) + k /\ w = Opening(q, k)  BY <1>5
  <2>2. PICK k \in 1..Length(q) : n = Base(q) + k /\ w = Opening(q, k)  BY <2>1
  <2>3. w \in Accesses /\ w.op # "read"  BY <2>2, OpeningIn DEF Ops, Fields
  <2>4. /\ Base(q) \in Nat /\ Disables + 2 <= Base(q) /\ Base(q) + Length(q) < OpenEnd
        /\ Length(q) \in {8, 9}
    BY Bases, Targets
  <2>5. n # InitEnd
    <3>1. CASE q.kind = "eq"
      <4>1. Base(q) + 9 < InitEnd  BY <3>1, Bases
      <4>2. QED  BY <1>1, <2>2, <2>4, <4>1
    <3>2. CASE q.kind # "eq"
      <4>1. InitEnd <= Base(q)  BY <3>2, Bases
      <4>2. QED  BY <1>1, <2>2, <2>4, <4>1
    <3>3. QED  BY <3>1, <3>2
  <2>6. QED  BY <1>1, <1>2, <2>2, <2>3, <2>4, <2>5
<1>6. CASE n \in {InitEnd, OpenEnd} /\ w = Read
  <2>1. w \in Accesses  BY <1>6 DEF Read, Access, Accesses
  <2>2. QED  BY <1>1, <1>2, <1>6, <2>1
<1>7. QED  BY <1>3, <1>4, <1>5, <1>6, ProgramCases

(***************************************************************************)
(* How many accesses are made, and applied                                 *)
(***************************************************************************)
LEMMA Lengths ==
    ASSUME DriverTypes, Stages
    PROVE  /\ Len(eqs) \in Nat /\ Len(rings.rxq) \in Nat /\ Len(rings.txq) \in Nat
           /\ Len(mmio) \in Nat /\ Len(todo) \in Nat /\ ringsOpened \in Nat
           /\ ringsOpened = Len(rings.rxq) + Len(rings.txq)
           /\ ringsOpened <= RXQ_COUNT + TXQ_COUNT
           /\ ~listed => ringsOpened = 0
           /\ stage = "rxq" => ringsOpened = Len(rings.rxq)
           /\ stage = "txq" => ringsOpened = RXQ_COUNT + Len(rings.txq)
           /\ opening.cqn # None /\ stage = "rxq" => Len(rings.rxq) < RXQ_COUNT
           /\ opening.cqn # None /\ stage = "txq" => Len(rings.txq) < TXQ_COUNT
<1>1. "rxq" \in Rings /\ "txq" \in Rings  BY DEF Rings
<1>2. rings["rxq"] \in Seq([index : Nat, cqn : Nat]) /\ rings["txq"] \in Seq([index : Nat, cqn : Nat])
  BY <1>1 DEF DriverTypes
<1>3. /\ Len(eqs) \in Nat /\ Len(mmio) \in Nat /\ Len(todo) \in Nat
      /\ Len(rings.rxq) \in Nat /\ Len(rings.txq) \in Nat
  BY <1>2, LenProperties DEF DriverTypes
<1>4. /\ Len(rings.rxq) <= RXQ_COUNT /\ Len(rings.txq) <= TXQ_COUNT
      /\ ~listed => rings.rxq = <<>> /\ rings.txq = <<>>
      /\ stage = "rxq" => rings.txq = <<>>
      /\ stage = "txq" => Len(rings.rxq) = RXQ_COUNT
      /\ opening.cqn # None /\ stage = "rxq" => Len(rings.rxq) < RXQ_COUNT
      /\ opening.cqn # None /\ stage = "txq" => Len(rings.txq) < TXQ_COUNT
  BY Counts DEF Stages, listed
<1>5. \A s : s = <<>> => Len(s) = 0  OBVIOUS
<1>6. ringsOpened = Len(rings.rxq) + Len(rings.txq)  BY DEF ringsOpened
<1>7. /\ ~listed => Len(rings.rxq) = 0 /\ Len(rings.txq) = 0
      /\ stage = "rxq" => Len(rings.txq) = 0
  BY <1>4, <1>5
<1>8. Len(rings.rxq) <= RXQ_COUNT /\ Len(rings.txq) <= TXQ_COUNT  BY <1>4
<1> DEFINE r == Len(rings.rxq)
           t == Len(rings.txq)
<1>9. /\ r \in Nat /\ t \in Nat /\ r <= RXQ_COUNT /\ t <= TXQ_COUNT
      /\ ~listed => r = 0 /\ t = 0
      /\ stage = "rxq" => t = 0
      /\ stage = "txq" => r = RXQ_COUNT
      /\ ringsOpened = r + t
  BY <1>3, <1>4, <1>6, <1>7, <1>8
<1>10. SUFFICES /\ ringsOpened \in Nat /\ ringsOpened <= RXQ_COUNT + TXQ_COUNT
                /\ ~listed => ringsOpened = 0
                /\ stage = "rxq" => ringsOpened = r
                /\ stage = "txq" => ringsOpened = RXQ_COUNT + t
  BY <1>3, <1>4, <1>6
<1> HIDE DEF r, t
<1>11. QED  BY <1>9, Counts

LEMMA CalledFacts ==
    ASSUME DriverTypes, Stages
    PROVE  /\ called \in Nat /\ called <= OpenEnd
           /\ stage \in {"disable", "eq"} => called < InitEnd
           /\ stage = "init_flush" => called = InitEnd
           /\ stage \in Rings => InitEnd <= called /\ called < OpenEnd
           /\ stage = "open_flush" \/ stage \in Late => called = OpenEnd
<1>1. /\ InitEnd \in Nat /\ OpenEnd \in Nat /\ InitEnd < OpenEnd
      /\ InitEnd = Disables + 3 + 9 * EQ_COUNT /\ Disables \in Nat
  BY CqBases, Bases, DisableNumbers
<1>2. CASE stage = "disable"
  <2>1. called = Disables  BY <1>2 DEF called, Rings
  <2>2. QED  BY <1>1, <1>2, <2>1, Counts DEF Rings, Late
<1>3. CASE stage = "eq"
  <2>1. called = Disables + 2 + 9 * Len(eqs)  BY <1>3 DEF called, Rings
  <2>2. Len(eqs) \in Nat /\ Len(eqs) <= EQ_COUNT  BY Lengths DEF Stages
  <2>3. QED  BY <1>1, <1>3, <2>1, <2>2, Counts DEF Rings, Late
<1>4. CASE stage = "init_flush"
  <2>1. called = InitEnd  BY <1>4 DEF called, Rings
  <2>2. QED  BY <1>1, <1>4, <2>1 DEF Rings, Late
<1>5. CASE stage \in Rings
  <2>1. called = CqBase(ringsOpened) + (IF opening.cqn = None THEN 0 ELSE 9)
                 + (IF opening.index = None THEN 0 ELSE IF stage = "rxq" THEN 9 ELSE 8)
    BY <1>5 DEF called, Rings
  <2>2. /\ CqBase(ringsOpened) \in Nat /\ InitEnd <= CqBase(ringsOpened)
        /\ CqBase(RXQ_COUNT + TXQ_COUNT) \in Nat /\ OpenEnd = CqBase(RXQ_COUNT + TXQ_COUNT) + 1
        /\ CqBase(ringsOpened) <= CqBase(RXQ_COUNT + TXQ_COUNT)
    <3>1. RXQ_COUNT + TXQ_COUNT \in Nat /\ RXQ_COUNT + TXQ_COUNT <= RXQ_COUNT + TXQ_COUNT  BY Counts
    <3>2. /\ CqBase(ringsOpened) \in Nat /\ InitEnd <= CqBase(ringsOpened)
          /\ CqBase(RXQ_COUNT + TXQ_COUNT) \in Nat /\ OpenEnd = CqBase(RXQ_COUNT + TXQ_COUNT) + 1
      BY <3>1, Lengths, CqBases
    <3>3. CASE ringsOpened = RXQ_COUNT + TXQ_COUNT
      BY <3>2, <3>3
    <3>4. CASE ringsOpened < RXQ_COUNT + TXQ_COUNT
      <4>1. CqBase(ringsOpened) + (IF ringsOpened < RXQ_COUNT THEN 18 ELSE 17)
              <= CqBase(RXQ_COUNT + TXQ_COUNT)
        BY <3>1, <3>4, Lengths, CqBases
      <4>2. QED  BY <3>2, <4>1
    <3>5. ringsOpened \in Nat /\ ringsOpened <= RXQ_COUNT + TXQ_COUNT  BY Lengths
    <3>6. QED  BY <3>1, <3>2, <3>3, <3>4, <3>5
  <2>3. CASE opening.cqn = None
    <3>1. opening.index = None  BY <2>3 DEF Stages
    <3>2. called = CqBase(ringsOpened)  BY <2>1, <2>2, <2>3, <3>1
    <3>3. QED  BY <1>1, <1>5, <2>2, <3>2 DEF Rings, Late
  <2>4. CASE opening.cqn # None
    <3>1. ringsOpened < RXQ_COUNT + TXQ_COUNT /\ (stage = "rxq" <=> ringsOpened < RXQ_COUNT)
      <4>1. CASE stage = "rxq"
        <5>1. ringsOpened = Len(rings.rxq) /\ Len(rings.rxq) < RXQ_COUNT /\ ringsOpened \in Nat
          BY <2>4, <4>1, Lengths
        <5>2. QED  BY <4>1, <5>1, Counts
      <4>2. CASE stage = "txq"
        <5>1. /\ ringsOpened = RXQ_COUNT + Len(rings.txq) /\ Len(rings.txq) < TXQ_COUNT
              /\ Len(rings.txq) \in Nat
          BY <2>4, <4>2, Lengths
        <5>2. QED  BY <4>2, <5>1, Counts
      <4>3. QED  BY <1>5, <4>1, <4>2 DEF Rings
    <3>2. CqBase(ringsOpened) + (IF ringsOpened < RXQ_COUNT THEN 18 ELSE 17)
            <= CqBase(RXQ_COUNT + TXQ_COUNT)
      <4>1. RXQ_COUNT + TXQ_COUNT \in Nat /\ RXQ_COUNT + TXQ_COUNT <= RXQ_COUNT + TXQ_COUNT  BY Counts
      <4>2. QED  BY <3>1, <4>1, Lengths, CqBases
    <3>3. /\ called \in Nat
          /\ called <= CqBase(ringsOpened) + (IF ringsOpened < RXQ_COUNT THEN 18 ELSE 17)
          /\ CqBase(ringsOpened) <= called
      BY <2>1, <2>2, <3>1
    <3>4. QED  BY <1>1, <1>5, <2>2, <3>2, <3>3 DEF Rings, Late
  <2>5. QED  BY <2>3, <2>4
<1>6. CASE stage = "open_flush" \/ stage \in Late
  <2>1. called = OpenEnd  BY <1>6 DEF called, Rings, Late
  <2>2. QED  BY <1>1, <1>6, <2>1 DEF Rings, Late
<1>7. QED  BY <1>2, <1>3, <1>4, <1>5, <1>6 DEF DriverTypes, Rings, Late

LEMMA AppliedFacts ==
    ASSUME DriverTypes, Stages, Pending
    PROVE  /\ applied \in Nat /\ applied <= OpenEnd
           /\ listed => InitEnd <= applied
           /\ ~listed => applied <= InitEnd
           /\ stage \notin Late => called = applied + Len(mmio) + Len(todo)
           /\ stage \in Late => applied = OpenEnd
<1>1. OpenEnd \in Nat /\ InitEnd < OpenEnd /\ InitEnd \in Nat  BY CqBases, Bases
<1>2. CASE stage \in Late
  <2>1. applied = OpenEnd  BY <1>2 DEF applied
  <2>2. listed  BY <1>2 DEF listed, Late
  <2>3. QED  BY <1>1, <1>2, <2>1, <2>2
<1>3. CASE stage \notin Late
  <2>1. applied = called - (Len(mmio) + Len(todo))  BY <1>3 DEF applied
  <2>2. called \in Nat /\ called <= OpenEnd /\ Len(mmio) \in Nat /\ Len(todo) \in Nat
    BY CalledFacts, Lengths
  <2>3. applied \in Int /\ called = applied + Len(mmio) + Len(todo) /\ applied <= called
    BY <2>1, <2>2
  <2>4. applied >= 0
    <3>1. CASE Len(mmio) > 0
      <4>1. 1 \in 1..Len(mmio)  BY <2>2, <3>1
      <4>2. Program(applied + 1, mmio[1])  BY <1>3, <4>1 DEF Pending
      <4>3. QED  BY <2>3, <4>2, ProgramFacts
    <3>2. CASE Len(mmio) = 0 /\ Len(todo) > 0
      <4>1. 1 \in 1..Len(todo)  BY <2>2, <3>2
      <4>2. Program(applied + Len(mmio) + 1, todo[1])  BY <1>3, <4>1 DEF Pending
      <4>3. QED  BY <2>3, <3>2, <4>2, ProgramFacts
    <3>3. QED  BY <2>2, <2>3, <3>1, <3>2
  <2>5. listed => InitEnd <= applied  BY <1>3 DEF Pending
  <2>6. ~listed => called <= InitEnd  BY <1>1, CalledFacts DEF listed, DriverTypes
  <2>7. QED  BY <1>1, <1>3, <2>2, <2>3, <2>4, <2>5, <2>6
<1>4. QED  BY <1>2, <1>3

(***************************************************************************)
(* Steps that leave the queues alone                                       *)
(***************************************************************************)
(* What holds unless a ring of another driver reports to queues of this    *)
(* one.                                                                    *)
Paths == Intruders = {} => EventQueues /\ CompletionQueues

(* The invariant without what follows from the rest of it. *)
Core ==
    /\ DriverTypes /\ Objects /\ Stages /\ Pending /\ HandlerTypes /\ Handler
    /\ DeviceTypes /\ Registers /\ Announcing /\ NothingLost /\ Paths

(* What a step leaves of a queue's registers when it configures nothing. *)
SameConfiguration(q) ==
    hw'[q].enabled = hw[q].enabled /\ hw'[q].set = hw[q].set /\ hw'[q].target = hw[q].target

LEMMA SameRegisters ==
    ASSUME Registers, applied' = applied, \A q \in DeviceQueues : SameConfiguration(q)
    PROVE  Registers'
<1>1. \A q \in Queues : RegistersAt(q, applied)'
  BY DeviceQueueFacts DEF Registers, RegistersAt, SameConfiguration
<1>2. \A q \in DeviceQueues \ Queues : hw'[q].set = {}  BY DEF Registers, SameConfiguration
<1>3. QED  BY <1>1, <1>2 DEF Registers

(* The path of a ring by the device's registers. *)
LEMMA PathOf ==
    ASSUME DeviceTypes, NEW r \in DeviceQueues
    PROVE  /\ r.kind \in Rings => /\ hw[r].target \in Nat /\ hw[r].target < DEVICE_CQS
                                  /\ CqOf(r) \in DeviceQueues /\ CqOf(r).kind = "cq"
           /\ r.kind = "cq" => hw[r].target \in Nat /\ hw[r].target < DEVICE_EQS
                               /\ Queue("eq", hw[r].target) \in DeviceQueues
<1>1. hw[r] \in QueueRegisters  BY DEF DeviceTypes
<1>2. hw[r].target \in Nat  BY <1>1 DEF QueueRegisters
<1>3. QED  BY <1>2, DeviceQueueIn, QueueFacts DEF DeviceTypes, CqOf

(* The driver does not configure the queues it does not manage. *)
LEMMA SameIntruders ==
    ASSUME DeviceTypes, \A q \in DeviceQueues \ Queues : SameConfiguration(q)
    PROVE  Intruders' = Intruders
<1> DEFINE In(r) == /\ r.kind \in Rings /\ hw[r].enabled
                    /\ CqOf(r) \in Queues \/ (hw[CqOf(r)].enabled /\ EqOf(CqOf(r)) \in Queues)
<1>1. ASSUME NEW r \in DeviceQueues \ Queues PROVE In(r)' <=> In(r)
  <2>1. CASE r.kind \notin Rings
    BY <2>1
  <2>2. CASE r.kind \in Rings
    <3>1. CqOf(r) \in DeviceQueues  BY <2>2, PathOf
    <3>2. CqOf(r)' = CqOf(r) /\ hw'[r].enabled = hw[r].enabled  BY DEF CqOf, SameConfiguration
    <3>3. CASE CqOf(r) \in Queues
      BY <3>2, <3>3
    <3>4. CASE CqOf(r) \notin Queues
      <4> DEFINE q == CqOf(r)
      <4>1. SameConfiguration(q)  BY <3>1, <3>4
      <4>2. hw'[q].enabled = hw[q].enabled /\ EqOf(q)' = Queue("eq", hw'[q].target)
            /\ EqOf(q) = Queue("eq", hw[q].target) /\ hw'[q].target = hw[q].target
        BY <3>2, <4>1 DEF EqOf, SameConfiguration
      <4>3. (hw[CqOf(r)].enabled)' = hw'[q].enabled  BY <3>2
      <4>4. QED  BY <3>2, <4>2, <4>3
    <3>5. QED  BY <3>3, <3>4
  <2>3. QED  BY <2>1, <2>2
<1>2. Intruders = {r \in DeviceQueues \ Queues : In(r)}  BY DEF Intruders
<1>3. Intruders' = {r \in DeviceQueues \ Queues : In(r)'}  BY DEF Intruders
<1> HIDE DEF In
<1>4. QED  BY <1>1, <1>2, <1>3

(* Event and completion queues of the driver that a step does not touch.   *)
LEMMA Kept ==
    ASSUME EventQueues, CompletionQueues, applied' = applied, listed => listed',
           \A e \in 0..EQ_COUNT - 1 :
                /\ hw'[Queue("eq", e)] = hw[Queue("eq", e)] /\ events'[e] = events[e]
                /\ listed /\ Watched(e) => Watched(e)',
           \A c \in 0..RXQ_COUNT + TXQ_COUNT - 1 : hw'[Queue("cq", c)].work = hw[Queue("cq", c)].work
    PROVE  EventQueues' /\ CompletionQueues'
<1>1. ASSUME NEW e \in 0..EQ_COUNT - 1 PROVE EventQueueAt(e, applied)'
  <2>1. EventQueueAt(e, applied)  BY DEF EventQueues
  <2>2. QED  BY <2>1 DEF EventQueueAt
<1>2. CompletionQueues'  BY DEF CompletionQueues, CompletionQueueAt
<1>3. QED  BY <1>1, <1>2 DEF EventQueues

(* Interrupts and handler, and with them who watches, are left alone. *)
LEMMA SameWatch ==
    ASSUME UNCHANGED <<irqs, handlerVars>>, NEW e
    PROVE  Watched(e)' <=> Watched(e)
  BY DEF Watched, handlerVars

LEMMA SameHandler ==
    ASSUME HandlerTypes, Handler, UNCHANGED handlerVars, listed => listed'
    PROVE  HandlerTypes' /\ Handler'
<1>1. handling' = handling /\ arming' = arming /\ arms' = arms  BY DEF handlerVars
<1>2. HandlerTypes'  BY <1>1 DEF HandlerTypes
<1>3. Handler'  BY <1>1 DEF Handler
<1>4. QED  BY <1>2, <1>3

LEMMA SameDevice ==
    ASSUME Core, UNCHANGED <<deviceVars, irqs, handlerVars>>, applied' = applied, listed => listed'
    PROVE  /\ HandlerTypes' /\ Handler' /\ DeviceTypes' /\ Registers' /\ Announcing'
           /\ NothingLost' /\ Paths'
<1>1. /\ hw' = hw /\ events' = events /\ lost' = lost /\ irqs' = irqs
      /\ tx_ctrl' = tx_ctrl /\ rx_ctrl' = rx_ctrl
  BY DEF deviceVars
<1>2. \A q : SameConfiguration(q)  BY <1>1 DEF SameConfiguration
<1>3. Registers'  BY <1>2, SameRegisters DEF Core
<1>4. DeviceTypes'  BY <1>1 DEF Core, DeviceTypes
<1>5. Announcing'  BY <1>1 DEF Core, Announcing
<1>6. NothingLost'  BY <1>1 DEF Core, NothingLost
<1>7. Intruders' = Intruders  BY <1>2, SameIntruders DEF Core
<1>8. ASSUME EventQueues, CompletionQueues PROVE EventQueues' /\ CompletionQueues'
  <2>1. \A e \in 0..EQ_COUNT - 1 : Watched(e)' <=> Watched(e)  BY SameWatch
  <2>2. QED  BY <1>1, <1>8, <2>1, Kept
<1>9. Paths'  BY <1>7, <1>8 DEF Core, Paths
<1>10. QED  BY <1>3, <1>4, <1>5, <1>6, <1>9, SameHandler DEF Core

(***************************************************************************)
(* The driver's numbers                                                    *)
(***************************************************************************)
LEMMA TakenFacts ==
    ASSUME DriverTypes, Stages
    PROVE  /\ taken["eq"] = Len(eqs) /\ taken["eq"] \in Nat
           /\ taken["cq"] = ringsOpened + (IF opening.cqn = None THEN 0 ELSE 1) /\ taken["cq"] \in Nat
           /\ taken["txq"] = Len(rings.txq) + (IF stage = "txq" /\ opening.index # None THEN 1 ELSE 0)
           /\ taken["rxq"] = Len(rings.rxq) + (IF stage = "rxq" /\ opening.index # None THEN 1 ELSE 0)
           /\ taken["txq"] \in Nat /\ taken["rxq"] \in Nat
<1>1. /\ taken["eq"] = Len(eqs)
      /\ taken["cq"] = ringsOpened + (IF opening.cqn = None THEN 0 ELSE 1)
      /\ taken["txq"] = Len(rings.txq) + (IF stage = "txq" /\ opening.index # None THEN 1 ELSE 0)
      /\ taken["rxq"] = Len(rings.rxq) + (IF stage = "rxq" /\ opening.index # None THEN 1 ELSE 0)
  BY DEF taken
<1>2. /\ Len(eqs) \in Nat /\ ringsOpened \in Nat
      /\ Len(rings.txq) \in Nat /\ Len(rings.rxq) \in Nat
  BY Lengths
<1>3. \A n \in Nat : \A c : n + (IF c THEN 1 ELSE 0) \in Nat /\ n + (IF c THEN 0 ELSE 1) \in Nat  OBVIOUS
<1>4. /\ taken["eq"] \in Nat /\ taken["cq"] \in Nat
      /\ taken["txq"] \in Nat /\ taken["rxq"] \in Nat
  BY <1>1, <1>2, <1>3, Zenon
<1>5. QED  BY <1>1, <1>4

LEMMA Taking ==
    ASSUME NEW s \in Seq(Nat), NEW t \in Nat, NEW m \in Nat, t < m, Len(s) = m - t,
           \A i \in 1..Len(s) : s[i] = t + i - 1
    PROVE  /\ Head(s) = t /\ Tail(s) \in Seq(Nat) /\ Len(Tail(s)) = m - (t + 1)
           /\ \A i \in 1..Len(Tail(s)) : Tail(s)[i] = (t + 1) + i - 1
<1>1. s # <<>> /\ Len(s) \in Nat /\ Len(s) >= 1  BY EmptySeq, LenProperties
<1>2. Head(s) = s[1] /\ Tail(s) \in Seq(Nat) /\ Len(Tail(s)) = Len(s) - 1
      /\ \A i \in 1..Len(Tail(s)) : Tail(s)[i] = s[i + 1]
  BY <1>1, HeadTailProperties
<1>3. 1 \in 1..Len(s) /\ \A i \in 1..Len(s) - 1 : i + 1 \in 1..Len(s)  BY <1>1
<1>4. QED  BY <1>1, <1>2, <1>3

LEMMA Alloc ==
    ASSUME DriverTypes, Stages, FreeLists, NEW kind \in Kinds, alloc(kind), taken[kind] < Count[kind],
           taken'[kind] = taken[kind] + 1,
           \A k \in Kinds \ {kind} : taken'[k] = taken[k]
    PROVE  /\ FreeLists' /\ Head(free_list[kind]) = taken[kind]
           /\ free_list' \in [Kinds -> Seq(Nat)]
           /\ \A k \in Kinds : free_list'[k] \in Seq(0..Count[k] - 1)
<1> DEFINE s == free_list[kind]
           t == taken[kind]
           m == Count[kind]
<1>1. /\ s \in Seq(Nat) /\ t \in Nat /\ m \in Nat /\ t < m /\ Len(s) = m - t
      /\ \A i \in 1..Len(s) : s[i] = t + i - 1
      /\ s \in Seq(0..m - 1)
  BY TakenFacts, Counts DEF DriverTypes, FreeLists, Kinds
<1>2. free_list' = [free_list EXCEPT ![kind] = Tail(s)]  BY DEF alloc
<1> HIDE DEF s, t, m
<1>3. /\ Head(s) = t /\ Tail(s) \in Seq(Nat) /\ Len(Tail(s)) = m - (t + 1)
      /\ \A i \in 1..Len(Tail(s)) : Tail(s)[i] = (t + 1) + i - 1
  BY <1>1, Taking
<1>4. Tail(s) \in Seq(0..m - 1)
  <2>1. s # <<>>  BY <1>1, EmptySeq
  <2>2. QED  BY <1>1, <2>1, HeadTailProperties
<1>5. /\ free_list'[kind] = Tail(s) /\ free_list' \in [Kinds -> Seq(Nat)]
      /\ \A k \in Kinds \ {kind} : free_list'[k] = free_list[k]
  BY <1>2, <1>3 DEF DriverTypes
<1>6. \A k \in Kinds : free_list'[k] \in Seq(0..Count[k] - 1)
  BY <1>4, <1>5 DEF DriverTypes, m
<1>7. FreeLists'
  <2>1. ASSUME NEW k \in Kinds
        PROVE  /\ Len(free_list'[k]) = Count[k] - taken'[k]
               /\ \A i \in 1..Len(free_list'[k]) : free_list'[k][i] = taken'[k] + i - 1
    <3>1. CASE k = kind
      BY <1>3, <1>5, <3>1 DEF m, t
    <3>2. CASE k # kind
      <4>1. free_list'[k] = free_list[k] /\ taken'[k] = taken[k]  BY <1>5, <3>2
      <4>2. QED  BY <4>1 DEF FreeLists
    <3>3. QED  BY <3>1, <3>2
  <2>2. QED  BY <2>1 DEF FreeLists
<1>8. QED  BY <1>3, <1>5, <1>6, <1>7 DEF s, t

LEMMA SameLists ==
    ASSUME FreeLists, UNCHANGED free_list, \A k \in Kinds : taken'[k] = taken[k]
    PROVE  FreeLists'
  BY DEF FreeLists

(***************************************************************************)
(* The driver's next call                                                  *)
(***************************************************************************)
Flushes == {"init_flush", "open_flush"}

LEMMA NewCall ==
    ASSUME DriverTypes, Stages, Pending, NEW from, NEW to, NEW accesses \in Seq(Accesses),
           Step(from, to, accesses), from \notin Late, to \notin Late,
           called' = called + Len(accesses),
           \A i \in 1..Len(accesses) : Program(called + i, accesses[i]),
           to \in Flushes => accesses # <<>>,
           to \notin {"disable", "eq", "init_flush"} => InitEnd <= applied
    PROVE  applied' = applied /\ Pending'
<1>1. /\ stage = from /\ stage' = to /\ todo = <<>> /\ ~reading /\ todo' = accesses
      /\ ~reading' /\ mmio' = mmio
  BY DEF Step, Returned
<1>2. /\ called \in Nat /\ Len(mmio) \in Nat /\ Len(accesses) \in Nat /\ Len(todo) = 0
      /\ called = applied + Len(mmio) /\ applied \in Nat
  <2>1. Len(todo) = 0 /\ Len(accesses) \in Nat  BY <1>1, LenProperties
  <2>2. called = applied + Len(mmio) + Len(todo)  BY <1>1, AppliedFacts
  <2>3. called \in Nat /\ Len(mmio) \in Nat /\ applied \in Nat  BY CalledFacts, Lengths, AppliedFacts
  <2>4. QED  BY <2>1, <2>2, <2>3
<1>3. applied' = applied
  <2>1. applied' = called' - (Len(mmio') + Len(todo'))  BY <1>1 DEF applied
  <2>2. QED  BY <1>1, <1>2, <2>1
<1>4. stage \notin Late /\ stage' \notin Late  BY <1>1
<1>5. \A i \in 1..Len(mmio') : Program(applied' + i, mmio'[i])  BY <1>1, <1>3, <1>4 DEF Pending
<1>6. \A i \in 1..Len(todo') : Program(applied' + Len(mmio') + i, todo'[i])
  BY <1>1, <1>2, <1>3
<1>7. (reading' => stage' \in Flushes /\ mmio' # <<>> /\ todo' = <<>>)
      /\ (stage' \in Flushes /\ todo' = <<>> /\ ~reading' => mmio' = <<>>)
  BY <1>1
<1>8. listed' => applied' >= InitEnd  BY <1>1, <1>2, <1>3, CqBases DEF listed
<1>9. QED  BY <1>3, <1>4, <1>5, <1>6, <1>7, <1>8 DEF Pending, Flushes

LEMMA DriverStep ==
    ASSUME Core, NEW from, NEW to, NEW accesses \in Seq(Accesses),
           Step(from, to, accesses), from \notin Late, to \notin Late,
           called' = called + Len(accesses),
           \A i \in 1..Len(accesses) : Program(called + i, accesses[i]),
           to \in Flushes => accesses # <<>>,
           to \notin {"disable", "eq", "init_flush"} => InitEnd <= applied,
           listed => listed',
           DriverTypes', Objects', Stages'
    PROVE  Core'
<1>1. applied' = applied /\ Pending'  BY NewCall DEF Core
<1>2. UNCHANGED <<deviceVars, irqs, handlerVars>>  BY DEF Step
<1>3. /\ HandlerTypes' /\ Handler' /\ DeviceTypes' /\ Registers' /\ Announcing'
      /\ NothingLost' /\ Paths'
  BY <1>1, <1>2, SameDevice
<1>4. QED  BY <1>1, <1>3 DEF Core

(* The same once the port may be switched on. *)
LEMMA LateStep ==
    ASSUME Core, NEW from, NEW to, NEW accesses \in Seq(LateAccesses),
           Step(from, to, accesses), from = "open_flush" \/ from \in Late, to \in Late,
           DriverTypes', Objects', Stages'
    PROVE  Core'
<1>1. /\ stage = from /\ stage' = to /\ todo = <<>> /\ ~reading /\ todo' = accesses
      /\ mmio' = mmio
  BY DEF Step, Returned
<1>2. from = "open_flush" => from \notin Late  BY DEF Late
<1>3. from = "open_flush" => mmio = <<>>  BY <1>1, <1>2 DEF Core, Pending
<1>4. applied = OpenEnd
  <2>1. CASE from \in Late
    BY <1>1, <2>1, AppliedFacts DEF Core
  <2>2. CASE from = "open_flush"
    <3>1. called = OpenEnd /\ called = applied + Len(mmio) + Len(todo) /\ applied \in Nat
      BY <1>1, <1>2, <2>2, CalledFacts, AppliedFacts DEF Core
    <3>2. Len(mmio) = 0 /\ Len(todo) = 0  BY <1>1, <1>3, <2>2
    <3>3. QED  BY <3>1, <3>2
  <2>3. QED  BY <2>1, <2>2
<1>5. applied' = applied  BY <1>1, <1>4 DEF applied
<1>6. \A i \in 1..Len(mmio') : mmio'[i] \in LateAccesses
  <2>1. CASE from \in Late
    BY <1>1, <2>1 DEF Core, Pending
  <2>2. CASE from = "open_flush"
    <3>1. Len(mmio') = 0  BY <1>1, <1>3, <2>2
    <3>2. QED  BY <3>1
  <2>3. QED  BY <2>1, <2>2
<1>7. \A i \in 1..Len(todo') : todo'[i] \in LateAccesses  BY <1>1, ElementOfSeq
<1>8. Pending'  BY <1>1, <1>6, <1>7 DEF Pending
<1>9. listed' /\ UNCHANGED <<deviceVars, irqs, handlerVars>>  BY <1>1 DEF Step, listed, Late
<1>10. /\ HandlerTypes' /\ Handler' /\ DeviceTypes' /\ Registers' /\ Announcing'
       /\ NothingLost' /\ Paths'
  BY <1>5, <1>9, SameDevice
<1>11. QED  BY <1>8, <1>10 DEF Core

(***************************************************************************)
(* Statements that only move on                                            *)
(***************************************************************************)
StageNames == {"disable", "eq", "init_flush", "rxq", "txq", "open_flush", "switch_on", "up",
               "close", "close_flush", "raised"}

LEMMA Unchanging ==
    ASSUME Core, NEW from, NEW to \in StageNames, NEW accesses \in Seq(Accesses),
           Step(from, to, accesses), UNCHANGED <<free_list, eqs, rings, opening, cqs>>,
           port_up' \in BOOLEAN, opening.cqn = None
    PROVE  DriverTypes' /\ Objects' /\ opening.index = None
<1>1. stage' = to /\ todo' = accesses /\ mmio' = mmio /\ reading' = reading  BY DEF Step
<1>2. DriverTypes'  BY <1>1 DEF Core, DriverTypes, StageNames
<1>3. opening.index = None /\ opening' = opening /\ rings' = rings /\ eqs' = eqs
  BY DEF Core, Stages
<1>4. taken' = taken  BY <1>3 DEF taken, ringsOpened
<1>5. Objects'  BY <1>4 DEF Core, Objects, FreeLists, CqObjects
<1>6. QED  BY <1>2, <1>3, <1>5

LEMMA InitPortStep == ASSUME Core, InitPort PROVE Core'
<1> DEFINE accesses == <<TxCtrl(0), RxCtrl(0)>>
<1>1. /\ Step("disable", "eq", accesses) /\ port_up' = port_up
      /\ UNCHANGED <<free_list, eqs, rings, opening, cqs>>
  BY DEF InitPort
<1>2. stage = "disable" /\ stage' = "eq"  BY <1>1 DEF Step
<1>3. TxCtrl(0) \in Accesses /\ RxCtrl(0) \in Accesses  BY DEF TxCtrl, RxCtrl, Access, Accesses
<1>4. /\ accesses \in Seq(Accesses) /\ Len(accesses) = 2
      /\ accesses[1] = TxCtrl(0) /\ accesses[2] = RxCtrl(0)
  BY <1>3
<1> HIDE DEF accesses
<1>5. opening.cqn = None /\ eqs = <<>> /\ port_up \in BOOLEAN
  BY <1>2 DEF Core, Stages, Rings, DriverTypes
<1>6. DriverTypes' /\ Objects' /\ opening.index = None
  BY <1>1, <1>4, <1>5, Unchanging DEF StageNames
<1>7. Stages'
  BY <1>1, <1>2, <1>5, <1>6, Counts DEF Core, Stages, listed, Rings, Late, ringsOpened, Step, deviceVars
<1>8. called = Disables /\ called' = called + 2
  <2>1. called = Disables  BY <1>2 DEF called, Rings
  <2>2. called' = Disables + 2 + 9 * Len(eqs')  BY <1>2 DEF called, Rings
  <2>3. eqs' = <<>>  BY <1>1, <1>5
  <2>4. Len(eqs') = 0  BY <2>3
  <2>5. QED  BY <2>1, <2>2, <2>4, DisableNumbers
<1>9. \A i \in 1..Len(accesses) : Program(called + i, accesses[i])
  <2>1. Program(Disables + 1, TxCtrl(0)) /\ Program(Disables + 2, RxCtrl(0))  BY DEF Program
  <2>2. \A i \in 1..2 : i = 1 \/ i = 2  OBVIOUS
  <2>3. QED  BY <1>4, <1>8, <2>1, <2>2
<1>10. QED
  BY <1>1, <1>2, <1>4, <1>6, <1>7, <1>8, <1>9, DriverStep DEF listed, Late, Flushes

LEMMA InitFlushStep == ASSUME Core, InitFlush PROVE Core'
<1> DEFINE accesses == <<Read>>
<1>1. /\ Step("eq", "init_flush", accesses) /\ port_up' = port_up /\ Len(eqs) = EQ_COUNT
      /\ UNCHANGED <<free_list, eqs, rings, opening, cqs>>
  BY DEF InitFlush
<1>2. stage = "eq" /\ stage' = "init_flush"  BY <1>1 DEF Step
<1>3. Read \in Accesses  BY DEF Read, Access, Accesses
<1>4. accesses \in Seq(Accesses) /\ Len(accesses) = 1 /\ accesses[1] = Read /\ accesses # <<>>
  BY <1>3
<1> HIDE DEF accesses
<1>5. opening.cqn = None /\ port_up \in BOOLEAN
  BY <1>2 DEF Core, Stages, Rings, DriverTypes
<1>6. DriverTypes' /\ Objects' /\ opening.index = None
  BY <1>1, <1>4, <1>5, Unchanging DEF StageNames
<1>7. Stages'
  BY <1>1, <1>2, <1>5, <1>6, Counts DEF Core, Stages, listed, Rings, Late, ringsOpened, Step, deviceVars
<1>8. called + 1 = InitEnd /\ called' = InitEnd
  <2>1. called = Disables + 2 + 9 * EQ_COUNT  BY <1>1, <1>2 DEF called, Rings
  <2>2. called' = InitEnd  BY <1>2 DEF called, Rings
  <2>3. QED  BY <2>1, <2>2, CqBases, DisableNumbers, Counts
<1>9. \A i \in 1..Len(accesses) : Program(called + i, accesses[i])
  <2>1. Program(InitEnd, Read)  BY DEF Program
  <2>2. \A i \in 1..1 : i = 1  OBVIOUS
  <2>3. QED  BY <1>4, <1>8, <2>1, <2>2
<1>10. QED
  BY <1>1, <1>2, <1>4, <1>6, <1>7, <1>8, <1>9, DriverStep DEF listed, Late, Flushes

LEMMA InitDoneStep == ASSUME Core, InitDone PROVE Core'
<1> DEFINE accesses == <<>>
<1>1. /\ Step("init_flush", "rxq", accesses) /\ port_up' = port_up
      /\ UNCHANGED <<free_list, eqs, rings, opening, cqs>>
  BY DEF InitDone
<1>2. stage = "init_flush" /\ stage' = "rxq"  BY <1>1 DEF Step
<1>4. accesses \in Seq(Accesses) /\ Len(accesses) = 0  OBVIOUS
<1>5. opening.cqn = None /\ port_up \in BOOLEAN
  BY <1>2 DEF Core, Stages, Rings, DriverTypes
<1> HIDE DEF accesses
<1>6. DriverTypes' /\ Objects' /\ opening.index = None
  BY <1>1, <1>4, <1>5, Unchanging DEF StageNames
<1>7. Stages'
  BY <1>1, <1>2, <1>5, <1>6, Counts DEF Core, Stages, listed, Rings, Late, ringsOpened, Step, deviceVars
<1>8. called = InitEnd /\ called' = called + 0
  <2>1. called = InitEnd  BY <1>2 DEF called, Rings
  <2>2. ringsOpened = 0 /\ rings' = rings  BY <1>1, <1>2, Lengths DEF listed, Core
  <2>3. ringsOpened' = 0  BY <2>2 DEF ringsOpened
  <2>4. opening' = opening  BY <1>1
  <2>5. called' = CqBase(ringsOpened') + 0 + 0  BY <1>2, <1>5, <1>6, <2>4 DEF called, Rings
  <2>6. CqBase(0) = InitEnd  BY CqBases, Counts
  <2>7. QED  BY <2>1, <2>3, <2>5, <2>6, CqBases
<1>9. InitEnd <= applied
  <2>1. stage \notin Late /\ mmio = <<>>
    BY <1>1, <1>2 DEF Core, Pending, Step, Returned, Late
  <2>2. called = applied + Len(mmio) + Len(todo) /\ applied \in Nat
    BY <2>1, AppliedFacts DEF Core
  <2>3. Len(mmio) = 0 /\ Len(todo) = 0  BY <1>1, <2>1 DEF Step, Returned
  <2>4. QED  BY <1>8, <2>2, <2>3, CqBases
<1>10. QED
  <2>1. \A i \in 1..Len(accesses) : Program(called + i, accesses[i])  BY <1>4
  <2>2. QED
    BY <1>1, <1>2, <1>4, <1>6, <1>7, <1>8, <1>9, <2>1, DriverStep DEF listed, Late, Flushes

LEMMA RxOpenedStep == ASSUME Core, RxOpened PROVE Core'
<1> DEFINE accesses == <<>>
<1>1. /\ Step("rxq", "txq", accesses) /\ port_up' = port_up /\ Len(rings.rxq) = RXQ_COUNT
      /\ UNCHANGED <<free_list, eqs, rings, opening, cqs>>
  BY DEF RxOpened
<1>2. stage = "rxq" /\ stage' = "txq"  BY <1>1 DEF Step
<1>3. accesses \in Seq(Accesses) /\ Len(accesses) = 0  OBVIOUS
<1>4. port_up \in BOOLEAN /\ Stages /\ DriverTypes  BY DEF Core, DriverTypes
<1>5. opening.cqn = None
  <2>1. opening.cqn # None => Len(rings.rxq) < RXQ_COUNT  BY <1>2, <1>4, Lengths
  <2>2. QED  BY <1>1, <2>1, Counts
<1> HIDE DEF accesses
<1>6. DriverTypes' /\ Objects' /\ opening.index = None
  BY <1>1, <1>3, <1>4, <1>5, Unchanging DEF StageNames
<1>7. Stages'
  BY <1>1, <1>2, <1>4, <1>5, <1>6, Counts DEF Stages, listed, Rings, Late, ringsOpened, Step, deviceVars
<1>8. called \in Nat /\ called' = called + 0
  <2>1. called = CqBase(ringsOpened) + 0 + 0  BY <1>2, <1>5, <1>6 DEF called, Rings
  <2>2. opening' = opening /\ rings' = rings  BY <1>1
  <2>3. ringsOpened' = ringsOpened  BY <2>2 DEF ringsOpened
  <2>4. called' = CqBase(ringsOpened') + 0 + 0  BY <1>2, <1>5, <1>6, <2>2 DEF called, Rings
  <2>5. called \in Nat  BY <1>4, CalledFacts
  <2>6. QED  BY <2>1, <2>3, <2>4, <2>5
<1>9. InitEnd <= applied  BY <1>2, AppliedFacts DEF Core, listed
<1>10. QED
  <2>1. \A i \in 1..Len(accesses) : Program(called + i, accesses[i])  BY <1>3
  <2>2. QED
    BY <1>1, <1>2, <1>3, <1>6, <1>7, <1>8, <1>9, <2>1, DriverStep DEF listed, Late, Flushes

LEMMA OpenFlushStep == ASSUME Core, OpenFlush PROVE Core'
<1> DEFINE accesses == <<Read>>
<1>1. /\ Step("txq", "open_flush", accesses) /\ port_up' = port_up /\ Len(rings.txq) = TXQ_COUNT
      /\ UNCHANGED <<free_list, eqs, rings, opening, cqs>>
  BY DEF OpenFlush
<1>2. stage = "txq" /\ stage' = "open_flush"  BY <1>1 DEF Step
<1>3. Read \in Accesses  BY DEF Read, Access, Accesses
<1>4. accesses \in Seq(Accesses) /\ Len(accesses) = 1 /\ accesses[1] = Read /\ accesses # <<>>
  BY <1>3
<1>5. port_up \in BOOLEAN /\ Stages /\ DriverTypes  BY DEF Core, DriverTypes
<1>6. opening.cqn = None
  <2>1. opening.cqn # None => Len(rings.txq) < TXQ_COUNT  BY <1>2, <1>5, Lengths
  <2>2. QED  BY <1>1, <2>1, Counts
<1> HIDE DEF accesses
<1>7. DriverTypes' /\ Objects' /\ opening.index = None
  BY <1>1, <1>4, <1>5, <1>6, Unchanging DEF StageNames
<1>8. Stages'
  BY <1>1, <1>2, <1>5, <1>6, <1>7, Counts DEF Stages, listed, Rings, Late, ringsOpened, Step, deviceVars
<1>9. called \in Nat /\ called' = called + 1 /\ called + 1 = OpenEnd
  <2>1. called = CqBase(ringsOpened) + 0 + 0  BY <1>2, <1>6, <1>7 DEF called, Rings
  <2>2. ringsOpened = RXQ_COUNT + TXQ_COUNT
    BY <1>1, <1>2, <1>5, Lengths
  <2>3. called' = OpenEnd  BY <1>2 DEF called, Rings
  <2>4. called \in Nat  BY <1>5, CalledFacts
  <2>5. CqBase(RXQ_COUNT + TXQ_COUNT) \in Nat /\ OpenEnd = CqBase(RXQ_COUNT + TXQ_COUNT) + 1
    <3>1. RXQ_COUNT + TXQ_COUNT \in Nat /\ RXQ_COUNT + TXQ_COUNT <= RXQ_COUNT + TXQ_COUNT  BY Counts
    <3>2. QED  BY <3>1, CqBases
  <2>6. QED  BY <2>1, <2>2, <2>3, <2>4, <2>5
<1>10. InitEnd <= applied  BY <1>2, AppliedFacts DEF Core, listed
<1>11. \A i \in 1..Len(accesses) : Program(called + i, accesses[i])
  <2>1. Program(OpenEnd, Read)  BY DEF Program
  <2>2. \A i \in 1..1 : i = 1  OBVIOUS
  <2>3. QED  BY <1>4, <1>9, <2>1, <2>2
<1>12. QED
  BY <1>1, <1>2, <1>4, <1>7, <1>8, <1>9, <1>10, <1>11, DriverStep DEF listed, Late, Flushes

(* What follows once everything is open. *)
LEMMA LateSteps ==
    ASSUME Core, SwitchOn \/ OpenDone \/ Close \/ CloseFlush \/ CloseRaises
    PROVE  Core'
<1> DEFINE OneOf(from, to, accesses, up) ==
        /\ Step(from, to, accesses) /\ UNCHANGED <<free_list, eqs, rings, opening, cqs>>
        /\ port_up' = up /\ up \in BOOLEAN /\ (up => to = "up")
<1>1. ASSUME NEW from, NEW to \in Late, NEW accesses \in Seq(LateAccesses), NEW up,
             OneOf(from, to, accesses, up), from = "open_flush" \/ from \in Late
      PROVE  Core'
  <2>1. stage = from /\ stage' = to /\ to \in StageNames
    BY <1>1 DEF Step, Late, StageNames
  <2>2. opening.cqn = None  BY <1>1, <2>1 DEF Core, Stages, Rings, Late
  <2>3. accesses \in Seq(Accesses)
    <3>1. ASSUME NEW n \in 0..TXQ_COUNT - 1 PROVE Access("prod", Queue("txq", n), 1) \in Accesses
      <4>1. Queue("txq", n) \in Queues  BY QueueIn, Counts
      <4>2. QED  BY <4>1 DEF Access, Accesses, Fields
    <3>2. LateAccesses \subseteq Accesses
      BY <3>1 DEF LateAccesses, Read, TxCtrl, RxCtrl, Access, Accesses
    <3>3. \A S, T : S \subseteq T => Seq(S) \subseteq Seq(T)  OBVIOUS
    <3>4. QED  BY <3>2, <3>3
  <2>4. DriverTypes' /\ Objects' /\ opening.index = None
    BY <1>1, <2>1, <2>2, <2>3, Unchanging
  <2>5. Stages'
    BY <1>1, <2>1, <2>2, <2>4, Counts DEF Core, Stages, listed, Rings, Late, ringsOpened, Step, deviceVars
  <2>6. QED  BY <1>1, <2>1, <2>4, <2>5, LateStep
<1>2. /\ <<>> \in Seq(LateAccesses) /\ <<TxCtrl(1), RxCtrl(1)>> \in Seq(LateAccesses)
      /\ <<RxCtrl(0)>> \in Seq(LateAccesses) /\ <<Read>> \in Seq(LateAccesses)
  <2>1. TxCtrl(1) \in LateAccesses /\ RxCtrl(1) \in LateAccesses /\ RxCtrl(0) \in LateAccesses
        /\ Read \in LateAccesses
    BY DEF LateAccesses
  <2>2. QED  BY <2>1
<1>3. port_up \in BOOLEAN /\ (port_up => stage = "up")  BY DEF Core, DriverTypes, Stages
<1>4. CASE SwitchOn
  <2>1. OneOf("open_flush", "switch_on", <<TxCtrl(1), RxCtrl(1)>>, FALSE)
    BY <1>3, <1>4 DEF SwitchOn, Step
  <2>2. QED  BY <1>1, <1>2, <2>1 DEF Late
<1>5. CASE OpenDone
  <2>1. OneOf("switch_on", "up", <<>>, TRUE)
    BY <1>5 DEF OpenDone
  <2>2. QED  BY <1>1, <1>2, <2>1 DEF Late
<1>6. CASE Close
  <2>1. OneOf("up", "close", <<RxCtrl(0)>>, FALSE)
    BY <1>6 DEF Close
  <2>2. QED  BY <1>1, <1>2, <2>1 DEF Late
<1>7. CASE CloseFlush
  <2>1. OneOf("close", "close_flush", <<Read>>, FALSE)
    BY <1>3, <1>7 DEF CloseFlush, Step
  <2>2. QED  BY <1>1, <1>2, <2>1 DEF Late
<1>8. CASE CloseRaises
  <2>1. OneOf("close_flush", "raised", <<>>, FALSE)
    BY <1>3, <1>8 DEF CloseRaises, Step
  <2>2. QED  BY <1>1, <1>2, <2>1 DEF Late
<1>9. QED  BY <1>4, <1>5, <1>6, <1>7, <1>8

(***************************************************************************)
(* Statements that open a queue                                            *)
(***************************************************************************)
LEMMA OpenEqStep == ASSUME Core, OpenEq PROVE Core'
<1> DEFINE eqn == Head(free_list["eq"])
           accesses == EqCalls(eqn)
           q == Queue("eq", eqn)
<1>1. /\ Step("eq", "eq", accesses) /\ Len(eqs) < EQ_COUNT /\ alloc("eq")
      /\ eqs' = Append(eqs, eqn) /\ UNCHANGED <<port_up, rings, opening, cqs>>
  BY DEF OpenEq
<1>2. stage = "eq" /\ stage' = "eq"  BY <1>1 DEF Step
<1>3. DriverTypes /\ Stages /\ FreeLists /\ Objects  BY DEF Core, Objects
<1>4. opening.cqn = None /\ opening.index = None  BY <1>2, <1>3 DEF Stages, Rings
<1>5. Len(eqs) \in Nat /\ eqs \in Seq(0..EQ_COUNT - 1) /\ "eq" \in Kinds /\ taken["eq"] = Len(eqs)
  BY <1>3, Lengths, TakenFacts DEF DriverTypes, Kinds
<1>6. eqn \in Nat
  <2>1. free_list["eq"] \in Seq(Nat) /\ Len(free_list["eq"]) = EQ_COUNT - Len(eqs)
    BY <1>3, <1>5, Counts DEF DriverTypes, FreeLists
  <2>2. free_list["eq"] # <<>>
    <3>1. Len(free_list["eq"]) # 0  BY <1>1, <1>5, <2>1, Counts
    <3>2. QED  BY <3>1
  <2>3. QED  BY <2>1, <2>2, HeadTailProperties
<1> HIDE DEF eqn
<1>7. /\ Len(eqs') = Len(eqs) + 1 /\ eqs'[Len(eqs) + 1] = eqn
      /\ \A i \in 1..Len(eqs) : eqs'[i] = eqs[i]
  <2>1. eqs \in Seq(Nat)  BY <1>5, Counts
  <2>2. QED  BY <1>1, <1>6, <2>1, AppendProperties
<1>8. /\ taken'["eq"] = taken["eq"] + 1
      /\ taken'["cq"] = taken["cq"] /\ taken'["txq"] = taken["txq"] /\ taken'["rxq"] = taken["rxq"]
  <2>1. rings' = rings /\ opening' = opening /\ stage' = stage  BY <1>1, <1>2
  <2>2. /\ taken'["cq"] = taken["cq"] /\ taken'["txq"] = taken["txq"] /\ taken'["rxq"] = taken["rxq"]
    BY <2>1 DEF taken, ringsOpened
  <2>3. taken'["eq"] = Len(eqs')  BY DEF taken
  <2>4. QED  BY <1>5, <1>7, <2>2, <2>3
<1>9. /\ FreeLists' /\ eqn = Len(eqs) /\ free_list' \in [Kinds -> Seq(Nat)]
      /\ \A k \in Kinds : free_list'[k] \in Seq(0..Count[k] - 1)
  <2>1. taken["eq"] < Count["eq"]  BY <1>1, <1>5, Counts
  <2>2. \A k \in Kinds \ {"eq"} : taken'[k] = taken[k]  BY <1>8 DEF Kinds
  <2>3. QED  BY <1>1, <1>3, <1>5, <1>8, <2>1, <2>2, Alloc DEF eqn
<1>10. q \in Opened /\ q.kind = "eq" /\ q.n = eqn /\ accesses = Call(q) /\ Length(q) = 9
  <2>1. q \in Queues /\ q.kind = "eq" /\ q.n = eqn  BY <1>1, <1>5, <1>9, QueueIn, QueueFacts
  <2>2. QED  BY <2>1 DEF Opened, Call, Length
<1>11. /\ accesses \in Seq(Accesses) /\ Len(accesses) = 9
       /\ \A i \in 1..9 : Program(Base(q) + i, accesses[i])
  BY <1>10, CallIn
<1>12. called = Base(q) /\ called' = called + 9
  <2>1. called = Disables + 2 + 9 * Len(eqs)  BY <1>2 DEF called, Rings
  <2>2. called' = Disables + 2 + 9 * Len(eqs')  BY <1>2 DEF called, Rings
  <2>3. Base(q) = Disables + 2 + 9 * eqn  BY <1>10 DEF Base
  <2>4. QED  BY <1>5, <1>7, <1>9, <2>1, <2>2, <2>3, DisableNumbers
<1> HIDE DEF accesses, q
<1>13. DriverTypes'
  <2>1. eqs' \in Seq(0..EQ_COUNT - 1)
    <3>1. eqn \in 0..EQ_COUNT - 1  BY <1>1, <1>5, <1>9, Counts
    <3>2. QED  BY <1>1, <1>5, <3>1, AppendProperties
  <2>2. todo' = accesses /\ mmio' = mmio /\ reading' = reading  BY <1>1 DEF Step
  <2>3. QED  BY <1>1, <1>2, <1>3, <1>9, <1>11, <2>1, <2>2 DEF DriverTypes
<1>14. Objects'
  <2>1. \A i \in 1..Len(eqs') : eqs'[i] = i - 1
    <3>1. \A i \in 1..Len(eqs') : i \in 1..Len(eqs) \/ i = Len(eqs) + 1  BY <1>5, <1>7
    <3>2. \A i \in 1..Len(eqs) : eqs[i] = i - 1  BY <1>3 DEF Objects
    <3>3. QED  BY <1>5, <1>7, <1>9, <3>1, <3>2
  <2>2. CqObjects'  BY <1>1, <1>3, <1>8 DEF Objects, CqObjects
  <2>3. QED  BY <1>1, <1>3, <1>9, <2>1, <2>2 DEF Objects
<1>15. Stages'
  <2>1. Len(eqs') <= EQ_COUNT  BY <1>1, <1>5, <1>7, Counts
  <2>2. QED
    BY <1>1, <1>2, <1>3, <1>4, <2>1 DEF Stages, listed, Rings, Late, ringsOpened, Step, deviceVars
<1>16. QED
  BY <1>1, <1>2, <1>11, <1>12, <1>13, <1>14, <1>15, DriverStep DEF listed, Late, Flushes

(* The ring opened next. *)
LEMMA NextRing ==
    ASSUME DriverTypes, Stages, NEW kind \in Rings, stage = kind, Len(rings[kind]) < Count[kind]
    PROVE  /\ ringsOpened \in Nat /\ ringsOpened < RXQ_COUNT + TXQ_COUNT
           /\ Len(rings[kind]) \in Nat
           /\ Queue(kind, Len(rings[kind])) \in Opened /\ Queue(kind, Len(rings[kind])) \in Queues
           /\ CqnOf(Queue(kind, Len(rings[kind]))) = ringsOpened
           /\ RingOf(ringsOpened) = Queue(kind, Len(rings[kind]))
           /\ kind = "rxq" <=> ringsOpened < RXQ_COUNT
<1> DEFINE n == Len(rings[kind])
           q == Queue(kind, n)
<1>1. /\ n \in Nat /\ ringsOpened \in Nat
      /\ \/ kind = "rxq" /\ ringsOpened = n /\ n < RXQ_COUNT
         \/ kind = "txq" /\ ringsOpened = RXQ_COUNT + n /\ n < TXQ_COUNT
  BY Lengths, Counts DEF Rings
<1> HIDE DEF n
<1>2. q \in Queues /\ q.kind = kind /\ q.n = n  BY <1>1, QueueIn, QueueFacts
<1> HIDE DEF q
<1>3. CqnOf(q) = ringsOpened  BY <1>1, <1>2 DEF CqnOf
<1>4. RingOf(CqnOf(q)) = q /\ q \in Opened  BY <1>2, RingFacts
<1>5. ringsOpened < RXQ_COUNT + TXQ_COUNT /\ (kind = "rxq" <=> ringsOpened < RXQ_COUNT)
  BY <1>1, Counts
<1>6. QED  BY <1>1, <1>2, <1>3, <1>4, <1>5 DEF q, n

LEMMA OpenCqStep == ASSUME Core, NEW kind \in Rings, OpenCq(kind) PROVE Core'
<1> DEFINE cqn == Head(free_list["cq"])
           n == Len(rings[kind])
           eqn == eqs[(n % Len(eqs)) + 1]
           accesses == CqCalls(cqn, eqn)
           q == Queue("cq", cqn)
<1>1. /\ Step(kind, kind, accesses) /\ opening.cqn = None /\ n < Count[kind] /\ alloc("cq")
      /\ cqs' = [cqs EXCEPT ![cqn].eq = eqn] /\ opening' = [index |-> None, cqn |-> cqn]
      /\ UNCHANGED <<port_up, eqs, rings>>
  BY DEF OpenCq
<1>2. stage = kind /\ stage' = kind  BY <1>1 DEF Step
<1>3. DriverTypes /\ Stages /\ FreeLists /\ Objects /\ CqObjects  BY DEF Core, Objects
<1>4. opening.index = None /\ Len(eqs) = EQ_COUNT
  BY <1>1, <1>2, <1>3 DEF Stages, Rings
<1>5. /\ ringsOpened \in Nat /\ ringsOpened < RXQ_COUNT + TXQ_COUNT /\ n \in Nat
      /\ RingOf(ringsOpened) = Queue(kind, n)
  BY <1>1, <1>2, <1>3, NextRing
<1>6. "cq" \in Kinds /\ taken["cq"] = ringsOpened /\ taken["cq"] < Count["cq"]
  <2>1. taken["cq"] = ringsOpened + 0  BY <1>1, <1>3, TakenFacts
  <2>2. QED  BY <1>5, <2>1, Counts DEF Kinds
<1>7. eqn = EqnOf(ringsOpened) /\ EqnOf(ringsOpened) \in Nat /\ EqnOf(ringsOpened) < EQ_COUNT
  <2>1. EqnOf(ringsOpened) = n % EQ_COUNT  BY <1>5, QueueFacts DEF EqnOf
  <2>2. EqnOf(ringsOpened) \in Nat /\ EqnOf(ringsOpened) < EQ_COUNT  BY <1>5, CqFacts
  <2>3. ASSUME NEW m \in Nat, m < EQ_COUNT PROVE eqs[m + 1] = m
    <3>1. m + 1 \in 1..Len(eqs) /\ (m + 1) - 1 = m  BY <1>4, <2>3, Counts
    <3>2. QED  BY <1>3, <3>1 DEF Objects
  <2>4. eqn = eqs[EqnOf(ringsOpened) + 1]  BY <1>4, <2>1
  <2>5. QED  BY <2>2, <2>3, <2>4
<1> HIDE DEF eqn, cqn, n
<1>8. Head(free_list["cq"]) \in Nat
  <2>1. free_list["cq"] \in Seq(Nat) /\ Len(free_list["cq"]) = Count["cq"] - taken["cq"]
    BY <1>3, <1>6 DEF DriverTypes, FreeLists
  <2>2. free_list["cq"] # <<>>
    <3>1. Len(free_list["cq"]) # 0  BY <1>5, <1>6, <2>1, Counts
    <3>2. QED  BY <3>1
  <2>3. QED  BY <2>1, <2>2, HeadTailProperties
<1>9. /\ taken'["cq"] = taken["cq"] + 1
      /\ taken'["eq"] = taken["eq"] /\ taken'["txq"] = taken["txq"] /\ taken'["rxq"] = taken["rxq"]
      /\ ringsOpened' = ringsOpened
  <2>1. rings' = rings /\ eqs' = eqs /\ stage' = stage /\ opening'.index = None /\ opening'.cqn = cqn
    BY <1>1, <1>2
  <2>2. ringsOpened' = ringsOpened  BY <2>1 DEF ringsOpened
  <2>3. /\ taken'["eq"] = taken["eq"] /\ taken'["txq"] = taken["txq"] /\ taken'["rxq"] = taken["rxq"]
    BY <1>4, <2>1 DEF taken
  <2>4. cqn # None  BY <1>8 DEF None, cqn
  <2>5. taken'["cq"] = ringsOpened' + 1  BY <2>1, <2>4 DEF taken
  <2>6. QED  BY <1>6, <2>2, <2>3, <2>5
<1>10. /\ FreeLists' /\ cqn = ringsOpened /\ free_list' \in [Kinds -> Seq(Nat)]
       /\ \A k \in Kinds : free_list'[k] \in Seq(0..Count[k] - 1)
  <2>1. \A k \in Kinds \ {"cq"} : taken'[k] = taken[k]  BY <1>9 DEF Kinds
  <2>2. QED  BY <1>1, <1>3, <1>6, <1>9, <2>1, Alloc DEF cqn
<1>11. q \in Opened /\ q.kind = "cq" /\ q.n = cqn /\ accesses = Call(q) /\ Length(q) = 9
  <2>1. q \in Opened /\ q.kind = "cq" /\ q.n = cqn  BY <1>5, <1>10, CqFacts, QueueFacts
  <2>2. QED  BY <1>7, <1>10, <2>1 DEF Call, Length
<1>12. /\ accesses \in Seq(Accesses) /\ Len(accesses) = 9
       /\ \A i \in 1..9 : Program(Base(q) + i, accesses[i])
  BY <1>11, CallIn
<1>13. called = Base(q) /\ called' = called + 9
  <2>1. called = CqBase(ringsOpened) + 0 + 0  BY <1>1, <1>2, <1>4 DEF called, Rings
  <2>2. opening'.index = None /\ opening'.cqn # None  BY <1>1, <1>5, <1>10 DEF None
  <2>3. called' = CqBase(ringsOpened') + 9 + 0  BY <1>2, <2>2 DEF called, Rings
  <2>4. Base(q) = CqBase(ringsOpened)  BY <1>10, <1>11 DEF Base
  <2>5. CqBase(ringsOpened) \in Nat  BY <1>5, CqBases, Counts
  <2>6. QED  BY <1>9, <2>1, <2>3, <2>4, <2>5
<1> HIDE DEF accesses, q
<1>14. DriverTypes'
  <2>1. /\ cqn \in 0..CQ_COUNT - 1 /\ eqn \in 0..EQ_COUNT - 1
        /\ cqs \in [0..CQ_COUNT - 1 -> [eq : 0..EQ_COUNT - 1 \cup {None}, handler : Rings \cup {"none"}]]
    BY <1>3, <1>5, <1>7, <1>10, Counts DEF DriverTypes
  <2>2. cqs' \in [0..CQ_COUNT - 1 -> [eq : 0..EQ_COUNT - 1 \cup {None}, handler : Rings \cup {"none"}]]
    BY <1>1, <2>1
  <2>3. todo' = accesses /\ mmio' = mmio /\ reading' = reading  BY <1>1 DEF Step
  <2>4. opening' \in [index : Nat \cup {None}, cqn : Nat \cup {None}]  BY <1>1, <1>5, <1>10
  <2>5. stage' = stage  BY <1>2
  <2>6. QED  BY <1>1, <1>3, <1>10, <1>12, <2>2, <2>3, <2>4, <2>5 DEF DriverTypes
<1>15. Objects'
  <2>1. cqn \in 0..CQ_COUNT - 1  BY <1>5, <1>10, Counts
  <2>2. /\ cqs'[cqn].eq = eqn
        /\ \A c \in 0..CQ_COUNT - 1 : c # cqn => cqs'[c].eq = cqs[c].eq
        /\ \A c \in 0..CQ_COUNT - 1 : cqs'[c].handler = cqs[c].handler
    BY <1>1, <1>3, <2>1 DEF DriverTypes
  <2>3. /\ taken["cq"] = cqn /\ taken["rxq"] + taken["txq"] = cqn
        /\ taken'["cq"] = cqn + 1 /\ taken'["rxq"] + taken'["txq"] = cqn
        /\ taken["rxq"] \in Nat /\ taken["txq"] \in Nat
        /\ taken'["rxq"] = taken["rxq"] /\ taken'["txq"] = taken["txq"]
    <3>1. taken["txq"] = Len(rings.txq) + 0 /\ taken["rxq"] = Len(rings.rxq) + 0
      BY <1>3, <1>4, TakenFacts
    <3>2. /\ ringsOpened = Len(rings.rxq) + Len(rings.txq)
          /\ Len(rings.rxq) \in Nat /\ Len(rings.txq) \in Nat
      BY <1>3, Lengths
    <3>3. QED  BY <1>6, <1>9, <1>10, <3>1, <3>2
  <2>4. \A c \in 0..cqn : c \in 0..CQ_COUNT - 1 /\ (c = cqn \/ c \in 0..cqn - 1)  BY <2>1, Counts
  <2>5. CqObjects'
    <3>1. ASSUME NEW c \in 0..taken'["cq"] - 1 PROVE cqs'[c].eq = EqnOf(c)
      <4>1. c \in 0..cqn  BY <2>1, <2>3, Counts
      <4>2. CASE c = cqn
        BY <1>7, <1>10, <2>2, <4>2
      <4>3. CASE c # cqn
        <5>1. c \in 0..taken["cq"] - 1 /\ c \in 0..CQ_COUNT - 1  BY <2>3, <2>4, <4>1, <4>3
        <5>2. cqs[c].eq = EqnOf(c)  BY <1>3, <5>1 DEF CqObjects
        <5>3. QED  BY <2>2, <4>3, <5>1, <5>2
      <4>4. QED  BY <4>2, <4>3
    <3>2. ASSUME NEW c \in 0..taken'["rxq"] + taken'["txq"] - 1
          PROVE  cqs'[c].handler = RingOf(c).kind
      <4>1. c \in 0..taken["rxq"] + taken["txq"] - 1  BY <2>3
      <4>2. c \in 0..CQ_COUNT - 1  BY <2>1, <2>3, Counts
      <4>3. QED  BY <1>3, <2>2, <4>1, <4>2 DEF CqObjects
    <3>3. QED  BY <3>1, <3>2 DEF CqObjects
  <2>6. QED  BY <1>1, <1>3, <1>10, <2>5 DEF Objects
<1>16. Stages'
  <2>1. opening'.index = None /\ opening'.cqn = ringsOpened'  BY <1>1, <1>9, <1>10
  <2>2. Len(rings'[stage']) < Count[stage']  BY <1>1, <1>2 DEF n
  <2>3. stage' = stage /\ rings' = rings /\ eqs' = eqs /\ port_up' = port_up /\ rx_ctrl' = rx_ctrl
        /\ stage \in Rings
    BY <1>1, <1>2 DEF Step, deviceVars
  <2>4. QED  BY <1>3, <2>1, <2>2, <2>3 DEF Stages, listed
<1>17. InitEnd <= applied  BY <1>2, AppliedFacts DEF Core, listed, Rings
<1>18. QED
  BY <1>1, <1>2, <1>12, <1>13, <1>14, <1>15, <1>16, <1>17, DriverStep DEF listed, Late, Flushes, Rings

LEMMA OpenRingStep == ASSUME Core, NEW kind \in Rings, OpenRing(kind) PROVE Core'
<1> DEFINE index == Head(free_list[kind])
           n == Len(rings[kind])
           cqn == opening.cqn
           accesses == RingCalls(kind, index, cqn)
           q == Queue(kind, n)
<1>1. /\ Step(kind, kind, accesses) /\ cqn # None /\ opening.index = None /\ alloc(kind)
      /\ cqs' = [cqs EXCEPT ![cqn].handler = kind] /\ opening' = [opening EXCEPT !.index = index]
      /\ UNCHANGED <<port_up, eqs, rings>>
  BY DEF OpenRing
<1>2. stage = kind /\ stage' = kind  BY <1>1 DEF Step
<1>3. DriverTypes /\ Stages /\ FreeLists /\ Objects /\ CqObjects  BY DEF Core, Objects
<1>4. cqn = ringsOpened /\ n < Count[kind]  BY <1>1, <1>2, <1>3 DEF Stages
<1>5. /\ ringsOpened \in Nat /\ ringsOpened < RXQ_COUNT + TXQ_COUNT /\ n \in Nat
      /\ q \in Opened /\ q \in Queues /\ CqnOf(q) = cqn /\ RingOf(cqn) = q
      /\ kind = "rxq" <=> ringsOpened < RXQ_COUNT
  BY <1>2, <1>3, <1>4, NextRing
<1>6. kind \in Kinds /\ taken[kind] = n /\ kind # "eq" /\ kind # "cq"
  <2>1. CASE kind = "rxq"
    <3>1. taken["rxq"] = Len(rings.rxq) + 0  BY <1>1, <1>3, TakenFacts
    <3>2. QED  BY <1>5, <2>1, <3>1 DEF Kinds
  <2>2. CASE kind = "txq"
    <3>1. taken["txq"] = Len(rings.txq) + 0  BY <1>1, <1>3, TakenFacts
    <3>2. QED  BY <1>5, <2>2, <3>1 DEF Kinds
  <2>3. QED  BY <2>1, <2>2 DEF Rings
<1> HIDE DEF index, cqn, n
<1>7. index \in Nat
  <2>1. free_list[kind] \in Seq(Nat) /\ Len(free_list[kind]) = Count[kind] - n /\ Count[kind] \in Nat
    BY <1>3, <1>6, Counts DEF DriverTypes, FreeLists, Kinds
  <2>2. free_list[kind] # <<>>
    <3>1. Len(free_list[kind]) # 0  BY <1>4, <1>5, <2>1
    <3>2. QED  BY <3>1
  <2>3. QED  BY <2>1, <2>2, HeadTailProperties DEF index
<1>8. /\ opening'.index = index /\ opening'.cqn = cqn /\ index # None
      /\ opening' \in [index : Nat \cup {None}, cqn : Nat \cup {None}]
  BY <1>1, <1>3, <1>7 DEF DriverTypes, None, cqn
<1>9. /\ taken'[kind] = taken[kind] + 1
      /\ \A k \in Kinds \ {kind} : taken'[k] = taken[k]
      /\ taken'["cq"] = taken["cq"] /\ ringsOpened' = ringsOpened
  <2>1. rings' = rings /\ eqs' = eqs /\ stage' = stage  BY <1>1, <1>2
  <2>2. ringsOpened' = ringsOpened  BY <2>1 DEF ringsOpened
  <2>3. taken'["eq"] = taken["eq"]  BY <2>1 DEF taken
  <2>4. taken'["cq"] = taken["cq"]  BY <1>8, <2>2 DEF taken, cqn
  <2>5. CASE kind = "rxq"
    <3>1. taken'["rxq"] = Len(rings.rxq) + 1  BY <1>2, <1>8, <2>1, <2>5 DEF taken
    <3>2. taken'["txq"] = Len(rings.txq) + 0 /\ taken["txq"] = Len(rings.txq) + 0
      BY <1>2, <2>1, <2>5 DEF taken
    <3>3. QED  BY <1>6, <2>2, <2>3, <2>4, <2>5, <3>1, <3>2 DEF Kinds, n
  <2>6. CASE kind = "txq"
    <3>1. taken'["txq"] = Len(rings.txq) + 1  BY <1>2, <1>8, <2>1, <2>6 DEF taken
    <3>2. taken'["rxq"] = Len(rings.rxq) + 0 /\ taken["rxq"] = Len(rings.rxq) + 0
      BY <1>2, <2>1, <2>6 DEF taken
    <3>3. QED  BY <1>6, <2>2, <2>3, <2>4, <2>6, <3>1, <3>2 DEF Kinds, n
  <2>7. QED  BY <2>5, <2>6 DEF Rings
<1>10. /\ FreeLists' /\ index = n /\ free_list' \in [Kinds -> Seq(Nat)]
       /\ \A k \in Kinds : free_list'[k] \in Seq(0..Count[k] - 1)
  <2>1. taken[kind] < Count[kind]  BY <1>4, <1>6
  <2>2. QED  BY <1>1, <1>3, <1>6, <1>9, <2>1, Alloc DEF index
<1>11. accesses = Call(q) /\ q.kind = kind
  <2>1. q.kind = kind /\ q.n = n  BY QueueFacts
  <2>2. QED  BY <1>5, <1>6, <1>10, <2>1 DEF Call
<1>12. /\ accesses \in Seq(Accesses) /\ Len(accesses) = Length(q) /\ Length(q) \in {8, 9}
       /\ \A i \in 1..Length(q) : Program(Base(q) + i, accesses[i])
  BY <1>5, <1>11, CallIn, Targets
<1>13. called = Base(q) /\ called' = called + Length(q)
  <2>1. called = CqBase(ringsOpened) + 9 + 0  BY <1>1, <1>2 DEF called, cqn, Rings
  <2>2. opening'.index # None /\ opening'.cqn # None  BY <1>1, <1>8
  <2>3. Length(q) = IF stage' = "rxq" THEN 9 ELSE 8  BY <1>2, <1>11 DEF Length, Rings
  <2>4. called' = CqBase(ringsOpened') + 9 + Length(q)  BY <1>2, <2>2, <2>3 DEF called, Rings
  <2>5. Base(q) = CqBase(ringsOpened) + 9  BY <1>4, <1>5, <1>6, <1>11 DEF Base
  <2>6. CqBase(ringsOpened) \in Nat  BY <1>5, CqBases, Counts
  <2>7. QED  BY <1>9, <1>12, <2>1, <2>4, <2>5, <2>6
<1> HIDE DEF accesses, q
<1>14. DriverTypes'
  <2>1. /\ cqn \in 0..CQ_COUNT - 1
        /\ cqs \in [0..CQ_COUNT - 1 -> [eq : 0..EQ_COUNT - 1 \cup {None}, handler : Rings \cup {"none"}]]
    BY <1>3, <1>4, <1>5, Counts DEF DriverTypes
  <2>2. cqs' \in [0..CQ_COUNT - 1 -> [eq : 0..EQ_COUNT - 1 \cup {None}, handler : Rings \cup {"none"}]]
    BY <1>1, <2>1
  <2>3. todo' = accesses /\ mmio' = mmio /\ reading' = reading  BY <1>1 DEF Step
  <2>4. stage' = stage  BY <1>2
  <2>5. QED  BY <1>1, <1>3, <1>8, <1>10, <1>12, <2>2, <2>3, <2>4 DEF DriverTypes
<1>15. Objects'
  <2>1. cqn \in 0..CQ_COUNT - 1 /\ cqn \in Nat  BY <1>4, <1>5, Counts
  <2>2. /\ cqs'[cqn].handler = kind
        /\ \A c \in 0..CQ_COUNT - 1 : c # cqn => cqs'[c].handler = cqs[c].handler
        /\ \A c \in 0..CQ_COUNT - 1 : cqs'[c].eq = cqs[c].eq
    BY <1>1, <1>3, <2>1 DEF DriverTypes
  <2>3. /\ taken["rxq"] + taken["txq"] = cqn /\ taken'["rxq"] + taken'["txq"] = cqn + 1
        /\ taken["rxq"] \in Nat /\ taken["txq"] \in Nat
        /\ taken'["rxq"] \in Nat /\ taken'["txq"] \in Nat
    <3>1. taken["txq"] = Len(rings.txq) + 0 /\ taken["rxq"] = Len(rings.rxq) + 0
      BY <1>1, <1>3, TakenFacts
    <3>2. /\ ringsOpened = Len(rings.rxq) + Len(rings.txq)
          /\ Len(rings.rxq) \in Nat /\ Len(rings.txq) \in Nat
      BY <1>3, Lengths
    <3> DEFINE x == taken["rxq"]
               y == taken["txq"]
               u == taken'["rxq"]
               v == taken'["txq"]
    <3>3. x \in Nat /\ y \in Nat /\ x + y = cqn  BY <1>4, <3>1, <3>2
    <3>4. (u = x + 1 /\ v = y) \/ (v = y + 1 /\ u = x)
      BY <1>9 DEF Rings, Kinds
    <3>5. SUFFICES x + y = cqn /\ u + v = cqn + 1 /\ x \in Nat /\ y \in Nat /\ u \in Nat /\ v \in Nat
      OBVIOUS
    <3> HIDE DEF x, y, u, v
    <3>6. QED  BY <3>3, <3>4
  <2>4. taken["cq"] = cqn + 1
    <3>1. taken["cq"] = ringsOpened + 1  BY <1>1, <1>3, TakenFacts DEF cqn
    <3>2. QED  BY <1>4, <3>1
  <2>5. CqObjects'
    <3>1. ASSUME NEW c \in 0..taken'["cq"] - 1 PROVE cqs'[c].eq = EqnOf(c)
      <4>1. c \in 0..taken["cq"] - 1  BY <1>9
      <4>2. c \in 0..CQ_COUNT - 1  BY <2>1, <2>4, <4>1, Counts
      <4>3. QED  BY <1>3, <2>2, <4>1, <4>2 DEF CqObjects
    <3>2. ASSUME NEW c \in 0..taken'["rxq"] + taken'["txq"] - 1
          PROVE  cqs'[c].handler = RingOf(c).kind
      <4>1. c \in 0..cqn /\ c \in 0..CQ_COUNT - 1  BY <2>1, <2>3, Counts
      <4>2. CASE c = cqn
        BY <1>5, <1>11, <2>2, <4>2
      <4>3. CASE c # cqn
        <5>1. c \in 0..cqn - 1  BY <2>1, <4>1, <4>3
        <5>2. c \in 0..taken["rxq"] + taken["txq"] - 1  BY <2>3, <5>1
        <5>3. QED  BY <1>3, <2>2, <4>1, <4>3, <5>2 DEF CqObjects
      <4>4. QED  BY <4>2, <4>3
    <3>3. QED  BY <3>1, <3>2 DEF CqObjects
  <2>6. QED  BY <1>1, <1>3, <1>10, <2>5 DEF Objects
<1>16. Stages'
  <2>1. opening'.index = Len(rings'[stage']) /\ opening'.cqn = ringsOpened'
    BY <1>1, <1>2, <1>4, <1>8, <1>9, <1>10 DEF n
  <2>2. Len(rings'[stage']) < Count[stage']  BY <1>1, <1>2, <1>4 DEF n
  <2>3. stage' = stage /\ rings' = rings /\ eqs' = eqs /\ port_up' = port_up /\ rx_ctrl' = rx_ctrl
        /\ stage \in Rings /\ opening'.cqn # None
    BY <1>1, <1>2, <1>8 DEF Step, deviceVars
  <2>4. QED  BY <1>3, <2>1, <2>2, <2>3 DEF Stages, listed
<1>17. InitEnd <= applied  BY <1>2, AppliedFacts DEF Core, listed, Rings
<1>18. QED
  BY <1>1, <1>2, <1>12, <1>13, <1>14, <1>15, <1>16, <1>17, DriverStep DEF listed, Late, Flushes, Rings

LEMMA AppendRingStep == ASSUME Core, NEW kind \in Rings, AppendRing(kind) PROVE Core'
<1> DEFINE accesses == <<>>
           n == Len(rings[kind])
           q == Queue(kind, n)
<1>1. /\ Step(kind, kind, accesses) /\ opening.index # None
      /\ rings' = [rings EXCEPT ![kind] = Append(rings[kind], opening)]
      /\ opening' = [index |-> None, cqn |-> None]
      /\ UNCHANGED <<port_up, free_list, eqs, cqs>>
  BY DEF AppendRing
<1>2. stage = kind /\ stage' = kind  BY <1>1 DEF Step
<1>3. DriverTypes /\ Stages /\ FreeLists /\ Objects /\ CqObjects  BY DEF Core, Objects
<1>4. accesses \in Seq(Accesses) /\ Len(accesses) = 0  OBVIOUS
<1> HIDE DEF accesses
<1>5. /\ opening.cqn # None /\ opening.cqn = ringsOpened /\ n < Count[kind]
      /\ opening.index = n
  BY <1>1, <1>2, <1>3 DEF Stages
<1>6. /\ ringsOpened \in Nat /\ ringsOpened < RXQ_COUNT + TXQ_COUNT /\ n \in Nat
      /\ q \in Opened /\ q \in Queues /\ CqnOf(q) = ringsOpened
      /\ kind = "rxq" <=> ringsOpened < RXQ_COUNT
  BY <1>2, <1>3, <1>5, NextRing
<1>7. opening = [index |-> n, cqn |-> CqnOf(q)]
  <2>1. opening = [index |-> opening.index, cqn |-> opening.cqn]  BY <1>3 DEF DriverTypes
  <2>2. QED  BY <1>5, <1>6, <2>1
<1>8. n + 1 <= Count[kind] /\ Count[kind] \in Nat  BY <1>5, <1>6, Counts DEF Rings
<1>9. /\ rings[kind] \in Seq([index : 0..Count[kind] - 1, cqn : 0..CQ_COUNT - 1])
      /\ rings[kind] \in Seq([index : Nat, cqn : Nat])
      /\ opening \in [index : 0..Count[kind] - 1, cqn : 0..CQ_COUNT - 1]
      /\ opening \in [index : Nat, cqn : Nat]
  <2>1. n \in 0..Count[kind] - 1  BY <1>5, <1>6, <1>8
  <2>2. CqnOf(q) \in 0..CQ_COUNT - 1 /\ CqnOf(q) \in Nat  BY <1>6, Counts
  <2>3. QED  BY <1>3, <1>6, <1>7, <2>1, <2>2 DEF DriverTypes
<1> DEFINE longer == Append(rings[kind], opening)
<1>10. /\ longer \in Seq([index : 0..Count[kind] - 1, cqn : 0..CQ_COUNT - 1])
       /\ longer \in Seq([index : Nat, cqn : Nat])
       /\ Len(longer) = n + 1 /\ longer[n + 1] = opening
       /\ \A i \in 1..n : longer[i] = rings[kind][i]
  <2> DEFINE R == [index : 0..Count[kind] - 1, cqn : 0..CQ_COUNT - 1]
             T == [index : Nat, cqn : Nat]
  <2>1. rings[kind] \in Seq(R) /\ rings[kind] \in Seq(T) /\ opening \in R /\ opening \in T  BY <1>9
  <2> HIDE DEF R, T
  <2>2. longer \in Seq(R) /\ longer \in Seq(T)  BY <2>1, AppendProperties
  <2>3. /\ Len(longer) = n + 1 /\ longer[n + 1] = opening
        /\ \A i \in 1..n : longer[i] = rings[kind][i]
    BY <2>1, AppendProperties
  <2>4. QED  BY <2>2, <2>3 DEF R, T
<1>11. /\ rings'[kind] = longer
       /\ \A k \in Rings : k # kind => rings'[k] = rings[k]
       /\ rings' \in [Rings -> Seq([index : Nat, cqn : Nat])]
  BY <1>1, <1>3, <1>10 DEF DriverTypes
<1> HIDE DEF longer, n, q
<1>12. /\ Len(rings'[kind]) = n + 1
       /\ \A k \in Rings : k # kind => Len(rings'[k]) = Len(rings[k])
       /\ ringsOpened' = ringsOpened + 1
  <2>1. Len(rings'[kind]) = n + 1 /\ \A k \in Rings : k # kind => Len(rings'[k]) = Len(rings[k])
    BY <1>10, <1>11
  <2>2. Len(rings'["rxq"]) + Len(rings'["txq"]) = Len(rings["rxq"]) + Len(rings["txq"]) + 1
    <3> DEFINE x == Len(rings["rxq"])
               y == Len(rings["txq"])
               u == Len(rings'["rxq"])
               v == Len(rings'["txq"])
    <3>1. x \in Nat /\ y \in Nat  BY <1>3, Lengths
    <3>2. (u = x + 1 /\ v = y) \/ (v = y + 1 /\ u = x)  BY <2>1 DEF Rings, n
    <3> HIDE DEF x, y, u, v
    <3>3. u + v = x + y + 1  BY <3>1, <3>2
    <3>4. QED  BY <3>3 DEF x, y, u, v
  <2>3. /\ ringsOpened' = Len(rings'["rxq"]) + Len(rings'["txq"])
        /\ ringsOpened = Len(rings["rxq"]) + Len(rings["txq"])
    BY DEF ringsOpened
  <2>4. QED  BY <2>1, <2>2, <2>3
<1>13. \A k \in Kinds : taken'[k] = taken[k]
  <2>1. eqs' = eqs /\ opening'.index = None /\ opening'.cqn = None  BY <1>1
  <2>2. taken'["eq"] = taken["eq"]  BY <2>1 DEF taken
  <2>3. taken'["cq"] = taken["cq"]
    <3>1. taken["cq"] = ringsOpened + 1  BY <1>3, <1>5, TakenFacts
    <3>2. taken'["cq"] = ringsOpened' + 0  BY <2>1 DEF taken
    <3>3. QED  BY <1>6, <1>12, <3>1, <3>2
  <2>4. taken'["rxq"] = Len(rings'["rxq"]) + 0 /\ taken'["txq"] = Len(rings'["txq"]) + 0
    BY <2>1 DEF taken
  <2>5. Len(rings["rxq"]) \in Nat /\ Len(rings["txq"]) \in Nat  BY <1>3, Lengths
  <2>6. CASE kind = "rxq"
    <3>1. taken["rxq"] = Len(rings["rxq"]) + 1 /\ taken["txq"] = Len(rings["txq"]) + 0
      BY <1>1, <1>2, <2>6 DEF taken
    <3>2. Len(rings'["rxq"]) = Len(rings["rxq"]) + 1 /\ Len(rings'["txq"]) = Len(rings["txq"])
      BY <1>12, <2>6 DEF Rings, n
    <3>3. QED  BY <2>2, <2>3, <2>4, <2>5, <3>1, <3>2 DEF Kinds
  <2>7. CASE kind = "txq"
    <3>1. taken["txq"] = Len(rings["txq"]) + 1 /\ taken["rxq"] = Len(rings["rxq"]) + 0
      BY <1>1, <1>2, <2>7 DEF taken
    <3>2. Len(rings'["txq"]) = Len(rings["txq"]) + 1 /\ Len(rings'["rxq"]) = Len(rings["rxq"])
      BY <1>12, <2>7 DEF Rings, n
    <3>3. QED  BY <2>2, <2>3, <2>4, <2>5, <3>1, <3>2 DEF Kinds
  <2>8. QED  BY <2>6, <2>7 DEF Rings
<1>14. called' = called + Len(accesses)
  <2>1. called = CqBase(ringsOpened) + 9 + (IF kind = "rxq" THEN 9 ELSE 8)
    BY <1>1, <1>2, <1>5 DEF called, Rings
  <2>2. opening'.index = None /\ opening'.cqn = None  BY <1>1
  <2>3. called' = CqBase(ringsOpened') + 0 + 0  BY <1>2, <2>2 DEF called, Rings
  <2>4. CqBase(ringsOpened + 1) = CqBase(ringsOpened) + (IF ringsOpened < RXQ_COUNT THEN 18 ELSE 17)
    BY <1>6, CqBases
  <2>5. CqBase(ringsOpened) \in Nat  BY <1>6, CqBases, Counts
  <2>6. QED  BY <1>4, <1>6, <1>12, <2>1, <2>3, <2>4, <2>5
<1>15. DriverTypes'
  <2>1. todo' = accesses /\ mmio' = mmio /\ reading' = reading /\ stage' = stage  BY <1>1, <1>2 DEF Step
  <2>2. \A k \in Rings : rings'[k] \in Seq([index : 0..Count[k] - 1, cqn : 0..CQ_COUNT - 1])
    <3>1. ASSUME NEW k \in Rings
          PROVE  rings'[k] \in Seq([index : 0..Count[k] - 1, cqn : 0..CQ_COUNT - 1])
      <4>1. CASE k = kind  BY <1>10, <1>11, <4>1
      <4>2. CASE k # kind
        <5>1. rings'[k] = rings[k]  BY <1>11, <4>2
        <5>2. QED  BY <1>3, <5>1 DEF DriverTypes
      <4>3. QED  BY <4>1, <4>2
    <3>2. QED  BY <3>1
  <2>3. opening' \in [index : Nat \cup {None}, cqn : Nat \cup {None}]  BY <1>1
  <2>4. QED  BY <1>1, <1>3, <1>4, <1>11, <2>1, <2>2, <2>3 DEF DriverTypes
<1>16. Objects'
  <2>1. FreeLists'  BY <1>1, <1>3, <1>13, SameLists
  <2>2. CqObjects'
    <3>1. taken'["cq"] = taken["cq"] /\ taken'["rxq"] = taken["rxq"] /\ taken'["txq"] = taken["txq"]
      BY <1>13 DEF Kinds
    <3>2. QED  BY <1>1, <1>3, <3>1 DEF CqObjects
  <2>3. ASSUME NEW k \in Rings, NEW i \in 1..Len(rings'[k])
        PROVE  rings'[k][i] = [index |-> i - 1, cqn |-> CqnOf(Queue(k, i - 1))]
    <3>1. CASE k = kind /\ i = n + 1
      <4>1. rings'[k][i] = opening /\ i - 1 = n  BY <1>6, <1>10, <1>11, <3>1
      <4>2. QED  BY <1>7, <3>1, <4>1 DEF q
    <3>2. CASE k = kind /\ i # n + 1
      <4>1. i \in 1..n  BY <1>6, <1>12, <3>2
      <4>2. rings'[k][i] = rings[k][i] /\ i \in 1..Len(rings[k])  BY <1>10, <1>11, <3>2, <4>1 DEF n
      <4>3. QED  BY <1>3, <4>2 DEF Objects
    <3>3. CASE k # kind
      <4>1. rings'[k] = rings[k]  BY <1>11, <3>3
      <4>2. QED  BY <1>3, <4>1 DEF Objects
    <3>4. QED  BY <3>1, <3>2, <3>3
  <2>4. QED  BY <1>1, <1>3, <2>1, <2>2, <2>3 DEF Objects
<1>17. Stages'
  <2>1. Len(rings'["rxq"]) <= RXQ_COUNT /\ Len(rings'["txq"]) <= TXQ_COUNT
    BY <1>3, <1>8, <1>12, Counts DEF Stages, Rings
  <2>2. stage' = stage /\ eqs' = eqs /\ port_up' = port_up /\ rx_ctrl' = rx_ctrl /\ stage \in Rings
        /\ opening'.index = None /\ opening'.cqn = None
    BY <1>1, <1>2 DEF Step, deviceVars
  <2>3. stage = "rxq" => rings'["txq"] = <<>>  BY <1>2, <1>3, <1>11 DEF Stages, Rings
  <2>4. stage = "txq" => Len(rings'["rxq"]) = RXQ_COUNT
    BY <1>2, <1>3, <1>11 DEF Stages, Rings, listed
  <2>5. QED  BY <1>3, <2>1, <2>2, <2>3, <2>4 DEF Stages, listed, Rings
<1>18. InitEnd <= applied  BY <1>2, AppliedFacts DEF Core, listed, Rings
<1>19. QED
  <2>1. \A i \in 1..Len(accesses) : Program(called + i, accesses[i])  BY <1>4
  <2>2. QED
    BY <1>1, <1>2, <1>4, <1>14, <1>15, <1>16, <1>17, <1>18, <2>1, DriverStep
    DEF listed, Late, Flushes, Rings

(***************************************************************************)
(* Accesses and interrupts under way                                       *)
(***************************************************************************)
LEMMA PostStep == ASSUME Core, Post PROVE Core'
<1> DEFINE w == Head(todo)
<1>1. /\ todo # <<>> /\ ~reading /\ mmio' = Append(mmio, w) /\ todo' = Tail(todo)
      /\ reading' = (w = Read)
      /\ stage' = stage /\ port_up' = port_up /\ free_list' = free_list /\ eqs' = eqs
      /\ rings' = rings /\ opening' = opening /\ cqs' = cqs
      /\ UNCHANGED <<deviceVars, irqs, handlerVars>>
  BY DEF Post
<1>2. DriverTypes /\ Stages /\ Pending /\ todo \in Seq(Accesses) /\ mmio \in Seq(Accesses)
  BY DEF Core, DriverTypes
<1>3. /\ w \in Accesses /\ w = todo[1] /\ todo' \in Seq(Accesses) /\ Len(todo') = Len(todo) - 1
      /\ \A i \in 1..Len(todo') : todo'[i] = todo[i + 1]
      /\ Len(todo) \in Nat /\ Len(todo) >= 1
  <2>1. Len(todo) \in Nat /\ Len(todo) # 0  BY <1>1, <1>2, EmptySeq, LenProperties
  <2>2. QED  BY <1>1, <1>2, <2>1, HeadTailProperties
<1> HIDE DEF w
<1>4. /\ mmio' \in Seq(Accesses) /\ Len(mmio') = Len(mmio) + 1 /\ mmio'[Len(mmio) + 1] = w
      /\ \A i \in 1..Len(mmio) : mmio'[i] = mmio[i]
      /\ Len(mmio) \in Nat
  BY <1>1, <1>2, <1>3, AppendProperties, LenProperties
<1>5. called' = called  BY <1>1 DEF called, ringsOpened
<1>6. applied' = applied /\ applied \in Nat
  <2>1. Len(mmio') + Len(todo') = Len(mmio) + Len(todo)  BY <1>3, <1>4
  <2>2. QED  BY <1>1, <1>2, <1>5, <2>1, AppliedFacts DEF applied
<1>7. DriverTypes'  BY <1>1, <1>2, <1>3, <1>4 DEF DriverTypes
<1>8. Stages'  BY <1>1, <1>2 DEF Stages, listed, ringsOpened, deviceVars
<1>9. Objects'
  <2>1. taken' = taken  BY <1>1 DEF taken, ringsOpened
  <2>2. QED  BY <1>1, <2>1 DEF Core, Objects, FreeLists, CqObjects
<1>10. \A i \in 1..Len(mmio') : i \in 1..Len(mmio) \/ i = Len(mmio) + 1  BY <1>4
<1>11. \A i \in 1..Len(todo') : i + 1 \in 1..Len(todo)  BY <1>3
<1>12. 1 \in 1..Len(todo)  BY <1>3
<1>13. ASSUME stage \in Late PROVE Pending'
  <2>1. \A i \in 1..Len(mmio') : mmio'[i] \in LateAccesses
    BY <1>2, <1>3, <1>4, <1>10, <1>12, <1>13 DEF Pending
  <2>2. \A i \in 1..Len(todo') : todo'[i] \in LateAccesses
    BY <1>2, <1>3, <1>11, <1>13 DEF Pending
  <2>3. QED  BY <1>1, <1>13, <2>1, <2>2 DEF Pending
<1>14. ASSUME stage \notin Late PROVE Pending'
  <2> DEFINE n == applied + Len(mmio) + 1
  <2>1. Program(n, w)  BY <1>2, <1>3, <1>12, <1>14 DEF Pending
  <2>2. /\ n \in Nat /\ called = n + Len(todo') /\ called \in Nat /\ called <= OpenEnd
        /\ listed => n > InitEnd
        /\ InitEnd \in Nat /\ OpenEnd \in Nat
    <3>1. called \in Nat /\ called <= OpenEnd  BY <1>2, CalledFacts
    <3>2. InitEnd \in Nat /\ OpenEnd \in Nat  BY CqBases
    <3>3. /\ called = applied + Len(mmio) + Len(todo)
          /\ listed => applied >= InitEnd
      BY <1>2, <1>14, AppliedFacts
    <3>4. Len(todo') = Len(todo) - 1 /\ Len(todo) \in Nat /\ Len(mmio) \in Nat
      BY <1>2, <1>3, Lengths
    <3>5. QED  BY <1>6, <3>1, <3>2, <3>3, <3>4
  <2>3. w = Read <=> n \in {InitEnd, OpenEnd}  BY <2>1, ProgramFacts
  <2>4. \A i \in 1..Len(mmio') : Program(applied' + i, mmio'[i])
    <3>1. ASSUME NEW i \in 1..Len(mmio') PROVE Program(applied' + i, mmio'[i])
      <4>1. CASE i \in 1..Len(mmio)
        BY <1>2, <1>4, <1>6, <1>14, <4>1 DEF Pending
      <4>2. CASE i = Len(mmio) + 1
        <5>1. applied' + i = n  BY <1>4, <1>6, <4>2
        <5>2. QED  BY <1>4, <2>1, <4>2, <5>1
      <4>3. QED  BY <1>10, <4>1, <4>2
    <3>2. QED  BY <3>1
  <2>5. \A i \in 1..Len(todo') : Program(applied' + Len(mmio') + i, todo'[i])
    <3>1. ASSUME NEW i \in 1..Len(todo') PROVE Program(applied' + Len(mmio') + i, todo'[i])
      <4>1. applied' + Len(mmio') + i = applied + Len(mmio) + (i + 1)  BY <1>4, <1>6, <1>3
      <4>2. Program(applied + Len(mmio) + (i + 1), todo[i + 1])
        BY <1>2, <1>11, <1>14 DEF Pending
      <4>3. QED  BY <1>3, <4>1, <4>2
    <3>2. QED  BY <3>1
  <2> HIDE DEF n
  <2>6. /\ ~listed /\ stage # "init_flush" => called < InitEnd
        /\ ~listed => called <= InitEnd
        /\ listed /\ stage # "open_flush" => called < OpenEnd
        /\ stage = "init_flush" => called = InitEnd
        /\ stage = "open_flush" => called = OpenEnd
    BY <1>2, <1>14, CalledFacts, CqBases DEF DriverTypes, listed, Rings, Late
  <2>7. ASSUME w = Read PROVE stage \in Flushes /\ Len(todo') = 0
    <3>1. n = InitEnd \/ n = OpenEnd  BY <2>3, <2>7
    <3>2. InitEnd < OpenEnd  BY Bases
    <3>3. CASE listed
      BY <1>3, <2>2, <2>6, <3>1, <3>2, <3>3 DEF Flushes
    <3>4. CASE ~listed
      BY <1>3, <2>2, <2>6, <3>1, <3>2, <3>4 DEF Flushes
    <3>5. QED  BY <3>3, <3>4
  <2>8. ASSUME stage \in Flushes, todo' = <<>> PROVE w = Read
    <3>1. Len(todo') = 0  BY <2>8
    <3>2. n = called  BY <2>2, <3>1
    <3>3. called \in {InitEnd, OpenEnd}  BY <2>6, <2>8 DEF Flushes
    <3>4. QED  BY <2>3, <3>2, <3>3
  <2>9. reading' => stage' \in Flushes /\ mmio' # <<>> /\ todo' = <<>>
    <3>1. mmio' # <<>>
      <4>1. Len(mmio') # 0  BY <1>4
      <4>2. QED  BY <4>1
    <3>2. Len(todo') = 0 => todo' = <<>>  BY <1>3, EmptySeq
    <3>3. QED  BY <1>1, <2>7, <3>1, <3>2
  <2>10. stage' \in Flushes /\ todo' = <<>> /\ ~reading' => mmio' = <<>>  BY <1>1, <2>8
  <2>11. listed' => applied' >= InitEnd  BY <1>1, <1>2, <1>6, AppliedFacts DEF listed
  <2>12. QED  BY <1>1, <1>14, <2>4, <2>5, <2>9, <2>10, <2>11 DEF Pending, Flushes
<1>15. /\ HandlerTypes' /\ Handler' /\ DeviceTypes' /\ Registers' /\ Announcing'
       /\ NothingLost' /\ Paths'
  <2>1. listed => listed'  BY <1>1 DEF listed
  <2>2. QED  BY <1>1, <1>6, <2>1, SameDevice
<1>16. QED  BY <1>7, <1>8, <1>9, <1>13, <1>14, <1>15 DEF Core

LEMMA StartXmitStep == ASSUME Core, StartXmit PROVE Core'
<1>1. PICK i \in 1..Len(rings.txq) :
        mmio' = Append(mmio, Access("prod", Queue("txq", rings.txq[i].index), 1))
  BY DEF StartXmit
<1> DEFINE w == Access("prod", Queue("txq", rings.txq[i].index), 1)
<1>2. /\ port_up /\ stage' = stage /\ todo' = todo /\ reading' = reading /\ port_up' = port_up
      /\ free_list' = free_list /\ eqs' = eqs /\ rings' = rings /\ opening' = opening /\ cqs' = cqs
      /\ UNCHANGED <<deviceVars, irqs, handlerVars>>
  BY DEF StartXmit, driverVars
<1>3. DriverTypes /\ Stages /\ Pending /\ mmio \in Seq(Accesses) /\ Objects
  BY DEF Core, DriverTypes
<1>4. stage \in Late  BY <1>2, <1>3 DEF Stages, Late
<1>5. w \in LateAccesses /\ w \in Accesses
  <2>1. /\ Len(rings.txq) \in Nat /\ Len(rings.txq) <= TXQ_COUNT
        /\ rings["txq"][i] = [index |-> i - 1, cqn |-> CqnOf(Queue("txq", i - 1))]
    BY <1>3, Lengths DEF Stages, Objects, Rings
  <2>2. rings.txq[i].index = i - 1  BY <2>1
  <2>3. i - 1 \in 0..TXQ_COUNT - 1 /\ i - 1 \in Nat /\ i - 1 < TXQ_COUNT  BY <2>1, Counts
  <2>4. Queue("txq", i - 1) \in Queues  BY <2>3, QueueIn
  <2>5. w = Access("prod", Queue("txq", i - 1), 1)  BY <2>2
  <2>6. w \in LateAccesses  BY <2>3, <2>5 DEF LateAccesses
  <2>7. w \in Accesses  BY <2>4, <2>5 DEF Access, Accesses, Fields
  <2>8. QED  BY <2>6, <2>7
<1> HIDE DEF w
<1>6. /\ mmio' \in Seq(Accesses) /\ Len(mmio') = Len(mmio) + 1 /\ mmio'[Len(mmio) + 1] = w
      /\ \A k \in 1..Len(mmio) : mmio'[k] = mmio[k]
      /\ Len(mmio) \in Nat
  <2>1. mmio' = Append(mmio, w)  BY <1>1 DEF w
  <2>2. QED  BY <1>3, <1>5, <2>1, AppendProperties, LenProperties
<1>7. applied' = applied  BY <1>2, <1>4 DEF applied
<1>8. DriverTypes'  BY <1>2, <1>3, <1>6 DEF DriverTypes
<1>9. Stages'  BY <1>2, <1>3 DEF Stages, listed, ringsOpened, deviceVars
<1>10. Objects'
  <2>1. taken' = taken  BY <1>2 DEF taken, ringsOpened
  <2>2. QED  BY <1>2, <1>3, <2>1 DEF Objects, FreeLists, CqObjects
<1>11. Pending'
  <2>1. \A k \in 1..Len(mmio') : k \in 1..Len(mmio) \/ k = Len(mmio) + 1  BY <1>6
  <2>2. \A k \in 1..Len(mmio') : mmio'[k] \in LateAccesses
    BY <1>3, <1>4, <1>5, <1>6, <2>1 DEF Pending
  <2>3. \A k \in 1..Len(todo') : todo'[k] \in LateAccesses  BY <1>2, <1>3, <1>4 DEF Pending
  <2>4. QED  BY <1>2, <1>4, <2>2, <2>3 DEF Pending
<1>12. /\ HandlerTypes' /\ Handler' /\ DeviceTypes' /\ Registers' /\ Announcing'
       /\ NothingLost' /\ Paths'
  <2>1. listed => listed'  BY <1>2 DEF listed
  <2>2. QED  BY <1>2, <1>7, <2>1, SameDevice
<1>13. QED  BY <1>8, <1>9, <1>10, <1>11, <1>12 DEF Core

(* The driver's own state does not change when the device moves. *)
LEMMA SameDriver ==
    ASSUME Core, UNCHANGED <<stage, todo, reading, port_up, free_list, eqs, rings, opening, cqs, mmio>>,
           rx_ctrl' = rx_ctrl
    PROVE  DriverTypes' /\ Objects' /\ Stages' /\ Pending' /\ applied' = applied /\ listed' = listed
<1>1. called' = called /\ taken' = taken /\ ringsOpened' = ringsOpened /\ listed' = listed
  BY DEF called, taken, ringsOpened, listed
<1>2. applied' = applied  BY <1>1 DEF applied
<1>3. DriverTypes'  BY DEF Core, DriverTypes
<1>4. Objects'  BY <1>1 DEF Core, Objects, FreeLists, CqObjects
<1>5. Stages'  BY <1>1 DEF Core, Stages
<1>6. Pending'  BY <1>1, <1>2 DEF Core, Pending
<1>7. QED  BY <1>1, <1>2, <1>3, <1>4, <1>5, <1>6

(***************************************************************************)
(* The interrupt handler                                                   *)
(***************************************************************************)
LEMMA HandlerStep ==
    ASSUME Core, UNCHANGED <<driverVars, deviceVars, mmio>>, irqs' \in Nat,
           HandlerTypes', Handler', \A e \in 0..EQ_COUNT - 1 : listed /\ Watched(e) => Watched(e)'
    PROVE  Core'
<1>1. /\ UNCHANGED <<stage, todo, reading, port_up, free_list, eqs, rings, opening, cqs, mmio>>
      /\ hw' = hw /\ tx_ctrl' = tx_ctrl /\ rx_ctrl' = rx_ctrl /\ events' = events /\ lost' = lost
  BY DEF driverVars, deviceVars
<1>2. DriverTypes' /\ Objects' /\ Stages' /\ Pending' /\ applied' = applied /\ listed' = listed
  BY <1>1, SameDriver
<1>3. DeviceTypes'  BY <1>1 DEF Core, DeviceTypes
<1>4. \A q : SameConfiguration(q)  BY <1>1 DEF SameConfiguration
<1>5. Registers'  BY <1>2, <1>4, SameRegisters DEF Core
<1>6. Announcing' /\ NothingLost'  BY <1>1, <1>2 DEF Core, Announcing, NothingLost
<1>7. Intruders' = Intruders  BY <1>4, SameIntruders DEF Core
<1>8. ASSUME EventQueues, CompletionQueues PROVE EventQueues' /\ CompletionQueues'
  BY <1>1, <1>2, <1>8, Kept
<1>9. Paths'  BY <1>7, <1>8 DEF Core, Paths
<1>10. QED  BY <1>2, <1>3, <1>5, <1>6, <1>9 DEF Core

LEMMA IgnoreInterruptStep == ASSUME Core, IgnoreInterrupt PROVE Core'
<1>1. /\ irqs > 0 /\ ~listed /\ irqs' = irqs - 1
      /\ UNCHANGED <<driverVars, deviceVars, mmio>> /\ UNCHANGED handlerVars
  BY DEF IgnoreInterrupt
<1>2. irqs' \in Nat  BY <1>1 DEF Core, DeviceTypes
<1>3. HandlerTypes' /\ Handler'  BY <1>1, SameHandler DEF Core
<1>4. QED  BY <1>1, <1>2, <1>3, HandlerStep

(* A handler that sets out comes to every event queue. *)
LEMMA TakeInterruptStep == ASSUME Core, TakeInterrupt PROVE Core'
<1>1. /\ irqs > 0 /\ handling = 0 /\ listed /\ irqs' = irqs - 1 /\ handling' = 1
      /\ arming' = arming /\ arms' = arms
      /\ UNCHANGED <<driverVars, deviceVars, mmio>>
  BY DEF TakeInterrupt
<1>2. irqs' \in Nat  BY <1>1 DEF Core, DeviceTypes
<1>3. HandlerTypes'  BY <1>1, Counts DEF Core, HandlerTypes
<1>4. listed'  BY <1>1 DEF listed, driverVars
<1>5. Handler'  BY <1>1, <1>4 DEF Core, Handler
<1>6. \A e \in 0..EQ_COUNT - 1 : Watched(e)'
  <2>1. \A e \in 0..EQ_COUNT - 1 : 1 \in 1..e + 1  BY Counts
  <2>2. QED  BY <1>1, <2>1 DEF Watched
<1>7. QED  BY <1>1, <1>2, <1>3, <1>5, <1>6, HandlerStep

LEMMA ProcessEqStep == ASSUME Core, ProcessEq PROVE Core'
<1>1. /\ handling > 0 /\ ~arming /\ irqs' = irqs /\ arms' = arms
      /\ \/ handling' = Serving /\ arming' = arming
         \/ handling' = handling /\ arming' = TRUE
      /\ UNCHANGED <<driverVars, deviceVars, mmio>>
  BY DEF ProcessEq
<1>2. /\ HandlerTypes /\ Handler /\ irqs \in Nat /\ handling \in 0..EQ_COUNT \cup {Serving}
  BY DEF Core, DeviceTypes, HandlerTypes
<1>3. HandlerTypes'  BY <1>1, <1>2 DEF HandlerTypes
<1>4. handling # 0 /\ listed /\ listed'
  <2>1. handling # 0  BY <1>1, <1>2, Counts DEF Serving
  <2>2. listed  BY <1>2, <2>1 DEF Handler
  <2>3. QED  BY <1>1, <2>1, <2>2 DEF listed, driverVars
<1>5. Handler'  BY <1>1, <1>2, <1>4 DEF Handler
<1>6. ASSUME NEW e \in 0..EQ_COUNT - 1, Watched(e) PROVE Watched(e)'
  BY <1>1, <1>6 DEF Watched
<1>7. QED  BY <1>1, <1>2, <1>3, <1>5, <1>6, HandlerStep

(* The queue the handler leaves has its arm on the way; those behind it    *)
(* are still to come.                                                      *)
LEMMA ArmEqStep == ASSUME Core, ArmEq PROVE Core'
<1>1. /\ arming /\ arming' = FALSE /\ irqs' = irqs
      /\ handling' = IF handling < Len(eqs) THEN handling + 1 ELSE 0
      /\ arms' = [arms EXCEPT ![eqs[handling]] = @ + 1]
      /\ UNCHANGED <<driverVars, deviceVars, mmio>>
  BY DEF ArmEq, Onward
<1>2. /\ HandlerTypes /\ Handler /\ Stages /\ Objects /\ irqs \in Nat
      /\ arms \in [0..EQ_COUNT - 1 -> Nat]
  BY DEF Core, DeviceTypes, HandlerTypes
<1>3. handling \in 1..EQ_COUNT
  <2>1. handling > 0  BY <1>1, <1>2 DEF Handler
  <2>2. QED  BY <1>2, <2>1, Counts DEF HandlerTypes, Serving
<1>4. listed /\ Len(eqs) = EQ_COUNT
  <2>1. listed  BY <1>2, <1>3 DEF Handler
  <2>2. QED  BY <1>2, <2>1 DEF Stages, listed
<1> DEFINE x == handling - 1
<1>5. eqs[handling] = x /\ x \in 0..EQ_COUNT - 1 /\ handling = x + 1
  BY <1>2, <1>3, <1>4, Counts DEF Objects
<1>6. /\ arms' \in [0..EQ_COUNT - 1 -> Nat] /\ arms'[x] = arms[x] + 1
      /\ \A e \in 0..EQ_COUNT - 1 : arms'[e] = arms[e] \/ arms'[e] = arms[e] + 1
  BY <1>1, <1>2, <1>5
<1>7. handling' \in 0..EQ_COUNT /\ (handling < EQ_COUNT => handling' = handling + 1)
  BY <1>1, <1>3, <1>4, Counts
<1>8. HandlerTypes'  BY <1>1, <1>6, <1>7 DEF HandlerTypes
<1>9. listed'  BY <1>1, <1>4 DEF listed, driverVars
<1>10. Handler'  BY <1>1, <1>9 DEF Handler
<1>11. ASSUME NEW e \in 0..EQ_COUNT - 1, Watched(e) PROVE Watched(e)'
  <2>1. arms[e] \in Nat /\ arms'[e] >= arms[e]  BY <1>2, <1>6
  <2>2. CASE irqs > 0 \/ arms[e] > 0
    BY <1>1, <2>1, <2>2, <1>6 DEF Watched
  <2>3. CASE handling \in 1..e + 1
    <3>1. CASE x = e
      <4>1. arms'[e] > 0  BY <1>2, <1>6, <3>1
      <4>2. QED  BY <4>1 DEF Watched
    <3>2. CASE x # e
      <4>1. handling < EQ_COUNT /\ handling + 1 \in 1..e + 1
        BY <1>3, <1>5, <2>3, <3>2, Counts
      <4>2. handling' \in 1..e + 1  BY <1>7, <4>1
      <4>3. QED  BY <4>2 DEF Watched
    <3>3. QED  BY <3>1, <3>2
  <2>4. handling # Serving  BY <1>3, Counts DEF Serving
  <2>5. QED  BY <1>11, <2>2, <2>3, <2>4 DEF Watched
<1>12. QED  BY <1>1, <1>2, <1>8, <1>10, <1>11, HandlerStep

(* An event queue of a listed interface runs, and points at the            *)
(* interface's interrupt.                                                  *)
LEMMA ListedEq ==
    ASSUME Core, InitEnd <= applied, NEW e \in 0..EQ_COUNT - 1, NEW p, p = Queue("eq", e)
    PROVE  /\ p \in Queues /\ p \in DeviceQueues /\ p.kind = "eq" /\ p.n = e
           /\ hw[p].enabled /\ hw[p].target = IRQ
           /\ applied >= Base(p) + 7 /\ applied >= Base(p) + 9
<1>1. p \in Queues /\ p \in DeviceQueues /\ p.kind = "eq" /\ p.n = e
  BY QueueIn, QueueFacts, DeviceQueueFacts, Counts
<1>2. p \in Opened /\ EnableStep(p) = 8  BY <1>1 DEF Opened, EnableStep
<1>3. Base(p) \in Nat /\ Base(p) + 9 < InitEnd /\ InitEnd \in Nat /\ applied \in Nat
      /\ Disables + 2 <= Base(p) /\ DisableNumber(p) \in 1..Disables /\ Disables \in Nat
  BY <1>1, <1>2, Bases, CqBases, DisableNumbers, AppliedFacts DEF Core
<1>4. /\ applied >= Base(p) + 7 /\ applied >= Base(p) + 9 /\ applied >= Base(p) + 8
      /\ applied >= Base(p) + 5 /\ applied >= DisableNumber(p)
  BY <1>3
<1>5. RegistersAt(p, applied)  BY <1>1 DEF Core, Registers
<1>6. hw[p].enabled  BY <1>2, <1>4, <1>5 DEF RegistersAt, IsRunning
<1>7. hw[p].target = 0  BY <1>1, <1>2, <1>4, <1>5 DEF RegistersAt, TargetOf
<1>8. QED  BY <1>1, <1>4, <1>6, <1>7 DEF IRQ

(* The arm of a handler fires if there are events, and if not the queue is *)
(* armed.                                                                  *)
LEMMA ApplyArmStep == ASSUME Core, NEW e \in 0..EQ_COUNT - 1, ApplyArm(e) PROVE Core'
<1> DEFINE p == Queue("eq", e)
<1>1. /\ arms[e] > 0 /\ arms' = [arms EXCEPT ![e] = @ - 1] /\ ArmWrite(p)
      /\ handling' = handling /\ arming' = arming /\ tx_ctrl' = tx_ctrl /\ rx_ctrl' = rx_ctrl
      /\ lost' = lost
      /\ UNCHANGED <<stage, todo, reading, port_up, free_list, eqs, rings, opening, cqs, mmio>>
  BY DEF ApplyArm, driverVars
<1>2. /\ HandlerTypes /\ Handler /\ DeviceTypes /\ irqs \in Nat
      /\ arms \in [0..EQ_COUNT - 1 -> Nat] /\ hw \in [DeviceQueues -> QueueRegisters]
  BY DEF Core, DeviceTypes, HandlerTypes
<1>3. listed  BY <1>1, <1>2 DEF Handler
<1>4. InitEnd <= applied  BY <1>3, AppliedFacts DEF Core
<1>5. /\ p \in Queues /\ p \in DeviceQueues /\ p.kind = "eq" /\ p.n = e
      /\ hw[p].enabled /\ hw[p].target = IRQ
      /\ applied >= Base(p) + 7 /\ applied >= Base(p) + 9
  BY <1>4, ListedEq
<1>6. DriverTypes' /\ Objects' /\ Stages' /\ Pending' /\ applied' = applied /\ listed' = listed
  BY <1>1, SameDriver
<1> HIDE DEF p
<1>7. /\ hw' = [hw EXCEPT ![p].armed = ~hw[p].work] /\ events' = events
      /\ irqs' = IF hw[p].work THEN irqs + 1 ELSE irqs
  <2>1. hw[p].work \in BOOLEAN  BY <1>2, <1>5 DEF QueueRegisters
  <2>2. CASE hw[p].work
    BY <1>1, <1>5, <2>2 DEF ArmWrite, Raised
  <2>3. CASE ~hw[p].work
    BY <1>1, <1>5, <2>3 DEF ArmWrite
  <2>4. QED  BY <2>1, <2>2, <2>3
<1>8. /\ hw' \in [DeviceQueues -> QueueRegisters] /\ \A q \in DeviceQueues : SameConfiguration(q)
      /\ \A q \in DeviceQueues : hw'[q].work = hw[q].work /\ (q # p => hw'[q] = hw[q])
      /\ hw'[p].armed <=> ~hw[p].work
  <2>1. hw[p] \in QueueRegisters /\ (~hw[p].work) \in BOOLEAN  BY <1>2, <1>5
  <2>2. hw'[p] = [hw[p] EXCEPT !.armed = ~hw[p].work]  BY <1>2, <1>5, <1>7
  <2>3. \A q \in DeviceQueues : q # p => hw'[q] = hw[q]  BY <1>2, <1>7
  <2>4. DOMAIN hw' = DeviceQueues /\ hw' = [q \in DeviceQueues |-> hw'[q]]  BY <1>2, <1>7
  <2>5. /\ hw'[p].enabled = hw[p].enabled /\ hw'[p].set = hw[p].set /\ hw'[p].target = hw[p].target
        /\ hw'[p].work = hw[p].work /\ hw'[p] \in QueueRegisters
        /\ hw'[p].armed = ~hw[p].work
    BY <2>1, <2>2 DEF QueueRegisters
  <2>6. \A q \in DeviceQueues : hw'[q] \in QueueRegisters  BY <1>2, <2>3, <2>5
  <2>7. QED  BY <1>2, <2>3, <2>4, <2>5, <2>6 DEF SameConfiguration
<1>9. irqs' \in Nat /\ irqs <= irqs' /\ (hw[p].work => irqs' > 0)  BY <1>2, <1>7
<1>10. DeviceTypes'  BY <1>1, <1>2, <1>7, <1>8, <1>9 DEF DeviceTypes, SameConfiguration
<1>11. Registers'  BY <1>6, <1>8, SameRegisters DEF Core
<1>12. Intruders' = Intruders  BY <1>2, <1>8, SameIntruders
<1>13. Announcing'
  <2>1. ASSUME NEW c \in 0..RXQ_COUNT + TXQ_COUNT - 1
        PROVE  hw'[Queue("cq", c)].armed = hw[Queue("cq", c)].armed
    <3>1. Queue("cq", c) \in Queues /\ Queue("cq", c) # p  BY <1>5, CqFacts, QueueFacts, Counts
    <3>2. QED  BY <1>8, <3>1, DeviceQueueFacts
  <2>2. QED  BY <1>6, <1>7, <2>1 DEF Core, Announcing
<1>14. HandlerTypes' /\ Handler'
  <2>1. arms' \in [0..EQ_COUNT - 1 -> Nat] /\ \A x \in 0..EQ_COUNT - 1 : x # e => arms'[x] = arms[x]
    BY <1>1, <1>2
  <2>2. QED  BY <1>1, <1>2, <1>3, <1>6, <2>1 DEF HandlerTypes, Handler
<1>15. NothingLost'  BY <1>1 DEF Core, NothingLost
<1>16. ASSUME EventQueues, CompletionQueues PROVE EventQueues' /\ CompletionQueues'
  <2>1. ASSUME NEW x \in 0..EQ_COUNT - 1 PROVE EventQueueAt(x, applied)'
    <3>1. EventQueueAt(x, applied)  BY <1>16 DEF EventQueues
    <3>2. CASE x = e
      <4>1. hw[p].work => Watched(e)'  BY <1>9 DEF Watched
      <4>2. QED  BY <1>3, <1>5, <1>6, <1>7, <1>8, <3>1, <3>2, <4>1 DEF EventQueueAt, p
    <3>3. CASE x # e
      <4>1. Queue("eq", x) # p /\ Queue("eq", x) \in DeviceQueues
        BY <3>3, QueueFacts, QueueIn, DeviceQueueFacts, Counts DEF p
      <4>2. hw'[Queue("eq", x)] = hw[Queue("eq", x)] /\ arms'[x] = arms[x]
        BY <1>1, <1>2, <1>8, <3>3, <4>1
      <4>3. Watched(x) => Watched(x)'  BY <1>1, <1>2, <1>9, <4>2 DEF Watched
      <4>4. QED  BY <1>6, <1>7, <3>1, <4>2, <4>3 DEF EventQueueAt
    <3>4. QED  BY <3>2, <3>3
  <2>2. CompletionQueues'
    <3>1. ASSUME NEW c \in 0..RXQ_COUNT + TXQ_COUNT - 1 PROVE CompletionQueueAt(c, applied)'
      <4>1. Queue("cq", c) \in DeviceQueues  BY CqFacts, DeviceQueueFacts, Counts
      <4>2. CompletionQueueAt(c, applied)  BY <1>16 DEF CompletionQueues
      <4>3. QED  BY <1>6, <1>8, <4>1, <4>2 DEF CompletionQueueAt
    <3>2. QED  BY <3>1 DEF CompletionQueues
  <2>3. QED  BY <2>1, <2>2 DEF EventQueues
<1>17. Paths'  BY <1>12, <1>16 DEF Core, Paths
<1>18. QED  BY <1>6, <1>10, <1>11, <1>13, <1>14, <1>15, <1>17 DEF Core

(***************************************************************************)
(* The device completes a frame                                            *)
(***************************************************************************)
(* A completion queue that was opened runs, and reports to an event queue  *)
(* that does.                                                              *)
LEMMA OpenedCq ==
    ASSUME Core, NEW c \in 0..RXQ_COUNT + TXQ_COUNT - 1, applied >= Base(Queue("cq", c)) + 8
    PROVE  /\ hw[Queue("cq", c)].enabled /\ hw[Queue("cq", c)].target = EqnOf(c)
           /\ hw[Queue("eq", EqnOf(c))].enabled /\ hw[Queue("eq", EqnOf(c))].target = IRQ
           /\ InitEnd < applied /\ EqnOf(c) \in 0..EQ_COUNT - 1
<1> DEFINE q == Queue("cq", c)
<1>1. c \in Nat /\ c < RXQ_COUNT + TXQ_COUNT  BY Counts
<1>2. q \in Queues /\ q \in Opened /\ q.kind = "cq" /\ q.n = c /\ EnableStep(q) = 8
  BY <1>1, CqFacts, QueueFacts DEF EnableStep
<1>3. Base(q) \in Nat /\ InitEnd <= Base(q) /\ InitEnd \in Nat /\ applied \in Nat
  BY <1>2, Bases, CqBases, AppliedFacts DEF Core
<1>4. DisableNumber(q) \in 1..Disables /\ Disables < InitEnd /\ Disables \in Nat
  BY <1>2, DisableNumbers, CqBases, Counts
<1>5. InitEnd < applied /\ applied >= Base(q) + 5 /\ applied >= DisableNumber(q)  BY <1>3, <1>4
<1>6. RegistersAt(q, applied)  BY <1>2 DEF Core, Registers
<1>7. hw[q].enabled  BY <1>2, <1>5, <1>6 DEF RegistersAt, IsRunning
<1>8. hw[q].target = EqnOf(c)  BY <1>2, <1>5, <1>6 DEF RegistersAt, TargetOf
<1>9. EqnOf(c) \in 0..EQ_COUNT - 1  BY <1>1, CqFacts, Counts
<1>10. InitEnd <= applied  BY <1>3, <1>5
<1>11. hw[Queue("eq", EqnOf(c))].enabled /\ hw[Queue("eq", EqnOf(c))].target = IRQ
  BY <1>9, <1>10, ListedEq
<1>12. QED  BY <1>5, <1>7, <1>8, <1>9, <1>11

(* A ring of the driver that is enabled is another driver's, and nothing   *)
(* is opened yet, or its whole path runs.                                  *)
LEMMA EnabledRing ==
    ASSUME Core, NEW r \in Queues, r.kind \in Rings, hw[r].enabled,
           NEW c, c = hw[r].target, NEW e, e = hw[Queue("cq", c)].target
    PROVE  \/ hw[r].set = {} /\ applied < Disables
           \/ /\ c < RXQ_COUNT + TXQ_COUNT /\ RingOf(c) = r /\ e = EqnOf(c)
              /\ e < EQ_COUNT /\ Queue("eq", e) \in Queues /\ Queue("cq", c) \in Queues
              /\ IsRunning(r, applied) /\ InitEnd < applied /\ listed
              /\ hw[Queue("cq", c)].enabled /\ hw[Queue("eq", e)].enabled
<1>1. /\ DeviceTypes /\ Registers /\ RegistersAt(r, applied) /\ applied \in Nat
  BY AppliedFacts DEF Core, Registers
<1>2. DisableNumber(r) \in 1..Disables /\ Disables \in Nat  BY DisableNumbers
<1>3. CASE applied < DisableNumber(r)
  <2>1. hw[r].set = {}  BY <1>1, <1>3 DEF RegistersAt
  <2>2. QED  BY <1>1, <1>2, <1>3, <2>1
<1>4. CASE applied >= DisableNumber(r)
  <2>1. IsRunning(r, applied)  BY <1>1, <1>4 DEF RegistersAt
  <2>2. /\ CqnOf(r) \in Nat /\ CqnOf(r) < RXQ_COUNT + TXQ_COUNT
        /\ RingOf(CqnOf(r)) = r /\ r \in Opened
    BY RingFacts
  <2>3. applied >= Base(r) + EnableStep(r)  BY <2>1 DEF IsRunning
  <2>4. /\ Base(r) \in Nat /\ EnableStep(r) \in {8, 9} /\ InitEnd \in Nat
        /\ Base(r) = CqBase(CqnOf(r)) + 9 /\ CqBase(CqnOf(r)) \in Nat
        /\ InitEnd <= CqBase(CqnOf(r))
    <3>1. Base(RingOf(CqnOf(r))) = CqBase(CqnOf(r)) + 9  BY <2>2, Bases
    <3>2. CqBase(CqnOf(r)) \in Nat /\ InitEnd <= CqBase(CqnOf(r))  BY <2>2, CqBases, Counts
    <3>3. QED  BY <2>2, <3>1, <3>2, Bases, CqBases DEF EnableStep
  <2>5. c = CqnOf(r)
    <3>1. applied >= Base(r) + 5  BY <1>1, <2>3, <2>4
    <3>2. c = TargetOf(r)  BY <1>1, <2>2, <3>1 DEF RegistersAt
    <3>3. QED  BY <3>2 DEF TargetOf, Rings
  <2>6. InitEnd < applied  BY <1>1, <2>3, <2>4
  <2>7. listed  BY <2>6, <1>1, <2>4, AppliedFacts DEF Core
  <2>8. c \in Nat /\ c < RXQ_COUNT + TXQ_COUNT /\ c \in 0..RXQ_COUNT + TXQ_COUNT - 1
    BY <2>2, <2>5, Counts
  <2>9. applied >= Base(Queue("cq", c)) + 8  BY <1>1, <2>3, <2>4, <2>5, <2>8, Bases
  <2>10. hw[Queue("cq", c)].enabled /\ e = EqnOf(c) /\ hw[Queue("eq", e)].enabled
    BY <2>8, <2>9, OpenedCq
  <2>11. QED  BY <2>1, <2>2, <2>5, <2>6, <2>7, <2>8, <2>10, CqFacts
<1>5. QED  BY <1>1, <1>2, <1>3, <1>4

LEMMA CompleteStep ==
    ASSUME Core, NEW r \in DeviceQueues, r.kind \in Rings, Complete(r) PROVE Core'
<1> DEFINE c == hw[r].target
           q == Queue("cq", c)
           e == hw[q].target
           p == Queue("eq", e)
           taken0 == hw[q].enabled
           fires == taken0 /\ hw[q].armed
           found == hw[p].enabled
           irq == found /\ hw[p].armed
           regs == [hw EXCEPT ![r].work = (r.kind = "rxq"), ![q].work = @ \/ taken0, ![q].armed = @ /\ ~fires]
           done == [regs EXCEPT ![p].work = @ \/ found, ![p].armed = @ /\ ~irq]
<1>1. /\ hw[r].enabled /\ hw[r].work
      /\ hw' = IF fires THEN done ELSE regs
      /\ fires => /\ events' = IF found THEN [events EXCEPT ![p.n] = @ \cup {q.n}] ELSE events
                  /\ irqs' = IF irq /\ hw[p].target = IRQ THEN irqs + 1 ELSE irqs
      /\ ~fires => events' = events /\ irqs' = irqs
      /\ lost' = IF hw[r].set = Fields /\ (~taken0 \/ (fires /\ ~found)) THEN lost \cup {r} ELSE lost
      /\ UNCHANGED <<stage, todo, reading, port_up, free_list, eqs, rings, opening, cqs, mmio>>
      /\ tx_ctrl' = tx_ctrl /\ rx_ctrl' = rx_ctrl /\ UNCHANGED handlerVars
  BY DEF Complete, CqOf, EqOf, Announce, Announced, Found, Interrupts, Raised, driverVars
<1>2. /\ DeviceTypes /\ Registers /\ Announcing /\ applied \in Nat
      /\ irqs \in Nat /\ hw \in [DeviceQueues -> QueueRegisters]
      /\ events \in [0..DEVICE_EQS - 1 -> SUBSET (0..DEVICE_CQS - 1)]
  BY AppliedFacts DEF Core, DeviceTypes
<1>3. /\ c \in Nat /\ c < DEVICE_CQS /\ q \in DeviceQueues /\ q.kind = "cq" /\ q.n = c
      /\ e \in Nat /\ e < DEVICE_EQS /\ p \in DeviceQueues /\ p.kind = "eq" /\ p.n = e
  BY <1>2, PathOf, QueueFacts DEF CqOf
<1>4. r # q /\ r # p /\ q # p  BY <1>3 DEF Rings
<1>5. r \in Queues => \/ hw[r].set = {} /\ applied < Disables
                      \/ /\ c < RXQ_COUNT + TXQ_COUNT /\ RingOf(c) = r /\ e = EqnOf(c)
                         /\ e < EQ_COUNT /\ p \in Queues /\ q \in Queues
                         /\ IsRunning(r, applied) /\ InitEnd < applied /\ listed
                         /\ taken0 /\ found
  BY <1>1, EnabledRing
<1>6. r \notin Queues => \/ r \in Intruders
                         \/ q \notin Queues /\ (taken0 => p \notin Queues)
  BY <1>1 DEF Intruders, CqOf, EqOf
<1> HIDE DEF c, e, q, p, taken0, found, irq
<1>7. /\ regs \in [DeviceQueues -> QueueRegisters]
      /\ \A x \in DeviceQueues : /\ regs[x].enabled = hw[x].enabled /\ regs[x].set = hw[x].set
                                 /\ regs[x].target = hw[x].target
                                 /\ x # r /\ x # q => regs[x] = hw[x]
      /\ regs[r].armed = hw[r].armed /\ regs[r].work = (r.kind = "rxq")
      /\ regs[q].armed = (hw[q].armed /\ ~fires)
  <2>1. hw[r] \in QueueRegisters /\ hw[q] \in QueueRegisters  BY <1>2, <1>3
  <2>2. regs[r] = [hw[r] EXCEPT !.work = (r.kind = "rxq")]  BY <1>2, <1>3, <1>4
  <2>3. regs[q] = [hw[q] EXCEPT !.work = @ \/ taken0, !.armed = @ /\ ~fires]  BY <1>2, <1>3, <1>4
  <2>4. \A x \in DeviceQueues : x # r /\ x # q => regs[x] = hw[x]  BY <1>2
  <2>5. DOMAIN regs = DeviceQueues /\ regs = [x \in DeviceQueues |-> regs[x]]  BY <1>2
  <2> HIDE DEF fires, regs
  <2>6. hw[r].armed \in BOOLEAN /\ hw[q].armed \in BOOLEAN  BY <2>1 DEF QueueRegisters
  <2>7. /\ regs[r].enabled = hw[r].enabled /\ regs[r].set = hw[r].set /\ regs[r].target = hw[r].target
        /\ regs[r].armed = hw[r].armed /\ regs[r].work = (r.kind = "rxq")
        /\ regs[r] \in QueueRegisters
    BY <2>1, <2>2 DEF QueueRegisters
  <2>8. /\ regs[q].enabled = hw[q].enabled /\ regs[q].set = hw[q].set /\ regs[q].target = hw[q].target
        /\ regs[q].armed = (hw[q].armed /\ ~fires)
        /\ regs[q] \in QueueRegisters
    BY <2>1, <2>3 DEF QueueRegisters
  <2>9. \A x \in DeviceQueues : regs[x] \in QueueRegisters  BY <1>2, <2>4, <2>7, <2>8
  <2>10. QED  BY <1>4, <2>4, <2>5, <2>7, <2>8, <2>9
<1>8. fires => /\ done \in [DeviceQueues -> QueueRegisters]
               /\ \A x \in DeviceQueues : /\ done[x].enabled = regs[x].enabled
                                          /\ done[x].set = regs[x].set
                                          /\ done[x].target = regs[x].target
                                          /\ x # p => done[x] = regs[x]
               /\ done[p].armed = (regs[p].armed /\ ~irq)
  <2> HIDE DEF regs, fires
  <2>1. regs[p] \in QueueRegisters  BY <1>3, <1>7
  <2>2. done[p] = [regs[p] EXCEPT !.work = @ \/ found, !.armed = @ /\ ~irq]  BY <1>3, <1>7
  <2>3. \A x \in DeviceQueues : x # p => done[x] = regs[x]  BY <1>7
  <2>4. DOMAIN done = DeviceQueues /\ done = [x \in DeviceQueues |-> done[x]]  BY <1>7
  <2> HIDE DEF done
  <2>5. /\ done[p].enabled = regs[p].enabled /\ done[p].set = regs[p].set
        /\ done[p].target = regs[p].target /\ done[p].armed = (regs[p].armed /\ ~irq)
        /\ done[p] \in QueueRegisters
    BY <2>1, <2>2 DEF QueueRegisters
  <2>6. \A x \in DeviceQueues : done[x] \in QueueRegisters  BY <1>7, <2>3, <2>5
  <2>7. QED  BY <2>3, <2>4, <2>5, <2>6
<1> HIDE DEF regs, done, fires
<1>9. /\ hw' \in [DeviceQueues -> QueueRegisters] /\ \A x \in DeviceQueues : SameConfiguration(x)
      /\ \A x \in DeviceQueues : x # r /\ x # q /\ ~(fires /\ x = p) => hw'[x] = hw[x]
      /\ ~fires => hw'[q].armed = hw[q].armed
  <2>1. hw[q].armed \in BOOLEAN  BY <1>2, <1>3 DEF QueueRegisters
  <2>2. QED  BY <1>1, <1>7, <1>8, <2>1 DEF SameConfiguration
<1>10. DriverTypes' /\ Objects' /\ Stages' /\ Pending' /\ applied' = applied /\ listed' = listed
  BY <1>1, SameDriver
<1>11. Registers'  BY <1>2, <1>9, <1>10, SameRegisters
<1>12. HandlerTypes' /\ Handler'  BY <1>1, <1>10, SameHandler DEF Core
<1>13. Intruders' = Intruders  BY <1>2, <1>9, SameIntruders
<1>14. /\ events' \in [0..DEVICE_EQS - 1 -> SUBSET (0..DEVICE_CQS - 1)]
       /\ irqs' \in Nat /\ irqs <= irqs'
       /\ \A x \in 0..DEVICE_EQS - 1 : events[x] \subseteq events'[x]
       /\ \A x \in 0..DEVICE_EQS - 1 : ~(fires /\ x = e) => events'[x] = events[x]
       /\ fires /\ found => events'[e] = events[e] \cup {c}
  <2>1. e \in 0..DEVICE_EQS - 1 /\ c \in 0..DEVICE_CQS - 1  BY <1>3, DeviceCounts
  <2>2. irqs' \in Nat /\ irqs <= irqs'
    <3>1. irqs' = irqs \/ irqs' = irqs + 1  BY <1>1
    <3>2. QED  BY <1>2, <3>1
  <2>3. CASE fires /\ found
    <3>1. events' = [events EXCEPT ![e] = @ \cup {c}]  BY <1>1, <1>3, <2>3
    <3>2. events'[e] = events[e] \cup {c} /\ \A x \in 0..DEVICE_EQS - 1 : x # e => events'[x] = events[x]
      BY <1>2, <2>1, <3>1
    <3>3. events' \in [0..DEVICE_EQS - 1 -> SUBSET (0..DEVICE_CQS - 1)]  BY <1>2, <2>1, <3>1
    <3>4. QED  BY <2>2, <2>3, <3>2, <3>3
  <2>4. CASE ~(fires /\ found)
    <3>1. events' = events  BY <1>1, <2>4
    <3>2. QED  BY <1>2, <2>2, <2>4, <3>1
  <2>5. QED  BY <2>3, <2>4
<1>15. lost' = lost
  <2>1. CASE r \in Queues
    <3>1. hw[r].set = {} => hw[r].set # Fields  BY DEF Fields
    <3>2. QED  BY <1>1, <1>5, <2>1, <3>1
  <2>2. CASE r \notin Queues
    <3>1. hw[r].set # Fields  BY <1>2, <2>2 DEF Registers, Fields
    <3>2. QED  BY <1>1, <3>1
  <2>3. QED  BY <2>1, <2>2
<1>16. DeviceTypes'  BY <1>1, <1>2, <1>9, <1>14, <1>15 DEF DeviceTypes, SameConfiguration
<1>17. NothingLost'  BY <1>15 DEF Core, NothingLost
<1>18. \A x \in 0..EQ_COUNT - 1 :
          /\ Queue("eq", x) \in Queues /\ Queue("eq", x) \in DeviceQueues
          /\ Queue("eq", x).kind = "eq" /\ Queue("eq", x).n = x /\ x \in 0..DEVICE_EQS - 1
          /\ Base(Queue("eq", x)) \in Nat /\ Disables < Base(Queue("eq", x))
  <2>1. ASSUME NEW x \in 0..EQ_COUNT - 1
        PROVE  /\ Queue("eq", x) \in Queues /\ Queue("eq", x) \in DeviceQueues
               /\ Queue("eq", x).kind = "eq" /\ Queue("eq", x).n = x /\ x \in 0..DEVICE_EQS - 1
               /\ Base(Queue("eq", x)) \in Nat /\ Disables < Base(Queue("eq", x))
    <3>1. /\ Queue("eq", x) \in Queues /\ Queue("eq", x) \in DeviceQueues
          /\ Queue("eq", x).kind = "eq" /\ Queue("eq", x).n = x /\ x \in 0..DEVICE_EQS - 1
      BY QueueIn, QueueFacts, DeviceQueueFacts, Counts, DeviceCounts
    <3>2. Queue("eq", x) \in Opened  BY <3>1 DEF Opened
    <3>3. Disables + 2 <= Base(Queue("eq", x)) /\ Base(Queue("eq", x)) \in Nat  BY <3>2, Bases
    <3>4. QED  BY <3>1, <3>3, DisableNumbers
  <2>2. QED  BY <2>1
<1>19. \A x \in 0..RXQ_COUNT + TXQ_COUNT - 1 :
          /\ Queue("cq", x) \in Queues /\ Queue("cq", x) \in DeviceQueues
          /\ Queue("cq", x).kind = "cq" /\ Queue("cq", x).n = x
          /\ Base(Queue("cq", x)) \in Nat /\ InitEnd <= Base(Queue("cq", x)) /\ EqnOf(x) \in 0..EQ_COUNT - 1
  <2>1. ASSUME NEW x \in 0..RXQ_COUNT + TXQ_COUNT - 1
        PROVE  /\ Queue("cq", x) \in Queues /\ Queue("cq", x) \in DeviceQueues
               /\ Queue("cq", x).kind = "cq" /\ Queue("cq", x).n = x
               /\ Base(Queue("cq", x)) \in Nat /\ InitEnd <= Base(Queue("cq", x))
               /\ EqnOf(x) \in 0..EQ_COUNT - 1
    <3>1. x \in Nat /\ x < RXQ_COUNT + TXQ_COUNT  BY Counts
    <3>2. Queue("cq", x).kind = "cq" /\ Queue("cq", x).n = x  BY QueueFacts
    <3>3. EqnOf(x) \in 0..EQ_COUNT - 1  BY <3>1, CqFacts, Counts
    <3>4. QED  BY <3>1, <3>2, <3>3, Bases, CqFacts, DeviceQueueFacts
  <2>2. QED  BY <2>1
<1>20. Disables \in Nat /\ InitEnd \in Nat /\ Disables < InitEnd  BY CqBases, DisableNumbers, Counts
<1>21. Announcing'
  <2>1. ASSUME NEW x \in 0..RXQ_COUNT + TXQ_COUNT - 1, applied >= Base(Queue("cq", x)) + 9
        PROVE  hw'[Queue("cq", x)].armed \/ x \in events'[EqnOf(x)]
    <3> DEFINE y == Queue("cq", x)
    <3>1. /\ y \in DeviceQueues /\ y.kind = "cq" /\ y.n = x /\ Base(y) \in Nat
          /\ EqnOf(x) \in 0..EQ_COUNT - 1 /\ EqnOf(x) \in 0..DEVICE_EQS - 1
      BY <1>18, <1>19
    <3>2. hw[y].armed \/ x \in events[EqnOf(x)]  BY <1>2, <2>1 DEF Announcing
    <3>3. events[EqnOf(x)] \subseteq events'[EqnOf(x)]  BY <1>14, <3>1
    <3>4. CASE y = q /\ fires
      <4>1. applied >= Base(y) + 8  BY <1>2, <2>1, <3>1
      <4>2. hw[y].target = EqnOf(x) /\ hw[Queue("eq", EqnOf(x))].enabled  BY <4>1, OpenedCq
      <4>3. e = EqnOf(x) /\ found /\ c = x  BY <1>3, <3>1, <3>4, <4>2 DEF e, found, p
      <4>4. QED  BY <1>14, <3>4, <4>3
    <3>5. CASE y = q /\ ~fires
      BY <1>9, <3>2, <3>3, <3>5
    <3>6. CASE y # q
      <4>1. y # r /\ y # p  BY <1>3, <3>1 DEF Rings
      <4>2. hw'[y] = hw[y]  BY <1>9, <3>1, <3>6, <4>1
      <4>3. QED  BY <3>2, <3>3, <4>2
    <3>7. QED  BY <3>4, <3>5, <3>6
  <2>2. QED  BY <1>10, <2>1 DEF Announcing
<1>22. ASSUME Intruders = {}, EventQueues, CompletionQueues PROVE EventQueues' /\ CompletionQueues'
  <2>1. CASE applied < Disables
    <3>1. EventQueues'
      <4>1. ASSUME NEW x \in 0..EQ_COUNT - 1 PROVE EventQueueAt(x, applied)'
        <5>1. ~(applied >= Base(Queue("eq", x)) + 7)  BY <1>2, <1>18, <1>20, <2>1
        <5>2. QED  BY <1>10, <5>1 DEF EventQueueAt
      <4>2. QED  BY <4>1 DEF EventQueues
    <3>2. CompletionQueues'
      <4>1. ASSUME NEW x \in 0..RXQ_COUNT + TXQ_COUNT - 1 PROVE CompletionQueueAt(x, applied)'
        <5>1. ~(applied >= Base(Queue("cq", x)) + 7)  BY <1>2, <1>19, <1>20, <2>1
        <5>2. QED  BY <1>10, <5>1 DEF CompletionQueueAt
      <4>2. QED  BY <4>1 DEF CompletionQueues
    <3>3. QED  BY <3>1, <3>2
  <2>2. ASSUME NEW x \in 0..EQ_COUNT - 1, Watched(x) PROVE Watched(x)'
    BY <1>1, <1>2, <1>14, <2>2 DEF Watched, handlerVars
  <2>3. CASE r \notin Queues
    <3>1. q \notin Queues /\ (fires => p \notin Queues)  BY <1>6, <1>22, <2>3 DEF fires
    <3>2. ASSUME NEW x \in 0..EQ_COUNT - 1
          PROVE  hw'[Queue("eq", x)] = hw[Queue("eq", x)] /\ events'[x] = events[x]
      <4>1. /\ Queue("eq", x) \in Queues /\ Queue("eq", x) \in DeviceQueues /\ x \in 0..DEVICE_EQS - 1
            /\ Queue("eq", x) # r /\ Queue("eq", x) # q /\ ~(fires /\ Queue("eq", x) = p)
        BY <1>18, <2>3, <3>1
      <4>2. ~(fires /\ x = e)  BY <4>1 DEF p
      <4>3. QED  BY <1>9, <1>14, <4>1, <4>2
    <3>3. ASSUME NEW x \in 0..RXQ_COUNT + TXQ_COUNT - 1
          PROVE  hw'[Queue("cq", x)].work = hw[Queue("cq", x)].work
      <4>1. /\ Queue("cq", x) \in Queues /\ Queue("cq", x) \in DeviceQueues
            /\ Queue("cq", x) # r /\ Queue("cq", x) # q /\ Queue("cq", x) # p
        BY <1>3, <1>19, <2>3, <3>1
      <4>2. QED  BY <1>9, <4>1
    <3>4. QED  BY <1>10, <1>22, <2>2, <3>2, <3>3, Kept
  <2>4. CASE r \in Queues /\ ~(applied < Disables)
    <3>1. /\ c < RXQ_COUNT + TXQ_COUNT /\ RingOf(c) = r /\ e = EqnOf(c) /\ e < EQ_COUNT
          /\ IsRunning(r, applied) /\ InitEnd < applied /\ listed
          /\ taken0 /\ found
      BY <1>5, <2>4
    <3>2. e \in 0..EQ_COUNT - 1 /\ hw[p].target = IRQ
          /\ applied >= Base(p) + 7 /\ applied >= Base(p) + 9
      <4>1. e \in 0..EQ_COUNT - 1  BY <1>3, <3>1, Counts
      <4>2. InitEnd <= applied  BY <1>2, <1>20, <3>1
      <4>3. QED  BY <4>1, <4>2, ListedEq DEF p
    <3>3. EventQueueAt(e, applied)  BY <1>22, <3>2 DEF EventQueues
    <3>4. ASSUME NEW x \in 0..EQ_COUNT - 1, x = e, fires PROVE Watched(x)'
      <4>1. CASE hw[p].armed
        <5>1. irqs' = irqs + 1  BY <1>1, <3>1, <3>2, <3>4, <4>1 DEF irq
        <5>2. QED  BY <1>2, <5>1 DEF Watched
      <4>2. CASE ~hw[p].armed
        <5>1. Watched(x)  BY <3>2, <3>3, <3>4, <4>2 DEF EventQueueAt, p
        <5>2. QED  BY <2>2, <5>1
      <4>3. QED  BY <4>1, <4>2
    <3>5. EventQueues'
      <4>1. ASSUME NEW x \in 0..EQ_COUNT - 1 PROVE EventQueueAt(x, applied)'
        <5> DEFINE y == Queue("eq", x)
        <5>1. y \in DeviceQueues /\ y.kind = "eq" /\ y.n = x /\ x \in 0..DEVICE_EQS - 1  BY <1>18
        <5>2. EventQueueAt(x, applied)  BY <1>22 DEF EventQueues
        <5>3. CASE fires /\ x = e
          <6>1. Watched(x)' /\ events'[x] = events[x] \cup {c}  BY <1>14, <3>1, <3>4, <5>3
          <6>2. y = p  BY <5>3 DEF p
          <6>3. hw'[y].work \in BOOLEAN /\ hw[y].armed \in BOOLEAN /\ hw'[y].armed \in BOOLEAN
            BY <1>2, <1>9, <5>1 DEF QueueRegisters
          <6>4. \A d \in events'[x] : d < RXQ_COUNT + TXQ_COUNT /\ EqnOf(d) = x /\ IsRunning(RingOf(d), applied)
            BY <3>1, <3>2, <5>2, <5>3, <6>1, <6>2 DEF EventQueueAt
          <6>5. events'[x] # {} => hw'[y].work
            <7>1. hw' = done /\ hw'[p] = [regs[p] EXCEPT !.work = @ \/ found, !.armed = @ /\ ~irq]
              <8>1. hw' = done  BY <1>1, <5>3
              <8>2. done[p] = [regs[p] EXCEPT !.work = @ \/ found, !.armed = @ /\ ~irq]
                BY <1>3, <1>7 DEF done
              <8>3. QED  BY <8>1, <8>2
            <7>2. regs[p] \in QueueRegisters  BY <1>3, <1>7
            <7>3. hw'[p].work = (regs[p].work \/ found)  BY <7>1, <7>2 DEF QueueRegisters
            <7>4. QED  BY <3>1, <6>2, <7>3
          <6>6. QED  BY <1>10, <3>1, <3>2, <6>1, <6>2, <6>4, <6>5 DEF EventQueueAt
        <5>4. CASE ~(fires /\ x = e)
          <6>1. ~(fires /\ y = p)  BY <1>3, <5>1, <5>4
          <6>2. y # r /\ y # q  BY <1>3, <5>1 DEF Rings
          <6>3. hw'[y] = hw[y] /\ events'[x] = events[x]  BY <1>9, <1>14, <5>1, <5>4, <6>1, <6>2
          <6>4. QED  BY <1>10, <2>2, <5>2, <6>3 DEF EventQueueAt
        <5>5. QED  BY <5>3, <5>4
      <4>2. QED  BY <4>1 DEF EventQueues
    <3>6. CompletionQueues'
      <4>1. ASSUME NEW x \in 0..RXQ_COUNT + TXQ_COUNT - 1 PROVE CompletionQueueAt(x, applied)'
        <5> DEFINE y == Queue("cq", x)
        <5>1. y \in DeviceQueues /\ y.kind = "cq" /\ y.n = x  BY <1>19
        <5>2. CompletionQueueAt(x, applied)  BY <1>22 DEF CompletionQueues
        <5>3. CASE x = c
          BY <1>10, <3>1, <5>3 DEF CompletionQueueAt
        <5>4. CASE x # c
          <6>1. y # r /\ y # q /\ y # p  BY <1>3, <5>1, <5>4 DEF Rings
          <6>2. hw'[y] = hw[y]  BY <1>9, <5>1, <6>1
          <6>3. QED  BY <1>10, <5>2, <6>2 DEF CompletionQueueAt
        <5>5. QED  BY <5>3, <5>4
      <4>2. QED  BY <4>1 DEF CompletionQueues
    <3>7. QED  BY <3>5, <3>6
  <2>5. QED  BY <2>1, <2>3, <2>4
<1>23. Paths'  BY <1>13, <1>22 DEF Core, Paths
<1>24. QED  BY <1>10, <1>11, <1>12, <1>16, <1>17, <1>21, <1>23 DEF Core

(***************************************************************************)
(* The oldest access reaches the device                                    *)
(***************************************************************************)
LEMMA Oldest ==
    ASSUME DriverTypes, mmio # <<>>, NEW w, w = Head(mmio), mmio' = Tail(mmio)
    PROVE  /\ w \in Accesses /\ w = mmio[1] /\ mmio' \in Seq(Accesses) /\ Len(mmio') = Len(mmio) - 1
           /\ \A i \in 1..Len(mmio') : mmio'[i] = mmio[i + 1] /\ i + 1 \in 1..Len(mmio)
           /\ Len(mmio) \in Nat /\ Len(mmio) >= 1 /\ 1 \in 1..Len(mmio)
<1>1. mmio \in Seq(Accesses)  BY DEF DriverTypes
<1>2. Len(mmio) \in Nat /\ Len(mmio) # 0  BY <1>1, EmptySeq, LenProperties
<1>3. /\ w \in Accesses /\ w = mmio[1] /\ mmio' \in Seq(Accesses) /\ Len(mmio') = Len(mmio) - 1
      /\ \A i \in 1..Len(mmio') : mmio'[i] = mmio[i + 1]
  BY <1>1, <1>2, HeadTailProperties
<1>4. \A i \in 1..Len(mmio') : i + 1 \in 1..Len(mmio)  BY <1>2, <1>3
<1>5. QED  BY <1>2, <1>3, <1>4

(* What an access does to the queues. *)
LEMMA OtherAccess ==
    ASSUME Apply, NEW w, w = Head(mmio), w.op \in {"read", "tx_ctrl", "rx_ctrl"}
    PROVE  /\ hw' = hw /\ events' = events /\ irqs' = irqs
           /\ reading' = IF w.op = "read" THEN FALSE ELSE reading
           /\ tx_ctrl' = IF w.op = "tx_ctrl" THEN OnOff(w.val) ELSE tx_ctrl
           /\ rx_ctrl' = IF w.op = "rx_ctrl" THEN OnOff(w.val) ELSE rx_ctrl
  BY DEF Apply, QueueWrite, Fields

LEMMA QueueAccess ==
    ASSUME Apply, NEW w, w = Head(mmio), w.op \in Ops
    PROVE  QueueWrite(w) /\ UNCHANGED <<tx_ctrl, rx_ctrl, reading>>
  BY DEF Apply, Ops, Fields

LEMMA EnableWrite ==
    ASSUME DeviceTypes, NEW q \in DeviceQueues, NEW val, QueueWrite(Enable(q, val))
    PROVE  /\ hw' \in [DeviceQueues -> QueueRegisters] /\ irqs' = irqs /\ events' = events
           /\ \A x \in DeviceQueues : x # q => hw'[x] = hw[x]
           /\ (hw'[q].enabled <=> val = 1) /\ hw'[q].set = hw[q].set /\ hw'[q].target = hw[q].target
           /\ hw'[q].work = hw[q].work /\ hw'[q].armed = hw[q].armed
<1>1. hw \in [DeviceQueues -> QueueRegisters] /\ hw[q] \in QueueRegisters  BY DEF DeviceTypes
<1>2. hw' = [hw EXCEPT ![q].enabled = (val = 1)] /\ irqs' = irqs /\ events' = events
  BY DEF QueueWrite, Enable, Access, Fields
<1>3. hw'[q] = [hw[q] EXCEPT !.enabled = (val = 1)] /\ \A x \in DeviceQueues : x # q => hw'[x] = hw[x]
  BY <1>1, <1>2
<1>4. DOMAIN hw' = DeviceQueues /\ hw' = [x \in DeviceQueues |-> hw'[x]]  BY <1>1, <1>2
<1>5. hw'[q] \in QueueRegisters  BY <1>1, <1>3 DEF QueueRegisters
<1>6. \A x \in DeviceQueues : hw'[x] \in QueueRegisters  BY <1>1, <1>3, <1>5
<1>7. hw' \in [DeviceQueues -> QueueRegisters]  BY <1>4, <1>6
<1>8. hw'[q].enabled = (val = 1) /\ (val = 1) \in BOOLEAN  BY <1>1, <1>3 DEF QueueRegisters
<1>9. hw'[q].enabled <=> val = 1  BY <1>8
<1>10. QED  BY <1>1, <1>2, <1>3, <1>7, <1>9 DEF QueueRegisters

(* A register the device takes. *)
LEMMA FieldWrite ==
    ASSUME DeviceTypes, NEW q \in DeviceQueues, NEW f \in Fields, NEW val \in Nat,
           QueueWrite(Access(f, q, val)), ~ReadOnly(q, f)
    PROVE  /\ hw' \in [DeviceQueues -> QueueRegisters] /\ irqs' = irqs
           /\ events' = IF f = "cons" /\ q.kind = "eq" THEN [events EXCEPT ![q.n] = {}] ELSE events
           /\ \A x \in DeviceQueues : x # q => hw'[x] = hw[x]
           /\ hw'[q].enabled = hw[q].enabled /\ hw'[q].set = hw[q].set \cup {f}
           /\ hw'[q].target = IF f = "target" THEN val ELSE hw[q].target
           /\ f \in {"prod", "cons"} => (hw'[q].work <=> val > 0)
           /\ f \notin {"prod", "cons"} => hw'[q].work = hw[q].work
           /\ hw'[q].armed = hw[q].armed
<1> DEFINE w == Access(f, q, val)
<1>1. hw \in [DeviceQueues -> QueueRegisters] /\ hw[q] \in QueueRegisters  BY DEF DeviceTypes
<1>2. w.op = f /\ w.q = q /\ w.val = val  BY DEF Access
<1>3. f # "enable" /\ f # "arm"  BY DEF Fields
<1> HIDE DEF w
<1>4. /\ hw' = [hw EXCEPT ![q] = Configured(@, w)] /\ irqs' = irqs
      /\ events' = IF f = "cons" /\ q.kind = "eq" THEN [events EXCEPT ![q.n] = {}] ELSE events
  BY <1>2, <1>3 DEF QueueWrite, w
<1>5. hw'[q] = Configured(hw[q], w) /\ \A x \in DeviceQueues : x # q => hw'[x] = hw[x]
  BY <1>1, <1>4
<1>6. DOMAIN hw' = DeviceQueues /\ hw' = [x \in DeviceQueues |-> hw'[x]]  BY <1>1, <1>4
<1>7. hw'[q] \in QueueRegisters
      /\ hw'[q].enabled = hw[q].enabled /\ hw'[q].set = hw[q].set \cup {f}
      /\ hw'[q].target = (IF f = "target" THEN val ELSE hw[q].target)
      /\ hw'[q].work = (IF f \in {"prod", "cons"} THEN val > 0 ELSE hw[q].work)
      /\ hw'[q].armed = hw[q].armed
  <2> DEFINE reg == hw[q]
             target == IF f = "target" THEN val ELSE reg.target
             work == IF f \in {"prod", "cons"} THEN val > 0 ELSE reg.work
  <2>1. hw'[q] = [reg EXCEPT !.set = @ \cup {f}, !.target = target, !.work = work]
    BY <1>2, <1>5 DEF Configured
  <2>2. reg \in QueueRegisters /\ target \in Nat /\ reg.set \cup {f} \in SUBSET Fields
    BY <1>1 DEF QueueRegisters
  <2>3. work \in BOOLEAN
    <3>1. reg.work \in BOOLEAN  BY <1>1 DEF QueueRegisters
    <3>2. (val > 0) \in BOOLEAN  OBVIOUS
    <3>3. QED  BY <3>1, <3>2, Zenon
  <2> HIDE DEF reg, target, work
  <2>4. /\ hw'[q].enabled = reg.enabled /\ hw'[q].set = reg.set \cup {f} /\ hw'[q].target = target
        /\ hw'[q].work = work /\ hw'[q].armed = reg.armed /\ hw'[q] \in QueueRegisters
    BY <2>1, <2>2, <2>3 DEF QueueRegisters
  <2>5. QED  BY <2>4 DEF reg, target, work
<1>8. \A x \in DeviceQueues : hw'[x] \in QueueRegisters  BY <1>1, <1>5, <1>7
<1>9. hw' \in [DeviceQueues -> QueueRegisters]  BY <1>6, <1>8
<1>10. f \in {"prod", "cons"} => (hw'[q].work <=> val > 0)
  <2>1. (val > 0) \in BOOLEAN  OBVIOUS
  <2>2. f \in {"prod", "cons"} => hw'[q].work = (val > 0)  BY <1>7
  <2>3. QED  BY <2>1, <2>2
<1>11. f \notin {"prod", "cons"} => hw'[q].work = hw[q].work  BY <1>7
<1>12. QED  BY <1>4, <1>5, <1>7, <1>9, <1>10, <1>11

(* Arming a queue without records. *)
LEMMA ArmIdle ==
    ASSUME DeviceTypes, NEW q \in DeviceQueues, QueueWrite(Arm(q)), ~hw[q].work
    PROVE  /\ hw' \in [DeviceQueues -> QueueRegisters] /\ irqs' = irqs /\ events' = events
           /\ \A x \in DeviceQueues : x # q => hw'[x] = hw[x]
           /\ hw'[q].enabled = hw[q].enabled /\ hw'[q].set = hw[q].set /\ hw'[q].target = hw[q].target
           /\ hw'[q].work = hw[q].work /\ hw'[q].armed
<1>1. hw \in [DeviceQueues -> QueueRegisters] /\ hw[q] \in QueueRegisters  BY DEF DeviceTypes
<1>2. ArmWrite(q)  BY DEF QueueWrite, Arm, Access, Fields
<1>3. hw' = [hw EXCEPT ![q].armed = TRUE] /\ irqs' = irqs /\ events' = events
  BY <1>2 DEF ArmWrite
<1>4. hw'[q] = [hw[q] EXCEPT !.armed = TRUE] /\ \A x \in DeviceQueues : x # q => hw'[x] = hw[x]
  BY <1>1, <1>3
<1>5. DOMAIN hw' = DeviceQueues /\ hw' = [x \in DeviceQueues |-> hw'[x]]  BY <1>1, <1>3
<1>6. hw'[q] \in QueueRegisters  BY <1>1, <1>4 DEF QueueRegisters
<1>7. \A x \in DeviceQueues : hw'[x] \in QueueRegisters  BY <1>1, <1>4, <1>6
<1>8. hw' \in [DeviceQueues -> QueueRegisters]  BY <1>5, <1>7
<1>9. QED  BY <1>1, <1>3, <1>4, <1>8 DEF QueueRegisters

(* Arming a queue that has records: an event queue sends its interrupt, a  *)
(* completion queue of this driver announces itself.                       *)
LEMMA ArmFires ==
    ASSUME DeviceTypes, NEW q \in DeviceQueues, q.kind \in {"eq", "cq"}, QueueWrite(Arm(q)),
           hw[q].enabled, hw[q].work
    PROVE  /\ hw' \in [DeviceQueues -> QueueRegisters] /\ irqs' \in Nat /\ irqs <= irqs'
           /\ \A x \in DeviceQueues : SameConfiguration(x)
           /\ \A x \in DeviceQueues : x # q /\ x.kind # "eq" => hw'[x] = hw[x]
           /\ events' \in [0..DEVICE_EQS - 1 -> SUBSET (0..DEVICE_CQS - 1)]
           /\ \A e \in 0..DEVICE_EQS - 1 : events[e] \subseteq events'[e]
           /\ q.kind = "cq" /\ hw[EqOf(q)].enabled => q.n \in events'[hw[q].target]
<1>1. /\ hw \in [DeviceQueues -> QueueRegisters] /\ hw[q] \in QueueRegisters /\ irqs \in Nat
      /\ events \in [0..DEVICE_EQS - 1 -> SUBSET (0..DEVICE_CQS - 1)]
  BY DEF DeviceTypes
<1>2. ArmWrite(q)  BY DEF QueueWrite, Arm, Access, Fields
<1> DEFINE regs == [hw EXCEPT ![q].armed = FALSE]
<1>3. /\ regs \in [DeviceQueues -> QueueRegisters]
      /\ \A x \in DeviceQueues : x # q => regs[x] = hw[x]
      /\ regs[q].enabled = hw[q].enabled /\ regs[q].set = hw[q].set /\ regs[q].target = hw[q].target
  <2>1. regs[q] = [hw[q] EXCEPT !.armed = FALSE] /\ \A x \in DeviceQueues : x # q => regs[x] = hw[x]
    BY <1>1
  <2>2. DOMAIN regs = DeviceQueues /\ regs = [x \in DeviceQueues |-> regs[x]]  BY <1>1
  <2> HIDE DEF regs
  <2>3. regs[q] \in QueueRegisters  BY <1>1, <2>1 DEF QueueRegisters
  <2>4. \A x \in DeviceQueues : regs[x] \in QueueRegisters  BY <1>1, <2>1, <2>3
  <2>5. QED  BY <1>1, <2>1, <2>2, <2>4 DEF QueueRegisters
<1>4. CASE q.kind = "eq"
  <2>1. hw' = regs /\ irqs' = (IF hw[q].target = IRQ THEN irqs + 1 ELSE irqs) /\ events' = events
    BY <1>2, <1>4 DEF ArmWrite, Raised
  <2>2. irqs' \in Nat /\ irqs <= irqs'  BY <1>1, <2>1
  <2> HIDE DEF regs
  <2>3. QED  BY <1>1, <1>3, <1>4, <2>1, <2>2 DEF SameConfiguration
<1>5. CASE q.kind = "cq"
  <2> DEFINE e == hw[q].target
             p == Queue("eq", e)
             found == hw[p].enabled
             irq == found /\ hw[p].armed
             done == [regs EXCEPT ![p].work = @ \/ found, ![p].armed = @ /\ ~irq]
  <2>1. e \in Nat /\ e < DEVICE_EQS /\ p \in DeviceQueues /\ p.kind = "eq" /\ p.n = e
    BY <1>5, PathOf, QueueFacts
  <2>2. p # q /\ e \in 0..DEVICE_EQS - 1 /\ q.n \in 0..DEVICE_CQS - 1
    BY <1>5, <2>1, DeviceQueueFacts, DeviceCounts
  <2>3. /\ hw' = done
        /\ events' = IF found THEN [events EXCEPT ![p.n] = @ \cup {q.n}] ELSE events
        /\ irqs' = IF irq /\ hw[p].target = IRQ THEN irqs + 1 ELSE irqs
    BY <1>2, <1>5 DEF ArmWrite, Announced, Announce, EqOf, Found, Interrupts, Raised
  <2>4. EqOf(q) = p  BY DEF EqOf
  <2> HIDE DEF e, p, found, irq, regs
  <2>5. /\ done \in [DeviceQueues -> QueueRegisters]
        /\ \A x \in DeviceQueues : x # p => done[x] = regs[x]
        /\ done[p].enabled = regs[p].enabled /\ done[p].set = regs[p].set
        /\ done[p].target = regs[p].target
    <3>1. regs[p] \in QueueRegisters  BY <1>3, <2>1
    <3>2. done[p] = [regs[p] EXCEPT !.work = @ \/ found, !.armed = @ /\ ~irq]  BY <1>3, <2>1
    <3>3. \A x \in DeviceQueues : x # p => done[x] = regs[x]  BY <1>3
    <3>4. DOMAIN done = DeviceQueues /\ done = [x \in DeviceQueues |-> done[x]]  BY <1>3
    <3> HIDE DEF done
    <3>5. /\ done[p].enabled = regs[p].enabled /\ done[p].set = regs[p].set
          /\ done[p].target = regs[p].target /\ done[p] \in QueueRegisters
      BY <3>1, <3>2 DEF QueueRegisters
    <3>6. \A x \in DeviceQueues : done[x] \in QueueRegisters  BY <1>3, <3>3, <3>5
    <3>7. QED  BY <3>3, <3>4, <3>5, <3>6
  <2> HIDE DEF done
  <2>6. \A x \in DeviceQueues : SameConfiguration(x)  BY <1>3, <2>3, <2>5 DEF SameConfiguration
  <2>7. \A x \in DeviceQueues : x # q /\ x.kind # "eq" => hw'[x] = hw[x]  BY <1>3, <2>1, <2>3, <2>5
  <2>8. irqs' \in Nat /\ irqs <= irqs'  BY <1>1, <2>3
  <2>9. /\ events' \in [0..DEVICE_EQS - 1 -> SUBSET (0..DEVICE_CQS - 1)]
        /\ \A x \in 0..DEVICE_EQS - 1 : events[x] \subseteq events'[x]
        /\ found => q.n \in events'[e]
    BY <1>1, <2>1, <2>2, <2>3
  <2>10. hw[EqOf(q)].enabled <=> found  BY <2>4 DEF found
  <2>11. QED  BY <2>3, <2>5, <2>6, <2>7, <2>8, <2>9, <2>10 DEF e
<1>6. QED  BY <1>4, <1>5

(* The step of a call: what it makes of the queue it opens. *)
LEMMA OpeningEffect ==
    ASSUME DeviceTypes, NEW q \in Opened, NEW k \in 1..Length(q), QueueWrite(Opening(q, k)),
           hw[q].enabled <=> k - 1 >= EnableStep(q),
           k = 9 /\ q.kind \notin Rings => ~hw[q].work
    PROVE  /\ hw' \in [DeviceQueues -> QueueRegisters] /\ irqs' = irqs
           /\ \A x \in DeviceQueues : x # q => hw'[x] = hw[x]
           /\ hw'[q].enabled <=> k >= EnableStep(q)
           /\ hw'[q].set = hw[q].set \cup {f \in Fields : k = FieldStep[f]} \/
              (k = 8 /\ q.kind = "rxq" /\ hw'[q].set = hw[q].set \cup {"prod"})
           /\ hw'[q].target = IF k = 5 THEN TargetOf(q) ELSE hw[q].target
           /\ q.kind \notin Rings /\ k \in {6, 7} => ~hw'[q].work
           /\ q.kind \notin Rings /\ k \notin {6, 7} => hw'[q].work = hw[q].work
           /\ q.kind \notin Rings /\ k = 9 => hw'[q].armed
           /\ events' = IF k = 7 /\ q.kind = "eq" THEN [events EXCEPT ![q.n] = {}] ELSE events
<1>1. q \in DeviceQueues /\ EnableStep(q) \in 8..Length(q) /\ Length(q) \in {8, 9} /\ TargetOf(q) \in Nat
  BY Targets, DeviceQueueFacts DEF Opened
<1>2. q.kind = "rxq" <=> EnableStep(q) = 9  BY DEF EnableStep
<1> DEFINE at(j) == {f \in Fields : j = FieldStep[f]}
<1>3. /\ at(1) = {} /\ at(2) = {"base_lo"} /\ at(3) = {"base_hi"} /\ at(4) = {"size"}
      /\ at(5) = {"target"} /\ at(6) = {"prod"} /\ at(7) = {"cons"} /\ at(8) = {} /\ at(9) = {}
  BY DEF Fields, FieldStep
<1> HIDE DEF at
<1>4. CASE k = 1
  <2>1. QueueWrite(Enable(q, 0))  BY <1>4 DEF Opening
  <2>2. /\ hw' \in [DeviceQueues -> QueueRegisters] /\ irqs' = irqs /\ events' = events
        /\ \A x \in DeviceQueues : x # q => hw'[x] = hw[x]
        /\ (hw'[q].enabled <=> 0 = 1) /\ hw'[q].set = hw[q].set /\ hw'[q].target = hw[q].target
        /\ hw'[q].work = hw[q].work
    BY <1>1, <2>1, EnableWrite
  <2>3. at(k) = {} /\ k \notin {5, 6, 7, 9} /\ ~(k >= EnableStep(q))  BY <1>1, <1>3, <1>4
  <2>4. ~hw'[q].enabled  BY <2>2
  <2>5. QED  BY <2>2, <2>3, <2>4 DEF at
<1>5. ASSUME k \in 2..7
      PROVE  \E f \in Fields : \E val \in Nat :
                /\ at(k) = {f} /\ QueueWrite(Access(f, q, val)) /\ ~ReadOnly(q, f)
                /\ f = "target" <=> k = 5
                /\ f = "cons" <=> k = 7
                /\ f \in {"prod", "cons"} <=> k \in {6, 7}
                /\ k = 5 => val = TargetOf(q)
                /\ k # 5 => val = 0
  <2>1. ~hw[q].enabled  BY <1>1, <1>5
  <2>2. \A f : ~ReadOnly(q, f)  BY <2>1 DEF ReadOnly
  <2>3. k = 2 \/ k = 3 \/ k = 4 \/ k = 5 \/ k = 6 \/ k = 7  BY <1>5
  <2>4. CASE k = 2
    <3>1. QueueWrite(Access("base_lo", q, 0)) /\ "base_lo" \in Fields  BY <2>4 DEF Opening, Fields
    <3>2. QED  BY <1>3, <2>2, <2>4, <3>1
  <2>5. CASE k = 3
    <3>1. QueueWrite(Access("base_hi", q, 0)) /\ "base_hi" \in Fields  BY <2>5 DEF Opening, Fields
    <3>2. QED  BY <1>3, <2>2, <2>5, <3>1
  <2>6. CASE k = 4
    <3>1. QueueWrite(Access("size", q, 0)) /\ "size" \in Fields  BY <2>6 DEF Opening, Fields
    <3>2. QED  BY <1>3, <2>2, <2>6, <3>1
  <2>7. CASE k = 5
    <3>1. QueueWrite(Access("target", q, TargetOf(q))) /\ "target" \in Fields
      BY <2>7 DEF Opening, Fields
    <3>2. QED  BY <1>1, <1>3, <2>2, <2>7, <3>1
  <2>8. CASE k = 6
    <3>1. QueueWrite(Access("prod", q, 0)) /\ "prod" \in Fields  BY <2>8 DEF Opening, Fields
    <3>2. QED  BY <1>3, <2>2, <2>8, <3>1
  <2>9. CASE k = 7
    <3>1. QueueWrite(Access("cons", q, 0)) /\ "cons" \in Fields  BY <2>9 DEF Opening, Fields
    <3>2. QED  BY <1>3, <2>2, <2>9, <3>1
  <2>10. QED  BY <2>3, <2>4, <2>5, <2>6, <2>7, <2>8, <2>9
<1>6. CASE k \in 2..7
  <2>1. PICK f \in Fields : \E val \in Nat :
                /\ at(k) = {f} /\ QueueWrite(Access(f, q, val)) /\ ~ReadOnly(q, f)
                /\ f = "target" <=> k = 5
                /\ f = "cons" <=> k = 7
                /\ f \in {"prod", "cons"} <=> k \in {6, 7}
                /\ k = 5 => val = TargetOf(q)
                /\ k # 5 => val = 0
    BY <1>5, <1>6
  <2>2. PICK val \in Nat :
                /\ at(k) = {f} /\ QueueWrite(Access(f, q, val)) /\ ~ReadOnly(q, f)
                /\ f = "target" <=> k = 5
                /\ f = "cons" <=> k = 7
                /\ f \in {"prod", "cons"} <=> k \in {6, 7}
                /\ k = 5 => val = TargetOf(q)
                /\ k # 5 => val = 0
    BY <2>1
  <2>3. /\ hw' \in [DeviceQueues -> QueueRegisters] /\ irqs' = irqs
        /\ events' = IF f = "cons" /\ q.kind = "eq" THEN [events EXCEPT ![q.n] = {}] ELSE events
        /\ \A x \in DeviceQueues : x # q => hw'[x] = hw[x]
        /\ hw'[q].enabled = hw[q].enabled /\ hw'[q].set = hw[q].set \cup {f}
        /\ hw'[q].target = IF f = "target" THEN val ELSE hw[q].target
        /\ f \in {"prod", "cons"} => (hw'[q].work <=> val > 0)
        /\ f \notin {"prod", "cons"} => hw'[q].work = hw[q].work
    BY <1>1, <2>2, FieldWrite
  <2>4. hw'[q].set = hw[q].set \cup at(k)  BY <2>2, <2>3
  <2>5. hw'[q].enabled <=> k >= EnableStep(q)
    <3>1. ~(k >= EnableStep(q)) /\ ~(k - 1 >= EnableStep(q))  BY <1>1, <1>6
    <3>2. QED  BY <2>3, <3>1
  <2>6. /\ k \in {6, 7} => ~hw'[q].work
        /\ k \notin {6, 7} => hw'[q].work = hw[q].work
    <3>1. CASE k \in {6, 7}
      <4>1. (hw'[q].work <=> val > 0) /\ val = 0  BY <2>2, <2>3, <3>1
      <4>2. ~(val > 0)  BY <4>1
      <4>3. QED  BY <3>1, <4>1, <4>2
    <3>2. CASE k \notin {6, 7}
      BY <2>2, <2>3, <3>2
    <3>3. QED  BY <3>1, <3>2
  <2>7. hw'[q].target = IF k = 5 THEN TargetOf(q) ELSE hw[q].target  BY <2>2, <2>3
  <2>8. events' = IF k = 7 /\ q.kind = "eq" THEN [events EXCEPT ![q.n] = {}] ELSE events
    BY <2>2, <2>3
  <2>9. k # 9  BY <1>6
  <2>10. QED  BY <2>3, <2>4, <2>5, <2>6, <2>7, <2>8, <2>9 DEF at
<1>7. CASE k = 8 /\ q.kind = "rxq"
  <2>1. QueueWrite(Access("prod", q, 1)) /\ "prod" \in Fields  BY <1>7 DEF Opening, Fields
  <2>2. ~ReadOnly(q, "prod")  BY <1>7 DEF ReadOnly, Rings
  <2>3. /\ hw' \in [DeviceQueues -> QueueRegisters] /\ irqs' = irqs /\ events' = events
        /\ \A x \in DeviceQueues : x # q => hw'[x] = hw[x]
        /\ hw'[q].enabled = hw[q].enabled /\ hw'[q].set = hw[q].set \cup {"prod"}
        /\ hw'[q].target = hw[q].target
    BY <1>1, <2>1, <2>2, FieldWrite
  <2>4. hw'[q].enabled <=> k >= EnableStep(q)
    <3>1. ~(k >= EnableStep(q)) /\ ~(k - 1 >= EnableStep(q))  BY <1>2, <1>7
    <3>2. QED  BY <2>3, <3>1
  <2>5. q.kind \in Rings /\ k # 5 /\ k # 7  BY <1>7 DEF Rings
  <2>6. QED  BY <1>7, <2>3, <2>4, <2>5
<1>8. CASE k = EnableStep(q)
  <2>1. QueueWrite(Enable(q, 1))  BY <1>1, <1>2, <1>8 DEF Opening
  <2>2. at(k) = {} /\ k \in {8, 9} /\ (k = 9 => q.kind \in Rings)  BY <1>1, <1>2, <1>3, <1>8 DEF Rings
  <2>3. /\ hw' \in [DeviceQueues -> QueueRegisters] /\ irqs' = irqs /\ events' = events
        /\ \A x \in DeviceQueues : x # q => hw'[x] = hw[x]
        /\ (hw'[q].enabled <=> 1 = 1) /\ hw'[q].set = hw[q].set /\ hw'[q].target = hw[q].target
        /\ hw'[q].work = hw[q].work
    BY <1>1, <2>1, EnableWrite
  <2>4. hw'[q].enabled /\ k >= EnableStep(q)  BY <1>1, <1>8, <2>3
  <2>5. QED  BY <2>2, <2>3, <2>4 DEF at
<1>9. CASE k = 9 /\ q.kind # "rxq"
  <2>1. QueueWrite(Arm(q)) /\ q.kind \notin Rings
    <3>1. q.kind # "txq"  BY <1>9 DEF Length
    <3>2. EnableStep(q) = 8  BY <1>9 DEF EnableStep
    <3>3. QED  BY <1>9, <3>1, <3>2 DEF Opening, Rings
  <2>2. ~hw[q].work  BY <1>9, <2>1
  <2>3. /\ hw' \in [DeviceQueues -> QueueRegisters] /\ irqs' = irqs /\ events' = events
        /\ \A x \in DeviceQueues : x # q => hw'[x] = hw[x]
        /\ hw'[q].enabled = hw[q].enabled /\ hw'[q].set = hw[q].set /\ hw'[q].target = hw[q].target
        /\ hw'[q].work = hw[q].work /\ hw'[q].armed
    BY <1>1, <2>1, <2>2, ArmIdle
  <2>4. hw'[q].enabled <=> k >= EnableStep(q)
    <3>1. k >= EnableStep(q) /\ k - 1 >= EnableStep(q)  BY <1>9 DEF EnableStep
    <3>2. QED  BY <2>3, <3>1
  <2>5. at(k) = {}  BY <1>3, <1>9
  <2>6. QED  BY <1>9, <2>3, <2>4, <2>5 DEF at
<1>10. k = 1 \/ k \in 2..7 \/ (k = 8 /\ q.kind = "rxq") \/ k = EnableStep(q) \/ (k = 9 /\ q.kind # "rxq")
  BY <1>1, <1>2 DEF EnableStep
<1>11. QED  BY <1>4, <1>6, <1>7, <1>8, <1>9, <1>10

(* The driver's side of it. *)
LEMMA ApplyDriver ==
    ASSUME Core, Apply, NEW w, w = Head(mmio)
    PROVE  /\ DriverTypes' /\ Objects' /\ Pending' /\ listed' = listed /\ stage' = stage /\ lost' = lost
           /\ HandlerTypes' /\ Handler' /\ UNCHANGED handlerVars
           /\ w \in Accesses /\ mmio # <<>> /\ applied \in Nat
           /\ rx_ctrl' = IF w.op = "rx_ctrl" THEN OnOff(w.val) ELSE rx_ctrl
           /\ tx_ctrl' = IF w.op = "tx_ctrl" THEN OnOff(w.val) ELSE tx_ctrl
           /\ UNCHANGED <<port_up, eqs, rings, opening>> /\ ringsOpened' = ringsOpened
           /\ stage \in Late => applied' = applied /\ applied = OpenEnd /\ w \in LateAccesses
           /\ stage \notin Late => applied' = applied + 1 /\ Program(applied + 1, w)
<1>1. /\ mmio # <<>> /\ mmio' = Tail(mmio) /\ UNCHANGED handlerVars
      /\ UNCHANGED <<stage, todo, port_up, free_list, eqs, rings, opening, cqs, lost>>
  BY DEF Apply
<1>2. DriverTypes /\ Stages /\ Pending /\ Objects  BY DEF Core
<1>3. /\ w \in Accesses /\ w = mmio[1] /\ mmio' \in Seq(Accesses) /\ Len(mmio') = Len(mmio) - 1
      /\ \A i \in 1..Len(mmio') : mmio'[i] = mmio[i + 1] /\ i + 1 \in 1..Len(mmio)
      /\ Len(mmio) \in Nat /\ Len(mmio) >= 1 /\ 1 \in 1..Len(mmio)
  BY <1>1, <1>2, Oldest
<1>4. /\ called' = called /\ taken' = taken /\ ringsOpened' = ringsOpened /\ listed' = listed
  BY <1>1 DEF called, taken, ringsOpened, listed
<1>5. w.op \in Ops \/ w.op \in {"read", "tx_ctrl", "rx_ctrl"}  BY <1>3 DEF Accesses, Ops
<1>6. /\ reading' = IF w.op = "read" THEN FALSE ELSE reading
      /\ rx_ctrl' = IF w.op = "rx_ctrl" THEN OnOff(w.val) ELSE rx_ctrl
      /\ tx_ctrl' = IF w.op = "tx_ctrl" THEN OnOff(w.val) ELSE tx_ctrl
  <2>1. CASE w.op \in Ops
    <3>1. rx_ctrl' = rx_ctrl /\ reading' = reading /\ tx_ctrl' = tx_ctrl  BY <2>1, QueueAccess
    <3>2. w.op # "read" /\ w.op # "rx_ctrl" /\ w.op # "tx_ctrl"  BY <2>1 DEF Ops, Fields
    <3>3. QED  BY <3>1, <3>2
  <2>2. CASE w.op \in {"read", "tx_ctrl", "rx_ctrl"}
    BY <2>2, OtherAccess
  <2>3. QED  BY <1>5, <2>1, <2>2
<1>7. DriverTypes'
  <2>1. reading' \in BOOLEAN
    <3>1. reading \in BOOLEAN  BY <1>2 DEF DriverTypes
    <3>2. CASE w.op = "read"
      BY <1>6, <3>2
    <3>3. CASE w.op # "read"
      BY <1>6, <3>1, <3>3
    <3>4. QED  BY <3>2, <3>3
  <2>2. QED  BY <1>1, <1>2, <1>3, <2>1 DEF DriverTypes
<1>8. Objects'  BY <1>1, <1>2, <1>4 DEF Objects, FreeLists, CqObjects
<1>9. applied \in Nat /\ Len(todo) \in Nat  BY <1>2, AppliedFacts, Lengths
<1>10. ASSUME stage \in Late
       PROVE  applied' = applied /\ applied = OpenEnd /\ w \in LateAccesses /\ Pending'
  <2>1. applied' = applied /\ applied = OpenEnd  BY <1>1, <1>10 DEF applied
  <2>2. w \in LateAccesses  BY <1>2, <1>3, <1>10 DEF Pending
  <2>3. \A i \in 1..Len(mmio') : mmio'[i] \in LateAccesses  BY <1>2, <1>3, <1>10 DEF Pending
  <2>4. \A i \in 1..Len(todo') : todo'[i] \in LateAccesses  BY <1>1, <1>2, <1>10 DEF Pending
  <2>5. Pending'  BY <1>1, <1>10, <2>3, <2>4 DEF Pending
  <2>6. QED  BY <2>1, <2>2, <2>5
<1>11. ASSUME stage \notin Late
       PROVE  applied' = applied + 1 /\ Program(applied + 1, w) /\ Pending'
  <2>1. called = applied + Len(mmio) + Len(todo) /\ called \in Nat
    BY <1>2, <1>11, AppliedFacts, CalledFacts
  <2>2. applied' = applied + 1
    <3>1. applied' = called - ((Len(mmio) - 1) + Len(todo))  BY <1>1, <1>3, <1>4, <1>11 DEF applied
    <3>2. QED  BY <1>3, <1>9, <2>1, <3>1
  <2>3. Program(applied + 1, w)  BY <1>2, <1>3, <1>11 DEF Pending
  <2>4. \A i \in 1..Len(mmio') : Program(applied' + i, mmio'[i])
    <3>1. ASSUME NEW i \in 1..Len(mmio') PROVE Program(applied' + i, mmio'[i])
      <4>1. Program(applied + (i + 1), mmio[i + 1])  BY <1>2, <1>3, <1>11 DEF Pending
      <4>2. applied' + i = applied + (i + 1)  BY <1>9, <2>2
      <4>3. QED  BY <1>3, <4>1, <4>2
    <3>2. QED  BY <3>1
  <2>5. \A i \in 1..Len(todo') : Program(applied' + Len(mmio') + i, todo'[i])
    <3>1. ASSUME NEW i \in 1..Len(todo) PROVE Program(applied' + Len(mmio') + i, todo[i])
      <4>1. Program(applied + Len(mmio) + i, todo[i])  BY <1>2, <1>11 DEF Pending
      <4>2. applied' + Len(mmio') + i = applied + Len(mmio) + i  BY <1>3, <1>9, <2>2
      <4>3. QED  BY <4>1, <4>2
    <3>2. QED  BY <1>1, <3>1
  <2>6. /\ stage = "init_flush" => called = InitEnd
        /\ stage = "open_flush" => called = OpenEnd
        /\ InitEnd \in Nat /\ OpenEnd \in Nat /\ InitEnd < OpenEnd
    BY <1>2, CalledFacts, CqBases, Bases
  <2>7. /\ w = Read <=> applied + 1 \in {InitEnd, OpenEnd}
        /\ w.op = "read" <=> w = Read
    BY <2>3, ProgramFacts
  <2>8. ASSUME reading' PROVE stage' \in Flushes /\ mmio' # <<>> /\ todo' = <<>>
    <3>1. reading /\ w.op # "read"  BY <1>6, <2>8
    <3>2. stage \in Flushes /\ todo = <<>>  BY <1>2, <1>11, <3>1 DEF Pending, Flushes
    <3>3. ASSUME mmio' = <<>> PROVE FALSE
      <4>1. Len(mmio') = 0 /\ Len(todo) = 0  BY <3>2, <3>3
      <4>2. called = applied + 1
        <5>1. Len(mmio') = Len(mmio) - 1 /\ Len(mmio) \in Nat  BY <1>3
        <5>2. Len(mmio) = 1  BY <4>1, <5>1
        <5>3. called = applied + Len(mmio) + Len(todo)  BY <2>1
        <5>4. QED  BY <1>9, <4>1, <5>2, <5>3
      <4>3. QED  BY <2>6, <2>7, <3>1, <3>2, <4>2 DEF Flushes
    <3>4. QED  BY <1>1, <3>2, <3>3
  <2>9. ASSUME stage' \in Flushes, todo' = <<>>, ~reading' PROVE mmio' = <<>>
    <3>1. stage \in Flushes /\ todo = <<>>  BY <1>1, <2>9
    <3>2. reading  BY <1>1, <1>2, <1>11, <3>1 DEF Pending, Flushes
    <3>3. applied + 1 \in {InitEnd, OpenEnd}  BY <1>6, <2>7, <2>9, <3>2
    <3>4. Len(todo) = 0 /\ called = applied + Len(mmio)
      <4>1. Len(todo) = 0  BY <3>1
      <4>2. QED  BY <1>3, <1>9, <2>1, <4>1
    <3>5. listed <=> stage = "open_flush"  BY <3>1 DEF listed, Flushes
    <3>6. Len(mmio) = 1
      <4>1. CASE stage = "init_flush"
        BY <1>3, <1>9, <2>6, <3>3, <3>4, <4>1
      <4>2. CASE stage = "open_flush"
        <5>1. InitEnd <= applied  BY <1>2, <3>5, <4>2, AppliedFacts
        <5>2. QED  BY <1>3, <1>9, <2>6, <3>3, <3>4, <4>2, <5>1
      <4>3. QED  BY <3>1, <4>1, <4>2 DEF Flushes
    <3>7. Len(mmio') = 0  BY <1>3, <3>6
    <3>8. QED  BY <1>3, <3>7, EmptySeq
  <2>10. listed' => applied' >= InitEnd
    <3>1. listed => InitEnd <= applied  BY <1>2, AppliedFacts
    <3>2. QED  BY <1>4, <1>9, <2>2, <2>6, <3>1
  <2>11. Pending'  BY <1>1, <1>11, <2>4, <2>5, <2>8, <2>9, <2>10 DEF Pending, Flushes
  <2>12. QED  BY <2>2, <2>3, <2>11
<1>12. Pending'  BY <1>10, <1>11
<1>13. HandlerTypes' /\ Handler'  BY <1>1, <1>4, SameHandler DEF Core
<1>14. QED  BY <1>1, <1>3, <1>4, <1>6, <1>7, <1>8, <1>9, <1>10, <1>11, <1>12, <1>13

(* An access that neither configures a queue nor concerns an event or      *)
(* completion queue.                                                       *)
LEMMA SameQueues ==
    ASSUME Core, applied' = applied, listed' = listed,
           events' = events, irqs' = irqs, UNCHANGED handlerVars,
           \A x \in DeviceQueues : SameConfiguration(x) /\ (x.kind \notin Rings => hw'[x] = hw[x])
    PROVE  Registers' /\ Announcing' /\ Paths'
<1>1. Registers'  BY SameRegisters DEF Core
<1>2. Intruders' = Intruders  BY SameIntruders DEF Core
<1>3. \A e \in 0..EQ_COUNT - 1 : hw'[Queue("eq", e)] = hw[Queue("eq", e)]
  <2>1. \A e \in 0..EQ_COUNT - 1 : Queue("eq", e) \in DeviceQueues /\ Queue("eq", e).kind = "eq"
    BY QueueIn, QueueFacts, DeviceQueueFacts, Counts
  <2>2. QED  BY <2>1 DEF Rings
<1>4. \A c \in 0..RXQ_COUNT + TXQ_COUNT - 1 : hw'[Queue("cq", c)] = hw[Queue("cq", c)]
  <2>1. \A c \in 0..RXQ_COUNT + TXQ_COUNT - 1 :
            Queue("cq", c) \in DeviceQueues /\ Queue("cq", c).kind = "cq"
    BY CqFacts, QueueFacts, DeviceQueueFacts, Counts
  <2>2. QED  BY <2>1 DEF Rings
<1>5. Announcing'  BY <1>4 DEF Core, Announcing
<1>6. ASSUME EventQueues, CompletionQueues PROVE EventQueues' /\ CompletionQueues'
  <2>1. \A e \in 0..EQ_COUNT - 1 : Watched(e)' <=> Watched(e)  BY SameWatch
  <2>2. QED  BY <1>3, <1>4, <1>6, <2>1, Kept
<1>7. Paths'  BY <1>2, <1>6 DEF Core, Paths
<1>8. QED  BY <1>1, <1>5, <1>7

LEMMA LateApplyStep == ASSUME Core, Apply, stage \in Late PROVE Core'
<1> DEFINE w == Head(mmio)
<1>1. /\ DriverTypes' /\ Objects' /\ Pending' /\ listed' = listed /\ stage' = stage /\ lost' = lost
      /\ HandlerTypes' /\ Handler' /\ UNCHANGED handlerVars
      /\ rx_ctrl' = IF w.op = "rx_ctrl" THEN OnOff(w.val) ELSE rx_ctrl
      /\ tx_ctrl' = IF w.op = "tx_ctrl" THEN OnOff(w.val) ELSE tx_ctrl
      /\ UNCHANGED <<port_up, eqs, rings, opening>> /\ ringsOpened' = ringsOpened
      /\ applied' = applied /\ applied = OpenEnd /\ w \in LateAccesses
  BY ApplyDriver
<1>2. DeviceTypes /\ Stages /\ Registers /\ NothingLost  BY DEF Core
<1> HIDE DEF w
<1>3. Stages'  BY <1>1, <1>2 DEF Stages, listed
<1>4. rx_ctrl' \in {"old", "on", "off"} /\ tx_ctrl' \in {"old", "on", "off"}
  BY <1>1, <1>2 DEF DeviceTypes, OnOff
<1>5. NothingLost' /\ lost' \subseteq DeviceQueues  BY <1>1, <1>2 DEF NothingLost
<1>6. ASSUME w.op \in {"read", "tx_ctrl", "rx_ctrl"} PROVE Core'
  <2>1. hw' = hw /\ events' = events /\ irqs' = irqs  BY <1>6, OtherAccess DEF w
  <2>2. \A x \in DeviceQueues : SameConfiguration(x)  BY <2>1 DEF SameConfiguration
  <2>3. Registers' /\ Announcing' /\ Paths'  BY <1>1, <2>1, <2>2, SameQueues
  <2>4. DeviceTypes'  BY <1>2, <1>4, <1>5, <2>1 DEF DeviceTypes
  <2>5. QED  BY <1>1, <1>3, <1>5, <2>3, <2>4 DEF Core
<1>7. ASSUME NEW n \in 0..TXQ_COUNT - 1, w = Access("prod", Queue("txq", n), 1) PROVE Core'
  <2> DEFINE q == Queue("txq", n)
  <2>1. q \in Queues /\ q \in DeviceQueues /\ q.kind = "txq" /\ q.kind \in Rings /\ q \in Opened
    <3>1. q \in Queues /\ q.kind = "txq"  BY QueueIn, QueueFacts, Counts
    <3>2. QED  BY <3>1, RingFacts, DeviceQueueFacts DEF Rings
  <2> HIDE DEF q
  <2>2. QueueWrite(w)
    <3>1. w.op \in Ops  BY <1>7 DEF Access, Ops, Fields
    <3>2. QED  BY <3>1, QueueAccess DEF w
  <2>3. ~ReadOnly(q, "prod")  BY <2>1 DEF ReadOnly
  <2>4. /\ hw' \in [DeviceQueues -> QueueRegisters] /\ irqs' = irqs /\ events' = events
        /\ \A x \in DeviceQueues : x # q => hw'[x] = hw[x]
        /\ hw'[q].enabled = hw[q].enabled /\ hw'[q].set = hw[q].set \cup {"prod"}
        /\ hw'[q].target = hw[q].target
    <3>1. QueueWrite(Access("prod", q, 1))  BY <1>7, <2>2 DEF q
    <3>2. "prod" \in Fields  BY DEF Fields
    <3>3. QED  BY <1>2, <2>1, <2>3, <3>1, <3>2, FieldWrite
  <2>5. "prod" \in hw[q].set
    <3>1. RegistersAt(q, OpenEnd)  BY <1>1, <1>2, <2>1 DEF Registers
    <3>2. /\ DisableNumber(q) \in 1..Disables /\ Disables \in Nat /\ Base(q) \in Nat
          /\ Disables + 2 <= Base(q) /\ Base(q) + Length(q) < OpenEnd /\ Length(q) = 8
          /\ OpenEnd \in Nat
      BY <2>1, DisableNumbers, Bases, CqBases DEF Length
    <3>3. OpenEnd >= DisableNumber(q) /\ OpenEnd >= Base(q) + FieldStep["prod"] /\ "prod" \in Fields
      BY <3>2 DEF FieldStep, Fields
    <3>4. hw[q].set = {f \in Fields : OpenEnd >= Base(q) + FieldStep[f]}
      BY <2>1, <3>1, <3>3 DEF RegistersAt
    <3>5. QED  BY <3>3, <3>4
  <2>6. \A x \in DeviceQueues : SameConfiguration(x) /\ (x.kind \notin Rings => hw'[x] = hw[x])
    BY <2>1, <2>4, <2>5 DEF SameConfiguration
  <2>7. Registers' /\ Announcing' /\ Paths'  BY <1>1, <2>4, <2>6, SameQueues
  <2>8. DeviceTypes'  BY <1>2, <1>4, <1>5, <2>4, <2>6 DEF DeviceTypes, SameConfiguration
  <2>9. QED  BY <1>1, <1>3, <1>5, <2>7, <2>8 DEF Core
<1>8. w \in {Read, TxCtrl(1), RxCtrl(1), RxCtrl(0)} => w.op \in {"read", "tx_ctrl", "rx_ctrl"}
  BY DEF Read, TxCtrl, RxCtrl, Access
<1>9. QED  BY <1>1, <1>6, <1>7, <1>8 DEF LateAccesses

(* Queues an access is not about: it is neither the write that disables    *)
(* the queue nor one of its call.                                          *)
Elsewhere(q, m) ==
    m # DisableNumber(q) /\ (q \in Opened => m <= Base(q) \/ Base(q) + Length(q) < m)

LEMMA UntouchedRegisters ==
    ASSUME applied \in Nat, applied' = applied + 1, NEW q \in Queues, Elsewhere(q, applied'),
           SameConfiguration(q), RegistersAt(q, applied)
    PROVE  RegistersAt(q, applied)'
<1> DEFINE n == applied
           m == applied'
<1>1. DisableNumber(q) \in Nat  BY DisableNumbers
<1>2. n \in Nat /\ m = n + 1 /\ m # DisableNumber(q)  BY DEF Elsewhere
<1>3. CASE q \notin Opened
  <2> HIDE DEF n, m
  <2>1. /\ n < DisableNumber(q) <=> m < DisableNumber(q)
        /\ n >= DisableNumber(q) <=> m >= DisableNumber(q)
    BY <1>1, <1>2
  <2>2. QED  BY <1>3, <2>1 DEF RegistersAt, SameConfiguration, IsRunning, n, m
<1>4. CASE q \in Opened
  <2>1. /\ Base(q) \in Nat /\ Length(q) \in {8, 9} /\ EnableStep(q) \in 8..Length(q)
        /\ m <= Base(q) \/ Base(q) + Length(q) < m
    BY <1>4, Bases, Targets DEF Elsewhere
  <2> HIDE DEF n, m
  <2>2. /\ n < DisableNumber(q) <=> m < DisableNumber(q)
        /\ n >= DisableNumber(q) <=> m >= DisableNumber(q)
        /\ n >= Base(q) + EnableStep(q) <=> m >= Base(q) + EnableStep(q)
        /\ n >= Base(q) + 5 <=> m >= Base(q) + 5
    BY <1>1, <1>2, <2>1
  <2>3. \A j \in 2..7 : n >= Base(q) + j <=> m >= Base(q) + j  BY <1>2, <2>1
  <2>4. \A f \in Fields : FieldStep[f] \in 2..7  BY DEF Fields, FieldStep
  <2>5. {f \in Fields : n >= Base(q) + FieldStep[f]} = {f \in Fields : m >= Base(q) + FieldStep[f]}
    BY <2>3, <2>4
  <2>6. IsRunning(q, n) <=> IsRunning(q, m)  BY <2>2 DEF IsRunning
  <2> DEFINE Expected(j) == {f \in Fields : j >= Base(q) + FieldStep[f]}
  <2>7. Expected(n) = Expected(m)  BY <2>5
  <2>8. /\ n < DisableNumber(q) => hw[q].set = {}
        /\ n >= DisableNumber(q) => hw[q].set = Expected(n) /\ (hw[q].enabled <=> IsRunning(q, n))
        /\ n >= Base(q) + 5 => hw[q].target = TargetOf(q)
    BY <1>4 DEF RegistersAt, n
  <2> HIDE DEF Expected
  <2>9. /\ m < DisableNumber(q) => hw'[q].set = {}
        /\ m >= DisableNumber(q) => hw'[q].set = Expected(m) /\ (hw'[q].enabled <=> IsRunning(q, m))
        /\ m >= Base(q) + 5 => hw'[q].target = TargetOf(q)
    BY <2>2, <2>6, <2>7, <2>8 DEF SameConfiguration
  <2>10. QED  BY <1>4, <2>9 DEF RegistersAt, m, Expected
<1>5. QED  BY <1>3, <1>4

(* More accesses are applied, and a queue that runs still does. *)
LEMMA StillRunning ==
    ASSUME applied \in Nat, applied' = applied + 1, NEW q \in Queues, IsRunning(q, applied)
    PROVE  IsRunning(q, applied')
<1>1. q \in Opened /\ applied >= Base(q) + EnableStep(q)  BY DEF IsRunning
<1>2. Base(q) \in Nat /\ EnableStep(q) \in Nat  BY <1>1, Bases, Targets DEF EnableStep
<1>3. applied' >= Base(q) + EnableStep(q)  BY <1>1, <1>2
<1>4. QED  BY <1>1, <1>3 DEF IsRunning

LEMMA UntouchedEvents ==
    ASSUME applied \in Nat, applied' = applied + 1, NEW e \in 0..EQ_COUNT - 1,
           Elsewhere(Queue("eq", e), applied'),
           hw'[Queue("eq", e)] = hw[Queue("eq", e)], events'[e] = events[e],
           irqs' = irqs, UNCHANGED handlerVars,
           listed' = listed, EventQueueAt(e, applied)
    PROVE  EventQueueAt(e, applied)'
<1> DEFINE q == Queue("eq", e)
<1>1. q \in Queues /\ q \in Opened /\ q.kind = "eq"  BY QueueIn, QueueFacts, Counts DEF Opened
<1>2. Base(q) \in Nat /\ (applied' <= Base(q) \/ Base(q) + 9 < applied')
  BY <1>1, Bases DEF Elsewhere, Length
<1>3. /\ applied' >= Base(q) + 7 => applied >= Base(q) + 7
      /\ applied' >= Base(q) + 9 <=> applied >= Base(q) + 9
  BY <1>2
<1>4. CASE ~(applied' >= Base(q) + 7)
  BY <1>4 DEF EventQueueAt
<1>5. ASSUME applied' >= Base(q) + 7 PROVE EventQueueAt(e, applied)'
  <2>1. /\ events[e] # {} => hw[q].work
        /\ hw[q].work => listed /\ Watched(e) /\ applied >= Base(q) + 9
        /\ applied >= Base(q) + 9 => hw[q].armed \/ (listed /\ Watched(e))
        /\ \A c \in events[e] : c < RXQ_COUNT + TXQ_COUNT /\ EqnOf(c) = e /\ IsRunning(RingOf(c), applied)
    BY <1>3, <1>5 DEF EventQueueAt
  <2>2. \A c \in events'[e] : c < RXQ_COUNT + TXQ_COUNT /\ EqnOf(c) = e /\ IsRunning(RingOf(c), applied')
    <3>1. ASSUME NEW c \in events'[e]
          PROVE  c < RXQ_COUNT + TXQ_COUNT /\ EqnOf(c) = e /\ IsRunning(RingOf(c), applied')
      <4>1. c < RXQ_COUNT + TXQ_COUNT /\ EqnOf(c) = e /\ IsRunning(RingOf(c), applied)  BY <2>1
      <4>2. RingOf(c) \in Queues  BY <4>1 DEF IsRunning, Opened
      <4>3. IsRunning(RingOf(c), applied')  BY <4>1, <4>2, StillRunning
      <4>4. QED  BY <4>1, <4>3
    <3>2. QED  BY <3>1
  <2>3. Watched(e)' <=> Watched(e)  BY SameWatch
  <2>4. /\ events'[e] # {} => hw'[q].work
        /\ hw'[q].work => listed' /\ Watched(e)' /\ applied' >= Base(q) + 9
        /\ applied' >= Base(q) + 9 => hw'[q].armed \/ (listed' /\ Watched(e)')
    BY <1>3, <2>1, <2>3
  <2>5. QED  BY <2>2, <2>4 DEF EventQueueAt
<1>6. QED  BY <1>4, <1>5

LEMMA UntouchedCompletions ==
    ASSUME applied \in Nat, applied' = applied + 1, NEW c \in 0..RXQ_COUNT + TXQ_COUNT - 1,
           Elsewhere(Queue("cq", c), applied'), hw'[Queue("cq", c)] = hw[Queue("cq", c)]
    PROVE  /\ CompletionQueueAt(c, applied) => CompletionQueueAt(c, applied)'
           /\ applied' >= Base(Queue("cq", c)) + 9 => applied >= Base(Queue("cq", c)) + 9
<1> DEFINE q == Queue("cq", c)
           r == RingOf(c)
<1>1. q \in Queues /\ q \in Opened /\ q.kind = "cq" /\ r \in Queues
  <2>1. c \in Nat /\ c < RXQ_COUNT + TXQ_COUNT  BY Counts
  <2>2. QED  BY <2>1, CqFacts, QueueFacts
<1>2. Base(q) \in Nat /\ (applied' <= Base(q) \/ Base(q) + 9 < applied')
  BY <1>1, Bases DEF Elsewhere, Length
<1>3. /\ applied' >= Base(q) + 7 => applied >= Base(q) + 7
      /\ applied' >= Base(q) + 9 => applied >= Base(q) + 9
  BY <1>2
<1>4. IsRunning(r, applied) => IsRunning(r, applied')  BY <1>1, StillRunning
<1>5. QED  BY <1>3, <1>4 DEF CompletionQueueAt

(* Where the accesses are that are not about a given queue. *)
LEMMA Elsewheres ==
    /\ \A q \in Queues : Elsewhere(q, Disables + 1) /\ Elsewhere(q, Disables + 2)
                         /\ Elsewhere(q, InitEnd) /\ Elsewhere(q, OpenEnd)
    /\ \A q, p \in Queues : q # p => Elsewhere(q, DisableNumber(p))
    /\ \A q \in Queues : \A p \in Opened : \A k \in 1..Length(p) :
          q # p => Elsewhere(q, Base(p) + k)
<1>1. \A q \in Queues : DisableNumber(q) \in 1..Disables  BY DisableNumbers
<1>2. \A q \in Opened : /\ Base(q) \in Nat /\ Disables + 2 <= Base(q) /\ Length(q) \in {8, 9}
                        /\ Base(q) + Length(q) < OpenEnd
                        /\ Base(q) + Length(q) < InitEnd \/ InitEnd <= Base(q)
  <2>1. ASSUME NEW q \in Opened
        PROVE  /\ Base(q) \in Nat /\ Disables + 2 <= Base(q) /\ Length(q) \in {8, 9}
               /\ Base(q) + Length(q) < OpenEnd
               /\ Base(q) + Length(q) < InitEnd \/ InitEnd <= Base(q)
    <3>1. q.kind = "eq" => Length(q) = 9  BY DEF Length
    <3>2. Length(q) \in {8, 9}  BY DEF Length
    <3>3. QED  BY <3>1, <3>2, Bases
  <2>2. QED  BY <2>1
<1>3. /\ Disables \in Nat /\ InitEnd \in Nat /\ OpenEnd \in Nat
      /\ Disables + 2 < InitEnd /\ InitEnd < OpenEnd
  BY DisableNumbers, CqBases, Bases, Counts
<1>4. ASSUME NEW q \in Queues
      PROVE  Elsewhere(q, Disables + 1) /\ Elsewhere(q, Disables + 2)
             /\ Elsewhere(q, InitEnd) /\ Elsewhere(q, OpenEnd)
  <2>1. DisableNumber(q) \in 1..Disables  BY <1>1
  <2>2. q \in Opened => /\ Base(q) \in Nat /\ Disables + 2 <= Base(q) /\ Length(q) \in {8, 9}
                        /\ Base(q) + Length(q) < OpenEnd
                        /\ Base(q) + Length(q) < InitEnd \/ InitEnd <= Base(q)
    BY <1>2
  <2>3. QED  BY <1>3, <2>1, <2>2 DEF Elsewhere
<1>5. ASSUME NEW q \in Queues, NEW p \in Queues, q # p PROVE Elsewhere(q, DisableNumber(p))
  <2>1. DisableNumber(p) \in 1..Disables /\ DisableNumber(p) # DisableNumber(q)
    BY <1>5, DisableNumbers
  <2>2. q \in Opened => Base(q) \in Nat /\ Disables + 2 <= Base(q)  BY <1>2
  <2>3. QED  BY <1>3, <2>1, <2>2 DEF Elsewhere
<1>6. ASSUME NEW q \in Queues, NEW p \in Opened, NEW k \in 1..Length(p), q # p
      PROVE  Elsewhere(q, Base(p) + k)
  <2>1. DisableNumber(q) \in 1..Disables  BY <1>1
  <2>2. Base(p) \in Nat /\ Disables + 2 <= Base(p) /\ Length(p) \in {8, 9}  BY <1>2
  <2>3. q \in Opened => /\ Base(q) \in Nat /\ Length(q) \in {8, 9}
                        /\ Base(q) + Length(q) <= Base(p) \/ Base(p) + Length(p) <= Base(q)
    BY <1>2, <1>6, Apart
  <2>4. Base(p) + k # DisableNumber(q)  BY <1>3, <2>1, <2>2
  <2>5. q \in Opened => Base(p) + k <= Base(q) \/ Base(q) + Length(q) < Base(p) + k
    BY <2>2, <2>3
  <2>6. QED  BY <2>4, <2>5 DEF Elsewhere
<1>7. QED  BY <1>4, <1>5, <1>6

(* What a register write has to keep. *)
Device ==
    /\ hw \in [DeviceQueues -> QueueRegisters] /\ irqs \in Nat
    /\ \A q \in DeviceQueues : /\ q.kind \in Rings => hw[q].target < DEVICE_CQS
                               /\ q.kind = "cq" => hw[q].target < DEVICE_EQS
    /\ events \in [0..DEVICE_EQS - 1 -> SUBSET (0..DEVICE_CQS - 1)]
    /\ Registers /\ Announcing /\ Paths

(* The next access is one of the driver's to a queue p, if to any: the     *)
(* registers of the others are what they were.                             *)
LEMMA OtherRegisters ==
    ASSUME Core, applied \in Nat, applied' = applied + 1, NEW p,
           \A q \in DeviceQueues : q # p => SameConfiguration(q),
           \A q \in Queues : q # p => Elsewhere(q, applied'),
           p \in Queues => RegistersAt(p, applied)', p \notin DeviceQueues \ Queues
    PROVE  Registers' /\ Intruders' = Intruders
<1>1. ASSUME NEW q \in Queues PROVE RegistersAt(q, applied)'
  <2>1. RegistersAt(q, applied)  BY DEF Core, Registers
  <2>2. CASE q # p
    <3>1. SameConfiguration(q) /\ Elsewhere(q, applied')  BY <2>2, DeviceQueueFacts
    <3>2. QED  BY <2>1, <3>1, UntouchedRegisters
  <2>3. QED  BY <2>2
<1>2. \A q \in DeviceQueues \ Queues : SameConfiguration(q)  OBVIOUS
<1>3. \A q \in DeviceQueues \ Queues : hw'[q].set = {}
  BY <1>2 DEF Core, Registers, SameConfiguration
<1>4. Registers'  BY <1>1, <1>3 DEF Registers
<1>5. Intruders' = Intruders  BY <1>2, SameIntruders DEF Core
<1>6. QED  BY <1>4, <1>5

LEMMA NoQueueStep ==
    ASSUME Core, applied \in Nat, applied' = applied + 1, listed' = listed, UNCHANGED handlerVars,
           hw' = hw, events' = events, irqs' = irqs,
           applied' \in {Disables + 1, Disables + 2, InitEnd, OpenEnd}
    PROVE  Device'
<1>1. \A q \in Queues : Elsewhere(q, applied')  BY Elsewheres
<1>2. Registers' /\ Intruders' = Intruders
  <2>1. \A q \in DeviceQueues : SameConfiguration(q)  BY DEF SameConfiguration
  <2>2. NoQueue \notin DeviceQueues  BY DeviceQueueFacts, QueueFacts DEF NoQueue, Kinds
  <2>3. NoQueue \notin Queues  BY <2>2, DeviceQueueFacts
  <2>4. QED  BY <1>1, <2>1, <2>2, <2>3, OtherRegisters
<1>3. \A c \in 0..RXQ_COUNT + TXQ_COUNT - 1 :
          /\ CompletionQueueAt(c, applied) => CompletionQueueAt(c, applied)'
          /\ applied' >= Base(Queue("cq", c)) + 9 => applied >= Base(Queue("cq", c)) + 9
  <2>1. ASSUME NEW c \in 0..RXQ_COUNT + TXQ_COUNT - 1
        PROVE  /\ CompletionQueueAt(c, applied) => CompletionQueueAt(c, applied)'
               /\ applied' >= Base(Queue("cq", c)) + 9 => applied >= Base(Queue("cq", c)) + 9
    <3>1. Queue("cq", c) \in Queues  BY CqFacts, Counts
    <3>2. Elsewhere(Queue("cq", c), applied')  BY <1>1, <3>1
    <3>3. QED  BY <3>2, UntouchedCompletions
  <2>2. QED  BY <2>1
<1>4. Announcing'  BY <1>3 DEF Core, Announcing
<1>5. ASSUME EventQueues, CompletionQueues PROVE EventQueues' /\ CompletionQueues'
  <2>1. ASSUME NEW e \in 0..EQ_COUNT - 1 PROVE EventQueueAt(e, applied)'
    <3>1. Queue("eq", e) \in Queues  BY QueueIn, Counts
    <3>2. EventQueueAt(e, applied) /\ Elsewhere(Queue("eq", e), applied')
      BY <1>1, <1>5, <3>1 DEF EventQueues
    <3>3. QED  BY <3>2, UntouchedEvents
  <2>2. QED  BY <1>3, <1>5, <2>1 DEF EventQueues, CompletionQueues
<1>6. Paths'  BY <1>2, <1>5 DEF Core, Paths
<1>7. QED  BY <1>2, <1>4, <1>6 DEF Core, DeviceTypes, Device

(* Before anything is opened. *)
LEMMA NothingOpened ==
    ASSUME NEW n \in Nat, n <= Disables
    PROVE  /\ \A q \in Opened : /\ ~(n >= Base(q)) /\ ~IsRunning(q, n)
                                /\ \A j \in Nat : ~(n >= Base(q) + j)
<1>1. \A q \in Opened : Base(q) \in Nat /\ Disables + 2 <= Base(q)  BY Bases
<1>2. Disables \in Nat  BY DisableNumbers
<1>3. \A q \in Opened : EnableStep(q) \in Nat  BY DEF EnableStep
<1>4. QED  BY <1>1, <1>2, <1>3 DEF IsRunning

LEMMA NoPaths ==
    ASSUME NEW n \in Nat, n <= Disables
    PROVE  /\ \A e \in 0..EQ_COUNT - 1 : ~(n >= Base(Queue("eq", e)) + 7)
           /\ \A c \in 0..RXQ_COUNT + TXQ_COUNT - 1 :
                ~(n >= Base(Queue("cq", c)) + 7) /\ ~(n >= Base(Queue("cq", c)) + 9)
<1>1. ASSUME NEW e \in 0..EQ_COUNT - 1 PROVE ~(n >= Base(Queue("eq", e)) + 7)
  <2>1. Queue("eq", e) \in Opened  BY QueueIn, QueueFacts, Counts DEF Opened
  <2>2. QED  BY <2>1, NothingOpened
<1>2. ASSUME NEW c \in 0..RXQ_COUNT + TXQ_COUNT - 1
      PROVE  ~(n >= Base(Queue("cq", c)) + 7) /\ ~(n >= Base(Queue("cq", c)) + 9)
  <2>1. Queue("cq", c) \in Opened  BY CqFacts, Counts
  <2>2. QED  BY <2>1, NothingOpened
<1>3. QED  BY <1>1, <1>2

LEMMA DisableStep ==
    ASSUME Core, applied \in Nat, applied' = applied + 1,
           NEW p \in Queues, applied' = DisableNumber(p), QueueWrite(Enable(p, 0))
    PROVE  Device'
<1>1. /\ hw' \in [DeviceQueues -> QueueRegisters] /\ irqs' = irqs /\ events' = events
      /\ \A x \in DeviceQueues : x # p => hw'[x] = hw[x]
      /\ (hw'[p].enabled <=> 0 = 1) /\ hw'[p].set = hw[p].set /\ hw'[p].target = hw[p].target
  BY EnableWrite, DeviceQueueFacts DEF Core
<1>2. applied' \in Nat /\ applied' <= Disables /\ applied < DisableNumber(p)
  BY DisableNumbers
<1>3. \A q \in Opened : /\ ~IsRunning(q, applied')
                        /\ \A j \in Nat : ~(applied' >= Base(q) + j)
  BY <1>2, NothingOpened
<1>4. RegistersAt(p, applied)'
  <2>1. RegistersAt(p, applied)  BY DEF Core, Registers
  <2>2. hw'[p].set = {} /\ ~hw'[p].enabled  BY <1>1, <1>2, <2>1 DEF RegistersAt
  <2>3. ~IsRunning(p, applied')  BY <1>3 DEF IsRunning
  <2>4. p \in Opened => {f \in Fields : applied' >= Base(p) + FieldStep[f]} = {}
    <3>1. \A f \in Fields : FieldStep[f] \in Nat  BY DEF Fields, FieldStep
    <3>2. QED  BY <1>3, <3>1
  <2>5. p \in Opened => ~(applied' >= Base(p) + 5)  BY <1>3
  <2>6. QED  BY <2>2, <2>3, <2>4, <2>5 DEF RegistersAt
<1>5. Registers'
  <2>1. \A q \in DeviceQueues : q # p => SameConfiguration(q)  BY <1>1 DEF SameConfiguration
  <2>2. \A q \in Queues : q # p => Elsewhere(q, applied')  BY Elsewheres
  <2>3. QED  BY <1>4, <2>1, <2>2, OtherRegisters
<1>6. Announcing'  BY <1>2, NoPaths DEF Announcing
<1>7. EventQueues' /\ CompletionQueues'
  BY <1>2, NoPaths DEF EventQueues, EventQueueAt, CompletionQueues, CompletionQueueAt
<1>8. \A q \in DeviceQueues : hw'[q].target = hw[q].target  BY <1>1
<1>9. QED  BY <1>1, <1>5, <1>6, <1>7, <1>8 DEF Core, DeviceTypes, Device, Paths

LEMMA OpeningStep ==
    ASSUME Core, applied \in Nat, applied' = applied + 1, listed' = listed, UNCHANGED handlerVars,
           NEW p \in Opened, NEW k \in 1..Length(p), applied' = Base(p) + k,
           QueueWrite(Opening(p, k))
    PROVE  Device'
<1> DEFINE n == applied
           m == applied'
           b == Base(p)
<1>1. /\ p \in Queues /\ p \in DeviceQueues /\ b \in Nat /\ Disables + 2 <= b /\ Disables \in Nat
      /\ Length(p) \in {8, 9} /\ EnableStep(p) \in 8..Length(p) /\ TargetOf(p) \in Nat
      /\ DisableNumber(p) \in 1..Disables
      /\ n \in Nat /\ m \in Nat /\ m = b + k /\ n = b + (k - 1)
  <2>1. p \in Queues /\ p \in DeviceQueues  BY DeviceQueueFacts DEF Opened
  <2>2. b \in Nat /\ Disables + 2 <= b  BY Bases
  <2>3. Length(p) \in {8, 9} /\ EnableStep(p) \in 8..Length(p) /\ TargetOf(p) \in Nat  BY Targets
  <2>4. QED  BY <2>1, <2>2, <2>3, DisableNumbers
<1>2. p.kind = "eq" \/ p.kind = "cq" \/ p.kind = "txq" \/ p.kind = "rxq"  BY <1>1, FourKinds
<1>3. RegistersAt(p, n)  BY <1>1 DEF Core, Registers
<1>4. DeviceTypes  BY DEF Core
<1> HIDE DEF n, m, b
<1>5. n >= DisableNumber(p) /\ m >= DisableNumber(p)  BY <1>1
<1>6. \A j \in 1..9 : (n >= b + j <=> k - 1 >= j) /\ (m >= b + j <=> k >= j)  BY <1>1
<1>7. /\ hw[p].enabled <=> k - 1 >= EnableStep(p)
      /\ hw[p].set = {f \in Fields : k - 1 >= FieldStep[f]}
      /\ k - 1 >= 5 => hw[p].target = TargetOf(p)
  <2>1. hw[p].enabled <=> n >= b + EnableStep(p)  BY <1>3, <1>5 DEF RegistersAt, IsRunning, b
  <2>2. hw[p].set = {f \in Fields : n >= b + FieldStep[f]}  BY <1>3, <1>5 DEF RegistersAt, b
  <2>3. \A f \in Fields : FieldStep[f] \in 1..9  BY DEF Fields, FieldStep
  <2>4. n >= b + 5 => hw[p].target = TargetOf(p)  BY <1>3 DEF RegistersAt, b
  <2>5. EnableStep(p) \in 1..9 /\ 5 \in 1..9  BY <1>1
  <2>6. {f \in Fields : n >= b + FieldStep[f]} = {f \in Fields : k - 1 >= FieldStep[f]}
    BY <1>6, <2>3
  <2>7. QED  BY <1>6, <2>1, <2>2, <2>4, <2>5, <2>6
<1>8. p.kind = "eq" => /\ p.n \in 0..EQ_COUNT - 1 /\ p = Queue("eq", p.n) /\ EnableStep(p) = 8
                       /\ b + 9 < InitEnd
  <2>1. ASSUME p.kind = "eq"
        PROVE  /\ p.n \in 0..EQ_COUNT - 1 /\ p = Queue("eq", p.n) /\ EnableStep(p) = 8
               /\ b + 9 < InitEnd
    <3>1. p.n \in 0..EQ_COUNT - 1  BY <1>1, <2>1, FourKinds, Counts
    <3>2. p = Queue("eq", p.n)  BY <1>1, <2>1, QueueFacts
    <3>3. b + 9 < InitEnd  BY <2>1, Bases DEF b
    <3>4. QED  BY <2>1, <3>1, <3>2, <3>3 DEF EnableStep
  <2>2. QED  BY <2>1
<1>9. p.kind = "cq" => /\ p.n \in 0..RXQ_COUNT + TXQ_COUNT - 1 /\ p = Queue("cq", p.n) /\ EnableStep(p) = 8
                       /\ ~IsRunning(RingOf(p.n), n)
                       /\ EqnOf(p.n) \in Nat /\ EqnOf(p.n) < EQ_COUNT
  <2>1. ASSUME p.kind = "cq"
        PROVE  /\ p.n \in 0..RXQ_COUNT + TXQ_COUNT - 1 /\ p = Queue("cq", p.n) /\ EnableStep(p) = 8
               /\ ~IsRunning(RingOf(p.n), n)
               /\ EqnOf(p.n) \in Nat /\ EqnOf(p.n) < EQ_COUNT
    <3>1. p.n \in Nat /\ p.n < RXQ_COUNT + TXQ_COUNT  BY <1>1, <2>1, FourKinds DEF Opened
    <3>2. p.n \in 0..RXQ_COUNT + TXQ_COUNT - 1  BY <3>1, Counts
    <3>3. p = Queue("cq", p.n)  BY <1>1, <2>1, QueueFacts
    <3>4. Base(RingOf(p.n)) = b + 9
      <4>1. Base(RingOf(p.n)) = CqBase(p.n) + 9 /\ Base(Queue("cq", p.n)) = CqBase(p.n)
        BY <3>1, Bases
      <4>2. QED  BY <3>3, <4>1 DEF b
    <3>5. ~IsRunning(RingOf(p.n), n)
      <4>1. EnableStep(RingOf(p.n)) \in {8, 9}  BY DEF EnableStep
      <4>2. ~(n >= Base(RingOf(p.n)) + EnableStep(RingOf(p.n)))  BY <1>1, <3>4, <4>1
      <4>3. QED  BY <4>2 DEF IsRunning
    <3>6. EqnOf(p.n) \in Nat /\ EqnOf(p.n) < EQ_COUNT  BY <3>1, CqFacts
    <3>7. QED  BY <2>1, <3>2, <3>3, <3>5, <3>6 DEF EnableStep
  <2>2. QED  BY <2>1
<1> DEFINE fires == k = 9 /\ p.kind \notin Rings /\ hw[p].work
<1>10. ~fires =>
       /\ hw' \in [DeviceQueues -> QueueRegisters] /\ irqs' = irqs
       /\ \A x \in DeviceQueues : x # p => hw'[x] = hw[x]
       /\ hw'[p].enabled <=> k >= EnableStep(p)
       /\ hw'[p].set = hw[p].set \cup {f \in Fields : k = FieldStep[f]} \/
          (k = 8 /\ p.kind = "rxq" /\ hw'[p].set = hw[p].set \cup {"prod"})
       /\ hw'[p].target = IF k = 5 THEN TargetOf(p) ELSE hw[p].target
       /\ p.kind \notin Rings /\ k \in {6, 7} => ~hw'[p].work
       /\ p.kind \notin Rings /\ k \notin {6, 7} => hw'[p].work = hw[p].work
       /\ p.kind \notin Rings /\ k = 9 => hw'[p].armed
       /\ events' = IF k = 7 /\ p.kind = "eq" THEN [events EXCEPT ![p.n] = {}] ELSE events
  BY <1>7, <1>4, OpeningEffect
<1>11. fires =>
       /\ hw' \in [DeviceQueues -> QueueRegisters] /\ irqs' \in Nat
       /\ \A x \in DeviceQueues : SameConfiguration(x)
       /\ \A x \in DeviceQueues : x # p /\ x.kind # "eq" => hw'[x] = hw[x]
       /\ events' \in [0..DEVICE_EQS - 1 -> SUBSET (0..DEVICE_CQS - 1)]
       /\ \A e \in 0..DEVICE_EQS - 1 : events[e] \subseteq events'[e]
       /\ p.kind = "cq" /\ hw[EqOf(p)].enabled => p.n \in events'[hw[p].target]
       /\ EnableStep(p) = 8
  <2>1. ASSUME fires
        PROVE  /\ p.kind \in {"eq", "cq"} /\ QueueWrite(Arm(p)) /\ hw[p].enabled /\ hw[p].work
               /\ EnableStep(p) = 8
    <3>1. p.kind \in {"eq", "cq"} /\ EnableStep(p) = 8  BY <1>2, <1>8, <1>9, <2>1 DEF Rings
    <3>2. Opening(p, k) = Arm(p)  BY <2>1, <3>1 DEF Opening
    <3>3. hw[p].enabled  BY <1>7, <2>1, <3>1
    <3>4. QED  BY <2>1, <3>1, <3>2, <3>3
  <2> HIDE DEF fires
  <2>2. QED  BY <1>1, <1>4, <2>1, ArmFires
<1>12. /\ hw' \in [DeviceQueues -> QueueRegisters] /\ irqs' \in Nat
       /\ \A x \in DeviceQueues : x # p => SameConfiguration(x)
       /\ hw'[p].enabled <=> k >= EnableStep(p)
       /\ hw'[p].set = {f \in Fields : k >= FieldStep[f]}
       /\ hw'[p].target = IF k = 5 THEN TargetOf(p) ELSE hw[p].target
  <2>1. \A f \in Fields : FieldStep[f] \in 2..7  BY DEF Fields, FieldStep
  <2>2. CASE ~fires
    <3>1. {f \in Fields : k - 1 >= FieldStep[f]} \cup {f \in Fields : k = FieldStep[f]}
            = {f \in Fields : k >= FieldStep[f]}
      BY <2>1
    <3>2. k = 8 => {f \in Fields : k - 1 >= FieldStep[f]} \cup {"prod"} = {f \in Fields : k >= FieldStep[f]}
      BY <2>1 DEF Fields
    <3>3. hw'[p].set = {f \in Fields : k >= FieldStep[f]}  BY <1>7, <1>10, <2>2, <3>1, <3>2
    <3>4. irqs' \in Nat  BY <1>10, <1>4, <2>2 DEF DeviceTypes
    <3> HIDE DEF fires
    <3>5. QED  BY <1>10, <2>2, <3>3, <3>4 DEF SameConfiguration
  <2>3. CASE fires
    <3>1. k = 9  BY <2>3
    <3>2. {f \in Fields : k - 1 >= FieldStep[f]} = {f \in Fields : k >= FieldStep[f]}  BY <2>1, <3>1
    <3>3. /\ hw'[p].enabled = hw[p].enabled /\ hw'[p].set = hw[p].set /\ hw'[p].target = hw[p].target
      BY <1>1, <1>11, <2>3 DEF SameConfiguration
    <3>4. k - 1 >= EnableStep(p) /\ k >= EnableStep(p)  BY <1>11, <2>3, <3>1
    <3>5. QED  BY <1>7, <1>11, <2>3, <3>1, <3>2, <3>3, <3>4
  <2>4. QED  BY <2>2, <2>3
<1>13. RegistersAt(p, applied)'
  <2>1. {f \in Fields : k >= FieldStep[f]} = {f \in Fields : m >= b + FieldStep[f]}
    <3>1. \A f \in Fields : FieldStep[f] \in 1..9  BY DEF Fields, FieldStep
    <3>2. QED  BY <1>6, <3>1
  <2>2. hw'[p].enabled <=> IsRunning(p, m)
    <3>1. EnableStep(p) \in 1..9  BY <1>1
    <3>2. m >= b + EnableStep(p) <=> k >= EnableStep(p)  BY <1>6, <3>1
    <3>3. QED  BY <1>12, <3>2 DEF IsRunning, b
  <2>3. m >= b + 5 => hw'[p].target = TargetOf(p)
    <3>1. m >= b + 5 <=> k >= 5  BY <1>6
    <3>2. k >= 5 => k = 5 \/ k - 1 >= 5  OBVIOUS
    <3>3. QED  BY <1>7, <1>12, <3>1, <3>2
  <2>4. ~(m < DisableNumber(p))  BY <1>1, <1>5
  <2> DEFINE Expected == {f \in Fields : m >= b + FieldStep[f]}
  <2>5. hw'[p].set = Expected  BY <1>12, <2>1
  <2> HIDE DEF Expected
  <2>6. QED  BY <2>2, <2>3, <2>4, <2>5 DEF RegistersAt, Expected, m, b
<1>14. \A q \in Queues : q # p => Elsewhere(q, applied')  BY Elsewheres
<1>15. Registers' /\ Intruders' = Intruders  BY <1>1, <1>12, <1>13, <1>14, OtherRegisters
<1>16. \A q \in DeviceQueues : /\ q.kind \in Rings => hw'[q].target < DEVICE_CQS
                               /\ q.kind = "cq" => hw'[q].target < DEVICE_EQS
  <2>1. p.kind \in Rings => TargetOf(p) < DEVICE_CQS
    <3>1. ASSUME p.kind \in Rings PROVE TargetOf(p) < DEVICE_CQS
      <4>1. CqnOf(p) \in Nat /\ CqnOf(p) < RXQ_COUNT + TXQ_COUNT  BY <1>1, <3>1, RingFacts
      <4>2. TargetOf(p) = CqnOf(p)  BY <3>1 DEF TargetOf, Rings
      <4>3. QED  BY <4>1, <4>2, Counts, DeviceCounts
    <3>2. QED  BY <3>1
  <2>2. p.kind = "cq" => TargetOf(p) < DEVICE_EQS  BY <1>9, Counts, DeviceCounts DEF TargetOf
  <2>3. \A q \in DeviceQueues : q # p => hw'[q].target = hw[q].target  BY <1>12 DEF SameConfiguration
  <2>4. QED  BY <1>12, <1>4, <2>1, <2>2, <2>3 DEF DeviceTypes
<1>17. /\ events \in [0..DEVICE_EQS - 1 -> SUBSET (0..DEVICE_CQS - 1)]
       /\ \A e \in 0..EQ_COUNT - 1 : e \in 0..DEVICE_EQS - 1
  BY <1>4, Counts, DeviceCounts DEF DeviceTypes
<1>18. ~fires => /\ events' \in [0..DEVICE_EQS - 1 -> SUBSET (0..DEVICE_CQS - 1)]
                 /\ \A e \in 0..EQ_COUNT - 1 : p # Queue("eq", e) => events'[e] = events[e]
                 /\ p.kind = "eq" /\ k # 7 => events' = events
                 /\ p.kind = "eq" /\ k = 7 => events'[p.n] = {}
                 /\ p.kind # "eq" => events' = events
  <2> HIDE DEF fires
  <2>1. CASE k = 7 /\ p.kind = "eq"
    <3>1. ~fires => events' = [events EXCEPT ![p.n] = {}]  BY <1>10, <2>1
    <3>2. p = Queue("eq", p.n) /\ p.n \in 0..DEVICE_EQS - 1  BY <1>8, <1>17, <2>1
    <3>3. QED  BY <1>17, <2>1, <3>1, <3>2
  <2>2. CASE ~(k = 7 /\ p.kind = "eq")
    <3>1. ~fires => events' = events  BY <1>10, <2>2
    <3>2. QED  BY <1>17, <2>2, <3>1
  <2>3. QED  BY <2>1, <2>2
<1>19. \A c \in 0..RXQ_COUNT + TXQ_COUNT - 1 :
          /\ Queue("cq", c) \in Queues /\ Queue("cq", c) \in DeviceQueues /\ Queue("cq", c) \in Opened
          /\ Queue("cq", c).kind = "cq" /\ Queue("cq", c).n = c
          /\ EqnOf(c) \in 0..EQ_COUNT - 1 /\ EqnOf(c) \in 0..DEVICE_EQS - 1
          /\ InitEnd <= Base(Queue("cq", c)) /\ Base(Queue("cq", c)) \in Nat /\ InitEnd \in Nat
  <2>1. ASSUME NEW c \in 0..RXQ_COUNT + TXQ_COUNT - 1
        PROVE  /\ Queue("cq", c) \in Queues /\ Queue("cq", c) \in DeviceQueues
               /\ Queue("cq", c) \in Opened
               /\ Queue("cq", c).kind = "cq" /\ Queue("cq", c).n = c
               /\ EqnOf(c) \in 0..EQ_COUNT - 1 /\ EqnOf(c) \in 0..DEVICE_EQS - 1
               /\ InitEnd <= Base(Queue("cq", c)) /\ Base(Queue("cq", c)) \in Nat /\ InitEnd \in Nat
    <3>1. c \in Nat /\ c < RXQ_COUNT + TXQ_COUNT  BY Counts
    <3>2. Queue("cq", c) \in Queues /\ Queue("cq", c) \in Opened  BY <3>1, CqFacts
    <3>3. Queue("cq", c).kind = "cq" /\ Queue("cq", c).n = c  BY QueueFacts
    <3>4. EqnOf(c) \in 0..EQ_COUNT - 1  BY <3>1, CqFacts, Counts
    <3>5. InitEnd <= Base(Queue("cq", c)) /\ Base(Queue("cq", c)) \in Nat /\ InitEnd \in Nat
      BY <3>2, <3>3, Bases, CqBases
    <3>6. QED  BY <1>17, <3>2, <3>3, <3>4, <3>5, DeviceQueueFacts
  <2>2. QED  BY <2>1
<1>20. Announcing'
  <2>1. ASSUME NEW c \in 0..RXQ_COUNT + TXQ_COUNT - 1, m >= Base(Queue("cq", c)) + 9
        PROVE  hw'[Queue("cq", c)].armed \/ c \in events'[EqnOf(c)]
    <3> DEFINE q == Queue("cq", c)
    <3>1. p.kind # "eq"
      <4>1. ASSUME p.kind = "eq" PROVE m < InitEnd  BY <1>1, <1>8, <1>19, <4>1
      <4>2. QED  BY <1>1, <1>19, <2>1, <4>1
    <3>2. events[EqnOf(c)] \subseteq events'[EqnOf(c)]
      <4>1. CASE fires
        BY <1>11, <1>19, <4>1
      <4>2. CASE ~fires
        BY <1>18, <3>1, <4>2
      <4>3. QED  BY <4>1, <4>2
    <3>3. CASE p # q
      <4>1. hw'[q] = hw[q]
        <5>1. q # p /\ q \in DeviceQueues /\ q.kind # "eq"  BY <1>19, <3>3
        <5> HIDE DEF fires
        <5>2. QED  BY <1>10, <1>11, <5>1
      <4>2. Elsewhere(q, applied')  BY <1>14, <1>19, <3>3
      <4>3. n >= Base(q) + 9  BY <1>1, <2>1, <4>1, <4>2, UntouchedCompletions DEF n, m
      <4>4. hw[q].armed \/ c \in events[EqnOf(c)]  BY <4>3 DEF Core, Announcing, n
      <4>5. QED  BY <3>2, <4>1, <4>4
    <3>4. CASE p = q
      <4>1. /\ p.kind = "cq" /\ p.n = c /\ p.kind \notin Rings /\ b = Base(q)
        BY <1>19, <3>4 DEF Rings, b
      <4>2. k = 9 /\ n >= Base(Queue("cq", c)) + 8  BY <1>1, <2>1, <4>1
      <4>3. CASE ~fires
        <5> HIDE DEF fires
        <5>1. QED  BY <1>10, <3>4, <4>1, <4>2, <4>3
      <4>4. CASE fires
        <5>1. hw[q].target = EqnOf(c) /\ hw[Queue("eq", EqnOf(c))].enabled
          BY <4>2, OpenedCq DEF n
        <5>2. hw[EqOf(p)].enabled  BY <3>4, <5>1 DEF EqOf
        <5>3. p.n \in events'[hw[p].target]  BY <1>11, <4>1, <4>4, <5>2
        <5>4. QED  BY <3>4, <4>1, <5>1, <5>3
      <4>5. QED  BY <4>3, <4>4
    <3>5. QED  BY <3>3, <3>4
  <2>2. QED  BY <2>1 DEF Announcing, m
(* If no foreign ring reports there, a completion or event queue has no    *)
(* records before it is armed.                                             *)
<1>21. ASSUME EventQueues, CompletionQueues PROVE k >= 8 /\ p.kind \notin Rings => ~hw[p].work
  <2>1. ASSUME k >= 8, p.kind = "eq" PROVE ~hw[p].work
    <3>1. n >= b + 7 /\ ~(n >= b + 9)  BY <1>1, <2>1
    <3>2. EventQueueAt(p.n, n)  BY <1>8, <1>21, <2>1 DEF EventQueues, n
    <3>3. QED  BY <1>8, <2>1, <3>1, <3>2 DEF EventQueueAt, b
  <2>2. ASSUME k >= 8, p.kind = "cq" PROVE ~hw[p].work
    <3>1. n >= b + 7  BY <1>1, <2>2
    <3>2. CompletionQueueAt(p.n, n)  BY <1>9, <1>21, <2>2 DEF CompletionQueues, n
    <3>3. QED  BY <1>9, <2>2, <3>1, <3>2 DEF CompletionQueueAt, b
  <2>3. QED  BY <1>2, <2>1, <2>2 DEF Rings
<1>22. ASSUME EventQueues, CompletionQueues PROVE EventQueues'
  <2>1. ~fires  BY <1>21, <1>22
  <2>2. k >= 8 /\ p.kind \notin Rings => ~hw[p].work  BY <1>21, <1>22
  <2> HIDE DEF fires
  <2>3. ASSUME NEW e \in 0..EQ_COUNT - 1 PROVE EventQueueAt(e, applied)'
    <3>1. Queue("eq", e) \in Queues /\ Queue("eq", e) \in DeviceQueues /\ EventQueueAt(e, applied)
      BY <1>22, QueueIn, DeviceQueueFacts, Counts DEF EventQueues
    <3>2. CASE Queue("eq", e) # p
      <4>1. hw'[Queue("eq", e)] = hw[Queue("eq", e)] /\ events'[e] = events[e] /\ irqs' = irqs
        BY <1>10, <1>18, <2>1, <3>1, <3>2
      <4>2. Elsewhere(Queue("eq", e), applied')  BY <1>14, <3>1, <3>2
      <4>3. QED  BY <3>1, <4>1, <4>2, UntouchedEvents
    <3>3. CASE Queue("eq", e) = p
      <4>1. p.kind = "eq" /\ p.n = e  BY <3>3, QueueFacts
      <4>2. p.kind \notin Rings  BY <4>1 DEF Rings
      <4>3. CASE k < 7
        <5>1. ~(m >= b + 7)  BY <1>1, <4>3
        <5>2. QED  BY <3>3, <5>1 DEF EventQueueAt, m, b
      <4>4. CASE k >= 7
        <5>1. events'[e] = {}
          <6>1. CASE k = 7
            BY <1>18, <2>1, <4>1, <6>1
          <6>2. CASE k # 7
            <7>1. n >= b + 7 /\ ~hw[p].work  BY <1>1, <2>2, <4>2, <4>4, <6>2
            <7>2. events[e] = {}  BY <3>1, <3>3, <7>1 DEF EventQueueAt, n, b
            <7>3. QED  BY <1>18, <2>1, <4>1, <6>2, <7>2
          <6>3. QED  BY <6>1, <6>2
        <5>2. ~hw'[p].work
          <6>1. CASE k = 7
            BY <1>10, <2>1, <4>2, <6>1
          <6>2. CASE k # 7
            <7>1. k >= 8 /\ k \notin {6, 7}  BY <4>4, <6>2
            <7>2. QED  BY <1>10, <2>1, <2>2, <4>2, <7>1
          <6>3. QED  BY <6>1, <6>2
        <5>3. m >= b + 9 => hw'[p].armed
          <6>1. m >= b + 9 => k = 9  BY <1>1
          <6>2. QED  BY <1>10, <2>1, <4>2, <6>1
        <5>4. QED  BY <3>3, <5>1, <5>2, <5>3 DEF EventQueueAt, m, b
      <4>5. QED  BY <4>3, <4>4
    <3>4. QED  BY <3>2, <3>3
  <2>4. QED  BY <2>3 DEF EventQueues
<1>23. ASSUME EventQueues, CompletionQueues PROVE CompletionQueues'
  <2>1. ~fires  BY <1>21, <1>23
  <2>2. k >= 8 /\ p.kind \notin Rings => ~hw[p].work  BY <1>21, <1>23
  <2> HIDE DEF fires
  <2>3. ASSUME NEW c \in 0..RXQ_COUNT + TXQ_COUNT - 1 PROVE CompletionQueueAt(c, applied)'
    <3> DEFINE q == Queue("cq", c)
    <3>1. CompletionQueueAt(c, applied)  BY <1>23 DEF CompletionQueues
    <3>2. CASE p # q
      <4>1. hw'[q] = hw[q]  BY <1>10, <1>19, <2>1, <3>2
      <4>2. Elsewhere(q, applied')  BY <1>14, <1>19, <3>2
      <4>3. QED  BY <3>1, <4>1, <4>2, UntouchedCompletions
    <3>3. CASE p = q
      <4>1. p.kind = "cq" /\ p.n = c /\ p.kind \notin Rings /\ b = Base(q)
        BY <1>19, <3>3 DEF Rings, b
      <4>2. m >= b + 7 => ~hw'[p].work
        <5>1. m >= b + 7 => k >= 7  BY <1>1
        <5>2. k >= 7 => k = 7 \/ (k >= 8 /\ k \notin {6, 7})  OBVIOUS
        <5>3. QED  BY <1>10, <2>1, <2>2, <4>1, <5>1, <5>2
      <4>3. QED  BY <3>3, <4>1, <4>2 DEF CompletionQueueAt, m
    <3>4. QED  BY <3>2, <3>3
  <2>4. QED  BY <2>3 DEF CompletionQueues
<1>24. Paths'  BY <1>15, <1>22, <1>23 DEF Core, Paths
<1>25. events' \in [0..DEVICE_EQS - 1 -> SUBSET (0..DEVICE_CQS - 1)]
  <2> HIDE DEF fires
  <2>1. QED  BY <1>11, <1>18
<1>26. QED  BY <1>12, <1>15, <1>16, <1>20, <1>24, <1>25 DEF Device

LEMMA EarlyApplyStep == ASSUME Core, Apply, stage \notin Late PROVE Core'
<1> DEFINE w == Head(mmio)
<1>1. /\ DriverTypes' /\ Objects' /\ Pending' /\ listed' = listed /\ stage' = stage /\ lost' = lost
      /\ HandlerTypes' /\ Handler' /\ UNCHANGED handlerVars
      /\ rx_ctrl' = IF w.op = "rx_ctrl" THEN OnOff(w.val) ELSE rx_ctrl
      /\ tx_ctrl' = IF w.op = "tx_ctrl" THEN OnOff(w.val) ELSE tx_ctrl
      /\ UNCHANGED <<port_up, eqs, rings, opening>> /\ ringsOpened' = ringsOpened
      /\ applied \in Nat /\ applied' = applied + 1 /\ Program(applied + 1, w)
  BY ApplyDriver
<1>2. DeviceTypes /\ Stages /\ NothingLost  BY DEF Core
<1>3. w.op = "rx_ctrl" => w = RxCtrl(0)
  <2>1. CASE \E q \in Queues : applied + 1 = DisableNumber(q) /\ w = Enable(q, 0)
    BY <2>1 DEF Enable, Access
  <2>2. CASE w = TxCtrl(0) \/ w = RxCtrl(0) \/ w = Read
    BY <2>2 DEF TxCtrl, Read, Access
  <2>3. CASE \E q \in Opened : \E k \in 1..Length(q) : applied + 1 = Base(q) + k /\ w = Opening(q, k)
    <3>1. PICK q \in Opened : \E k \in 1..Length(q) : applied + 1 = Base(q) + k /\ w = Opening(q, k)
      BY <2>3
    <3>2. w.op \in Ops  BY <3>1, OpeningIn
    <3>3. QED  BY <3>2 DEF Ops, Fields
  <2>4. QED  BY <1>1, <2>1, <2>2, <2>3, ProgramCases
<1>4. Device'
  <2>1. CASE \E q \in Queues : applied + 1 = DisableNumber(q) /\ w = Enable(q, 0)
    <3>1. PICK q \in Queues : applied + 1 = DisableNumber(q) /\ w = Enable(q, 0)  BY <2>1
    <3>2. w.op \in Ops  BY <3>1 DEF Enable, Access, Ops
    <3>3. QueueWrite(Enable(q, 0))  BY <3>1, <3>2, QueueAccess
    <3>4. QED  BY <1>1, <3>1, <3>3, DisableStep
  <2>2. CASE \/ applied + 1 = Disables + 1 /\ w = TxCtrl(0)
             \/ applied + 1 = Disables + 2 /\ w = RxCtrl(0)
             \/ applied + 1 \in {InitEnd, OpenEnd} /\ w = Read
    <3>1. w.op \in {"read", "tx_ctrl", "rx_ctrl"}  BY <2>2 DEF TxCtrl, RxCtrl, Read, Access
    <3>2. hw' = hw /\ events' = events /\ irqs' = irqs  BY <3>1, OtherAccess
    <3>3. applied' \in {Disables + 1, Disables + 2, InitEnd, OpenEnd}  BY <1>1, <2>2
    <3>4. QED  BY <1>1, <3>2, <3>3, NoQueueStep
  <2>3. CASE \E q \in Opened : \E k \in 1..Length(q) : applied + 1 = Base(q) + k /\ w = Opening(q, k)
    <3>1. PICK q \in Opened : \E k \in 1..Length(q) : applied + 1 = Base(q) + k /\ w = Opening(q, k)
      BY <2>3
    <3>2. PICK k \in 1..Length(q) : applied + 1 = Base(q) + k /\ w = Opening(q, k)  BY <3>1
    <3>3. w.op \in Ops  BY <3>2, OpeningIn
    <3>4. QueueWrite(Opening(q, k))  BY <3>2, <3>3, QueueAccess
    <3>5. QED  BY <1>1, <3>2, <3>4, OpeningStep
  <2>4. QED  BY <1>1, <2>1, <2>2, <2>3, ProgramCases
<1> HIDE DEF w
<1>5. rx_ctrl' = IF w.op = "rx_ctrl" THEN "off" ELSE rx_ctrl  BY <1>1, <1>3 DEF OnOff, RxCtrl, Access
<1>6. rx_ctrl' \in {"old", "on", "off"} /\ tx_ctrl' \in {"old", "on", "off"}
  BY <1>1, <1>2, <1>5 DEF DeviceTypes, OnOff
<1>7. Stages'  BY <1>1, <1>2, <1>5 DEF Stages, listed
<1>8. NothingLost' /\ lost' \subseteq DeviceQueues  BY <1>1, <1>2 DEF NothingLost
<1>9. DeviceTypes'  BY <1>4, <1>6, <1>8 DEF DeviceTypes, Device
<1>10. QED  BY <1>1, <1>4, <1>7, <1>8, <1>9 DEF Core, Device

LEMMA ApplyStep == ASSUME Core, Apply PROVE Core'
  BY LateApplyStep, EarlyApplyStep

(***************************************************************************)
(* The whole                                                               *)
(***************************************************************************)
LEMMA NextCore == ASSUME Core, [Next]_vars PROVE Core'
<1>1. CASE UNCHANGED vars
  <2>1. /\ UNCHANGED <<stage, todo, reading, port_up, free_list, eqs, rings, opening, cqs, mmio>>
        /\ rx_ctrl' = rx_ctrl /\ UNCHANGED <<deviceVars, irqs, handlerVars>>
    BY <1>1 DEF vars, driverVars, deviceVars
  <2>2. DriverTypes' /\ Objects' /\ Stages' /\ Pending' /\ applied' = applied /\ listed' = listed
    BY <2>1, SameDriver
  <2>3. /\ HandlerTypes' /\ Handler' /\ DeviceTypes' /\ Registers' /\ Announcing'
        /\ NothingLost' /\ Paths'
    BY <2>1, <2>2, SameDevice
  <2>4. QED  BY <2>2, <2>3 DEF Core
<1>2. CASE Post  BY <1>2, PostStep
<1>3. CASE InitPort \/ OpenEq \/ InitFlush \/ InitDone
  BY <1>3, InitPortStep, OpenEqStep, InitFlushStep, InitDoneStep
<1>4. CASE \E kind \in Rings : OpenCq(kind) \/ OpenRing(kind) \/ AppendRing(kind)
  BY <1>4, OpenCqStep, OpenRingStep, AppendRingStep
<1>5. CASE RxOpened \/ OpenFlush  BY <1>5, RxOpenedStep, OpenFlushStep
<1>6. CASE SwitchOn \/ OpenDone \/ Close \/ CloseFlush \/ CloseRaises  BY <1>6, LateSteps
<1>7. CASE StartXmit  BY <1>7, StartXmitStep
<1>8. CASE IgnoreInterrupt \/ TakeInterrupt \/ ProcessEq \/ ArmEq
  BY <1>8, IgnoreInterruptStep, TakeInterruptStep, ProcessEqStep, ArmEqStep
<1>9. CASE Apply  BY <1>9, ApplyStep
<1>10. CASE \E e \in 0..EQ_COUNT - 1 : ApplyArm(e)  BY <1>10, ApplyArmStep
<1>11. CASE \E r \in DeviceQueues : r.kind \in Rings /\ Complete(r)  BY <1>11, CompleteStep
<1>12. QED
  BY <1>1, <1>2, <1>3, <1>4, <1>5, <1>6, <1>7, <1>8, <1>9, <1>10, <1>11 DEF Next

LEMMA InitCore == ASSUME Init PROVE Core
<1>1. /\ stage = "disable" /\ todo = AllDisabled /\ reading = FALSE /\ port_up = FALSE
      /\ free_list = [kind \in Kinds |-> [i \in 1..Count[kind] |-> i - 1]]
      /\ eqs = <<>> /\ rings = [kind \in Rings |-> <<>>]
      /\ opening = [index |-> None, cqn |-> None]
      /\ cqs = [c \in 0..CQ_COUNT - 1 |-> [eq |-> None, handler |-> "none"]]
      /\ handling = 0 /\ arming = FALSE
      /\ mmio = <<>> /\ arms = [e \in 0..EQ_COUNT - 1 |-> 0]
  BY DEF Init, DriverInit
<1>2. /\ hw \in [DeviceQueues -> UNION {LeftRegisters(kind) : kind \in Kinds}]
      /\ \A q \in DeviceQueues : hw[q] \in LeftRegisters(q.kind)
      /\ tx_ctrl = "old" /\ rx_ctrl = "old"
      /\ events \in [0..DEVICE_EQS - 1 -> SUBSET (0..DEVICE_CQS - 1)]
      /\ irqs \in Nat
      /\ lost = {}
  BY DEF Init, Leftover
<1>3. /\ Len(eqs) = 0 /\ Len(mmio) = 0 /\ rings.rxq = <<>> /\ rings.txq = <<>>
      /\ Len(rings.rxq) = 0 /\ Len(rings.txq) = 0 /\ ringsOpened = 0
  <2>1. rings.rxq = <<>> /\ rings.txq = <<>>  BY <1>1 DEF Rings
  <2>2. \A s : s = <<>> => Len(s) = 0  OBVIOUS
  <2>3. /\ Len(eqs) = 0 /\ Len(mmio) = 0
        /\ Len(rings.rxq) = 0 /\ Len(rings.txq) = 0
    BY <1>1, <2>1, <2>2
  <2>4. ringsOpened = 0  BY <2>3 DEF ringsOpened
  <2>5. QED  BY <2>1, <2>3, <2>4
<1>4. /\ AllDisabled \in Seq(Accesses) /\ Len(AllDisabled) = Disables /\ Disables \in Nat
      /\ \A i \in 1..Disables : Program(i, AllDisabled[i])
  <2>1. [op : {"enable"}, q : Queues, val : {0}] \subseteq Accesses  BY DEF Accesses
  <2> DEFINE A == [op : {"enable"}, q : Queues, val : {0}]
  <2>2. AllDisabled \in Seq(A) /\ A \subseteq Accesses  BY <2>1, AllDisabledAre
  <2> HIDE DEF A
  <2>3. AllDisabled \in Seq(Accesses)  BY <2>2
  <2>4. QED  BY <2>3, AllDisabledAre, DisableNumbers DEF Program
<1>5. applied = 0
  <2>1. called = Disables  BY <1>1 DEF called, Rings
  <2>2. applied = called - (Len(mmio) + Len(todo))  BY <1>1 DEF applied, Late
  <2>3. QED  BY <1>1, <1>3, <1>4, <2>1, <2>2
<1>6. \A kind \in Kinds : /\ Count[kind] \in Nat /\ Len(free_list[kind]) = Count[kind]
                          /\ free_list[kind] \in Seq(Nat) /\ free_list[kind] \in Seq(0..Count[kind] - 1)
                          /\ \A i \in 1..Count[kind] : free_list[kind][i] = i - 1
  <2>1. ASSUME NEW kind \in Kinds
        PROVE  /\ Count[kind] \in Nat /\ Len(free_list[kind]) = Count[kind]
               /\ free_list[kind] \in Seq(Nat) /\ free_list[kind] \in Seq(0..Count[kind] - 1)
               /\ \A i \in 1..Count[kind] : free_list[kind][i] = i - 1
    <3> DEFINE m == Count[kind]
               s == [i \in 1..m |-> i - 1]
    <3>1. m \in Nat /\ free_list[kind] = s  BY <1>1, Counts DEF Kinds
    <3> HIDE DEF m
    <3>2. \A i \in 1..m : i - 1 \in Nat /\ i - 1 \in 0..m - 1  BY <3>1
    <3>3. s \in Seq(Nat) /\ s \in Seq(0..m - 1) /\ Len(s) = m  BY <3>1, <3>2, IsASeq
    <3>4. \A i \in 1..m : s[i] = i - 1  OBVIOUS
    <3> HIDE DEF s
    <3>5. QED  BY <3>1, <3>3, <3>4 DEF m
  <2>2. QED  BY <2>1
<1>7. DriverTypes
  <2>1. free_list \in [Kinds -> Seq(Nat)]
    <3>1. free_list = [kind \in Kinds |-> free_list[kind]]  BY <1>1
    <3>2. QED  BY <1>6, <3>1
  <2>2. eqs \in Seq(0..EQ_COUNT - 1) /\ mmio \in Seq(Accesses)  BY <1>1
  <2>3. rings \in [Rings -> Seq([index : Nat, cqn : Nat])]
        /\ \A kind \in Rings : rings[kind] \in Seq([index : 0..Count[kind] - 1, cqn : 0..CQ_COUNT - 1])
    BY <1>1
  <2>4. opening \in [index : Nat \cup {None}, cqn : Nat \cup {None}]  BY <1>1
  <2>5. cqs \in [0..CQ_COUNT - 1 -> [eq : 0..EQ_COUNT - 1 \cup {None}, handler : Rings \cup {"none"}]]
    BY <1>1
  <2>6. stage \in StageNames /\ reading \in BOOLEAN /\ port_up \in BOOLEAN  BY <1>1 DEF StageNames
  <2>7. QED  BY <1>1, <1>4, <1>6, <2>1, <2>2, <2>3, <2>4, <2>5, <2>6 DEF DriverTypes, StageNames
<1>8. /\ hw \in [DeviceQueues -> QueueRegisters]
      /\ \A q \in DeviceQueues : /\ hw[q].set = {}
                                 /\ q.kind \in Rings => hw[q].target < DEVICE_CQS
                                 /\ q.kind = "cq" => hw[q].target < DEVICE_EQS
  <2>1. ASSUME NEW q \in DeviceQueues
        PROVE  /\ hw[q] \in QueueRegisters /\ hw[q].set = {}
               /\ q.kind \in Rings => hw[q].target < DEVICE_CQS
               /\ q.kind = "cq" => hw[q].target < DEVICE_EQS
    <3>1. hw[q] \in LeftRegisters(q.kind)  BY <1>2
    <3>2. /\ hw[q] \in [enabled : BOOLEAN, armed : BOOLEAN, work : BOOLEAN, set : {{}},
                        target : TargetsOf(q.kind)]
          /\ hw[q].target \in TargetsOf(q.kind) /\ hw[q].set = {}
      BY <3>1 DEF LeftRegisters
    <3>3. TargetsOf(q.kind) \subseteq Nat  BY DeviceCounts DEF TargetsOf, IRQ
    <3>4. hw[q] \in QueueRegisters  BY <3>2, <3>3 DEF QueueRegisters
    <3>5. q.kind \in Rings => hw[q].target < DEVICE_CQS
      BY <3>2, DeviceCounts DEF TargetsOf, Rings
    <3>6. q.kind = "cq" => hw[q].target < DEVICE_EQS
      BY <3>2, DeviceCounts DEF TargetsOf
    <3>7. QED  BY <3>2, <3>4, <3>5, <3>6
  <2>2. hw = [q \in DeviceQueues |-> hw[q]]  BY <1>2
  <2>3. QED  BY <2>1, <2>2
<1>9. DeviceTypes  BY <1>2, <1>8 DEF DeviceTypes
<1>10. /\ taken["eq"] = 0 /\ taken["cq"] = 0 /\ taken["txq"] = 0 /\ taken["rxq"] = 0
  BY <1>1, <1>3 DEF taken
<1>11. Objects
  <2>1. FreeLists
    <3>1. ASSUME NEW kind \in Kinds
          PROVE  /\ Len(free_list[kind]) = Count[kind] - taken[kind]
                 /\ \A i \in 1..Len(free_list[kind]) : free_list[kind][i] = taken[kind] + i - 1
      <4>1. taken[kind] = 0  BY <1>10 DEF Kinds
      <4> DEFINE t == taken[kind]
      <4>2. t = 0  BY <4>1
      <4> HIDE DEF t
      <4>3. Len(free_list[kind]) = Count[kind] - t  BY <1>6, <4>2
      <4>4. \A i \in 1..Len(free_list[kind]) : free_list[kind][i] = t + i - 1  BY <1>6, <4>2
      <4>5. QED  BY <4>3, <4>4 DEF t
    <3>2. QED  BY <3>1 DEF FreeLists
  <2>2. CqObjects  BY <1>10 DEF CqObjects
  <2>3. \A kind \in Rings : Len(rings[kind]) = 0  BY <1>3 DEF Rings
  <2>4. QED  BY <1>3, <2>1, <2>2, <2>3 DEF Objects
<1>12. Stages
  BY <1>1, <1>2, <1>3, Counts DEF Stages, listed, Rings
<1>13. Pending
  <2>1. \A i \in 1..Len(todo) : Program(applied + Len(mmio) + i, todo[i])
    <3>1. ASSUME NEW i \in 1..Disables PROVE Program(applied + Len(mmio) + i, todo[i])
      <4>1. applied + Len(mmio) + i = i  BY <1>3, <1>4, <1>5
      <4>2. QED  BY <1>1, <1>4, <4>1
    <3>2. QED  BY <1>1, <1>4, <3>1
  <2>2. \A i \in 1..Len(mmio) : Program(applied + i, mmio[i])  BY <1>3
  <2>3. stage \notin Late /\ ~listed /\ ~reading /\ stage \notin {"init_flush", "open_flush"}
    BY <1>1 DEF Late, listed
  <2>4. QED  BY <2>1, <2>2, <2>3 DEF Pending
<1>14. \A q \in Opened : \A j \in Nat : ~(0 >= Base(q) + j)
  <2>1. 0 \in Nat /\ 0 <= Disables  BY <1>4
  <2>2. QED  BY <2>1, NothingOpened
<1>15. Registers
  <2>1. ASSUME NEW q \in Queues PROVE RegistersAt(q, 0)
    <3>1. ~(0 >= DisableNumber(q))  BY DisableNumbers
    <3>2. QED  BY <1>8, <1>14, <3>1, DeviceQueueFacts DEF RegistersAt
  <2>2. QED  BY <1>5, <1>8, <2>1 DEF Registers
<1>16. Announcing /\ EventQueues /\ CompletionQueues
  <2>1. 0 <= Disables  BY <1>4
  <2>2. QED  BY <1>5, <2>1, NoPaths
             DEF Announcing, EventQueues, EventQueueAt, CompletionQueues, CompletionQueueAt
<1>17. Paths  BY <1>16 DEF Paths
<1>18. NothingLost  BY <1>2 DEF NothingLost
<1>19. HandlerTypes /\ Handler
  <2>1. handling \in 0..EQ_COUNT \cup {Serving} /\ arming \in BOOLEAN
    <3>1. 0 \in 0..EQ_COUNT  BY Counts
    <3>2. handling \in 0..EQ_COUNT  BY <1>1, <3>1
    <3>3. arming \in BOOLEAN  BY <1>1
    <3>4. QED  BY <3>2, <3>3
  <2>2. \A e \in 0..EQ_COUNT - 1 : arms[e] = 0  BY <1>1
  <2>3. arms \in [0..EQ_COUNT - 1 -> Nat]  BY <1>1
  <2>4. HandlerTypes  BY <2>1, <2>3 DEF HandlerTypes
  <2>5. Handler  BY <1>1, <2>2 DEF Handler
  <2>6. QED  BY <2>4, <2>5
<1>20. QED
  BY <1>7, <1>9, <1>11, <1>12, <1>13, <1>15, <1>16, <1>17, <1>18, <1>19 DEF Core

(* The invariant of the proof, for every state the program reaches. *)
THEOREM CoreInvariant == Spec => []Core
<1>1. Init => Core  BY InitCore
<1>2. Core /\ [Next]_vars => Core'  BY NextCore
<1>3. QED  BY <1>1, <1>2, PTL DEF Spec

(* Numbers given out in order are given out once. *)
LEMMA GivenOnce ==
    ASSUME NEW s \in Seq(Nat), NEW u \in Seq(Nat), NEW t \in Nat, Len(u) <= t,
           \A i \in 1..Len(s) : s[i] = t + i - 1,
           \A i \in 1..Len(u) : u[i] = i - 1
    PROVE  IsInjective(s \o u)
<1> DEFINE v == Joined(s, u)
<1>1. v \in Seq(Nat) /\ IsJoined(v, s, u)  BY Concatenated
<1> HIDE DEF v
<1>2. /\ Len(v) = Len(s) + Len(u) /\ Len(s) \in Nat /\ Len(u) \in Nat
      /\ \A k \in 1..Len(s) : v[k] = s[k]
      /\ \A k \in 1..Len(u) : \A j \in Nat : j = Len(s) + k => v[j] = u[k]
  BY <1>1 DEF IsJoined
<1>3. ASSUME NEW k \in 1..Len(v)
      PROVE  \/ k <= Len(s) /\ v[k] = t + k - 1
             \/ Len(s) < k /\ v[k] = k - Len(s) - 1 /\ k - Len(s) <= t
  <2>1. CASE k <= Len(s)
    <3>1. k \in 1..Len(s)  BY <1>2, <2>1
    <3>2. QED  BY <1>2, <2>1, <3>1
  <2>2. CASE k > Len(s)
    <3> DEFINE j == k - Len(s)
    <3>1. j \in 1..Len(u) /\ k \in Nat /\ k = Len(s) + j  BY <1>2, <2>2
    <3> HIDE DEF j
    <3>2. v[k] = u[j]  BY <1>2, <3>1
    <3>3. v[k] = j - 1  BY <3>1, <3>2
    <3>4. k - Len(s) = j /\ j <= t  BY <1>2, <3>1
    <3>5. QED  BY <2>2, <3>3, <3>4
  <2>3. QED  BY <1>2, <2>1, <2>2
<1>4. ASSUME NEW i \in 1..Len(v), NEW j \in 1..Len(v), i # j PROVE v[i] # v[j]
  <2> DEFINE l == Len(s)
             x == v[i]
             y == v[j]
  <2>1. i \in Nat /\ j \in Nat /\ i >= 1 /\ j >= 1 /\ l \in Nat  BY <1>2
  <2>2. /\ (i <= l /\ x = t + i - 1) \/ (l < i /\ x = i - l - 1 /\ i - l <= t)
        /\ (j <= l /\ y = t + j - 1) \/ (l < j /\ y = j - l - 1 /\ j - l <= t)
    BY <1>3
  <2> HIDE DEF l, x, y
  <2>3. x # y  BY <1>4, <2>1, <2>2
  <2>4. QED  BY <2>3 DEF x, y
<1>5. IsInjective(v)  BY <1>4 DEF IsInjective
<1>6. QED  BY <1>5 DEF v, Joined

LEMMA NothingTwice ==
    ASSUME Core, NEW kind \in Kinds
    PROVE  IsInjective(free_list[kind] \o InUse(kind))
<1>1. DriverTypes /\ Stages /\ Objects /\ FreeLists  BY DEF Core, Objects
<1> DEFINE s == free_list[kind]
           u == InUse(kind)
           t == taken[kind]
<1>2. s \in Seq(Nat) /\ t \in Nat /\ \A i \in 1..Len(s) : s[i] = t + i - 1
  BY <1>1, TakenFacts DEF DriverTypes, FreeLists, Kinds
<1>3. SUFFICES u \in Seq(Nat) /\ Len(u) <= t /\ \A i \in 1..Len(u) : u[i] = i - 1
  <2> HIDE DEF s, u, t
  <2>1. ASSUME u \in Seq(Nat), Len(u) <= t, \A i \in 1..Len(u) : u[i] = i - 1
        PROVE  IsInjective(s \o u)
    BY <1>2, <2>1, GivenOnce
  <2>2. QED  BY <1>3, <2>1 DEF s, u
<1>4. ASSUME NEW k \in Rings
      PROVE  /\ rings[k] \in Seq([index : Nat, cqn : Nat]) /\ Len(rings[k]) \in Nat
             /\ \A i \in 1..Len(rings[k]) : /\ rings[k][i].index = i - 1
                                           /\ rings[k][i].cqn = CqnOf(Queue(k, i - 1))
  <2>1. rings[k] \in Seq([index : Nat, cqn : Nat])  BY <1>1 DEF DriverTypes
  <2>2. Len(rings[k]) \in Nat  BY <2>1, LenProperties
  <2>3. ASSUME NEW i \in 1..Len(rings[k])
        PROVE  rings[k][i].index = i - 1 /\ rings[k][i].cqn = CqnOf(Queue(k, i - 1))
    <3>1. rings[k][i] = [index |-> i - 1, cqn |-> CqnOf(Queue(k, i - 1))]  BY <1>1 DEF Objects
    <3>2. QED  BY <3>1
  <2>4. QED  BY <2>1, <2>2, <2>3
<1>5. CASE kind = "eq"
  <2>1. u = eqs /\ t = Len(eqs)  BY <1>1, <1>5, TakenFacts DEF InUse
  <2>2. eqs \in Seq(Nat) /\ Len(eqs) \in Nat
    <3>1. eqs \in Seq(0..EQ_COUNT - 1)  BY <1>1 DEF DriverTypes
    <3>2. Len(eqs) \in Nat /\ eqs = [i \in 1..Len(eqs) |-> eqs[i]]  BY <3>1, LenProperties
    <3>3. \A i \in 1..Len(eqs) : eqs[i] = i - 1 /\ i - 1 \in Nat  BY <1>1, <3>2 DEF Objects
    <3>4. \A i \in 1..Len(eqs) : eqs[i] \in Nat  BY <3>3
    <3>5. QED  BY <3>2, <3>4, IsASeq
  <2>3. QED  BY <1>1, <2>1, <2>2 DEF Objects
<1>6. CASE kind \in Rings
  <2> DEFINE l == Len(rings[kind])
  <2>1. u = [i \in 1..l |-> rings[kind][i].index]  BY <1>6 DEF InUse, Rings
  <2>2. l \in Nat /\ \A i \in 1..l : rings[kind][i].index = i - 1  BY <1>4, <1>6
  <2>3. \E c : t = l + (IF c THEN 1 ELSE 0)
    <3>1. CASE kind = "txq"
      BY <1>1, <3>1, TakenFacts
    <3>2. CASE kind = "rxq"
      BY <1>1, <3>2, TakenFacts
    <3>3. QED  BY <1>6, <3>1, <3>2 DEF Rings
  <2> HIDE DEF l, u, t
  <2>4. l <= t  BY <2>2, <2>3
  <2>5. u \in Seq(Nat) /\ Len(u) = l /\ \A i \in 1..l : u[i] = i - 1
    <3>1. \A i \in 1..l : u[i] = i - 1 /\ i - 1 \in Nat  BY <2>1, <2>2
    <3>2. u = [i \in 1..l |-> u[i]] /\ \A i \in 1..l : u[i] \in Nat  BY <2>1, <3>1
    <3>3. QED  BY <2>2, <3>1, <3>2, IsASeq
  <2>6. QED  BY <2>4, <2>5
<1>7. CASE kind = "cq"
  <2> DEFINE a == Len(rings["rxq"])
             b == Len(rings["txq"])
             x == [i \in 1..a |-> rings["rxq"][i].cqn]
             y == [i \in 1..b |-> rings["txq"][i].cqn]
  <2>1. u = Joined(x, y)  BY <1>7 DEF InUse, Joined
  <2>2. /\ a \in Nat /\ b \in Nat /\ a + b <= t
        /\ \A i \in 1..a : rings["rxq"][i].cqn = CqnOf(Queue("rxq", i - 1))
        /\ \A i \in 1..b : rings["txq"][i].cqn = CqnOf(Queue("txq", i - 1))
    <3>1. "rxq" \in Rings /\ "txq" \in Rings  BY DEF Rings
    <3>2. ringsOpened = a + b /\ ringsOpened \in Nat  BY <1>1, Lengths
    <3>3. t = ringsOpened + (IF opening.cqn = None THEN 0 ELSE 1)  BY <1>1, <1>7, TakenFacts
    <3>4. a \in Nat /\ b \in Nat  BY <1>4, <3>1
    <3>5. \A i \in 1..a : rings["rxq"][i].cqn = CqnOf(Queue("rxq", i - 1))  BY <1>4, <3>1
    <3>6. \A i \in 1..b : rings["txq"][i].cqn = CqnOf(Queue("txq", i - 1))  BY <1>4, <3>1
    <3> HIDE DEF a, b, t
    <3>7. a + b <= t  BY <3>2, <3>3, <3>4
    <3>8. QED  BY <3>4, <3>5, <3>6, <3>7
  <2>3. b = 0 \/ a = RXQ_COUNT
    <3>1. /\ ~listed \/ stage = "rxq" => b = 0
          /\ listed /\ stage # "rxq" => a = RXQ_COUNT
      <4>1. \A z : z = <<>> => Len(z) = 0  OBVIOUS
      <4>2. QED  BY <1>1, <4>1 DEF Stages
    <3>2. QED  BY <3>1
  <2>4. \A n : CqnOf(Queue("rxq", n)) = n /\ CqnOf(Queue("txq", n)) = RXQ_COUNT + n
    BY QueueFacts DEF CqnOf
  <2> HIDE DEF a, b, u
  <2>5. x \in Seq(Nat) /\ Len(x) = a /\ \A i \in 1..a : x[i] = i - 1
    <3>1. \A i \in 1..a : rings["rxq"][i].cqn = i - 1 /\ i - 1 \in Nat  BY <2>2, <2>4
    <3>2. \A i \in 1..a : x[i] = i - 1 /\ x[i] \in Nat  BY <3>1
    <3>3. x \in Seq(Nat) /\ Len(x) = a  BY <2>2, <3>1, IsASeq
    <3>4. QED  BY <3>2, <3>3
  <2>6. y \in Seq(Nat) /\ Len(y) = b /\ \A i \in 1..b : y[i] = RXQ_COUNT + (i - 1)
    <3>1. \A i \in 1..b : rings["txq"][i].cqn = RXQ_COUNT + (i - 1) /\ RXQ_COUNT + (i - 1) \in Nat
      BY <2>2, <2>4, Counts
    <3>2. \A i \in 1..b : y[i] = RXQ_COUNT + (i - 1) /\ y[i] \in Nat  BY <3>1
    <3>3. y = [i \in 1..b |-> y[i]]  OBVIOUS
    <3>4. y \in Seq(Nat) /\ Len(y) = b
      <4> HIDE DEF y
      <4>1. QED  BY <2>2, <3>2, <3>3, IsASeq
    <3>5. QED  BY <3>2, <3>4
  <2> HIDE DEF x, y
  <2>7. u \in Seq(Nat) /\ IsJoined(u, x, y)  BY <2>1, <2>5, <2>6, Concatenated
  <2>8. Len(u) = a + b  BY <2>5, <2>6, <2>7 DEF IsJoined
  <2>9. ASSUME NEW k \in 1..a + b PROVE u[k] = k - 1
    <3>1. CASE k <= a
      <4>1. k \in 1..a  BY <2>2, <3>1
      <4>2. QED  BY <2>5, <2>7, <4>1 DEF IsJoined
    <3>2. CASE k > a
      <4> DEFINE j == k - a
      <4>1. j \in 1..b /\ k \in Nat /\ k = a + j /\ a = RXQ_COUNT  BY <2>2, <2>3, <3>2
      <4> HIDE DEF j
      <4>2. u[k] = y[j]  BY <2>5, <2>6, <2>7, <4>1 DEF IsJoined
      <4>3. y[j] = RXQ_COUNT + (j - 1)  BY <2>6, <4>1
      <4>4. QED  BY <2>2, <4>1, <4>2, <4>3
    <3>3. QED  BY <2>2, <3>1, <3>2
  <2>10. QED  BY <2>2, <2>7, <2>8, <2>9
<1>8. QED  BY <1>5, <1>6, <1>7 DEF Kinds, Rings

LEMMA CoreIsEnough == ASSUME Core PROVE IInv
  BY NothingTwice DEF Core, IInv, TypeOK, Paths

(***************************************************************************)
(* What the invariant says of the queues                                   *)
(***************************************************************************)
LEMMA RunningQueue ==
    ASSUME Core, NEW q \in Queues
    PROVE  /\ Ours(q) <=> IsRunning(q, applied)
           /\ IsRunning(q, applied) => Disables < applied /\ hw[q].target = TargetOf(q)
           /\ hw[q].enabled => Ours(q) \/ (hw[q].set = {} /\ applied < Disables)
<1>1. RegistersAt(q, applied) /\ applied \in Nat  BY AppliedFacts DEF Core, Registers
<1>2. DisableNumber(q) \in 1..Disables /\ Disables \in Nat  BY DisableNumbers
<1>3. ASSUME IsRunning(q, applied)
      PROVE  Ours(q) /\ Disables < applied /\ hw[q].target = TargetOf(q)
  <2>1. /\ q \in Opened /\ Base(q) \in Nat /\ Disables + 2 <= Base(q) /\ EnableStep(q) \in {8, 9}
        /\ applied >= Base(q) + EnableStep(q)
    BY <1>3, Bases DEF IsRunning, EnableStep
  <2>2. \A j \in 0..8 : applied >= Base(q) + j  BY <1>1, <2>1
  <2>3. \A f \in Fields : FieldStep[f] \in 0..8  BY DEF Fields, FieldStep
  <2>4. Disables < applied /\ applied >= DisableNumber(q)  BY <1>1, <1>2, <2>1
  <2>5. hw[q].set = {f \in Fields : applied >= Base(q) + FieldStep[f]} /\ hw[q].enabled
    BY <1>1, <1>3, <2>1, <2>4 DEF RegistersAt
  <2>6. hw[q].set = Fields  BY <2>2, <2>3, <2>5
  <2>7. applied >= Base(q) + 5  BY <2>2
  <2>8. hw[q].target = TargetOf(q)  BY <1>1, <2>1, <2>7 DEF RegistersAt
  <2>9. QED  BY <2>4, <2>5, <2>6, <2>8 DEF Ours
<1>4. CASE applied < DisableNumber(q)
  <2>1. hw[q].set = {} /\ {} # Fields  BY <1>1, <1>4 DEF RegistersAt, Fields
  <2>2. ~IsRunning(q, applied)
    <3>1. ~Ours(q)  BY <2>1 DEF Ours
    <3>2. QED  BY <1>3, <3>1
  <2>3. ~Ours(q) /\ applied < Disables  BY <1>1, <1>2, <1>4, <2>1 DEF Ours
  <2>4. QED  BY <2>1, <2>2, <2>3
<1>5. CASE applied >= DisableNumber(q)
  <2>1. hw[q].enabled <=> IsRunning(q, applied)  BY <1>1, <1>5 DEF RegistersAt
  <2>2. QED  BY <1>3, <2>1 DEF Ours
<1>6. QED  BY <1>1, <1>2, <1>4, <1>5

LEMMA NoMixture == ASSUME Core PROVE NoMixedConfiguration
<1>1. ASSUME NEW q \in DeviceQueues, q \notin Queues PROVE hw[q].set = {} /\ ~Ours(q)
  <2>1. hw[q].set = {}  BY <1>1 DEF Core, Registers
  <2>2. QED  BY <2>1 DEF Ours, Fields
<1>2. ASSUME NEW q \in DeviceQueues PROVE hw[q].enabled => hw[q].set \in {{}, Fields}
  BY <1>1, RunningQueue DEF Ours
<1>3. ASSUME NEW q \in DeviceQueues, NEW p \in Queues, Ours(q), hw[p].enabled PROVE Ours(p)
  <2>1. q \in Queues  BY <1>1, <1>3
  <2>2. applied \in Nat /\ Disables \in Nat  BY AppliedFacts, DisableNumbers DEF Core
  <2>3. Disables < applied  BY <1>3, <2>1, RunningQueue
  <2>4. QED  BY <1>3, <2>2, <2>3, RunningQueue
<1>4. QED  BY <1>2, <1>3 DEF NoMixedConfiguration

LEMMA EventQueueRunning ==
    ASSUME Core, Intruders = {}, NEW e \in 0..EQ_COUNT - 1, Ours(Queue("eq", e))
    PROVE  /\ events[e] # {} => Watched(e)
           /\ \A c \in events[e] :
                c < RXQ_COUNT + TXQ_COUNT /\ EqnOf(c) = e /\ IsRunning(RingOf(c), applied)
<1> DEFINE q == Queue("eq", e)
<1>1. q \in Queues /\ q.kind = "eq"  BY QueueIn, QueueFacts, Counts
<1>2. IsRunning(q, applied) /\ EnableStep(q) = 8  BY <1>1, RunningQueue DEF EnableStep
<1>3. q \in Opened /\ Base(q) \in Nat /\ applied >= Base(q) + 8  BY <1>2, Bases DEF IsRunning
<1>4. applied \in Nat  BY AppliedFacts DEF Core
<1>5. applied >= Base(q) + 7  BY <1>3, <1>4
<1>6. EventQueueAt(e, applied)  BY DEF Core, Paths, EventQueues
<1>7. QED  BY <1>5, <1>6 DEF EventQueueAt

LEMMA Interrupted == ASSUME Core PROVE InterruptKept
  BY EventQueueRunning DEF InterruptKept

(* The objects of a ring that runs have been made. *)
LEMMA ObjectsMade ==
    ASSUME Core, NEW c \in Nat, c < RXQ_COUNT + TXQ_COUNT, IsRunning(RingOf(c), applied)
    PROVE  cqs[c].eq = EqnOf(c) /\ cqs[c].handler = RingOf(c).kind
<1>1. DriverTypes /\ Stages /\ Pending /\ CqObjects  BY DEF Core, Objects
<1>2. /\ RingOf(c) \in Opened /\ Base(RingOf(c)) = CqBase(c) + 9 /\ CqBase(c) \in Nat
      /\ InitEnd <= CqBase(c) /\ InitEnd \in Nat
  BY CqFacts, Bases, CqBases, Counts
<1>3. applied >= CqBase(c) + 17
  <2>1. applied >= Base(RingOf(c)) + EnableStep(RingOf(c)) /\ EnableStep(RingOf(c)) \in {8, 9}
    BY DEF IsRunning, EnableStep
  <2>2. applied \in Nat  BY <1>1, AppliedFacts
  <2>3. QED  BY <1>2, <2>1, <2>2
<1>4. applied \in Nat /\ called \in Nat /\ applied <= called
  <2>1. applied \in Nat /\ called \in Nat /\ Len(mmio) \in Nat /\ Len(todo) \in Nat
    BY <1>1, AppliedFacts, CalledFacts, Lengths
  <2>2. stage \notin Late => called = applied + Len(mmio) + Len(todo)  BY <1>1, AppliedFacts
  <2>3. stage \in Late => applied = OpenEnd /\ called = OpenEnd  BY <1>1, AppliedFacts, CalledFacts
  <2>4. QED  BY <2>1, <2>2, <2>3, CqBases
<1>5. listed
  <2>1. ~listed => applied <= InitEnd  BY <1>1, AppliedFacts
  <2>2. QED  BY <1>2, <1>3, <1>4, <2>1
<1> DEFINE x == Len(rings.rxq)
           y == Len(rings.txq)
           o == IF opening.index # None THEN 1 ELSE 0
<1>6. /\ x \in Nat /\ y \in Nat /\ ringsOpened = x + y /\ ringsOpened <= RXQ_COUNT + TXQ_COUNT
  BY <1>1, Lengths
<1>7. ringsOpened \in Nat  BY <1>1, Lengths
<1>8. c <= RXQ_COUNT + TXQ_COUNT  BY Counts
<1>9. /\ taken["txq"] = y + (IF stage = "txq" /\ opening.index # None THEN 1 ELSE 0)
      /\ taken["rxq"] = x + (IF stage = "rxq" /\ opening.index # None THEN 1 ELSE 0)
      /\ taken["cq"] = ringsOpened + (IF opening.cqn = None THEN 0 ELSE 1)
  BY <1>1, TakenFacts
<1> HIDE DEF x, y
<1>10. opening.index # None => opening.cqn # None /\ stage \in Rings
  BY <1>1 DEF Stages
<1>11. taken["rxq"] + taken["txq"] = ringsOpened + o /\ taken["rxq"] + taken["txq"] <= taken["cq"]
  <2>1. CASE opening.index = None
    <3>1. taken["txq"] = y /\ taken["rxq"] = x /\ o = 0  BY <1>6, <1>9, <2>1
    <3>2. taken["cq"] = ringsOpened \/ taken["cq"] = ringsOpened + 1
      <4>1. taken["cq"] = ringsOpened + (IF opening.cqn = None THEN 0 ELSE 1)  BY <1>9
      <4>2. QED  BY <1>7, <4>1
    <3> HIDE DEF o
    <3>3. QED  BY <1>6, <1>7, <3>1, <3>2
  <2>2. CASE opening.index # None
    <3>1. stage = "rxq" \/ stage = "txq"  BY <1>10, <2>2 DEF Rings
    <3>2. taken["cq"] = ringsOpened + 1 /\ o = 1  BY <1>9, <1>10, <2>2
    <3>3. \/ taken["txq"] = y + 1 /\ taken["rxq"] = x + 0
          \/ taken["txq"] = y + 0 /\ taken["rxq"] = x + 1
      BY <1>9, <2>2, <3>1
    <3> HIDE DEF o
    <3>4. QED  BY <1>6, <1>7, <3>2, <3>3
  <2>3. QED  BY <2>1, <2>2
<1>12. c < ringsOpened + o
  <2>1. CASE stage \notin Rings
    <3>1. x = RXQ_COUNT /\ y = TXQ_COUNT
      BY <1>1, <1>5, <2>1 DEF Stages, listed, Rings, x, y
    <3>2. o = 0  BY <1>10, <2>1
    <3> HIDE DEF o
    <3>3. QED  BY <1>6, <3>1, <3>2, Counts
  <2>2. CASE stage \in Rings
    <3>1. called = CqBase(ringsOpened) + (IF opening.cqn = None THEN 0 ELSE 9)
                   + (IF opening.index = None THEN 0 ELSE IF stage = "rxq" THEN 9 ELSE 8)
      BY <2>2 DEF called, Rings
    <3>2. CqBase(ringsOpened) \in Nat  BY <1>6, CqBases
    <3>3. CASE opening.index = None
      <4>1. o = 0 /\ called <= CqBase(ringsOpened) + 9  BY <3>1, <3>2, <3>3
      <4>2. ASSUME ringsOpened <= c PROVE FALSE
        <5>1. CqBase(ringsOpened) <= CqBase(c)
          <6>1. CASE ringsOpened = c
            BY <1>2, <6>1
          <6>2. CASE ringsOpened < c
            <7>1. CqBase(ringsOpened) + (IF ringsOpened < RXQ_COUNT THEN 18 ELSE 17) <= CqBase(c)
              BY <1>7, <1>8, <6>2, CqBases
            <7>2. QED  BY <1>2, <3>2, <7>1
          <6>3. QED  BY <1>7, <4>2, <6>1, <6>2
        <5>2. QED  BY <1>2, <1>3, <1>4, <3>2, <4>1, <5>1
      <4> HIDE DEF o
      <4>3. QED  BY <1>7, <4>1, <4>2
    <3>4. CASE opening.index # None
      <4>1. o = 1  BY <3>4
      <4>2. ASSUME ringsOpened < c PROVE FALSE
        <5>1. CqBase(ringsOpened) + (IF ringsOpened < RXQ_COUNT THEN 18 ELSE 17) <= CqBase(c)
          BY <1>7, <1>8, <4>2, CqBases
        <5>2. called <= CqBase(ringsOpened) + 18  BY <3>1, <3>2
        <5>3. QED  BY <1>2, <1>3, <1>4, <3>2, <5>1, <5>2
      <4> HIDE DEF o
      <4>3. QED  BY <1>7, <4>1, <4>2
    <3>5. QED  BY <3>3, <3>4
  <2>3. QED  BY <2>1, <2>2
<1> DEFINE t == taken["rxq"] + taken["txq"]
           m == taken["cq"]
<1>13. t \in Nat /\ m \in Nat /\ c < t /\ t <= m
  <2>1. taken["rxq"] \in Nat /\ taken["txq"] \in Nat /\ taken["cq"] \in Nat  BY <1>1, TakenFacts
  <2>2. QED  BY <1>11, <1>12, <2>1
<1>14. c \in 0..m - 1 /\ c \in 0..t - 1
  <2> HIDE DEF t, m
  <2>1. QED  BY <1>13
<1>15. cqs[c].eq = EqnOf(c)
  <2>1. c \in 0..taken["cq"] - 1  BY <1>14
  <2>2. QED  BY <1>1, <2>1 DEF CqObjects
<1>16. cqs[c].handler = RingOf(c).kind
  <2>1. t = taken.rxq + taken.txq /\ taken.rxq \in Nat /\ taken.txq \in Nat
    BY <1>1, TakenFacts
  <2>2. \A d \in 0..taken.rxq + taken.txq - 1 : cqs[d].handler = RingOf(d).kind
    BY <1>1 DEF CqObjects
  <2> HIDE DEF t, m
  <2>3. c \in 0..taken.rxq + taken.txq - 1  BY <1>14, <2>1
  <2>4. QED  BY <2>2, <2>3
<1>17. QED  BY <1>15, <1>16

LEMMA Handled == ASSUME Core PROVE EventsHaveHandlers
<1>1. ASSUME Intruders = {}, NEW e \in 0..EQ_COUNT - 1, Ours(Queue("eq", e)), NEW c \in events[e]
      PROVE  /\ c < CQ_COUNT /\ cqs[c].eq = e
             /\ \E r \in Queues : r.kind = cqs[c].handler /\ Ours(r) /\ CqOf(r) = Queue("cq", c)
  <2>1. c < RXQ_COUNT + TXQ_COUNT /\ EqnOf(c) = e /\ IsRunning(RingOf(c), applied)
    BY <1>1, EventQueueRunning
  <2>2. c \in Nat /\ c < CQ_COUNT
    <3>1. events \in [0..DEVICE_EQS - 1 -> SUBSET (0..DEVICE_CQS - 1)]  BY DEF Core, DeviceTypes
    <3>2. e \in 0..DEVICE_EQS - 1  BY Counts, DeviceCounts
    <3>3. c \in 0..DEVICE_CQS - 1  BY <1>1, <3>1, <3>2
    <3>4. c \in Nat  BY <3>3, DeviceCounts
    <3>5. QED  BY <2>1, <3>4, Counts
  <2> DEFINE r == RingOf(c)
  <2>3. r \in Queues /\ r.kind \in Rings /\ CqnOf(r) = c  BY <2>1, <2>2, CqFacts
  <2>4. cqs[c].eq = EqnOf(c) /\ cqs[c].handler = r.kind  BY <2>1, <2>2, ObjectsMade
  <2>5. Ours(r) /\ hw[r].target = TargetOf(r)  BY <2>1, <2>3, RunningQueue
  <2>6. TargetOf(r) = c  BY <2>3 DEF TargetOf, Rings
  <2>7. CqOf(r) = Queue("cq", c)  BY <2>5, <2>6 DEF CqOf
  <2>8. QED  BY <2>1, <2>2, <2>3, <2>4, <2>5, <2>7
<1>2. QED  BY <1>1 DEF EventsHaveHandlers

LEMMA Open == ASSUME Core PROVE PathsOpen
<1>1. SUFFICES ASSUME port_up \/ rx_ctrl = "on"
               PROVE  /\ \A q \in Queues : q.kind # "cq" => Ours(q)
                      /\ \A r, s \in Queues : r.kind \in Rings /\ s.kind \in Rings =>
                          /\ Ours(CqOf(r)) /\ (r # s => CqOf(r) # CqOf(s))
                          /\ hw[CqOf(r)].armed \/ CqOf(r).n \in events[EqOf(CqOf(r)).n]
                      /\ Intruders = {} =>
                          \A e \in 0..EQ_COUNT - 1 : hw[Queue("eq", e)].armed \/ Watched(e)
  BY DEF PathsOpen
<1>2. stage \in Late  BY <1>1 DEF Core, Stages, Late
<1>3. applied = OpenEnd /\ OpenEnd \in Nat  BY <1>2, AppliedFacts, CqBases DEF Core
<1>4. ASSUME NEW q \in Opened
      PROVE  IsRunning(q, applied) /\ Ours(q) /\ hw[q].target = TargetOf(q)
             /\ \A j \in 0..Length(q) : applied >= Base(q) + j
  <2>1. /\ Base(q) \in Nat /\ Length(q) \in {8, 9} /\ EnableStep(q) \in 8..Length(q)
        /\ Base(q) + Length(q) < OpenEnd
    BY Bases, Targets
  <2>2. \A j \in 0..Length(q) : applied >= Base(q) + j  BY <1>3, <2>1
  <2>3. EnableStep(q) \in 0..Length(q)  BY <2>1
  <2>4. IsRunning(q, applied)  BY <2>2, <2>3 DEF IsRunning
  <2>5. q \in Queues  BY DEF Opened
  <2>6. QED  BY <2>2, <2>4, <2>5, RunningQueue
<1>5. ASSUME NEW q \in Queues, q.kind # "cq" PROVE Ours(q)
  <2>1. q \in Opened  BY <1>5 DEF Opened
  <2>2. QED  BY <1>4, <2>1
<1>6. ASSUME NEW r \in Queues, r.kind \in Rings
      PROVE  /\ CqOf(r) = Queue("cq", CqnOf(r)) /\ RingOf(CqnOf(r)) = r
             /\ Ours(CqOf(r))
             /\ hw[CqOf(r)].armed \/ CqOf(r).n \in events[EqOf(CqOf(r)).n]
  <2> DEFINE c == CqnOf(r)
             q == Queue("cq", c)
  <2>1. c \in Nat /\ c < RXQ_COUNT + TXQ_COUNT /\ RingOf(c) = r /\ r \in Opened  BY <1>6, RingFacts
  <2>2. q \in Opened /\ q.kind = "cq" /\ q.n = c  BY <2>1, CqFacts, QueueFacts
  <2>3. hw[r].target = c
    <3>1. TargetOf(r) = c  BY <1>6 DEF TargetOf, Rings
    <3>2. QED  BY <1>4, <2>1, <3>1
  <2>4. CqOf(r) = q  BY <2>3 DEF CqOf
  <2>5. EqOf(q).n = EqnOf(c)
    <3>1. hw[q].target = EqnOf(c)  BY <1>4, <2>2 DEF TargetOf
    <3>2. QED  BY <3>1, QueueFacts DEF EqOf
  <2>6. applied >= Base(q) + 9
    <3>1. Length(q) = 9  BY <2>2 DEF Length
    <3>2. QED  BY <1>4, <2>2, <3>1
  <2>7. hw[q].armed \/ c \in events[EqnOf(c)]  BY <2>1, <2>6, Counts DEF Core, Announcing
  <2>8. QED  BY <1>4, <2>1, <2>2, <2>4, <2>5, <2>7
<1>7. ASSUME NEW r \in Queues, NEW s \in Queues, r.kind \in Rings, s.kind \in Rings, r # s
      PROVE  CqOf(r) # CqOf(s)
  <2>1. CqnOf(r) # CqnOf(s)  BY <1>6, <1>7
  <2>2. QED  BY <1>6, <1>7, <2>1, QueueFacts
<1>8. ASSUME Intruders = {}, NEW e \in 0..EQ_COUNT - 1 PROVE hw[Queue("eq", e)].armed \/ Watched(e)
  <2>1. Queue("eq", e) \in Opened /\ Queue("eq", e).kind = "eq"
    BY QueueIn, QueueFacts, Counts DEF Opened
  <2>2. Length(Queue("eq", e)) = 9  BY <2>1 DEF Length
  <2>3. applied >= Base(Queue("eq", e)) + 9 /\ applied >= Base(Queue("eq", e)) + 7
    BY <1>4, <2>1, <2>2
  <2>4. EventQueueAt(e, applied)  BY <1>8 DEF Core, Paths, EventQueues
  <2>5. QED  BY <2>3, <2>4 DEF EventQueueAt
<1>9. QED  BY <1>5, <1>6, <1>7, <1>8

(***************************************************************************)
(* The theorems                                                            *)
(***************************************************************************)
(* In every state that init, open and close reach, the accesses applied so *)
(* far determine every register the driver has written, whatever another   *)
(* driver left behind, in the queues this one manages and in those beyond  *)
(* its limits, and whatever the device and the interrupt handler do        *)
(* between two accesses.                                                   *)
THEOREM InterfaceInvariant == Spec => []IInv
<1>1. Core => IInv  BY CoreIsEnough
<1>2. QED  BY <1>1, CoreInvariant, PTL

(* init disables every queue the driver manages before open configures the *)
(* first, and open enables a queue only behind the last write of its       *)
(* configuration: no queue of the device runs on a configuration that is   *)
(* partly another driver's, and of the queues the driver manages none runs *)
(* on another driver's beside one that runs on this driver's.              *)
THEOREM ConfigurationsAreWhole == Spec => []NoMixedConfiguration
<1>1. Core => NoMixedConfiguration  BY NoMixture
<1>2. QED  BY <1>1, CoreInvariant, PTL

(* A ring is enabled only when its completion queue and its event queue    *)
(* run and point at each other: what it completes always finds its way,    *)
(* whatever rings beyond the driver's limits report to the same queues.    *)
THEOREM CompletionsFindTheirWay == Spec => []NothingLost
<1>1. Core => NothingLost  BY DEF Core
<1>2. QED  BY <1>1, CoreInvariant, PTL

(* The event record a ring's completion leads to names a completion queue  *)
(* whose Cq object is attached to that event queue and has the handler of  *)
(* that very ring, in every state in which no ring beyond the driver's     *)
(* limits runs with a path to the driver's queues.                         *)
THEOREM HandlersAreThere == Spec => []EventsHaveHandlers
<1>1. Core => EventsHaveHandlers  BY Handled
<1>2. QED  BY <1>1, CoreInvariant, PTL

(* In every such state, and whatever interrupts the device sent before:    *)
(* interrupt_handler may take an interrupt before the interface is in      *)
(* Driver.interfaces, or find the port down and only post the arm of the   *)
(* event queue, but it never leaves behind an event queue that has events  *)
(* and of which no interrupt, no turn of the handler and no arm is still   *)
(* to come.                                                                *)
THEOREM InterruptsAreKept == Spec => []InterruptKept
<1>1. Core => InterruptKept  BY Interrupted
<1>2. QED  BY <1>1, CoreInvariant, PTL

(* When open sets port_up, the receive and the transmit rings all run,     *)
(* each on a completion queue of its own that is armed or has announced    *)
(* what it has; and, unless a ring beyond the driver's limits reports      *)
(* there, every event queue is armed, or will be looked at or armed.       *)
THEOREM PathsAreOpen == Spec => []PathsOpen
<1>1. Core => PathsOpen  BY Open
<1>2. QED  BY <1>1, CoreInvariant, PTL
=============================================================================
