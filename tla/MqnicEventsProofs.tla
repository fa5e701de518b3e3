-------------------------- MODULE MqnicEventsProofs --------------------------
(***************************************************************************)
(* The event path, for every set of completion queues, every size of the   *)
(* event queue and every number of completions: IInv of MqnicEvents is an  *)
(* invariant, and with it the properties that follow from it.              *)
(***************************************************************************)
EXTENDS MqnicEvents, SequenceTheorems, FunctionTheorems, FiniteSetTheorems, TLAPS

(***************************************************************************)
(* Pointers that count for ever, and their slots and phase bits            *)
(***************************************************************************)
(* A pointer is a number of turns and a slot. *)
LEMMA Turns ==
    ASSUME NEW a \in Nat, NEW S \in Nat \ {0}
    PROVE  /\ a % S \in Nat /\ a % S < S /\ a % S \in 0..S - 1
           /\ a \div S \in Nat /\ a = S * (a \div S) + (a % S)
  BY SMT

(* A turn later the slot is the same. *)
LEMMA NextTurn ==
    ASSUME NEW a \in Nat, NEW S \in Nat \ {0}
    PROVE  (a + S) % S = a % S /\ (a + S) \div S = (a \div S) + 1
  BY SMT

(* Less than a turn later it is not. *)
LEMMA WithinTurn ==
    ASSUME NEW a \in Nat, NEW b \in Nat, NEW S \in Nat \ {0}, a < b, b - a < S
    PROVE  a % S # b % S
<1> SUFFICES ASSUME a % S = b % S PROVE FALSE
  OBVIOUS
<1> DEFINE ta == a \div S
           tb == b \div S
<1>1. a = S * ta + (a % S) /\ b = S * tb + (b % S) /\ ta \in Nat /\ tb \in Nat /\ a % S \in Nat
  BY Turns
<1> HIDE DEF ta, tb
<1>2. b - a = S * (tb - ta)  BY <1>1
<1>3. CASE tb <= ta
  <2>1. S * (tb - ta) <= 0  BY <1>1, <1>3
  <2>2. QED  BY <2>1, <1>2
<1>4. CASE tb >= ta + 1
  <2>1. S * (tb - ta) >= S  BY <1>1, <1>4
  <2>2. QED  BY <2>1, <1>2
<1>5. QED  BY <1>1, <1>3, <1>4

(* Consecutive turns have different phase bits. *)
LEMMA PhaseFacts ==
    ASSUME NEW a \in Nat
    PROVE  a % 2 \in {0, 1} /\ (a + 1) % 2 # a % 2
  BY SMT

(***************************************************************************)
(* Counting in a sequence                                                  *)
(***************************************************************************)
(* Where the first n items of s are in X, and how many are. *)
Hits(s, X, n) == {i \in 1..n : s[i] \in X}
Count(s, X, n) == Cardinality(Hits(s, X, n))

LEMMA CountType ==
    ASSUME NEW s, NEW X, NEW n \in Nat
    PROVE  IsFiniteSet(Hits(s, X, n)) /\ Count(s, X, n) \in Nat
<1>1. IsFiniteSet(1..n)  BY FS_Interval
<1>2. Hits(s, X, n) \in SUBSET (1..n)  BY DEF Hits
<1>3. IsFiniteSet(Hits(s, X, n))  BY <1>1, <1>2, FS_Subset
<1>4. QED  BY <1>3, FS_CardinalityType DEF Count

(* One more item counts if it is in X. *)
LEMMA CountNext ==
    ASSUME NEW s, NEW X, NEW n \in Nat
    PROVE  Count(s, X, n + 1) = Count(s, X, n) + CountIf(s[n + 1] \in X)
<1>1. CASE s[n + 1] \in X
  <2>1. Hits(s, X, n + 1) = Hits(s, X, n) \cup {n + 1}  BY <1>1 DEF Hits
  <2>2. n + 1 \notin Hits(s, X, n)  BY DEF Hits
  <2>3. Cardinality(Hits(s, X, n) \cup {n + 1}) = Cardinality(Hits(s, X, n)) + 1
    BY <2>2, CountType, FS_AddElement
  <2>4. QED  BY <1>1, <2>1, <2>3 DEF Count, CountIf
<1>2. CASE s[n + 1] \notin X
  <2>1. Hits(s, X, n + 1) = Hits(s, X, n)  BY <1>2 DEF Hits
  <2>2. QED  BY <1>2, <2>1, CountType DEF Count, CountIf
<1>3. QED  BY <1>1, <1>2

LEMMA CountSame ==
    ASSUME NEW s, NEW t, NEW X, NEW n \in Nat, \A i \in 1..n : t[i] = s[i]
    PROVE  Count(t, X, n) = Count(s, X, n)
<1>1. Hits(t, X, n) = Hits(s, X, n)  BY DEF Hits
<1>2. QED  BY <1>1 DEF Count

LEMMA CountAppend ==
    ASSUME NEW S, NEW s \in Seq(S), NEW e \in S, NEW X
    PROVE  /\ Append(s, e) \in Seq(S) /\ Len(s) \in Nat /\ Len(Append(s, e)) = Len(s) + 1
           /\ Append(s, e)[Len(s) + 1] = e
           /\ \A i \in 1..Len(s) : Append(s, e)[i] = s[i] /\ s[i] \in S
           /\ \A n \in 0..Len(s) : Count(Append(s, e), X, n) = Count(s, X, n)
           /\ Count(Append(s, e), X, Len(s) + 1) = Count(s, X, Len(s)) + CountIf(e \in X)
<1> DEFINE t == Append(s, e)
<1>1. /\ t \in Seq(S) /\ Len(s) \in Nat /\ Len(t) = Len(s) + 1 /\ t[Len(s) + 1] = e
      /\ \A i \in 1..Len(s) : t[i] = s[i]
  BY AppendProperties, LenProperties
<1>2. \A i \in 1..Len(s) : s[i] \in S  BY ElementOfSeq
<1> HIDE DEF t
<1>3. ASSUME NEW n \in 0..Len(s) PROVE Count(t, X, n) = Count(s, X, n)
  <2>1. n \in Nat /\ \A i \in 1..n : t[i] = s[i]  BY <1>1, <1>3
  <2>2. QED  BY <2>1, CountSame
<1>4. Len(s) \in 0..Len(s)  BY <1>1
<1>5. Count(t, X, Len(s) + 1) = Count(s, X, Len(s)) + CountIf(e \in X)
  BY <1>1, <1>3, <1>4, CountNext
<1>6. QED  BY <1>1, <1>2, <1>3, <1>5 DEF t

(* The items behind the first move up. *)
LEMMA CountTail ==
    ASSUME NEW S, NEW s \in Seq(S), s # <<>>, NEW X
    PROVE  /\ Tail(s) \in Seq(S) /\ Head(s) = s[1] /\ s[1] \in S
           /\ Len(s) \in Nat \ {0} /\ Len(Tail(s)) = Len(s) - 1
           /\ \A i \in 1..Len(s) - 1 : Tail(s)[i] = s[i + 1] /\ s[i + 1] \in S
           /\ \A n \in 0..Len(s) - 1 : Count(s, X, n + 1) = Count(Tail(s), X, n) + CountIf(s[1] \in X)
<1> DEFINE t == Tail(s)
<1>1. Len(s) \in Nat \ {0}  BY EmptySeq
<1>2. /\ t \in Seq(S) /\ Head(s) = s[1] /\ s[1] \in S /\ Len(t) = Len(s) - 1
      /\ \A i \in 1..Len(s) - 1 : t[i] = s[i + 1]
  <2>1. Head(s) = s[1]  OBVIOUS
  <2>2. QED  BY <2>1, HeadTailProperties
<1>3. \A i \in 1..Len(s) - 1 : s[i + 1] \in S
  <2>1. \A i \in 1..Len(s) - 1 : i + 1 \in 1..Len(s)  BY <1>1
  <2>2. QED  BY <2>1, ElementOfSeq
<1> HIDE DEF t
<1>4. ASSUME NEW n \in 0..Len(s) - 1 PROVE Count(s, X, n + 1) = Count(t, X, n) + CountIf(s[1] \in X)
  <2> DEFINE A == Hits(s, X, n + 1)
             B == Hits(t, X, n)
             f == [i \in B |-> i + 1]
  <2>1. n \in Nat /\ n + 1 \in Nat /\ 1 \in 1..n + 1 /\ \A i \in 1..n : t[i] = s[i + 1]
    BY <1>1, <1>2, <1>4
  <2>2. IsFiniteSet(A) /\ IsFiniteSet(B) /\ Cardinality(A) \in Nat /\ Cardinality(B) \in Nat
    BY <2>1, CountType DEF Count
  <2>3. \A i \in B : i \in Nat /\ i + 1 \in A \ {1}  BY <2>1 DEF Hits
  <2>4. \A j \in A \ {1} : j \in Nat /\ j - 1 \in B /\ (j - 1) + 1 = j
    <3>1. SUFFICES ASSUME NEW j \in A \ {1} PROVE j \in Nat /\ j - 1 \in B /\ (j - 1) + 1 = j
      OBVIOUS
    <3>2. j \in 1..n + 1 /\ j # 1 /\ s[j] \in X  BY DEF Hits
    <3>3. j - 1 \in 1..n /\ (j - 1) + 1 = j  BY <2>1, <3>2
    <3>4. t[j - 1] = s[j]  BY <2>1, <3>3
    <3>5. QED  BY <3>2, <3>3, <3>4 DEF Hits
  <2> HIDE DEF A, B
  <2>5. f \in Bijection(B, A \ {1})
    <3>1. f \in [B -> A \ {1}]  BY <2>3
    <3>2. \A a, b \in B : f[a] = f[b] => a = b  BY <2>3
    <3>3. \A j \in A \ {1} : \E i \in B : f[i] = j
      <4>1. \A j \in A \ {1} : f[j - 1] = j  BY <2>4
      <4>2. QED  BY <2>4, <4>1
    <3>4. QED  BY <3>1, <3>2, <3>3 DEF Bijection, Injection, Surjection, IsInjective
  <2>6. Cardinality(A \ {1}) = Cardinality(B)
    <3>1. ExistsBijection(B, A \ {1})  BY <2>5 DEF ExistsBijection
    <3>2. QED  BY <2>2, <3>1, FS_Bijection
  <2>7. Cardinality(A \ {1}) = IF 1 \in A THEN Cardinality(A) - 1 ELSE Cardinality(A)
    BY <2>2, FS_RemoveElement
  <2>8. 1 \in A <=> s[1] \in X  BY <2>1 DEF A, Hits
  <2>9. QED  BY <2>2, <2>6, <2>7, <2>8 DEF Count, CountIf, A, B
<1>5. QED  BY <1>1, <1>2, <1>3, <1>4 DEF t

(***************************************************************************)
(* Pointers and slots of the event queue                                   *)
(***************************************************************************)
LEMMA EqSlotFacts ==
    ASSUME NEW p \in Nat
    PROVE  /\ Eq!slot(p) \in Eq!Slots /\ Eq!slot(p + EQ_SIZE) = Eq!slot(p)
           /\ Eq!phase(p) \in {0, 1} /\ Eq!phase(p + EQ_SIZE) # Eq!phase(p)
           /\ \A q \in Nat : p < q /\ q - p < EQ_SIZE => Eq!slot(p) # Eq!slot(q)
<1> DEFINE t == p \div EQ_SIZE
<1> USE MqnicEventsAssumption
<1>1. t \in Nat /\ (p + EQ_SIZE) \div EQ_SIZE = t + 1  BY Turns, NextTurn
<1>2. t % 2 \in {0, 1} /\ (t + 1) % 2 \in {0, 1} /\ (t + 1) % 2 # t % 2  BY <1>1, PhaseFacts
<1>3. Eq!phase(p) = 1 - (t % 2) /\ Eq!phase(p + EQ_SIZE) = 1 - ((t + 1) % 2)
  BY <1>1 DEF Eq!phase
<1> HIDE DEF t
<1>4. Eq!phase(p) \in {0, 1} /\ Eq!phase(p + EQ_SIZE) # Eq!phase(p)  BY <1>2, <1>3
<1>5. Eq!slot(p) \in Eq!Slots /\ Eq!slot(p + EQ_SIZE) = Eq!slot(p)
  BY Turns, NextTurn DEF Eq!slot, Eq!Slots
<1>6. ASSUME NEW q \in Nat, p < q, q - p < EQ_SIZE PROVE Eq!slot(p) # Eq!slot(q)
  BY <1>6, WithinTurn DEF Eq!slot
<1>7. QED  BY <1>4, <1>5, <1>6

(* process_eq's test compares a record's phase with that of its pointer.   *)
LEMMA NewEvent ==
    ASSUME NEW p \in Nat, NEW b, b[Eq!slot(p)].phase \in {0, 1}
    PROVE  Eq!is_new(b, p) <=> b[Eq!slot(p)].phase = Eq!phase(p)
<1> DEFINE t == p \div EQ_SIZE
           f == b[Eq!slot(p)].phase
<1>1. t \in Nat  BY MqnicEventsAssumption, Turns
<1>2. t % 2 \in {0, 1} /\ f \in {0, 1}  BY <1>1, PhaseFacts
<1>3. Eq!phase(p) = 1 - (t % 2) /\ (Eq!is_new(b, p) <=> f # t % 2)  BY DEF Eq!phase, Eq!is_new
<1> HIDE DEF t, f
<1>4. (f # t % 2) <=> (f = 1 - (t % 2))  BY <1>2
<1>5. QED  BY <1>3, <1>4 DEF f

(***************************************************************************)
(* The tokens, as counts                                                   *)
(***************************************************************************)
Write == [reg : {"cq_cons", "cq_arm", "eq_cons", "eq_arm"}, cq : CQS \cup {NoQueue}, val : Nat]
Record == [kind : {"cpl", "event"}, cq : CQS, ptr : Nat]

Events == [kind : {"event"}, cq : CQS, ptr : Nat]
EventsOf(c) == [kind : {"event"}, cq : {c}, ptr : Nat]
ArmsOf(c) == [reg : {"cq_arm"}, cq : {c}, val : Nat]
EqArms == [reg : {"eq_arm"}, cq : CQS \cup {NoQueue}, val : Nat]

InFifo(c) == Count(event_fifo, {c}, Len(event_fifo))
InDma(c) == Count(dma, EventsOf(c), Len(dma))
AllInDma == Count(dma, Events, Len(dma))
Pending(c) == {p \in eq_next..eq_seen - 1 : eq_buf[Eq!slot(p)].index = c}
Arming(c) == Count(mmio, ArmsOf(c), Len(mmio))
EqArming == Count(mmio, EqArms, Len(mmio))

(* The invariant's sets are places where the sequences hold such items.    *)
LEMMA RecordHits ==
    ASSUME NEW d \in Seq(Record)
    PROVE  /\ {i \in 1..Len(d) : d[i].kind = "event"} = Hits(d, Events, Len(d))
           /\ \A c \in CQS : {i \in Hits(d, Events, Len(d)) : d[i].cq = c} = Hits(d, EventsOf(c), Len(d))
           /\ \A k \in 1..Len(d) : {j \in Hits(d, Events, Len(d)) : j < k} = Hits(d, Events, k - 1)
<1>1. \A i \in 1..Len(d) : d[i] \in Record  BY ElementOfSeq
<1>2. \A r \in Record : /\ r \in Events <=> r.kind = "event"
                        /\ \A c \in CQS : r \in EventsOf(c) <=> r.kind = "event" /\ r.cq = c
  BY DEF Record, Events, EventsOf
<1>3. Len(d) \in Nat  BY LenProperties
<1>4. \A k \in 1..Len(d) : {j \in Hits(d, Events, Len(d)) : j < k} = Hits(d, Events, k - 1)
  BY <1>3 DEF Hits
<1>5. {i \in 1..Len(d) : d[i].kind = "event"} = Hits(d, Events, Len(d))
  BY <1>1, <1>2 DEF Hits
<1>6. \A c \in CQS : {i \in Hits(d, Events, Len(d)) : d[i].cq = c} = Hits(d, EventsOf(c), Len(d))
  BY <1>1, <1>2 DEF Hits
<1>7. QED  BY <1>4, <1>5, <1>6

LEMMA WriteHits ==
    ASSUME NEW m \in Seq(Write)
    PROVE  /\ {i \in 1..Len(m) : m[i].reg = "eq_arm"} = Hits(m, EqArms, Len(m))
           /\ \A c \in CQS : {i \in 1..Len(m) : m[i].reg = "cq_arm" /\ m[i].cq = c} = Hits(m, ArmsOf(c), Len(m))
<1>1. \A i \in 1..Len(m) : m[i] \in Write  BY ElementOfSeq
<1>2. \A w \in Write : /\ w \in EqArms <=> w.reg = "eq_arm"
                       /\ \A c \in CQS : w \in ArmsOf(c) <=> w.reg = "cq_arm" /\ w.cq = c
  BY DEF Write, EqArms, ArmsOf
<1>3. QED  BY <1>1, <1>2 DEF Hits

EventOrder ==
    \A i \in 1..Len(dma) : dma[i] \in Events => dma[i].ptr = eq_seen + Count(dma, Events, i - 1)

Counted ==
    /\ EventOrder <=> \A i \in Records("event") : dma[i].ptr = eq_seen + EventsBefore(i)
    /\ eq_seen = eq_prod - AllInDma /\ AllInDma \in Nat
    /\ \A i \in 1..Len(dma) : /\ i \in Records("event") <=> dma[i] \in Events
                              /\ EventsBefore(i) = Count(dma, Events, i - 1)
    /\ \A c \in CQS :
        /\ InFifo(c) \in Nat /\ InDma(c) \in Nat /\ Arming(c) \in Nat
        /\ CqTokens(c) = CountIf(cq_armed[c]) + InFifo(c) + InDma(c)
                         + Cardinality(Pending(c)) + Arming(c)
    /\ EqArming \in Nat
    /\ Cardinality({i \in 1..Len(mmio) : mmio[i].reg = "eq_arm"}) = EqArming

LEMMA Views == TypeOK => Counted
<1> SUFFICES ASSUME TypeOK PROVE Counted
  OBVIOUS
<1>1. dma \in Seq(Record) /\ mmio \in Seq(Write) /\ event_fifo \in Seq(CQS)
  BY DEF TypeOK, Record, Write
<1>2. Len(dma) \in Nat /\ Len(mmio) \in Nat /\ Len(event_fifo) \in Nat  BY <1>1, LenProperties
<1>3. Records("event") = Hits(dma, Events, Len(dma))  BY <1>1, RecordHits DEF Records
<1>4. eq_seen = eq_prod - AllInDma /\ AllInDma \in Nat
  BY <1>2, <1>3, CountType DEF eq_seen, AllInDma, Count
<1>5. ASSUME NEW i \in 1..Len(dma)
      PROVE  /\ i \in Records("event") <=> dma[i] \in Events
             /\ EventsBefore(i) = Count(dma, Events, i - 1)
  BY <1>1, <1>3, <1>5, RecordHits DEF EventsBefore, Count, Hits
<1>6. ASSUME NEW c \in CQS
      PROVE  /\ InFifo(c) \in Nat /\ InDma(c) \in Nat /\ Arming(c) \in Nat
             /\ CqTokens(c) = CountIf(cq_armed[c]) + InFifo(c) + InDma(c)
                              + Cardinality(Pending(c)) + Arming(c)
  <2>1. {i \in 1..Len(event_fifo) : event_fifo[i] = c} = Hits(event_fifo, {c}, Len(event_fifo))
    BY DEF Hits
  <2>2. {i \in Records("event") : dma[i].cq = c} = Hits(dma, EventsOf(c), Len(dma))
    BY <1>1, <1>3, RecordHits
  <2>3. {i \in 1..Len(mmio) : mmio[i].reg = "cq_arm" /\ mmio[i].cq = c} = Hits(mmio, ArmsOf(c), Len(mmio))
    BY <1>1, WriteHits
  <2>4. InFifo(c) \in Nat /\ InDma(c) \in Nat /\ Arming(c) \in Nat
    BY <1>2, CountType DEF InFifo, InDma, Arming
  <2>5. CqTokens(c) = CountIf(cq_armed[c]) + InFifo(c) + InDma(c) + Cardinality(Pending(c)) + Arming(c)
    BY <2>1, <2>2, <2>3 DEF CqTokens, InFifo, InDma, Arming, Pending, Count
  <2>6. QED  BY <2>4, <2>5
<1>7. EqArming \in Nat /\ Cardinality({i \in 1..Len(mmio) : mmio[i].reg = "eq_arm"}) = EqArming
  BY <1>1, <1>2, WriteHits, CountType DEF EqArming, Count
<1>8. EventOrder <=> \A i \in Records("event") : dma[i].ptr = eq_seen + EventsBefore(i)
  BY <1>5 DEF EventOrder, Records
<1>9. QED  BY <1>4, <1>5, <1>6, <1>7, <1>8 DEF Counted

LEMMA PrimedViews == TypeOK' => Counted'
  BY Views, PTL

(* What IInv says of the counts. *)
LEMMA Tokens ==
    ASSUME IInv
    PROVE  /\ TypeOK /\ Counted
           /\ \A c \in CQS : CqTokens(c) = CountIf(c \notin dropped)
           /\ CountIf(eq_armed) + msi + interrupts + CountIf(task # "idle") + EqArming = 1
           /\ CountIf(eq_armed) \in Nat /\ CountIf(task # "idle") \in Nat /\ EqArming \in Nat
           /\ msi \in Nat /\ interrupts \in Nat
<1>1. TypeOK /\ OneEventPerQueue /\ OneInterrupt  BY DEF IInv
<1>2. Counted  BY <1>1, Views
<1>3. CountIf(eq_armed) \in Nat /\ CountIf(task # "idle") \in Nat  BY DEF CountIf
<1>4. msi \in Nat /\ interrupts \in Nat  BY <1>1 DEF TypeOK
<1>5. QED  BY <1>1, <1>2, <1>3, <1>4 DEF OneEventPerQueue, OneInterrupt, Counted

LEMMA Order ==
    ASSUME IInv
    PROVE  /\ eq_cons \in Nat /\ eq_cons_ptr \in Nat /\ eq_next \in Nat /\ eq_seen \in Nat /\ eq_prod \in Nat
           /\ EQ_SIZE \in Nat \ {0} /\ AllInDma \in Nat /\ eq_seen = eq_prod - AllInDma
           /\ eq_cons <= eq_cons_ptr /\ eq_cons_ptr <= eq_next /\ eq_next <= eq_seen
           /\ eq_seen <= eq_prod /\ eq_prod <= eq_cons + EQ_SIZE
<1>1. TypeOK /\ Counted /\ EventPointers  BY Tokens DEF IInv
<1>2. QED  BY <1>1, MqnicEventsAssumption DEF TypeOK, Counted, EventPointers

LEMMA Queues ==
    NoQueue \notin CQS /\ \A c \in CQS : c \in Nat
  BY MqnicEventsAssumption DEF NoQueue

(***************************************************************************)
(* The invariant holds at first                                            *)
(***************************************************************************)
LEMMA InitInv == Init => IInv
<1> SUFFICES ASSUME Init PROVE IInv
  OBVIOUS
<1> USE DEF Init
<1> USE MqnicEventsAssumption
<1>1. Len(dma) = 0 /\ Len(mmio) = 0 /\ Len(event_fifo) = 0  OBVIOUS
<1>2. TypeOK
  <2>1. eq_buf \in [Eq!Slots -> [phase : {0, 1}, index : CQS \cup {0}]]  BY DEF Eq!Zeroed
  <2>2. \A f \in {cq_cons_ptr, cq_seen, cq_prod, cq_cons} : f \in [CQS -> Nat]  BY DEF Zero
  <2>3. \A c \in CQS : cq_cons[c] = 0 /\ cq_cons_ptr[c] = 0 /\ cq_seen[c] = 0 /\ cq_prod[c] = 0
    BY DEF Zero
  <2>4. /\ mmio \in Seq([reg : {"cq_cons", "cq_arm", "eq_cons", "eq_arm"}, cq : CQS \cup {NoQueue}, val : Nat])
        /\ dma \in Seq([kind : {"cpl", "event"}, cq : CQS, ptr : Nat])
        /\ event_fifo \in Seq(CQS)
    OBVIOUS
  <2>5. QED  BY <2>1, <2>2, <2>3, <2>4 DEF TypeOK, NoQueue
<1>3. Counted  BY <1>2, Views
<1>4. \A s, X : Count(s, X, 0) = 0  BY FS_EmptySet DEF Count, Hits
<1>5. AllInDma = 0 /\ eq_seen = 0 /\ EqArming = 0
  BY <1>1, <1>3, <1>4 DEF Counted, AllInDma, EqArming
<1>6. Records("event") = {} /\ Records("cpl") = {}  BY <1>1 DEF Records
<1>7. EventPointers  BY <1>5 DEF EventPointers
<1>8. EventRecords
  <2>1. ASSUME NEW p \in 0..EQ_SIZE - 1 PROVE eq_buf[Eq!slot(p)].phase # Eq!phase(p)
    <3>1. p \div EQ_SIZE = 0 /\ p \in Nat  BY SMT
    <3>2. Eq!phase(p) = 1  BY <3>1, SMT DEF Eq!phase
    <3>3. eq_buf[Eq!slot(p)].phase = 0  BY <3>1, EqSlotFacts DEF Eq!Zeroed
    <3>4. QED  BY <3>2, <3>3
  <2>2. QED  BY <1>5, <1>6, <2>1 DEF EventRecords
<1>9. CompletionRecords  BY <1>6 DEF CompletionRecords
<1>10. Reports  BY <1>1 DEF Reports, Reported
<1>11. OneEventPerQueue
  <2>1. ASSUME NEW c \in CQS PROVE CqTokens(c) = CountIf(c \notin dropped)
    <3>1. InFifo(c) = 0 /\ InDma(c) = 0 /\ Arming(c) = 0
      BY <1>1, <1>4 DEF InFifo, InDma, Arming
    <3>2. Pending(c) = {}  BY <1>5 DEF Pending
    <3>3. Cardinality(Pending(c)) = 0  BY <3>2, FS_EmptySet
    <3>4. CountIf(cq_armed[c]) = 1 /\ CountIf(c \notin dropped) = 1  BY DEF CountIf
    <3>5. CqTokens(c) = 1 + 0 + 0 + 0 + 0
      <4> HIDE DEF Init
      <4>1. QED  BY <1>3, <3>1, <3>3, <3>4 DEF Counted
    <3>6. QED  BY <3>4, <3>5
  <2>2. QED  BY <2>1 DEF OneEventPerQueue
<1>12. OneInterrupt
  <2>1. CountIf(eq_armed) = 1 /\ CountIf(task # "idle") = 0  BY DEF CountIf
  <2>2. QED  BY <1>3, <1>5, <2>1 DEF OneInterrupt, Counted
<1>13. QED  BY <1>2, <1>7, <1>8, <1>9, <1>10, <1>11, <1>12 DEF IInv

(***************************************************************************)
(* And every step preserves it                                             *)
(***************************************************************************)
LEMMA PortStep ==
    ASSUME IInv, PortUp \/ PortDown
    PROVE  IInv'
<1> USE DEF PortUp, PortDown, memoryVars, deviceVars
<1>1. TypeOK'  BY DEF IInv, TypeOK
<1>2. EventPointers' /\ EventRecords'
  BY DEF IInv, EventPointers, EventRecords, EventsBefore, eq_seen, Records
<1>3. CompletionRecords' /\ Reports'
  BY DEF IInv, CompletionRecords, Records, Reports, Reported
<1>4. OneEventPerQueue' /\ OneInterrupt'
  BY DEF IInv, OneEventPerQueue, OneInterrupt, CqTokens, Records, eq_seen
<1>5. QED  BY <1>1, <1>2, <1>3, <1>4 DEF IInv

LEMMA DeliverMsiStep ==
    ASSUME IInv, DeliverMsi
    PROVE  IInv'
<1> USE DEF DeliverMsi, memoryVars, deviceVars
<1>1. msi \in Nat /\ msi - 1 \in Nat /\ interrupts \in Nat  BY DEF IInv, TypeOK
<1>2. TypeOK'  BY <1>1 DEF IInv, TypeOK
<1>3. EventPointers' /\ EventRecords'
  BY DEF IInv, EventPointers, EventRecords, EventsBefore, eq_seen, Records
<1>4. CompletionRecords' /\ Reports'
  BY DEF IInv, CompletionRecords, Records, Reports, Reported
<1>5. OneEventPerQueue'  BY DEF IInv, OneEventPerQueue, CqTokens, Records, eq_seen
<1>6. OneInterrupt'
  <2>2. CountIf(eq_armed) + (msi - 1) + (interrupts + 1) + CountIf(task # "idle") + EqArming = 1
    BY Tokens
  <2>3. EqArming' = EqArming  BY DEF EqArming
  <2>4. Counted'  BY <1>2, PrimedViews
  <2>5. QED  BY <2>2, <2>3, <2>4 DEF OneInterrupt, Counted
<1>7. QED  BY <1>2, <1>3, <1>4, <1>5, <1>6 DEF IInv

(* The interrupt's item becomes a handler that runs. *)
LEMMA TakeInterruptStep ==
    ASSUME IInv, TakeInterrupt
    PROVE  IInv'
<1> USE DEF TakeInterrupt, memoryVars, deviceVars
<1>1. interrupts \in Nat /\ interrupts - 1 \in Nat /\ msi \in Nat  BY DEF IInv, TypeOK
<1>2. eq_next' = eq_next  BY DEF IInv, EventPointers
<1>3. current = NoQueue /\ task' \in {"eq", "report"}  BY DEF IInv, TypeOK
<1>4. TypeOK'  BY <1>1, <1>2, <1>3 DEF IInv, TypeOK
<1>5. EventPointers'  BY <1>2, <1>3 DEF IInv, EventPointers, eq_seen, Records
<1>6. EventRecords'  BY <1>2 DEF IInv, EventRecords, EventsBefore, eq_seen, Records
<1>7. CompletionRecords' /\ Reports'
  BY DEF IInv, CompletionRecords, Records, Reports, Reported
<1>8. OneEventPerQueue'  BY <1>2 DEF IInv, OneEventPerQueue, CqTokens, Records, eq_seen
<1>9. OneInterrupt'
  <2>1. CountIf(task # "idle") = 0 /\ CountIf(task' # "idle") = 1  BY <1>3 DEF CountIf
  <2>3. CountIf(eq_armed) + msi + (interrupts - 1) + 1 + EqArming = 1
    BY <2>1, Tokens
  <2>4. EqArming' = EqArming  BY DEF EqArming
  <2>5. Counted'  BY <1>4, PrimedViews
  <2>6. QED  BY <2>1, <2>3, <2>4, <2>5 DEF OneInterrupt, Counted
<1>10. QED  BY <1>4, <1>5, <1>6, <1>7, <1>8, <1>9 DEF IInv

(***************************************************************************)
(* Posted writes                                                           *)
(***************************************************************************)
(* Reported, of any sequence of writes. *)
InOrder(m, reg, c, low, high) ==
    \A i \in 1..Len(m) : m[i].reg = reg /\ m[i].cq = c =>
        /\ low <= m[i].val /\ m[i].val <= high
        /\ \A j \in 1..i : m[j].reg = reg /\ m[j].cq = c => m[j].val <= m[i].val

(* A pointer that is posted is not below those before it.                  *)
LEMMA AppendInOrder ==
    ASSUME NEW m \in Seq(Write), NEW w \in Write, NEW reg, NEW c,
           NEW low \in Nat, NEW high \in Nat, NEW top \in Nat, low <= high, high <= top,
           InOrder(m, reg, c, low, high), w.reg = reg /\ w.cq = c => w.val = top
    PROVE  InOrder(Append(m, w), reg, c, low, top)
<1> DEFINE t == Append(m, w)
           n == Len(m)
<1>1. /\ n \in Nat /\ Len(t) = n + 1 /\ t[n + 1] = w
      /\ \A i \in 1..n : t[i] = m[i] /\ m[i] \in Write /\ m[i].val \in Nat
  <2>1. n \in Nat /\ Len(t) = n + 1 /\ t[n + 1] = w /\ \A i \in 1..n : t[i] = m[i]
    BY AppendProperties, LenProperties
  <2>2. \A i \in 1..n : m[i] \in Write  BY ElementOfSeq
  <2>3. QED  BY <2>1, <2>2 DEF Write
<1>2. \A i \in 1..n : m[i].reg = reg /\ m[i].cq = c =>
        /\ low <= m[i].val /\ m[i].val <= high
        /\ \A j \in 1..i : m[j].reg = reg /\ m[j].cq = c => m[j].val <= m[i].val
  BY DEF InOrder
<1> HIDE DEF t, n
<1>3. ASSUME NEW i \in 1..Len(t), t[i].reg = reg, t[i].cq = c
      PROVE  /\ low <= t[i].val /\ t[i].val <= top
             /\ \A j \in 1..i : t[j].reg = reg /\ t[j].cq = c => t[j].val <= t[i].val
  <2>1. CASE i \in 1..n
    <3>1. \A j \in 1..i : j \in 1..n  BY <1>1, <2>1
    <3>2. t[i] = m[i] /\ m[i].val \in Nat  BY <1>1, <2>1
    <3>3. low <= t[i].val /\ t[i].val <= high  BY <1>2, <1>3, <2>1, <3>2
    <3>4. t[i].val <= top  BY <3>2, <3>3
    <3>5. QED  BY <1>1, <1>2, <1>3, <2>1, <3>1, <3>2, <3>3, <3>4
  <2>2. CASE i = n + 1
    <3>1. t[i].val = top  BY <1>1, <1>3, <2>2
    <3>2. ASSUME NEW j \in 1..i, t[j].reg = reg, t[j].cq = c PROVE t[j].val <= top
      <4>1. CASE j = n + 1  BY <3>1, <2>2, <4>1
      <4>2. CASE j # n + 1
        <5>1. j \in 1..n  BY <1>1, <2>2, <4>2
        <5>2. t[j] = m[j] /\ m[j].val \in Nat  BY <1>1, <5>1
        <5>3. m[j].val <= high  BY <1>2, <3>2, <5>1, <5>2
        <5>4. QED  BY <5>2, <5>3
      <4>3. QED  BY <4>1, <4>2
    <3>3. QED  BY <3>1, <3>2
  <2>3. QED  BY <1>1, <2>1, <2>2
<1>4. QED  BY <1>3 DEF InOrder, t

(* When the oldest write takes effect, those behind it are not below it.   *)
LEMMA TailInOrder ==
    ASSUME NEW m \in Seq(Write), m # <<>>, NEW reg, NEW c, NEW low \in Nat, NEW high \in Nat,
           low <= high, InOrder(m, reg, c, low, high), NEW low1,
           low1 = IF m[1].reg = reg /\ m[1].cq = c THEN m[1].val ELSE low
    PROVE  /\ low1 \in Nat /\ low <= low1 /\ low1 <= high
           /\ InOrder(Tail(m), reg, c, low1, high)
<1> DEFINE t == Tail(m)
           n == Len(m)
<1>1. /\ n \in Nat \ {0} /\ Len(t) = n - 1 /\ m[1] \in Write
      /\ \A i \in 1..n - 1 : t[i] = m[i + 1]
  BY CountTail
<1>2. \A i \in 1..n : m[i].val \in Nat
  <2>1. \A i \in 1..n : m[i] \in Write  BY ElementOfSeq
  <2>2. QED  BY <2>1 DEF Write
<1>3. \A i \in 1..n : m[i].reg = reg /\ m[i].cq = c =>
        /\ low <= m[i].val /\ m[i].val <= high
        /\ \A j \in 1..i : m[j].reg = reg /\ m[j].cq = c => m[j].val <= m[i].val
  BY DEF InOrder
<1> HIDE DEF t, n
<1>4. low1 \in Nat /\ low <= low1 /\ low1 <= high
  <2>1. 1 \in 1..n  BY <1>1
  <2>2. QED  BY <1>2, <1>3, <2>1
<1>5. ASSUME NEW i \in 1..Len(t), t[i].reg = reg, t[i].cq = c
      PROVE  /\ low1 <= t[i].val /\ t[i].val <= high
             /\ \A j \in 1..i : t[j].reg = reg /\ t[j].cq = c => t[j].val <= t[i].val
  <2>1. i + 1 \in 1..n /\ t[i] = m[i + 1] /\ 1 \in 1..i + 1  BY <1>1
  <2>2. low1 <= t[i].val /\ t[i].val <= high  BY <1>3, <1>5, <2>1
  <2>3. \A j \in 1..i : j + 1 \in 1..i + 1 /\ t[j] = m[j + 1]  BY <1>1
  <2>4. \A j \in 1..i : t[j].reg = reg /\ t[j].cq = c => t[j].val <= t[i].val
    BY <1>3, <1>5, <2>1, <2>3
  <2>5. QED  BY <2>2, <2>4
<1>6. QED  BY <1>4, <1>5 DEF InOrder, t

LEMMA ReportedInOrder ==
    ASSUME NEW reg, NEW c, NEW low, NEW high
    PROVE  Reported(reg, c, low, high) <=> InOrder(mmio, reg, c, low, high)
  BY DEF Reported, InOrder

(* A posted write: the pointers stay in order, and it counts as a token if *)
(* it arms a queue.                                                        *)
LEMMA PostStep ==
    ASSUME IInv, NEW w \in Write, mmio' = Append(mmio, w),
           w.cq \in CQS <=> w.reg \in {"cq_cons", "cq_arm"},
           eq_cons' = eq_cons, cq_cons' = cq_cons,
           eq_cons_ptr' \in Nat, eq_cons_ptr <= eq_cons_ptr', cq_cons_ptr' \in [CQS -> Nat],
           \A c \in CQS : cq_cons_ptr[c] <= cq_cons_ptr'[c],
           w.reg = "eq_cons" => w.val = eq_cons_ptr',
           w.reg = "cq_cons" => w.val = cq_cons_ptr'[w.cq]
    PROVE  /\ mmio' \in Seq(Write) /\ Reports'
           /\ EqArming' = EqArming + CountIf(w.reg = "eq_arm")
           /\ \A c \in CQS : Arming(c)' = Arming(c) + CountIf(w.reg = "cq_arm" /\ w.cq = c)
<1>1. mmio \in Seq(Write)  BY DEF IInv, TypeOK, Write
<1>2. /\ mmio' \in Seq(Write) /\ Len(mmio) \in Nat /\ Len(mmio') = Len(mmio) + 1
      /\ mmio'[Len(mmio) + 1] = w
      /\ \A i \in 1..Len(mmio) : mmio'[i] = mmio[i]
      /\ \A X : Count(mmio', X, Len(mmio) + 1) = Count(mmio, X, Len(mmio)) + CountIf(w \in X)
  BY <1>1, CountAppend
<1>3. EqArming' = EqArming + CountIf(w.reg = "eq_arm")
  <2>1. w \in EqArms <=> w.reg = "eq_arm"  BY DEF Write, EqArms
  <2>2. CountIf(w \in EqArms) = CountIf(w.reg = "eq_arm")  BY <2>1 DEF CountIf
  <2>3. QED  BY <1>2, <2>2 DEF EqArming
<1>4. ASSUME NEW c \in CQS PROVE Arming(c)' = Arming(c) + CountIf(w.reg = "cq_arm" /\ w.cq = c)
  <2>1. w \in ArmsOf(c) <=> w.reg = "cq_arm" /\ w.cq = c  BY DEF Write, ArmsOf
  <2>2. CountIf(w \in ArmsOf(c)) = CountIf(w.reg = "cq_arm" /\ w.cq = c)  BY <2>1 DEF CountIf
  <2>3. QED  BY <1>2, <2>2 DEF Arming
<1>5. InOrder(mmio', "eq_cons", NoQueue, eq_cons, eq_cons_ptr')
  <2>1. InOrder(mmio, "eq_cons", NoQueue, eq_cons, eq_cons_ptr)
    BY ReportedInOrder DEF IInv, Reports
  <2>2. eq_cons \in Nat /\ eq_cons_ptr \in Nat /\ eq_cons <= eq_cons_ptr  BY Order
  <2>3. QED  BY <1>1, <2>1, <2>2, AppendInOrder
<1>6. ASSUME NEW c \in CQS PROVE InOrder(mmio', "cq_cons", c, cq_cons[c], cq_cons_ptr'[c])
  <2>1. InOrder(mmio, "cq_cons", c, cq_cons[c], cq_cons_ptr[c])
    BY ReportedInOrder DEF IInv, Reports
  <2>2. cq_cons[c] \in Nat /\ cq_cons_ptr[c] \in Nat /\ cq_cons[c] <= cq_cons_ptr[c]
    BY DEF IInv, TypeOK
  <2>3. cq_cons_ptr'[c] \in Nat /\ cq_cons_ptr[c] <= cq_cons_ptr'[c]  OBVIOUS
  <2>4. w.reg = "cq_cons" /\ w.cq = c => w.val = cq_cons_ptr'[c]  OBVIOUS
  <2> HIDE DEF TypeOK
  <2>5. QED  BY <1>1, <2>1, <2>2, <2>3, <2>4, AppendInOrder
<1>7. \A i \in 1..Len(mmio') : mmio'[i].cq \in CQS <=> mmio'[i].reg \in {"cq_cons", "cq_arm"}
  <2>1. \A i \in 1..Len(mmio) : mmio[i].cq \in CQS <=> mmio[i].reg \in {"cq_cons", "cq_arm"}
    BY DEF IInv, Reports
  <2>2. \A i \in 1..Len(mmio') : i \in 1..Len(mmio) \/ i = Len(mmio) + 1  BY <1>2
  <2>3. QED  BY <1>2, <2>1, <2>2
<1>8. Reports'  BY <1>5, <1>6, <1>7 DEF Reports, Reported, InOrder
<1>9. QED  BY <1>2, <1>3, <1>4, <1>8

(***************************************************************************)
(* The driver's steps                                                      *)
(***************************************************************************)
LEMMA PendingFacts ==
    ASSUME IInv, NEW c
    PROVE  IsFiniteSet(Pending(c)) /\ Cardinality(Pending(c)) \in Nat
<1>1. eq_next \in Nat /\ eq_seen \in Nat  BY Order
<1>2. IsFiniteSet(eq_next..eq_seen - 1)  BY <1>1, FS_Interval
<1>3. Pending(c) \in SUBSET (eq_next..eq_seen - 1)  BY DEF Pending
<1>4. QED  BY <1>2, <1>3, FS_Subset, FS_CardinalityType

(* The event at process_eq's pointer is there if and only if it is new.    *)
LEMMA NextEvent ==
    ASSUME IInv, Eq!is_new(eq_buf, eq_next)
    PROVE  eq_next < eq_seen /\ eq_buf[Eq!slot(eq_next)].index \in CQS
<1>1. eq_next \in Nat /\ eq_seen \in Nat /\ eq_next <= eq_seen /\ EQ_SIZE \in Nat \ {0}  BY Order
<1>2. eq_buf[Eq!slot(eq_next)].phase \in {0, 1}  BY <1>1, EqSlotFacts DEF IInv, TypeOK
<1>3. eq_buf[Eq!slot(eq_next)].phase = Eq!phase(eq_next)  BY <1>1, <1>2, NewEvent
<1>4. eq_next # eq_seen
  <2>1. eq_next = eq_seen => eq_next \in eq_seen..eq_next + EQ_SIZE - 1  BY <1>1
  <2>2. QED  BY <1>3, <2>1 DEF IInv, EventRecords
<1>5. eq_next \in eq_next..eq_seen - 1  BY <1>1, <1>4
<1>6. QED  BY <1>1, <1>4, <1>5 DEF IInv, EventRecords

(* The completion queue's handler takes what is in memory. *)
LEMMA ProcessEventStep ==
    ASSUME IInv, ProcessEvent
    PROVE  IInv'
<1> USE DEF ProcessEvent, memoryVars, deviceVars
<1> DEFINE c == eq_buf[Eq!slot(eq_next)].index
<1>1. eq_next < eq_seen /\ c \in CQS  BY NextEvent
<1>2. TypeOK /\ Counted  BY Tokens
<1>3. task = "eq" /\ task' = "cq" /\ current' = c  OBVIOUS
<1>4. /\ mmio' \in Seq(Write) /\ Reports'
      /\ EqArming' = EqArming /\ \A q \in CQS : Arming(q)' = Arming(q)
      /\ cq_cons_ptr' \in [CQS -> Nat]
      /\ \A q \in CQS : cq_cons_ptr[q] <= cq_cons_ptr'[q] /\ cq_cons_ptr'[q] <= cq_seen[q]
  <2>1. /\ cq_cons_ptr \in [CQS -> Nat] /\ cq_seen \in [CQS -> Nat] /\ mmio \in Seq(Write)
        /\ \A q \in CQS : cq_cons_ptr[q] <= cq_seen[q]
        /\ eq_cons_ptr \in Nat
    BY <1>2 DEF TypeOK, Write
  <2>2. CASE port = "up"
    <3> DEFINE w == write("cq_cons", c, cq_seen[c])
    <3>1. mmio' = Append(mmio, w) /\ cq_cons_ptr' = [cq_cons_ptr EXCEPT ![c] = cq_seen[c]]
      BY <2>2
    <3>2. /\ w \in Write /\ w.reg = "cq_cons" /\ w.cq = c /\ w.val = cq_seen[c]
      BY <1>1, <2>1 DEF write, Write
    <3> HIDE DEF w, c
    <3>3. /\ cq_cons_ptr' \in [CQS -> Nat]
          /\ \A q \in CQS : cq_cons_ptr[q] <= cq_cons_ptr'[q] /\ cq_cons_ptr'[q] <= cq_seen[q]
          /\ cq_cons_ptr'[c] = cq_seen[c]
      BY <1>1, <2>1, <3>1
    <3>4. /\ mmio' \in Seq(Write) /\ Reports'
          /\ EqArming' = EqArming + CountIf(w.reg = "eq_arm")
          /\ \A q \in CQS : Arming(q)' = Arming(q) + CountIf(w.reg = "cq_arm" /\ w.cq = q)
      BY <1>1, <2>1, <3>1, <3>2, <3>3, PostStep
    <3>5. CountIf(w.reg = "eq_arm") = 0 /\ \A q \in CQS : CountIf(w.reg = "cq_arm" /\ w.cq = q) = 0
      BY <3>2 DEF CountIf
    <3>6. EqArming \in Nat /\ \A q \in CQS : Arming(q) \in Nat  BY <1>2 DEF Counted
    <3>7. QED  BY <3>3, <3>4, <3>5, <3>6
  <2>3. CASE port # "up"
    <3>1. mmio' = mmio /\ cq_cons_ptr' = cq_cons_ptr  BY <2>3
    <3>2. Reports'  BY <3>1 DEF IInv, Reports, Reported
    <3>3. EqArming' = EqArming /\ \A q \in CQS : Arming(q)' = Arming(q)
      BY <3>1 DEF EqArming, Arming
    <3>4. QED  BY <2>1, <3>1, <3>2, <3>3
  <2>4. QED  BY <2>2, <2>3
<1> HIDE DEF c
<1>5. TypeOK'
  <2>1. \A q \in CQS : cq_cons'[q] <= cq_cons_ptr'[q]
    <3>1. \A q \in CQS : cq_cons[q] \in Nat /\ cq_cons_ptr[q] \in Nat /\ cq_cons[q] <= cq_cons_ptr[q]
      BY <1>2 DEF TypeOK
    <3>2. QED  BY <1>4, <3>1
  <2>2. current' # NoQueue  BY <1>1, <1>3, Queues
  <2>3. QED  BY <1>1, <1>2, <1>3, <1>4, <2>1, <2>2 DEF TypeOK, Write
<1>6. EventPointers'  BY <1>1, <1>3 DEF IInv, EventPointers, eq_seen, Records, c
<1>7. EventRecords' /\ CompletionRecords'
  BY DEF IInv, EventRecords, EventsBefore, eq_seen, Records, CompletionRecords
<1>8. Counted'  BY <1>5, PrimedViews
<1>9. OneEventPerQueue'
  <2>1. ASSUME NEW q \in CQS PROVE CqTokens(q)' = CqTokens(q)
    <3>1. InFifo(q)' = InFifo(q) /\ InDma(q)' = InDma(q) /\ Pending(q)' = Pending(q)
      BY DEF InFifo, InDma, Pending, eq_seen, Records
    <3>2. QED  BY <1>2, <1>4, <1>8, <3>1 DEF Counted
  <2>2. QED  BY <2>1 DEF IInv, OneEventPerQueue
<1>10. OneInterrupt'
  <2>1. CountIf(task # "idle") = 1 /\ CountIf(task' # "idle") = 1  BY <1>3 DEF CountIf
  <2>2. QED  BY <1>4, <1>8, <2>1, Tokens DEF OneInterrupt, Counted
<1>11. QED  BY <1>4, <1>5, <1>6, <1>7, <1>9, <1>10 DEF IInv

(* The event is done with: its token goes to the write that arms the queue. *)
LEMMA RearmCqStep ==
    ASSUME IInv, RearmCq
    PROVE  IInv'
<1> USE DEF RearmCq, memoryVars, deviceVars
<1> DEFINE w == write("cq_arm", current, 0)
<1>1. TypeOK /\ Counted  BY Tokens
<1>2. /\ current \in CQS /\ eq_next < eq_seen /\ eq_buf[Eq!slot(eq_next)].index = current
  BY <1>1 DEF IInv, EventPointers, TypeOK
<1>3. /\ eq_next \in Nat /\ eq_seen \in Nat /\ EQ_SIZE \in Nat \ {0} /\ eq_seen <= eq_next + EQ_SIZE
      /\ eq_next' = eq_next + 1 /\ eq_seen' = eq_seen
  BY Order DEF eq_seen, Records
<1>4. w \in Write /\ w.reg = "cq_arm" /\ w.cq = current  BY <1>2 DEF write, Write
<1>5. mmio' = Append(mmio, w)  OBVIOUS
<1> HIDE DEF w
<1>6. /\ mmio' \in Seq(Write) /\ Reports' /\ EqArming' = EqArming
      /\ \A q \in CQS : Arming(q)' = Arming(q) + CountIf(q = current)
  <2>1. /\ eq_cons_ptr \in Nat /\ cq_cons_ptr \in [CQS -> Nat]
        /\ eq_cons_ptr <= eq_cons_ptr /\ \A q \in CQS : cq_cons_ptr[q] <= cq_cons_ptr[q]
    BY <1>1 DEF TypeOK
  <2>2. /\ mmio' \in Seq(Write) /\ Reports'
        /\ EqArming' = EqArming + CountIf(w.reg = "eq_arm")
        /\ \A q \in CQS : Arming(q)' = Arming(q) + CountIf(w.reg = "cq_arm" /\ w.cq = q)
    BY <1>2, <1>4, <1>5, <2>1, PostStep
  <2>3. /\ CountIf(w.reg = "eq_arm") = 0
        /\ \A q \in CQS : CountIf(w.reg = "cq_arm" /\ w.cq = q) = CountIf(q = current)
    BY <1>4 DEF CountIf
  <2>4. EqArming \in Nat  BY <1>1 DEF Counted
  <2>5. QED  BY <2>2, <2>3, <2>4
<1>7. TypeOK'
  <2>1. task' = "eq" /\ current' = NoQueue  OBVIOUS
  <2>2. (task' = "cq") = (current' # NoQueue)  BY <2>1
  <2>3. task' \in {"idle", "eq", "cq", "report"} /\ current' \in CQS \cup {NoQueue} /\ eq_next' \in Nat
    BY <1>3, <2>1
  <2>4. QED  BY <1>1, <1>6, <2>2, <2>3 DEF TypeOK, Write
<1>8. EventPointers'
  <2>1. eq_cons_ptr \in Nat /\ eq_cons_ptr <= eq_next + 1  BY Order
  <2>2. QED  BY <1>2, <1>3, <2>1 DEF IInv, EventPointers
<1>9. EventRecords'
  <2>1. ASSUME NEW p \in eq_next + 1..eq_seen - 1
        PROVE  eq_buf[Eq!slot(p)].phase = Eq!phase(p) /\ eq_buf[Eq!slot(p)].index \in CQS
    <3>1. p \in eq_next..eq_seen - 1  BY <1>3
    <3>2. QED  BY <3>1 DEF IInv, EventRecords
  <2>2. ASSUME NEW p \in eq_seen..eq_next + 1 + EQ_SIZE - 1
        PROVE  eq_buf[Eq!slot(p)].phase # Eq!phase(p)
    <3>1. CASE p < eq_next + EQ_SIZE
      <4>1. p \in eq_seen..eq_next + EQ_SIZE - 1  BY <1>3, <3>1
      <4>2. QED  BY <4>1 DEF IInv, EventRecords
    <3>2. CASE p = eq_next + EQ_SIZE
      <4>1. eq_next \in eq_next..eq_seen - 1  BY <1>2, <1>3
      <4>2. eq_buf[Eq!slot(eq_next)].phase = Eq!phase(eq_next)  BY <4>1 DEF IInv, EventRecords
      <4>3. QED  BY <1>3, <3>2, <4>2, EqSlotFacts
    <3>3. QED  BY <1>3, <3>1, <3>2
  <2>3. (\A i \in Records("event") : dma[i].ptr = eq_seen + EventsBefore(i))'
    BY DEF IInv, EventRecords, EventsBefore, Records, eq_seen
  <2>4. QED  BY <1>3, <2>1, <2>2, <2>3 DEF EventRecords
<1>10. CompletionRecords'  BY DEF IInv, CompletionRecords, Records
<1>11. Counted'  BY <1>7, PrimedViews
<1>12. OneEventPerQueue'
  <2>1. ASSUME NEW q \in CQS PROVE CqTokens(q)' = CqTokens(q)
    <3>1. InFifo(q)' = InFifo(q) /\ InDma(q)' = InDma(q)  BY DEF InFifo, InDma
    <3>2. IsFiniteSet(Pending(q)) /\ Cardinality(Pending(q)) \in Nat  BY PendingFacts
    <3>3. Pending(q)' = Pending(q) \ {eq_next}  BY <1>3 DEF Pending
    <3>4. eq_next \in Pending(q) <=> q = current
      <4>1. eq_next \in eq_next..eq_seen - 1  BY <1>2, <1>3
      <4>2. QED  BY <1>2, <4>1 DEF Pending
    <3>5. Cardinality(Pending(q)') = Cardinality(Pending(q)) - CountIf(q = current)
      BY <3>2, <3>3, <3>4, FS_RemoveElement DEF CountIf
    <3>6. CountIf(q = current) \in Nat  BY DEF CountIf
    <3>7. CountIf(cq_armed'[q]) = CountIf(cq_armed[q]) /\ CountIf(cq_armed[q]) \in Nat  BY DEF CountIf
    <3>8. CqTokens(q) = CountIf(cq_armed[q]) + InFifo(q) + InDma(q) + Cardinality(Pending(q)) + Arming(q)
      BY <1>1 DEF Counted
    <3>9. CqTokens(q)' = CountIf(cq_armed[q]) + InFifo(q) + InDma(q)
                         + (Cardinality(Pending(q)) - CountIf(q = current)) + (Arming(q) + CountIf(q = current))
      BY <1>6, <1>11, <3>1, <3>5, <3>7 DEF Counted
    <3>10. InFifo(q) \in Nat /\ InDma(q) \in Nat /\ Arming(q) \in Nat  BY <1>1 DEF Counted
    <3>11. QED  BY <3>2, <3>6, <3>7, <3>8, <3>9, <3>10
  <2>2. QED  BY <2>1 DEF IInv, OneEventPerQueue
<1>13. OneInterrupt'
  <2>1. CountIf(task # "idle") = 1 /\ CountIf(task' # "idle") = 1  BY DEF CountIf
  <2>2. QED  BY <1>6, <1>11, <2>1, Tokens DEF OneInterrupt, Counted
<1>14. QED  BY <1>6, <1>7, <1>8, <1>9, <1>10, <1>12, <1>13 DEF IInv

(* How far the driver came is posted and kept. *)
LEMMA EqEmptyStep ==
    ASSUME IInv, EqEmpty
    PROVE  IInv'
<1> USE DEF EqEmpty, memoryVars, deviceVars
<1> DEFINE w == write("eq_cons", NoQueue, eq_next)
<1>1. TypeOK /\ Counted  BY Tokens
<1>2. /\ eq_next \in Nat /\ eq_cons_ptr \in Nat /\ eq_cons_ptr <= eq_next /\ eq_cons <= eq_next
  BY Order
<1>3. w \in Write /\ w.reg = "eq_cons" /\ w.cq = NoQueue /\ w.val = eq_next
  BY <1>2 DEF write, Write
<1>4. mmio' = Append(mmio, w) /\ eq_cons_ptr' = eq_next /\ task = "eq" /\ task' = "report"  OBVIOUS
<1> HIDE DEF w
<1>5. /\ mmio' \in Seq(Write) /\ Reports' /\ EqArming' = EqArming
      /\ \A q \in CQS : Arming(q)' = Arming(q)
  <2>1. cq_cons_ptr \in [CQS -> Nat] /\ \A q \in CQS : cq_cons_ptr[q] <= cq_cons_ptr[q]
    BY <1>1 DEF TypeOK
  <2>2. NoQueue \notin CQS  BY Queues
  <2>3. /\ mmio' \in Seq(Write) /\ Reports'
        /\ EqArming' = EqArming + CountIf(w.reg = "eq_arm")
        /\ \A q \in CQS : Arming(q)' = Arming(q) + CountIf(w.reg = "cq_arm" /\ w.cq = q)
    BY <1>2, <1>3, <1>4, <2>1, <2>2, PostStep
  <2>4. /\ CountIf(w.reg = "eq_arm") = 0
        /\ \A q \in CQS : CountIf(w.reg = "cq_arm" /\ w.cq = q) = 0
    BY <1>3 DEF CountIf
  <2>5. EqArming \in Nat /\ \A q \in CQS : Arming(q) \in Nat  BY <1>1 DEF Counted
  <2>6. QED  BY <2>3, <2>4, <2>5
<1>6. TypeOK'
  <2>1. current = NoQueue  BY <1>1, <1>4 DEF TypeOK
  <2>2. (task' = "cq") = (current' # NoQueue)  BY <1>4, <2>1
  <2>3. QED  BY <1>1, <1>2, <1>4, <1>5, <2>2 DEF TypeOK, Write
<1>7. EventPointers'  BY <1>2, <1>4 DEF IInv, EventPointers, eq_seen, Records
<1>8. EventRecords' /\ CompletionRecords'
  BY DEF IInv, EventRecords, EventsBefore, eq_seen, Records, CompletionRecords
<1>9. Counted'  BY <1>6, PrimedViews
<1>10. OneEventPerQueue'
  <2>1. ASSUME NEW q \in CQS PROVE CqTokens(q)' = CqTokens(q)
    <3>1. InFifo(q)' = InFifo(q) /\ InDma(q)' = InDma(q) /\ Pending(q)' = Pending(q)
      BY DEF InFifo, InDma, Pending, eq_seen, Records
    <3>2. QED  BY <1>1, <1>5, <1>9, <3>1 DEF Counted
  <2>2. QED  BY <2>1 DEF IInv, OneEventPerQueue
<1>11. OneInterrupt'
  <2>1. CountIf(task # "idle") = 1 /\ CountIf(task' # "idle") = 1  BY <1>4 DEF CountIf
  <2>2. QED  BY <1>5, <1>9, <2>1, Tokens DEF OneInterrupt, Counted
<1>12. QED  BY <1>5, <1>6, <1>7, <1>8, <1>10, <1>11 DEF IInv

(* The handler that ends leaves its token to the write that arms the queue. *)
LEMMA RearmEqStep ==
    ASSUME IInv, RearmEq
    PROVE  IInv'
<1> USE DEF RearmEq, memoryVars, deviceVars
<1> DEFINE w == write("eq_arm", NoQueue, 0)
<1>1. TypeOK /\ Counted  BY Tokens
<1>2. w \in Write /\ w.reg = "eq_arm" /\ w.cq = NoQueue  BY DEF write, Write
<1>3. mmio' = Append(mmio, w) /\ task = "report" /\ task' = "idle"  OBVIOUS
<1> HIDE DEF w
<1>4. /\ mmio' \in Seq(Write) /\ Reports' /\ EqArming' = EqArming + 1
      /\ \A q \in CQS : Arming(q)' = Arming(q)
  <2>1. /\ eq_cons_ptr \in Nat /\ eq_cons_ptr <= eq_cons_ptr
        /\ cq_cons_ptr \in [CQS -> Nat] /\ \A q \in CQS : cq_cons_ptr[q] <= cq_cons_ptr[q]
    BY <1>1 DEF TypeOK
  <2>2. NoQueue \notin CQS  BY Queues
  <2>3. /\ mmio' \in Seq(Write) /\ Reports'
        /\ EqArming' = EqArming + CountIf(w.reg = "eq_arm")
        /\ \A q \in CQS : Arming(q)' = Arming(q) + CountIf(w.reg = "cq_arm" /\ w.cq = q)
    BY <1>2, <1>3, <2>1, <2>2, PostStep
  <2>4. /\ CountIf(w.reg = "eq_arm") = 1
        /\ \A q \in CQS : CountIf(w.reg = "cq_arm" /\ w.cq = q) = 0
    BY <1>2 DEF CountIf
  <2>5. \A q \in CQS : Arming(q) \in Nat  BY <1>1 DEF Counted
  <2>6. QED  BY <2>3, <2>4, <2>5
<1>5. TypeOK'
  <2>1. current = NoQueue  BY <1>1, <1>3 DEF TypeOK
  <2>2. (task' = "cq") = (current' # NoQueue)  BY <1>3, <2>1
  <2>3. QED  BY <1>1, <1>3, <1>4, <2>2 DEF TypeOK, Write
<1>6. EventPointers'  BY <1>3 DEF IInv, EventPointers, eq_seen, Records
<1>7. EventRecords' /\ CompletionRecords'
  BY DEF IInv, EventRecords, EventsBefore, eq_seen, Records, CompletionRecords
<1>8. Counted'  BY <1>5, PrimedViews
<1>9. OneEventPerQueue'
  <2>1. ASSUME NEW q \in CQS PROVE CqTokens(q)' = CqTokens(q)
    <3>1. InFifo(q)' = InFifo(q) /\ InDma(q)' = InDma(q) /\ Pending(q)' = Pending(q)
      BY DEF InFifo, InDma, Pending, eq_seen, Records
    <3>2. QED  BY <1>1, <1>4, <1>8, <3>1 DEF Counted
  <2>2. QED  BY <2>1 DEF IInv, OneEventPerQueue
<1>10. OneInterrupt'
  <2>1. CountIf(task # "idle") = 1 /\ CountIf(task' # "idle") = 0  BY <1>3 DEF CountIf
  <2>2. CountIf(eq_armed) + msi + interrupts + 0 + (EqArming + 1) = 1  BY <2>1, Tokens
  <2>3. QED  BY <1>4, <1>8, <2>1, <2>2 DEF OneInterrupt, Counted
<1>11. QED  BY <1>4, <1>5, <1>6, <1>7, <1>9, <1>10 DEF IInv

(***************************************************************************)
(* The device's steps                                                      *)
(***************************************************************************)
(* A record that sets out comes behind those on their way.                 *)
LEMMA SendRecord ==
    ASSUME IInv, NEW r \in Record, dma' = Append(dma, r),
           eq_prod' = IF r.kind = "event" THEN eq_prod + 1 ELSE eq_prod,
           r.kind = "event" => r.ptr = eq_prod, TypeOK'
    PROVE  /\ Counted' /\ eq_seen' = eq_seen /\ EventOrder'
           /\ \A q \in CQS : InDma(q)' = InDma(q) + CountIf(r.kind = "event" /\ r.cq = q)
<1> DEFINE n == Len(dma)
<1>1. TypeOK /\ Counted /\ Counted'  BY Tokens, PrimedViews
<1>2. dma \in Seq(Record)  BY <1>1 DEF TypeOK, Record
<1>3. /\ n \in Nat /\ Len(dma') = n + 1 /\ dma'[n + 1] = r
      /\ \A i \in 1..n : dma'[i] = dma[i]
      /\ \A X : /\ \A k \in 0..n : Count(dma', X, k) = Count(dma, X, k)
                /\ Count(dma', X, n + 1) = Count(dma, X, n) + CountIf(r \in X)
  BY <1>2, CountAppend
<1> HIDE DEF n
<1>4. /\ r \in Events <=> r.kind = "event"
      /\ \A q \in CQS : r \in EventsOf(q) <=> r.kind = "event" /\ r.cq = q
  BY DEF Record, Events, EventsOf
<1>5. AllInDma' = AllInDma + CountIf(r.kind = "event")
  <2>1. CountIf(r \in Events) = CountIf(r.kind = "event")  BY <1>4 DEF CountIf
  <2>2. QED  BY <1>3, <2>1 DEF AllInDma, n
<1>6. ASSUME NEW q \in CQS PROVE InDma(q)' = InDma(q) + CountIf(r.kind = "event" /\ r.cq = q)
  <2>1. CountIf(r \in EventsOf(q)) = CountIf(r.kind = "event" /\ r.cq = q)  BY <1>4 DEF CountIf
  <2>2. QED  BY <1>3, <2>1 DEF InDma, n
<1>7. eq_prod \in Nat /\ AllInDma \in Nat /\ eq_seen = eq_prod - AllInDma  BY Order
<1>8. eq_seen' = eq_seen
  <2>1. eq_seen' = eq_prod' - AllInDma'  BY <1>1 DEF Counted
  <2>2. QED  BY <1>5, <1>7, <2>1 DEF CountIf
<1>9. ASSUME NEW i \in 1..Len(dma'), dma'[i] \in Events
      PROVE  dma'[i].ptr = eq_seen + Count(dma', Events, i - 1)
  <2>1. i - 1 \in 0..n  BY <1>3
  <2>2. Count(dma', Events, i - 1) = Count(dma, Events, i - 1)  BY <1>3, <2>1
  <2>3. CASE i \in 1..n
    <3>1. EventOrder  BY <1>1 DEF IInv, EventRecords, Counted
    <3>2. QED  BY <1>3, <1>9, <2>2, <2>3, <3>1 DEF EventOrder, n
  <2>4. CASE i = n + 1
    <3>1. dma'[i].ptr = eq_prod  BY <1>3, <1>4, <1>9, <2>4
    <3>2. i - 1 = n  BY <1>3, <2>4
    <3>3. Count(dma, Events, i - 1) = AllInDma  BY <3>2 DEF AllInDma, n
    <3>4. QED  BY <1>7, <2>2, <3>1, <3>3
  <2>5. QED  BY <1>3, <2>3, <2>4
<1>10. EventOrder'  BY <1>8, <1>9 DEF EventOrder
<1>11. QED  BY <1>1, <1>6, <1>8, <1>10

LEMMA SendCompletion ==
    ASSUME IInv, NEW r \in Record, dma' = Append(dma, r), cq_seen' = cq_seen,
           cq_prod' \in [CQS -> Nat], \A q \in CQS : cq_prod[q] <= cq_prod'[q],
           r.kind = "cpl" => r.ptr = cq_prod[r.cq] /\ cq_prod'[r.cq] = cq_prod[r.cq] + 1
    PROVE  CompletionRecords'
<1> DEFINE n == Len(dma)
<1>1. TypeOK /\ CompletionRecords  BY DEF IInv
<1>2. dma \in Seq(Record)  BY <1>1 DEF TypeOK, Record
<1>3. /\ n \in Nat /\ Len(dma') = n + 1 /\ dma'[n + 1] = r
      /\ \A i \in 1..n : dma'[i] = dma[i]
  BY <1>2, AppendProperties, LenProperties
<1>4. \A i \in 1..n : dma[i].cq \in CQS /\ dma[i].ptr \in Nat
  <2>1. \A i \in 1..n : dma[i] \in Record  BY <1>2, ElementOfSeq
  <2>2. QED  BY <2>1 DEF Record
<1>5. \A i \in 1..n : dma[i].kind = "cpl" =>
        /\ cq_seen[dma[i].cq] <= dma[i].ptr /\ dma[i].ptr < cq_prod[dma[i].cq]
        /\ \A j \in 1..n : dma[j].kind = "cpl" /\ j < i /\ dma[j].cq = dma[i].cq => dma[j].ptr < dma[i].ptr
  BY <1>1 DEF CompletionRecords, Records, n
<1>6. /\ \A q \in CQS : cq_seen[q] \in Nat /\ cq_prod[q] \in Nat /\ cq_prod'[q] \in Nat /\ cq_seen[q] <= cq_prod[q]
      /\ r.cq \in CQS /\ r.ptr \in Nat
  BY <1>1 DEF TypeOK, Record
<1> HIDE DEF n
<1>7. ASSUME NEW i \in 1..n + 1, dma'[i].kind = "cpl"
      PROVE  /\ cq_seen[dma'[i].cq] <= dma'[i].ptr /\ dma'[i].ptr < cq_prod'[dma'[i].cq]
             /\ \A j \in 1..n + 1 : dma'[j].kind = "cpl" /\ j < i /\ dma'[j].cq = dma'[i].cq
                    => dma'[j].ptr < dma'[i].ptr
  <2>1. CASE i \in 1..n
    <3>1. dma'[i] = dma[i] /\ dma[i].cq \in CQS /\ dma[i].ptr \in Nat  BY <1>3, <1>4, <2>1
    <3>2. cq_seen[dma[i].cq] <= dma[i].ptr /\ dma[i].ptr < cq_prod[dma[i].cq]  BY <1>5, <1>7, <2>1, <3>1
    <3>3. dma[i].ptr < cq_prod'[dma[i].cq]  BY <1>6, <3>1, <3>2
    <3>4. \A j \in 1..n + 1 : j < i => j \in 1..n /\ dma'[j] = dma[j]  BY <1>3, <2>1
    <3>5. \A j \in 1..n + 1 : dma'[j].kind = "cpl" /\ j < i /\ dma'[j].cq = dma'[i].cq
                    => dma'[j].ptr < dma'[i].ptr
      BY <1>5, <1>7, <2>1, <3>1, <3>4
    <3>6. QED  BY <3>1, <3>2, <3>3, <3>5
  <2>2. CASE i = n + 1
    <3>1. dma'[i] = r /\ r.kind = "cpl" /\ r.ptr = cq_prod[r.cq] /\ cq_prod'[r.cq] = r.ptr + 1
      BY <1>3, <1>7, <2>2
    <3>2. cq_seen[r.cq] <= r.ptr /\ r.ptr < cq_prod'[r.cq]  BY <1>6, <3>1
    <3>3. ASSUME NEW j \in 1..n + 1, dma'[j].kind = "cpl", j < i, dma'[j].cq = dma'[i].cq
          PROVE  dma'[j].ptr < dma'[i].ptr
      <4>1. j \in 1..n  BY <1>3, <2>2, <3>3
      <4>2. dma'[j] = dma[j]  BY <1>3, <4>1
      <4>3. dma[j].ptr < cq_prod[dma[j].cq]  BY <1>5, <3>3, <4>1, <4>2
      <4>4. QED  BY <3>1, <3>3, <4>2, <4>3
    <3>4. QED  BY <3>1, <3>2, <3>3
  <2>3. QED  BY <1>3, <2>1, <2>2
<1>8. QED  BY <1>3, <1>7 DEF CompletionRecords, Records

(* An armed queue's token goes to the event it fires.                      *)
LEMMA CompleteStep ==
    ASSUME IInv, NEW c \in CQS, Complete(c)
    PROVE  IInv'
<1> USE DEF driverVars
<1> DEFINE r == [kind |-> "cpl", cq |-> c, ptr |-> cq_prod[c]]
<1>1. TypeOK /\ Counted  BY Tokens
<1>2. /\ cq_prod \in [CQS -> Nat] /\ cq_armed \in [CQS -> BOOLEAN] /\ event_fifo \in Seq(CQS)
      /\ dma \in Seq(Record) /\ \A q \in CQS : cq_seen[q] \in Nat /\ cq_seen[q] <= cq_prod[q]
  BY <1>1 DEF TypeOK, Record
<1>3. r \in Record /\ r.kind = "cpl" /\ r.cq = c /\ r.ptr = cq_prod[c]  BY <1>2 DEF Record
<1>4. /\ dma' = Append(dma, r) /\ cq_prod' = [cq_prod EXCEPT ![c] = @ + 1]
      /\ event_fifo' = IF cq_armed[c] THEN Append(event_fifo, c) ELSE event_fifo
      /\ cq_armed' = [cq_armed EXCEPT ![c] = FALSE]
      /\ UNCHANGED <<driverVars, eq_buf, cq_seen, cq_cons, eq_prod, eq_cons, eq_armed, mmio, msi, dropped>>
  BY DEF Complete
<1> HIDE DEF r
<1>5. /\ cq_prod' \in [CQS -> Nat] /\ cq_prod'[c] = cq_prod[c] + 1
      /\ \A q \in CQS : cq_prod[q] <= cq_prod'[q] /\ cq_seen[q] <= cq_prod'[q]
      /\ cq_armed' \in [CQS -> BOOLEAN] /\ dma' \in Seq(Record) /\ event_fifo' \in Seq(CQS)
  <2>1. cq_prod' \in [CQS -> Nat] /\ cq_prod'[c] = cq_prod[c] + 1 /\ cq_armed' \in [CQS -> BOOLEAN]
    BY <1>2, <1>4
  <2>2. \A q \in CQS : cq_prod[q] \in Nat /\ (cq_prod'[q] = cq_prod[q] \/ cq_prod'[q] = cq_prod[q] + 1)
    BY <1>2, <1>4
  <2>3. \A q \in CQS : cq_prod[q] <= cq_prod'[q] /\ cq_seen[q] <= cq_prod'[q]  BY <1>2, <2>2
  <2>4. dma' \in Seq(Record) /\ event_fifo' \in Seq(CQS)  BY <1>2, <1>3, <1>4, AppendProperties
  <2>5. QED  BY <2>1, <2>3, <2>4
<1>6. TypeOK'
  <2>1. UNCHANGED <<driverVars, eq_buf, cq_seen, cq_cons, eq_prod, eq_cons, eq_armed, mmio, msi, dropped>>
    BY <1>4
  <2>2. \A f \in {cq_cons_ptr, cq_seen, cq_prod, cq_cons}' : f \in [CQS -> Nat]
    BY <1>1, <1>5, <2>1 DEF TypeOK
  <2>3. \A q \in CQS : /\ cq_cons'[q] <= cq_cons_ptr'[q]
                        /\ cq_cons_ptr'[q] <= cq_seen'[q]
                        /\ cq_seen'[q] <= cq_prod'[q]
    BY <1>1, <1>5, <2>1 DEF TypeOK
  <2>4. /\ dma' \in Seq([kind : {"cpl", "event"}, cq : CQS, ptr : Nat])
        /\ event_fifo' \in Seq(CQS) /\ cq_armed' \in [CQS -> BOOLEAN]
    BY <1>5 DEF Record
  <2>5. QED  BY <1>1, <2>1, <2>2, <2>3, <2>4 DEF TypeOK
<1>7. /\ Counted' /\ eq_seen' = eq_seen /\ EventOrder' /\ \A q \in CQS : InDma(q)' = InDma(q)
  <2>1. /\ Counted' /\ eq_seen' = eq_seen /\ EventOrder'
        /\ \A q \in CQS : InDma(q)' = InDma(q) + CountIf(r.kind = "event" /\ r.cq = q)
    BY <1>3, <1>4, <1>6, SendRecord
  <2>2. \A q \in CQS : CountIf(r.kind = "event" /\ r.cq = q) = 0  BY <1>3 DEF CountIf
  <2>3. \A q \in CQS : InDma(q) \in Nat  BY <1>1 DEF Counted
  <2>4. QED  BY <2>1, <2>2, <2>3
<1>8. EventPointers'  BY <1>4, <1>7 DEF IInv, EventPointers
<1>9. EventRecords'
  <2>1. (\A i \in Records("event") : dma[i].ptr = eq_seen + EventsBefore(i))'  BY <1>7 DEF Counted
  <2>2. QED  BY <1>4, <1>7, <2>1 DEF IInv, EventRecords
<1>10. CompletionRecords'  BY <1>3, <1>4, <1>5, SendCompletion
<1>11. Reports'  BY <1>4 DEF IInv, Reports, Reported
<1>12. OneEventPerQueue'
  <2>1. ASSUME NEW q \in CQS PROVE CqTokens(q)' = CqTokens(q)
    <3>1. Pending(q)' = Pending(q) /\ Arming(q)' = Arming(q)  BY <1>4, <1>7 DEF Pending, Arming
    <3>2. CountIf(cq_armed'[q]) + InFifo(q)' = CountIf(cq_armed[q]) + InFifo(q)
      <4>1. InFifo(q) \in Nat  BY <1>1 DEF Counted
      <4>2. CASE cq_armed[c]
        <5>1. InFifo(q)' = InFifo(q) + CountIf(c \in {q})
          BY <1>2, <1>4, <4>2, CountAppend DEF InFifo
        <5>2. CASE q = c
          <6>1. CountIf(c \in {q}) = 1 /\ CountIf(cq_armed'[q]) = 0 /\ CountIf(cq_armed[q]) = 1
            BY <1>2, <1>4, <4>2, <5>2 DEF CountIf
          <6>2. QED  BY <4>1, <5>1, <6>1
        <5>3. CASE q # c
          <6>1. CountIf(c \in {q}) = 0 /\ cq_armed'[q] = cq_armed[q]
            BY <1>2, <1>4, <5>3 DEF CountIf
          <6>2. QED  BY <4>1, <5>1, <6>1
        <5>4. QED  BY <5>2, <5>3
      <4>3. CASE ~cq_armed[c]
        <5>1. InFifo(q)' = InFifo(q)  BY <1>4, <4>3 DEF InFifo
        <5>2. cq_armed'[q] = cq_armed[q]  BY <1>2, <1>4, <4>3
        <5>3. QED  BY <5>1, <5>2
      <4>4. QED  BY <4>2, <4>3
    <3>3. InFifo(q) \in Nat /\ InFifo(q)' \in Nat /\ CountIf(cq_armed[q]) \in Nat /\ CountIf(cq_armed'[q]) \in Nat
      BY <1>1, <1>7 DEF Counted, CountIf
    <3>4. CqTokens(q) = CountIf(cq_armed[q]) + InFifo(q) + InDma(q) + Cardinality(Pending(q)) + Arming(q)
      BY <1>1 DEF Counted
    <3>5. CqTokens(q)' = CountIf(cq_armed'[q]) + InFifo(q)' + InDma(q) + Cardinality(Pending(q)) + Arming(q)
      BY <1>7, <3>1 DEF Counted
    <3>6. QED  BY <3>2, <3>3, <3>4, <3>5
  <2>2. QED  BY <1>4, <2>1 DEF IInv, OneEventPerQueue
<1>13. OneInterrupt'  BY <1>4 DEF IInv, OneInterrupt
<1>14. QED  BY <1>6, <1>8, <1>9, <1>10, <1>11, <1>12, <1>13 DEF IInv

(* The oldest event leaves the FIFO. *)
LEMMA TakeEvent ==
    ASSUME IInv, event_fifo # <<>>, event_fifo' = Tail(event_fifo)
    PROVE  /\ Head(event_fifo) \in CQS /\ event_fifo' \in Seq(CQS)
           /\ \A q \in CQS : InFifo(q) = InFifo(q)' + CountIf(q = Head(event_fifo))
<1> DEFINE n == Len(event_fifo)
<1>1. event_fifo \in Seq(CQS)  BY DEF IInv, TypeOK
<1>2. /\ event_fifo' \in Seq(CQS) /\ Head(event_fifo) = event_fifo[1] /\ event_fifo[1] \in CQS
      /\ n \in Nat \ {0} /\ Len(event_fifo') = n - 1
      /\ \A X : \A k \in 0..n - 1 :
            Count(event_fifo, X, k + 1) = Count(event_fifo', X, k) + CountIf(event_fifo[1] \in X)
  BY <1>1, CountTail
<1>3. n - 1 \in 0..n - 1 /\ n - 1 + 1 = n  BY <1>2
<1>4. ASSUME NEW q \in CQS PROVE InFifo(q) = InFifo(q)' + CountIf(q = Head(event_fifo))
  <2>1. CountIf(event_fifo[1] \in {q}) = CountIf(q = Head(event_fifo))  BY <1>2 DEF CountIf
  <2>2. Count(event_fifo, {q}, n) = Count(event_fifo', {q}, n - 1) + CountIf(event_fifo[1] \in {q})
    BY <1>2, <1>3
  <2>3. QED  BY <1>2, <2>1, <2>2 DEF InFifo, n
<1>5. QED  BY <1>2, <1>4

(* The event queue has room: the token goes to the record, and that of an  *)
(* armed event queue to the interrupt.                                     *)
LEMMA EnqueueStep ==
    ASSUME IInv, EnqueueEvent, ~Eq!queue_full(eq_prod, eq_cons)
    PROVE  IInv'
<1> USE DEF driverVars
<1> DEFINE h == Head(event_fifo)
           r == [kind |-> "event", cq |-> h, ptr |-> eq_prod]
<1>1. TypeOK /\ Counted  BY Tokens
<1>2. /\ event_fifo # <<>> /\ event_fifo' = Tail(event_fifo)
      /\ eq_prod' = eq_prod + 1 /\ dma' = Append(dma, r)
      /\ msi' = (IF eq_armed THEN msi + 1 ELSE msi) /\ eq_armed' = FALSE
      /\ UNCHANGED <<dropped, driverVars, eq_buf, cq_seen, cq_prod, cq_cons, cq_armed, eq_cons, mmio>>
  BY DEF EnqueueEvent
<1>3. /\ h \in CQS /\ event_fifo' \in Seq(CQS)
      /\ \A q \in CQS : InFifo(q) = InFifo(q)' + CountIf(q = h)
  BY <1>2, TakeEvent
<1>4. /\ eq_prod \in Nat /\ eq_cons \in Nat /\ EQ_SIZE \in Nat /\ msi \in Nat
      /\ dma \in Seq(Record) /\ cq_prod \in [CQS -> Nat]
  BY <1>1, MqnicEventsAssumption DEF TypeOK, Record
<1>5. eq_prod + 1 <= eq_cons + EQ_SIZE  BY <1>4 DEF Eq!queue_full
<1>6. r \in Record /\ r.kind = "event" /\ r.cq = h /\ r.ptr = eq_prod  BY <1>3, <1>4 DEF Record
<1> HIDE DEF r, h
<1>7. TypeOK'
  <2>1. dma' \in Seq(Record)  BY <1>2, <1>4, <1>6, AppendProperties
  <2>2. msi' \in Nat /\ eq_prod' \in Nat  BY <1>2, <1>4
  <2>3. eq_armed' = FALSE  BY <1>2
  <2>4. eq_armed' \in BOOLEAN  BY <2>3
  <2>5. QED  BY <1>1, <1>2, <1>3, <2>1, <2>2, <2>4 DEF TypeOK, Record
<1>8. /\ Counted' /\ eq_seen' = eq_seen /\ EventOrder'
      /\ \A q \in CQS : InDma(q)' = InDma(q) + CountIf(q = h)
  <2>1. /\ Counted' /\ eq_seen' = eq_seen /\ EventOrder'
        /\ \A q \in CQS : InDma(q)' = InDma(q) + CountIf(r.kind = "event" /\ r.cq = q)
    BY <1>2, <1>6, <1>7, SendRecord
  <2>2. \A q \in CQS : CountIf(r.kind = "event" /\ r.cq = q) = CountIf(q = h)  BY <1>6 DEF CountIf
  <2>3. QED  BY <2>1, <2>2
<1>9. EventPointers'  BY <1>2, <1>5, <1>8 DEF IInv, EventPointers
<1>10. EventRecords'
  <2>1. (\A i \in Records("event") : dma[i].ptr = eq_seen + EventsBefore(i))'  BY <1>8 DEF Counted
  <2>2. QED  BY <1>2, <1>8, <2>1 DEF IInv, EventRecords
<1>11. CompletionRecords'
  <2>1. cq_prod' = cq_prod /\ cq_seen' = cq_seen /\ r.kind # "cpl"  BY <1>2, <1>6
  <2>2. \A q \in CQS : cq_prod[q] <= cq_prod'[q]  BY <1>4, <2>1
  <2>3. QED  BY <1>2, <1>4, <1>6, <2>1, <2>2, SendCompletion
<1>12. Reports'  BY <1>2 DEF IInv, Reports, Reported
<1>13. OneEventPerQueue'
  <2>1. ASSUME NEW q \in CQS PROVE CqTokens(q)' = CqTokens(q)
    <3>1. Pending(q)' = Pending(q) /\ Arming(q)' = Arming(q)  BY <1>2, <1>8 DEF Pending, Arming
    <3>2. /\ InFifo(q)' \in Nat /\ CountIf(cq_armed[q]) \in Nat /\ InDma(q) \in Nat
          /\ CountIf(q = h) \in Nat
      BY <1>1, <1>8 DEF Counted, CountIf
    <3>3. CqTokens(q) = CountIf(cq_armed[q]) + InFifo(q) + InDma(q) + Cardinality(Pending(q)) + Arming(q)
      BY <1>1 DEF Counted
    <3>4. CqTokens(q)' = CountIf(cq_armed[q]) + InFifo(q)' + InDma(q)' + Cardinality(Pending(q)) + Arming(q)
      BY <1>2, <1>8, <3>1 DEF Counted
    <3>5. Cardinality(Pending(q)) \in Nat /\ Arming(q) \in Nat  BY <1>1, PendingFacts DEF Counted
    <3>6. QED  BY <1>3, <1>8, <3>2, <3>3, <3>4, <3>5
  <2>2. QED  BY <1>2, <2>1 DEF IInv, OneEventPerQueue
<1>14. OneInterrupt'
  <2>1. CountIf(eq_armed') + msi' = CountIf(eq_armed) + msi  BY <1>2, <1>4 DEF CountIf
  <2>2. CountIf(eq_armed') \in Nat /\ msi' \in Nat  BY <1>2, <1>4 DEF CountIf
  <2>3. CountIf(eq_armed') + msi' + interrupts + CountIf(task # "idle") + EqArming = 1
    BY <2>1, <2>2, Tokens
  <2>4. EqArming' = EqArming  BY <1>2 DEF EqArming
  <2>5. QED  BY <1>2, <1>8, <2>3, <2>4 DEF OneInterrupt, Counted
<1>15. QED  BY <1>7, <1>9, <1>10, <1>11, <1>12, <1>13, <1>14 DEF IInv

(* A full event queue: the queue of the event has no token any more.       *)
LEMMA DropStep ==
    ASSUME IInv, EnqueueEvent, Eq!queue_full(eq_prod, eq_cons)
    PROVE  IInv'
<1> USE DEF driverVars
<1> DEFINE h == Head(event_fifo)
<1>1. TypeOK /\ Counted  BY Tokens
<1>2. /\ event_fifo # <<>> /\ event_fifo' = Tail(event_fifo) /\ dropped' = dropped \cup {h}
      /\ UNCHANGED <<eq_prod, dma, eq_armed, msi, driverVars, eq_buf, cq_seen, cq_prod, cq_cons, cq_armed, eq_cons, mmio>>
  BY DEF EnqueueEvent
<1>3. /\ h \in CQS /\ event_fifo' \in Seq(CQS)
      /\ \A q \in CQS : InFifo(q) = InFifo(q)' + CountIf(q = h)
  BY <1>2, TakeEvent
<1> HIDE DEF h
<1>4. TypeOK'  BY <1>1, <1>2, <1>3 DEF TypeOK
<1>5. Counted'  BY <1>4, PrimedViews
<1>6. EventPointers'  BY <1>2 DEF IInv, EventPointers, eq_seen, Records
<1>7. EventRecords' /\ CompletionRecords'
  BY <1>2 DEF IInv, EventRecords, EventsBefore, eq_seen, Records, CompletionRecords
<1>8. Reports'  BY <1>2 DEF IInv, Reports, Reported
<1>9. OneEventPerQueue'
  <2>1. ASSUME NEW q \in CQS PROVE CqTokens(q)' = CountIf(q \notin dropped')
    <3>1. Pending(q)' = Pending(q) /\ Arming(q)' = Arming(q) /\ InDma(q)' = InDma(q)
      BY <1>2 DEF Pending, Arming, InDma, eq_seen, Records
    <3>2. /\ InFifo(q)' \in Nat /\ CountIf(cq_armed[q]) \in Nat /\ InDma(q) \in Nat
          /\ Cardinality(Pending(q)) \in Nat /\ Arming(q) \in Nat
      BY <1>1, <1>5, PendingFacts DEF Counted, CountIf
    <3>3. CqTokens(q) = CountIf(cq_armed[q]) + InFifo(q) + InDma(q) + Cardinality(Pending(q)) + Arming(q)
      BY <1>1 DEF Counted
    <3>4. CqTokens(q)' = CountIf(cq_armed[q]) + InFifo(q)' + InDma(q) + Cardinality(Pending(q)) + Arming(q)
      BY <1>2, <1>5, <3>1 DEF Counted
    <3>5. CqTokens(q) = CountIf(q \notin dropped)  BY Tokens
    <3>6. CASE q = h
      <4>1. CountIf(q = h) = 1 /\ CountIf(q \notin dropped') = 0 /\ CountIf(q \notin dropped) <= 1
        BY <1>2, <3>6 DEF CountIf
      <4>2. InFifo(q) = InFifo(q)' + 1  BY <1>3, <4>1
      <4>3. CountIf(q \notin dropped) \in Nat  BY DEF CountIf
      <4>4. QED  BY <3>2, <3>3, <3>4, <3>5, <4>1, <4>2, <4>3
    <3>7. CASE q # h
      <4>1. CountIf(q = h) = 0 /\ CountIf(q \notin dropped') = CountIf(q \notin dropped)
        BY <1>2, <3>7 DEF CountIf
      <4>2. InFifo(q) = InFifo(q)'  BY <1>3, <3>2, <4>1
      <4>3. QED  BY <3>3, <3>4, <3>5, <4>1, <4>2
    <3>8. QED  BY <3>6, <3>7
  <2>2. QED  BY <2>1 DEF OneEventPerQueue
<1>10. OneInterrupt'  BY <1>2 DEF IInv, OneInterrupt
<1>11. QED  BY <1>4, <1>6, <1>7, <1>8, <1>9, <1>10 DEF IInv

(***************************************************************************)
(* Records reach memory                                                    *)
(***************************************************************************)
(* The items of s without the first. *)
Shifted(s, t) == s # <<>> /\ t = Tail(s)

LEMMA LessByOne ==
    ASSUME NEW p \in Nat, NEW a \in Nat, NEW b \in Nat, a = b + 1
    PROVE  p - a < p
  OBVIOUS

LEMMA ReceiveRecord ==
    ASSUME IInv, Shifted(dma, dma'), eq_prod' = eq_prod, TypeOK'
    PROVE  /\ Counted' /\ EventOrder'
           /\ eq_seen' = IF dma[1].kind = "event" THEN eq_seen + 1 ELSE eq_seen
           /\ dma[1].kind = "event" => dma[1].ptr = eq_seen /\ eq_seen < eq_prod
           /\ \A q \in CQS : InDma(q) = InDma(q)' + CountIf(dma[1].kind = "event" /\ dma[1].cq = q)
<1> DEFINE n == Len(dma)
           r == dma[1]
<1>1. TypeOK /\ Counted /\ Counted' /\ EventOrder
  BY Tokens, PrimedViews DEF IInv, EventRecords, Counted
<1>2. dma \in Seq(Record)  BY <1>1 DEF TypeOK, Record
<1>3. /\ dma' \in Seq(Record) /\ r \in Record /\ n \in Nat \ {0} /\ Len(dma') = n - 1
      /\ \A i \in 1..n - 1 : dma'[i] = dma[i + 1] /\ dma[i + 1] \in Record
      /\ \A X : \A k \in 0..n - 1 : Count(dma, X, k + 1) = Count(dma', X, k) + CountIf(r \in X)
  BY <1>2, CountTail DEF Shifted
<1> HIDE DEF n
<1>4. /\ r \in Events <=> r.kind = "event"
      /\ \A q \in CQS : r \in EventsOf(q) <=> r.kind = "event" /\ r.cq = q
  BY <1>3 DEF Record, Events, EventsOf
<1> HIDE DEF r
<1> DEFINE e == CountIf(r \in Events)
<1>5. /\ n - 1 \in 0..n - 1 /\ n - 1 + 1 = n
      /\ e \in Nat /\ (r.kind = "event" => e = 1) /\ (r.kind # "event" => e = 0)
      /\ \A k \in 0..n - 1 : Count(dma, Events, k + 1) = Count(dma', Events, k) + e
  BY <1>3, <1>4 DEF CountIf
<1> HIDE DEF e
<1>6. AllInDma = AllInDma' + e
  <2>1. Count(dma, Events, n) = Count(dma', Events, n - 1) + e  BY <1>5
  <2>2. QED  BY <1>3, <2>1 DEF AllInDma, n
<1>7. ASSUME NEW q \in CQS PROVE InDma(q) = InDma(q)' + CountIf(r.kind = "event" /\ r.cq = q)
  <2>1. CountIf(r \in EventsOf(q)) = CountIf(r.kind = "event" /\ r.cq = q)  BY <1>4 DEF CountIf
  <2>2. Count(dma, EventsOf(q), n) = Count(dma', EventsOf(q), n - 1) + CountIf(r \in EventsOf(q))
    BY <1>3, <1>5
  <2>3. QED  BY <1>3, <2>1, <2>2 DEF InDma, n
<1>8. /\ eq_prod \in Nat /\ AllInDma \in Nat /\ AllInDma' \in Nat /\ eq_seen \in Nat
      /\ eq_seen = eq_prod - AllInDma /\ eq_seen' = eq_prod - AllInDma'
  BY <1>1, Order DEF Counted
<1>9. eq_seen' = eq_seen + e  BY <1>5, <1>6, <1>8
<1>10. eq_seen' = IF r.kind = "event" THEN eq_seen + 1 ELSE eq_seen
  <2>1. CASE r.kind = "event"
    <3>1. e = 1  BY <1>5, <2>1
    <3>2. QED  BY <1>9, <2>1, <3>1
  <2>2. CASE r.kind # "event"
    <3>1. e = 0  BY <1>5, <2>2
    <3>2. eq_seen \in Nat  BY <1>8
    <3>3. QED  BY <1>9, <2>2, <3>1, <3>2
  <2>3. QED  BY <2>1, <2>2
<1>11. ASSUME r.kind = "event" PROVE r.ptr = eq_seen /\ eq_seen < eq_prod
  <2>1. 1 \in 1..Len(dma) /\ r \in Events  BY <1>3, <1>4, <1>11 DEF n
  <2>2. r.ptr = eq_seen + Count(dma, Events, 1 - 1)  BY <1>1, <2>1 DEF EventOrder, r
  <2>3. Count(dma, Events, 1 - 1) = 0
    <3>1. Hits(dma, Events, 1 - 1) = {}  BY DEF Hits
    <3>2. QED  BY <3>1, FS_EmptySet DEF Count
  <2>4. eq_seen < eq_prod
    <3>1. e = 1  BY <1>5, <1>11
    <3>2. AllInDma = AllInDma' + 1  BY <1>6, <3>1
    <3>3. eq_prod - AllInDma < eq_prod  BY <1>8, <3>2, LessByOne
    <3>4. QED  BY <1>8, <3>3
  <2>5. QED  BY <1>8, <2>2, <2>3, <2>4
<1>12. EventOrder'
  <2>1. ASSUME NEW i \in 1..Len(dma'), dma'[i] \in Events
        PROVE  dma'[i].ptr = eq_seen' + Count(dma', Events, i - 1)
    <3>1. /\ i \in 1..n - 1 /\ i + 1 \in 1..Len(dma) /\ i - 1 \in 0..n - 1 /\ i - 1 \in Nat
          /\ i - 1 + 1 = i /\ (i + 1) - 1 = i
      BY <1>3 DEF n
    <3>2. dma'[i] = dma[i + 1]  BY <1>3, <3>1
    <3>3. dma'[i].ptr = eq_seen + Count(dma, Events, i)  BY <1>1, <2>1, <3>1, <3>2 DEF EventOrder
    <3>4. Count(dma, Events, i) = Count(dma', Events, i - 1) + e  BY <1>5, <3>1
    <3>5. Count(dma', Events, i - 1) \in Nat  BY <3>1, CountType
    <3>6. eq_seen \in Nat /\ e \in Nat  BY <1>5, <1>8
    <3>7. QED  BY <1>9, <3>3, <3>4, <3>5, <3>6
  <2>2. QED  BY <2>1 DEF EventOrder
<1>13. QED  BY <1>1, <1>7, <1>10, <1>11, <1>12 DEF r

(* The completions behind the one that arrives, if it is one, are newer.   *)
LEMMA ReceiveCompletion ==
    ASSUME IInv, Shifted(dma, dma'), cq_prod' = cq_prod,
           cq_seen' = IF dma[1].kind = "cpl" THEN [cq_seen EXCEPT ![dma[1].cq] = dma[1].ptr + 1] ELSE cq_seen
    PROVE  /\ CompletionRecords' /\ cq_seen' \in [CQS -> Nat]
           /\ \A q \in CQS : cq_seen[q] <= cq_seen'[q] /\ cq_seen'[q] <= cq_prod[q]
<1> DEFINE n == Len(dma)
           r == dma[1]
<1>1. TypeOK /\ CompletionRecords  BY DEF IInv
<1>2. dma \in Seq(Record)  BY <1>1 DEF TypeOK, Record
<1>3. /\ r \in Record /\ n \in Nat \ {0} /\ Len(dma') = n - 1
      /\ \A i \in 1..n - 1 : dma'[i] = dma[i + 1] /\ dma[i + 1] \in Record
  BY <1>2, CountTail DEF Shifted
<1>4. r.cq \in CQS /\ r.ptr \in Nat /\ \A i \in 1..n - 1 : dma[i + 1].cq \in CQS /\ dma[i + 1].ptr \in Nat
  BY <1>3 DEF Record
<1>5. \A i \in 1..n : dma[i].kind = "cpl" =>
        /\ cq_seen[dma[i].cq] <= dma[i].ptr /\ dma[i].ptr < cq_prod[dma[i].cq]
        /\ \A j \in 1..n : dma[j].kind = "cpl" /\ j < i /\ dma[j].cq = dma[i].cq => dma[j].ptr < dma[i].ptr
  BY <1>1 DEF CompletionRecords, Records, n
<1>6. /\ cq_seen \in [CQS -> Nat] /\ cq_prod \in [CQS -> Nat] /\ \A q \in CQS : cq_seen[q] <= cq_prod[q]
  BY <1>1 DEF TypeOK
<1>7. r.kind = "cpl" => cq_seen[r.cq] <= r.ptr /\ r.ptr < cq_prod[r.cq]  BY <1>3, <1>5
<1>8. /\ cq_seen' \in [CQS -> Nat]
      /\ \A q \in CQS : \/ cq_seen'[q] = cq_seen[q]
                        \/ r.kind = "cpl" /\ q = r.cq /\ cq_seen'[q] = r.ptr + 1
  BY <1>4, <1>6
<1> HIDE DEF n, r
<1>9. ASSUME NEW q \in CQS PROVE cq_seen[q] <= cq_seen'[q] /\ cq_seen'[q] <= cq_prod[q]
  <2>1. cq_seen[q] \in Nat /\ cq_prod[q] \in Nat /\ cq_seen[q] <= cq_prod[q]  BY <1>6
  <2>2. QED  BY <1>4, <1>7, <1>8, <2>1
<1>10. ASSUME NEW i \in 1..n - 1, dma'[i].kind = "cpl"
       PROVE  /\ cq_seen'[dma'[i].cq] <= dma'[i].ptr /\ dma'[i].ptr < cq_prod[dma'[i].cq]
              /\ \A j \in 1..n - 1 : dma'[j].kind = "cpl" /\ j < i /\ dma'[j].cq = dma'[i].cq
                    => dma'[j].ptr < dma'[i].ptr
  <2>1. /\ dma'[i] = dma[i + 1] /\ i + 1 \in 1..n /\ dma[i + 1].cq \in CQS /\ dma[i + 1].ptr \in Nat
        /\ dma'[i].cq \in CQS
    BY <1>3, <1>4
  <2>2. cq_seen[dma'[i].cq] <= dma'[i].ptr /\ dma'[i].ptr < cq_prod[dma'[i].cq]  BY <1>5, <1>10, <2>1
  <2>3. cq_seen'[dma'[i].cq] <= dma'[i].ptr
    <3>1. CASE cq_seen'[dma'[i].cq] = cq_seen[dma'[i].cq]  BY <2>2, <3>1
    <3>2. CASE r.kind = "cpl" /\ dma'[i].cq = r.cq /\ cq_seen'[dma'[i].cq] = r.ptr + 1
      <4>1. 1 \in 1..n /\ 1 < i + 1  BY <1>3
      <4>2. r.ptr < dma'[i].ptr  BY <1>5, <1>10, <2>1, <3>2, <4>1 DEF r
      <4>3. r.ptr \in Nat /\ dma'[i].ptr \in Nat  BY <1>4, <2>1
      <4>4. r.ptr + 1 <= dma'[i].ptr  BY <4>2, <4>3
      <4>5. QED  BY <3>2, <4>4
    <3>3. QED  BY <1>8, <2>1, <3>1, <3>2
  <2>4. ASSUME NEW j \in 1..n - 1, dma'[j].kind = "cpl", j < i, dma'[j].cq = dma'[i].cq
        PROVE  dma'[j].ptr < dma'[i].ptr
    <3>1. dma'[j] = dma[j + 1] /\ j + 1 \in 1..n /\ j + 1 < i + 1  BY <1>3, <2>4
    <3>2. QED  BY <1>5, <1>10, <2>1, <2>4, <3>1
  <2>5. QED  BY <2>2, <2>3, <2>4
<1>11. CompletionRecords'  BY <1>3, <1>10 DEF CompletionRecords, Records
<1>12. QED  BY <1>8, <1>9, <1>11

(* What a delivered record changes, and nothing else. *)
LEMMA DeliverFacts ==
    ASSUME IInv, Deliver
    PROVE  /\ Shifted(dma, dma') /\ dma[1] \in Record /\ dma' \in Seq(Record)
           /\ UNCHANGED <<driverVars, deviceVars, mmio, msi, dropped>>
           /\ cq_seen' = IF dma[1].kind = "cpl" THEN [cq_seen EXCEPT ![dma[1].cq] = dma[1].ptr + 1] ELSE cq_seen
           /\ eq_buf' = IF dma[1].kind = "cpl" THEN eq_buf
                        ELSE [eq_buf EXCEPT ![Eq!slot(dma[1].ptr)] =
                                [phase |-> Eq!phase(dma[1].ptr), index |-> dma[1].cq]]
<1>1. dma \in Seq(Record) /\ dma # <<>> /\ dma' = Tail(dma)  BY DEF IInv, TypeOK, Record, Deliver
<1>2. Head(dma) = dma[1] /\ dma[1] \in Record /\ dma' \in Seq(Record)  BY <1>1, CountTail
<1>3. Shifted(dma, dma')  BY <1>1 DEF Shifted
<1>4. QED  BY <1>2, <1>3 DEF Deliver, Eq!written

LEMMA DeliverTypes ==
    ASSUME IInv, Deliver
    PROVE  TypeOK' /\ CompletionRecords'
<1> USE DEF driverVars, deviceVars
<1> DEFINE r == dma[1]
<1>1. TypeOK  BY DEF IInv
<1>2. /\ Shifted(dma, dma') /\ r \in Record /\ dma' \in Seq(Record)
      /\ UNCHANGED <<driverVars, deviceVars, mmio, msi, dropped>>
      /\ cq_seen' = IF r.kind = "cpl" THEN [cq_seen EXCEPT ![r.cq] = r.ptr + 1] ELSE cq_seen
      /\ eq_buf' = IF r.kind = "cpl" THEN eq_buf
                   ELSE [eq_buf EXCEPT ![Eq!slot(r.ptr)] = [phase |-> Eq!phase(r.ptr), index |-> r.cq]]
  BY DeliverFacts
<1>3. r.cq \in CQS /\ r.ptr \in Nat  BY <1>2 DEF Record
<1>4. /\ CompletionRecords' /\ cq_seen' \in [CQS -> Nat]
      /\ \A q \in CQS : cq_seen[q] <= cq_seen'[q] /\ cq_seen'[q] <= cq_prod[q]
  <2>1. cq_prod' = cq_prod  BY <1>2
  <2>2. QED  BY <1>2, <2>1, ReceiveCompletion
<1> HIDE DEF r
<1>5. eq_buf' \in [Eq!Slots -> [phase : {0, 1}, index : CQS \cup {0}]]
  <2>1. eq_buf \in [Eq!Slots -> [phase : {0, 1}, index : CQS \cup {0}]]  BY <1>1 DEF TypeOK
  <2>2. Eq!slot(r.ptr) \in Eq!Slots /\ Eq!phase(r.ptr) \in {0, 1}  BY <1>3, EqSlotFacts
  <2>3. [phase |-> Eq!phase(r.ptr), index |-> r.cq] \in [phase : {0, 1}, index : CQS \cup {0}]
    BY <1>3, <2>2
  <2>4. QED  BY <1>2, <2>1, <2>2, <2>3
<1>6. \A q \in CQS : cq_cons_ptr[q] <= cq_seen'[q]
  <2>1. \A q \in CQS : cq_cons_ptr[q] \in Nat /\ cq_seen[q] \in Nat /\ cq_cons_ptr[q] <= cq_seen[q]
    BY <1>1 DEF TypeOK
  <2>2. \A q \in CQS : cq_seen'[q] \in Nat  BY <1>4
  <2>3. QED  BY <1>4, <2>1, <2>2
<1>7. TypeOK'  BY <1>1, <1>2, <1>4, <1>5, <1>6 DEF TypeOK, Record
<1>8. QED  BY <1>4, <1>7

(* The event record is new to process_eq when it arrives, and those of the *)
(* turn before it are not.                                                 *)
LEMMA DeliverEvent ==
    ASSUME IInv, Deliver, dma[1].kind = "event"
    PROVE  /\ EventRecords' /\ eq_seen' = eq_seen + 1
           /\ \A p \in eq_next..eq_seen - 1 : eq_buf'[Eq!slot(p)] = eq_buf[Eq!slot(p)]
           /\ eq_buf'[Eq!slot(eq_seen)].index = dma[1].cq
<1> DEFINE r == dma[1]
<1>1. TypeOK /\ TypeOK'  BY DeliverTypes DEF IInv
<1>2. /\ Shifted(dma, dma') /\ r \in Record /\ eq_prod' = eq_prod /\ eq_next' = eq_next
      /\ r.kind = "event"
      /\ eq_buf' = [eq_buf EXCEPT ![Eq!slot(r.ptr)] = [phase |-> Eq!phase(r.ptr), index |-> r.cq]]
  <2>1. r.kind # "cpl"  OBVIOUS
  <2>2. QED  BY <2>1, DeliverFacts DEF driverVars, deviceVars
<1>3. r.cq \in CQS  BY <1>2 DEF Record
<1>4. /\ Counted' /\ EventOrder' /\ eq_seen' = eq_seen + 1 /\ r.ptr = eq_seen /\ eq_seen < eq_prod
  BY <1>1, <1>2, ReceiveRecord
<1>5. /\ eq_next \in Nat /\ eq_seen \in Nat /\ eq_next <= eq_seen /\ EQ_SIZE \in Nat \ {0}
      /\ eq_seen < eq_next + EQ_SIZE
  BY <1>4, Order
<1> HIDE DEF r
<1>6. /\ eq_buf \in [Eq!Slots -> [phase : {0, 1}, index : CQS \cup {0}]]
      /\ \A p \in Nat : Eq!slot(p) \in Eq!Slots
  BY <1>1, EqSlotFacts DEF TypeOK
<1>7. /\ eq_buf'[Eq!slot(eq_seen)].phase = Eq!phase(eq_seen)
      /\ eq_buf'[Eq!slot(eq_seen)].index = r.cq
  BY <1>2, <1>4, <1>5, <1>6
<1>8. ASSUME NEW p \in Nat, Eq!slot(p) # Eq!slot(eq_seen)
      PROVE  eq_buf'[Eq!slot(p)] = eq_buf[Eq!slot(p)]
  BY <1>2, <1>4, <1>6, <1>8
<1>9. ASSUME NEW p \in eq_next..eq_seen - 1 PROVE eq_buf'[Eq!slot(p)] = eq_buf[Eq!slot(p)]
  <2>1. p \in Nat /\ p < eq_seen /\ eq_seen - p < EQ_SIZE  BY <1>5
  <2>2. Eq!slot(p) # Eq!slot(eq_seen)  BY <1>5, <2>1, EqSlotFacts
  <2>3. QED  BY <1>8, <2>1, <2>2
<1>10. ASSUME NEW p \in eq_next..eq_seen
       PROVE  eq_buf'[Eq!slot(p)].phase = Eq!phase(p) /\ eq_buf'[Eq!slot(p)].index \in CQS
  <2>1. CASE p = eq_seen  BY <1>3, <1>7, <2>1
  <2>2. CASE p # eq_seen
    <3>1. p \in eq_next..eq_seen - 1  BY <1>5, <2>2
    <3>2. QED  BY <1>9, <3>1 DEF IInv, EventRecords
  <2>3. QED  BY <2>1, <2>2
<1>11. ASSUME NEW p \in eq_seen + 1..eq_next + EQ_SIZE - 1
       PROVE  eq_buf'[Eq!slot(p)].phase # Eq!phase(p)
  <2>1. p \in Nat /\ eq_seen < p /\ p - eq_seen < EQ_SIZE /\ p \in eq_seen..eq_next + EQ_SIZE - 1
    BY <1>5
  <2>2. Eq!slot(p) # Eq!slot(eq_seen)  BY <1>5, <2>1, EqSlotFacts
  <2>3. eq_buf'[Eq!slot(p)] = eq_buf[Eq!slot(p)]  BY <1>8, <2>1, <2>2
  <2>4. QED  BY <2>1, <2>3 DEF IInv, EventRecords
<1>12. EventRecords'
  <2>1. (\A i \in Records("event") : dma[i].ptr = eq_seen + EventsBefore(i))'  BY <1>4 DEF Counted
  <2>2. eq_seen' - 1 = eq_seen  BY <1>4, <1>5
  <2>3. QED  BY <1>2, <1>4, <1>10, <1>11, <2>1, <2>2 DEF EventRecords
<1>13. QED  BY <1>4, <1>7, <1>9, <1>12 DEF r

LEMMA DeliverStep ==
    ASSUME IInv, Deliver
    PROVE  IInv'
<1> USE DEF driverVars, deviceVars
<1> DEFINE r == dma[1]
<1>1. TypeOK /\ Counted /\ TypeOK' /\ CompletionRecords'  BY Tokens, DeliverTypes
<1>2. /\ Shifted(dma, dma') /\ r \in Record
      /\ UNCHANGED <<driverVars, deviceVars, mmio, msi, dropped>>
      /\ r.kind = "cpl" => eq_buf' = eq_buf
  BY DeliverFacts
<1>3. /\ Counted' /\ EventOrder'
      /\ eq_seen' = IF r.kind = "event" THEN eq_seen + 1 ELSE eq_seen
      /\ \A q \in CQS : InDma(q) = InDma(q)' + CountIf(r.kind = "event" /\ r.cq = q)
  BY <1>1, <1>2, ReceiveRecord
<1>4. r.kind = "event" \/ (r.kind = "cpl" /\ r.kind # "event")  BY <1>2 DEF Record
<1>5. r.cq \in CQS  BY <1>2 DEF Record
<1>6. eq_next \in Nat /\ eq_seen \in Nat /\ eq_next <= eq_seen  BY Order
<1>7. EventRecords'
  <2>1. CASE r.kind = "event"  BY <2>1, DeliverEvent
  <2>2. CASE r.kind = "cpl" /\ r.kind # "event"
    <3>1. eq_seen' = eq_seen /\ eq_buf' = eq_buf  BY <1>2, <1>3, <2>2
    <3>2. (\A i \in Records("event") : dma[i].ptr = eq_seen + EventsBefore(i))'  BY <1>3 DEF Counted
    <3>3. QED  BY <1>2, <3>1, <3>2 DEF IInv, EventRecords
  <2>3. QED  BY <1>4, <2>1, <2>2
<1>8. EventPointers'
  <2>1. eq_next <= eq_seen' /\ (task = "cq" => eq_next < eq_seen')
    BY <1>3, <1>6 DEF IInv, EventPointers
  <2>2. task = "cq" => eq_buf'[Eq!slot(eq_next)].index = current
    <3>1. SUFFICES ASSUME task = "cq" PROVE eq_buf'[Eq!slot(eq_next)].index = current
      OBVIOUS
    <3>2. eq_next < eq_seen /\ eq_buf[Eq!slot(eq_next)].index = current
      BY <3>1 DEF IInv, EventPointers
    <3>3. CASE r.kind = "event"
      <4>1. eq_next \in eq_next..eq_seen - 1  BY <1>6, <3>2
      <4>2. QED  BY <3>2, <3>3, <4>1, DeliverEvent
    <3>4. CASE r.kind = "cpl" /\ r.kind # "event"  BY <1>2, <3>2, <3>4
    <3>5. QED  BY <1>4, <3>3, <3>4
  <2>3. QED  BY <1>2, <2>1, <2>2 DEF IInv, EventPointers
<1>9. Reports'  BY <1>2 DEF IInv, Reports, Reported
<1>10. OneEventPerQueue'
  <2>1. ASSUME NEW q \in CQS PROVE CqTokens(q)' = CqTokens(q)
    <3>1. InFifo(q)' = InFifo(q) /\ Arming(q)' = Arming(q)  BY <1>2 DEF InFifo, Arming
    <3>2. /\ IsFiniteSet(Pending(q)) /\ Cardinality(Pending(q)) \in Nat
          /\ InDma(q)' \in Nat /\ InFifo(q) \in Nat /\ Arming(q) \in Nat
      BY <1>1, <1>3, PendingFacts DEF Counted
    <3>3. InDma(q)' + Cardinality(Pending(q)') = InDma(q) + Cardinality(Pending(q))
      <4>1. CASE r.kind = "event"
        <5>1. /\ eq_seen' - 1 = eq_seen /\ eq_next' = eq_next
              /\ \A p \in eq_next..eq_seen - 1 : eq_buf'[Eq!slot(p)] = eq_buf[Eq!slot(p)]
              /\ eq_buf'[Eq!slot(eq_seen)].index = r.cq
          BY <1>2, <1>3, <1>6, <4>1, DeliverEvent
        <5>2. \A p : p \in eq_next..eq_seen <=> p \in eq_next..eq_seen - 1 \/ p = eq_seen  BY <1>6
        <5>3. CASE q = r.cq
          <6>1. Pending(q)' = Pending(q) \cup {eq_seen}  BY <5>1, <5>2, <5>3 DEF Pending
          <6>2. eq_seen \notin Pending(q)  BY <1>6 DEF Pending
          <6>3. Cardinality(Pending(q)') = Cardinality(Pending(q)) + 1
            BY <3>2, <6>1, <6>2, FS_AddElement
          <6>4. CountIf(r.kind = "event" /\ r.cq = q) = 1  BY <4>1, <5>3 DEF CountIf
          <6>5. InDma(q) = InDma(q)' + 1  BY <1>3, <6>4
          <6>6. QED  BY <3>2, <6>3, <6>5
        <5>4. CASE q # r.cq
          <6>1. Pending(q)' = Pending(q)  BY <5>1, <5>2, <5>4 DEF Pending
          <6>2. CountIf(r.kind = "event" /\ r.cq = q) = 0  BY <5>4 DEF CountIf
          <6>3. InDma(q) = InDma(q)'  BY <1>3, <3>2, <6>2
          <6>4. QED  BY <6>1, <6>3
        <5>5. QED  BY <5>3, <5>4
      <4>2. CASE r.kind = "cpl" /\ r.kind # "event"
        <5>1. eq_seen' = eq_seen /\ eq_buf' = eq_buf /\ eq_next' = eq_next  BY <1>2, <1>3, <4>2
        <5>2. Pending(q)' = Pending(q)  BY <5>1 DEF Pending
        <5>3. CountIf(r.kind = "event" /\ r.cq = q) = 0  BY <4>2 DEF CountIf
        <5>4. InDma(q) = InDma(q)'  BY <1>3, <3>2, <5>3
        <5>5. QED  BY <5>2, <5>4
      <4>3. QED  BY <1>4, <4>1, <4>2
    <3>4. Cardinality(Pending(q)') \in Nat
      <4>1. eq_next' \in Nat /\ eq_seen' \in Nat  BY <1>2, <1>3, <1>6
      <4>2. IsFiniteSet(eq_next'..eq_seen' - 1)  BY <4>1, FS_Interval
      <4>3. Pending(q)' \in SUBSET (eq_next'..eq_seen' - 1)  BY DEF Pending
      <4>4. QED  BY <4>2, <4>3, FS_Subset, FS_CardinalityType
    <3>5. CountIf(cq_armed[q]) \in Nat /\ InDma(q) \in Nat  BY <1>1 DEF CountIf, Counted
    <3>6. CqTokens(q) = CountIf(cq_armed[q]) + InFifo(q) + InDma(q) + Cardinality(Pending(q)) + Arming(q)
      BY <1>1 DEF Counted
    <3>7. CqTokens(q)' = CountIf(cq_armed[q]) + InFifo(q) + InDma(q)' + Cardinality(Pending(q)') + Arming(q)
      BY <1>2, <1>3, <3>1 DEF Counted
    <3>8. QED  BY <3>2, <3>3, <3>4, <3>5, <3>6, <3>7
  <2>2. QED  BY <1>2, <2>1 DEF IInv, OneEventPerQueue
<1>11. OneInterrupt'  BY <1>2 DEF IInv, OneInterrupt
<1>12. QED  BY <1>1, <1>7, <1>8, <1>9, <1>10, <1>11 DEF IInv

(***************************************************************************)
(* Posted writes take effect                                               *)
(***************************************************************************)
LEMMA AppliedWrite ==
    ASSUME IInv, Shifted(mmio, mmio'), UNCHANGED <<eq_cons_ptr, cq_cons_ptr>>,
           eq_cons' = IF mmio[1].reg = "eq_cons" THEN mmio[1].val ELSE eq_cons,
           cq_cons' = IF mmio[1].reg = "cq_cons" THEN [cq_cons EXCEPT ![mmio[1].cq] = mmio[1].val] ELSE cq_cons
    PROVE  /\ Reports' /\ mmio' \in Seq(Write)
           /\ eq_cons' \in Nat /\ eq_cons <= eq_cons' /\ eq_cons' <= eq_cons_ptr
           /\ cq_cons' \in [CQS -> Nat] /\ \A q \in CQS : cq_cons'[q] <= cq_cons_ptr[q]
           /\ EqArming = EqArming' + CountIf(mmio[1].reg = "eq_arm")
           /\ \A q \in CQS : Arming(q) = Arming(q)' + CountIf(mmio[1].reg = "cq_arm" /\ mmio[1].cq = q)
<1> DEFINE n == Len(mmio)
           w == mmio[1]
<1>1. TypeOK /\ Reports  BY DEF IInv
<1>2. mmio \in Seq(Write)  BY <1>1 DEF TypeOK, Write
<1>3. /\ mmio' \in Seq(Write) /\ w \in Write /\ n \in Nat \ {0} /\ Len(mmio') = n - 1
      /\ \A i \in 1..n - 1 : mmio'[i] = mmio[i + 1]
      /\ \A X : \A k \in 0..n - 1 : Count(mmio, X, k + 1) = Count(mmio', X, k) + CountIf(w \in X)
      /\ mmio' = Tail(mmio) /\ mmio # <<>>
  BY <1>2, CountTail DEF Shifted
<1>4. /\ w.cq \in CQS <=> w.reg \in {"cq_cons", "cq_arm"}
      /\ \A i \in 1..n - 1 : mmio'[i].cq \in CQS <=> mmio'[i].reg \in {"cq_cons", "cq_arm"}
  <2>1. 1 \in 1..n /\ \A i \in 1..n - 1 : i + 1 \in 1..n  BY <1>3
  <2>2. \A i \in 1..n : mmio[i].cq \in CQS <=> mmio[i].reg \in {"cq_cons", "cq_arm"}
    BY <1>1 DEF Reports
  <2>3. QED  BY <1>3, <2>1, <2>2
<1>5. w.cq \in CQS \cup {NoQueue} /\ w.val \in Nat /\ (w.reg = "eq_cons" => w.cq = NoQueue)
  BY <1>3, <1>4 DEF Write
<1>6. /\ eq_cons' \in Nat /\ eq_cons <= eq_cons' /\ eq_cons' <= eq_cons_ptr
      /\ InOrder(mmio', "eq_cons", NoQueue, eq_cons', eq_cons_ptr)
  <2>1. InOrder(mmio, "eq_cons", NoQueue, eq_cons, eq_cons_ptr)  BY <1>1, ReportedInOrder DEF Reports
  <2>2. eq_cons \in Nat /\ eq_cons_ptr \in Nat /\ eq_cons <= eq_cons_ptr  BY Order
  <2>3. eq_cons' = IF w.reg = "eq_cons" /\ w.cq = NoQueue THEN w.val ELSE eq_cons  BY <1>5
  <2>4. /\ eq_cons' \in Nat /\ eq_cons <= eq_cons' /\ eq_cons' <= eq_cons_ptr
        /\ InOrder(Tail(mmio), "eq_cons", NoQueue, eq_cons', eq_cons_ptr)
    BY <1>2, <1>3, <2>1, <2>2, <2>3, TailInOrder
  <2>5. QED  BY <1>3, <2>4
<1>7. cq_cons' \in [CQS -> Nat]
  <2>1. cq_cons \in [CQS -> Nat]  BY <1>1 DEF TypeOK
  <2>2. QED  BY <1>5, <2>1
<1>8. ASSUME NEW q \in CQS
      PROVE  /\ cq_cons'[q] <= cq_cons_ptr[q]
             /\ InOrder(mmio', "cq_cons", q, cq_cons'[q], cq_cons_ptr[q])
  <2>1. InOrder(mmio, "cq_cons", q, cq_cons[q], cq_cons_ptr[q])  BY <1>1, ReportedInOrder DEF Reports
  <2>2. /\ cq_cons \in [CQS -> Nat] /\ cq_cons[q] \in Nat /\ cq_cons_ptr[q] \in Nat
        /\ cq_cons[q] <= cq_cons_ptr[q]
    BY <1>1 DEF TypeOK
  <2>3. cq_cons'[q] = IF w.reg = "cq_cons" /\ w.cq = q THEN w.val ELSE cq_cons[q]  BY <1>4, <2>2
  <2>4. PICK low \in Nat, high \in Nat, low1 \in {cq_cons'[q]} :
            low = cq_cons[q] /\ high = cq_cons_ptr[q] /\ low1 = cq_cons'[q]
    BY <2>2
  <2>5. /\ low <= high /\ InOrder(mmio, "cq_cons", q, low, high)
        /\ low1 = IF mmio[1].reg = "cq_cons" /\ mmio[1].cq = q THEN mmio[1].val ELSE low
    BY <2>1, <2>2, <2>3, <2>4
  <2>6. low1 <= high /\ InOrder(Tail(mmio), "cq_cons", q, low1, high)
    BY <1>2, <1>3, <2>5, TailInOrder
  <2>7. QED  BY <1>3, <2>4, <2>6
<1>9. Reports'
  BY <1>3, <1>4, <1>6, <1>8 DEF Reports, Reported, InOrder
<1>10. n - 1 \in 0..n - 1 /\ n - 1 + 1 = n  BY <1>3
<1> HIDE DEF n, w
<1>11. EqArming = EqArming' + CountIf(w.reg = "eq_arm")
  <2>1. w \in EqArms <=> w.reg = "eq_arm"  BY <1>3 DEF Write, EqArms
  <2>2. CountIf(w \in EqArms) = CountIf(w.reg = "eq_arm")  BY <2>1 DEF CountIf
  <2>3. Count(mmio, EqArms, n) = Count(mmio', EqArms, n - 1) + CountIf(w \in EqArms)  BY <1>3, <1>10
  <2>4. QED  BY <1>3, <2>2, <2>3 DEF EqArming, n
<1>12. ASSUME NEW q \in CQS PROVE Arming(q) = Arming(q)' + CountIf(w.reg = "cq_arm" /\ w.cq = q)
  <2>1. w \in ArmsOf(q) <=> w.reg = "cq_arm" /\ w.cq = q  BY <1>3 DEF Write, ArmsOf
  <2>2. CountIf(w \in ArmsOf(q)) = CountIf(w.reg = "cq_arm" /\ w.cq = q)  BY <2>1 DEF CountIf
  <2>3. Count(mmio, ArmsOf(q), n) = Count(mmio', ArmsOf(q), n - 1) + CountIf(w \in ArmsOf(q))
    BY <1>3, <1>10
  <2>4. QED  BY <1>3, <2>2, <2>3 DEF Arming, n
<1>13. QED  BY <1>3, <1>6, <1>7, <1>8, <1>9, <1>11, <1>12 DEF w

(* What the four registers do, in terms of the oldest write. *)
LEMMA ApplyFacts ==
    ASSUME IInv, ApplyWrite
    PROVE  /\ Shifted(mmio, mmio') /\ mmio[1] \in Write
           /\ UNCHANGED <<driverVars, memoryVars, cq_prod, eq_prod, dropped>>
           /\ eq_cons' = IF mmio[1].reg = "eq_cons" THEN mmio[1].val ELSE eq_cons
           /\ cq_cons' = IF mmio[1].reg = "cq_cons" THEN [cq_cons EXCEPT ![mmio[1].cq] = mmio[1].val] ELSE cq_cons
           /\ mmio[1].reg = "cq_arm" => ArmCq(mmio[1])
           /\ mmio[1].reg # "cq_arm" => UNCHANGED <<cq_armed, event_fifo>>
           /\ mmio[1].reg = "eq_arm" => ArmEq(mmio[1])
           /\ mmio[1].reg # "eq_arm" => UNCHANGED <<eq_armed, msi>>
<1>1. mmio \in Seq(Write) /\ mmio # <<>> /\ mmio' = Tail(mmio)  BY DEF IInv, TypeOK, Write, ApplyWrite
<1>2. Head(mmio) = mmio[1] /\ mmio[1] \in Write  BY <1>1, CountTail
<1>3. Shifted(mmio, mmio')  BY <1>1 DEF Shifted
<1> DEFINE w == mmio[1]
<1>4. /\ UNCHANGED <<driverVars, memoryVars, cq_prod, eq_prod, dropped>>
      /\ \/ w.reg = "cq_cons" /\ SetCqCons(w)
         \/ w.reg = "cq_arm"  /\ ArmCq(w)
         \/ w.reg = "eq_cons" /\ SetEqCons(w)
         \/ w.reg = "eq_arm"  /\ ArmEq(w)
  BY <1>2 DEF ApplyWrite
<1> HIDE DEF w
<1>5. /\ eq_cons' = IF w.reg = "eq_cons" THEN w.val ELSE eq_cons
      /\ cq_cons' = IF w.reg = "cq_cons" THEN [cq_cons EXCEPT ![w.cq] = w.val] ELSE cq_cons
      /\ w.reg # "cq_arm" => UNCHANGED <<cq_armed, event_fifo>>
      /\ w.reg # "eq_arm" => UNCHANGED <<eq_armed, msi>>
  BY <1>4 DEF SetCqCons, SetEqCons, ArmCq, ArmEq
<1>6. /\ w.reg = "cq_arm" => ArmCq(w)
      /\ w.reg = "eq_arm" => ArmEq(w)
  BY <1>4
<1>7. QED  BY <1>2, <1>3, <1>4, <1>5, <1>6 DEF w

(* The write that arms a queue held its token: the queue is not armed, and *)
(* is now, or has fired.                                                   *)
LEMMA ArmedOrFired ==
    ASSUME IInv, ApplyWrite, NEW q \in CQS
    PROVE  /\ cq_armed' \in [CQS -> BOOLEAN] /\ event_fifo' \in Seq(CQS) /\ InFifo(q)' \in Nat
           /\ CountIf(cq_armed'[q]) + InFifo(q)' + Arming(q)' = CountIf(cq_armed[q]) + InFifo(q) + Arming(q)
<1> USE DEF driverVars, memoryVars
<1> DEFINE w == mmio[1]
<1>1. TypeOK /\ Counted  BY Tokens
<1>2. /\ Shifted(mmio, mmio') /\ UNCHANGED <<eq_cons_ptr, cq_cons_ptr>> /\ w \in Write
      /\ eq_cons' = IF w.reg = "eq_cons" THEN w.val ELSE eq_cons
      /\ cq_cons' = IF w.reg = "cq_cons" THEN [cq_cons EXCEPT ![w.cq] = w.val] ELSE cq_cons
      /\ w.reg = "cq_arm" => ArmCq(w)
      /\ w.reg # "cq_arm" => UNCHANGED <<cq_armed, event_fifo>>
  BY ApplyFacts
<1>3. /\ mmio' \in Seq(Write) /\ Arming(q) = Arming(q)' + CountIf(w.reg = "cq_arm" /\ w.cq = q)
  BY <1>2, AppliedWrite
<1>4. w.reg = "cq_arm" => w.cq \in CQS
  <2>1. mmio \in Seq(Write) /\ mmio # <<>>  BY <1>1, <1>2 DEF TypeOK, Write, Shifted
  <2>2. Len(mmio) \in Nat \ {0}  BY <2>1, EmptySeq
  <2>3. 1 \in 1..Len(mmio)  BY <2>2
  <2>4. QED  BY <2>3 DEF IInv, Reports
<1> HIDE DEF w
<1>5. cq_armed \in [CQS -> BOOLEAN] /\ event_fifo \in Seq(CQS)  BY <1>1 DEF TypeOK
<1>6. InFifo(q) \in Nat /\ InDma(q) \in Nat /\ Arming(q) \in Nat /\ Cardinality(Pending(q)) \in Nat
  BY <1>1, PendingFacts DEF Counted
<1>7. Arming(q)' \in Nat
  <2>1. Len(mmio') \in Nat  BY <1>3, LenProperties
  <2>2. QED  BY <2>1, CountType DEF Arming
<1>8. CASE w.reg # "cq_arm"
  <2>1. cq_armed' = cq_armed /\ event_fifo' = event_fifo  BY <1>2, <1>8
  <2>2. InFifo(q)' = InFifo(q)  BY <2>1 DEF InFifo
  <2>3. CountIf(w.reg = "cq_arm" /\ w.cq = q) = 0  BY <1>8 DEF CountIf
  <2>4. Arming(q)' = Arming(q)  BY <1>3, <1>7, <2>3
  <2>5. QED  BY <1>5, <1>6, <2>1, <2>2, <2>4
<1>9. CASE w.reg = "cq_arm"
  <2> DEFINE empty == cq_prod[w.cq] = cq_cons[w.cq]
  <2>1. /\ cq_armed' = [cq_armed EXCEPT ![w.cq] = empty]
        /\ event_fifo' = IF empty THEN event_fifo ELSE Append(event_fifo, w.cq)
    BY <1>2, <1>9 DEF ArmCq
  <2>2. w.cq \in CQS /\ empty \in BOOLEAN  BY <1>4, <1>9
  <2> HIDE DEF empty
  <2>3. cq_armed' \in [CQS -> BOOLEAN] /\ event_fifo' \in Seq(CQS)
    <3>1. cq_armed' \in [CQS -> BOOLEAN]  BY <1>5, <2>1, <2>2
    <3>2. event_fifo' \in Seq(CQS)  BY <1>5, <2>1, <2>2, AppendProperties
    <3>3. QED  BY <3>1, <3>2
  <2>4. CASE w.cq # q
    <3>1. CountIf(w.reg = "cq_arm" /\ w.cq = q) = 0  BY <2>4 DEF CountIf
    <3>2. Arming(q)' = Arming(q)  BY <1>3, <1>7, <3>1
    <3>3. cq_armed'[q] = cq_armed[q]  BY <1>5, <2>1, <2>2, <2>4
    <3>4. InFifo(q)' = InFifo(q)
      <4>1. CASE empty  BY <2>1, <4>1 DEF InFifo
      <4>2. CASE ~empty
        <5>1. InFifo(q)' = InFifo(q) + CountIf(w.cq \in {q})
          BY <1>5, <2>1, <2>2, <4>2, CountAppend DEF InFifo
        <5>2. CountIf(w.cq \in {q}) = 0  BY <2>4 DEF CountIf
        <5>3. QED  BY <1>6, <5>1, <5>2
      <4>3. QED  BY <4>1, <4>2
    <3>5. QED  BY <1>6, <2>3, <3>2, <3>3, <3>4
  <2>5. CASE w.cq = q
    <3>1. CountIf(w.reg = "cq_arm" /\ w.cq = q) = 1  BY <1>9, <2>5 DEF CountIf
    <3>2. Arming(q) = Arming(q)' + 1  BY <1>3, <3>1
    <3>3. CountIf(cq_armed[q]) = 0
      <4>1. CqTokens(q) = CountIf(cq_armed[q]) + InFifo(q) + InDma(q) + Cardinality(Pending(q)) + Arming(q)
        BY <1>1 DEF Counted
      <4>2. CqTokens(q) = CountIf(q \notin dropped)  BY Tokens
      <4>3. CountIf(q \notin dropped) \in {0, 1} /\ CountIf(cq_armed[q]) \in {0, 1}  BY DEF CountIf
      <4>4. QED  BY <1>6, <1>7, <3>2, <4>1, <4>2, <4>3
    <3>4. CountIf(cq_armed'[q]) + InFifo(q)' = InFifo(q) + 1 /\ InFifo(q)' \in Nat
      <4>1. CASE empty
        <5>1. CountIf(cq_armed'[q]) = 1  BY <1>5, <2>1, <2>2, <2>5, <4>1 DEF CountIf
        <5>2. InFifo(q)' = InFifo(q)  BY <2>1, <4>1 DEF InFifo
        <5>3. QED  BY <1>6, <5>1, <5>2
      <4>2. CASE ~empty
        <5>1. InFifo(q)' = InFifo(q) + CountIf(w.cq \in {q})
          BY <1>5, <2>1, <2>2, <4>2, CountAppend DEF InFifo
        <5>2. CountIf(w.cq \in {q}) = 1  BY <2>5 DEF CountIf
        <5>3. CountIf(cq_armed'[q]) = 0  BY <1>5, <2>1, <2>2, <2>5, <4>2 DEF CountIf
        <5>4. QED  BY <1>6, <5>1, <5>2, <5>3
      <4>3. QED  BY <4>1, <4>2
    <3>5. CountIf(cq_armed'[q]) \in Nat  BY DEF CountIf
    <3>6. QED  BY <1>6, <1>7, <2>3, <3>2, <3>3, <3>4, <3>5
  <2>6. QED  BY <2>4, <2>5
<1>10. QED  BY <1>8, <1>9

LEMMA MoreRoom ==
    ASSUME NEW p \in Nat, NEW a \in Nat, NEW b \in Nat, NEW n \in Nat, p <= a + n, a <= b
    PROVE  p <= b + n
  OBVIOUS

LEMMA ApplyWriteStep ==
    ASSUME IInv, ApplyWrite
    PROVE  IInv'
<1> USE DEF driverVars, memoryVars
<1> DEFINE w == mmio[1]
<1>1. TypeOK /\ Counted  BY Tokens
<1>2. /\ Shifted(mmio, mmio') /\ w \in Write
      /\ UNCHANGED <<driverVars, memoryVars, cq_prod, eq_prod, dropped>>
      /\ eq_cons' = IF w.reg = "eq_cons" THEN w.val ELSE eq_cons
      /\ cq_cons' = IF w.reg = "cq_cons" THEN [cq_cons EXCEPT ![w.cq] = w.val] ELSE cq_cons
      /\ w.reg # "cq_arm" => UNCHANGED <<cq_armed, event_fifo>>
      /\ w.reg = "eq_arm" => ArmEq(w)
      /\ w.reg # "eq_arm" => UNCHANGED <<eq_armed, msi>>
  BY ApplyFacts
<1>3. /\ Reports' /\ mmio' \in Seq(Write)
      /\ eq_cons' \in Nat /\ eq_cons <= eq_cons' /\ eq_cons' <= eq_cons_ptr
      /\ cq_cons' \in [CQS -> Nat] /\ \A q \in CQS : cq_cons'[q] <= cq_cons_ptr[q]
      /\ EqArming = EqArming' + CountIf(w.reg = "eq_arm")
  BY <1>2, AppliedWrite
<1>4. w.reg = "cq_arm" => w.cq \in CQS
  <2>1. mmio \in Seq(Write) /\ mmio # <<>>  BY <1>1, <1>2 DEF TypeOK, Write, Shifted
  <2>2. Len(mmio) \in Nat \ {0}  BY <2>1, EmptySeq
  <2>3. 1 \in 1..Len(mmio)  BY <2>2
  <2>4. QED  BY <2>3 DEF IInv, Reports
<1> HIDE DEF w
<1>5. cq_armed' \in [CQS -> BOOLEAN] /\ event_fifo' \in Seq(CQS)
  <2>1. CASE w.reg # "cq_arm"  BY <1>1, <1>2, <2>1 DEF TypeOK
  <2>2. CASE w.reg = "cq_arm"  BY <1>4, <2>2, ArmedOrFired
  <2>3. QED  BY <2>1, <2>2
<1>6. EqArming' \in Nat
  <2>1. Len(mmio') \in Nat  BY <1>3, LenProperties
  <2>2. QED  BY <2>1, CountType DEF EqArming
<1>7. /\ eq_armed' \in BOOLEAN /\ msi' \in Nat
      /\ CountIf(eq_armed') + msi' + EqArming' = CountIf(eq_armed) + msi + EqArming
  <2>1. CASE w.reg # "eq_arm"
    <3>1. eq_armed' = eq_armed /\ msi' = msi  BY <1>2, <2>1
    <3>2. CountIf(w.reg = "eq_arm") = 0  BY <2>1 DEF CountIf
    <3>3. EqArming' = EqArming  BY <1>3, <1>6, <3>2
    <3>4. eq_armed \in BOOLEAN /\ msi \in Nat  BY <1>1 DEF TypeOK
    <3>5. QED  BY <3>1, <3>3, <3>4
  <2>2. CASE w.reg = "eq_arm"
    <3>1. CountIf(w.reg = "eq_arm") = 1  BY <2>2 DEF CountIf
    <3>2. EqArming = EqArming' + 1  BY <1>3, <3>1
    <3>3. CountIf(eq_armed) = 0 /\ msi = 0  BY <1>6, <3>2, Tokens
    <3>4. /\ eq_armed' = (eq_prod = eq_cons)
          /\ msi' = IF eq_prod = eq_cons THEN msi ELSE msi + 1
      BY <1>2, <2>2 DEF ArmEq
    <3>5. CountIf(eq_armed') + msi' = 1 /\ msi' \in Nat
      <4>1. CASE eq_prod = eq_cons
        <5>1. CountIf(eq_armed') = 1 /\ msi' = 0  BY <3>3, <3>4, <4>1 DEF CountIf
        <5>2. QED  BY <5>1
      <4>2. CASE eq_prod # eq_cons
        <5>1. ~eq_armed' /\ msi' = msi + 1  BY <3>4, <4>2
        <5>2. CountIf(eq_armed') = 0  BY <5>1 DEF CountIf
        <5>3. msi' = 1  BY <3>3, <5>1
        <5>4. QED  BY <5>2, <5>3
      <4>3. QED  BY <4>1, <4>2
    <3>6. eq_armed' \in BOOLEAN  BY <3>4
    <3>7. CountIf(eq_armed') \in Nat  BY DEF CountIf
    <3>8. QED  BY <1>6, <3>2, <3>3, <3>5, <3>6, <3>7
  <2>3. QED  BY <2>1, <2>2
<1>8. TypeOK'
  BY <1>1, <1>2, <1>3, <1>5, <1>7 DEF TypeOK, Write
<1>9. Counted'  BY <1>8, PrimedViews
<1>10. EventPointers'
  <2>1. eq_prod <= eq_cons' + EQ_SIZE
    <3>1. /\ eq_prod \in Nat /\ eq_cons \in Nat /\ EQ_SIZE \in Nat /\ eq_prod <= eq_cons + EQ_SIZE
      BY Order
    <3>2. PICK new \in Nat : new = eq_cons' /\ eq_cons <= new  BY <1>3
    <3>3. eq_prod <= new + EQ_SIZE  BY <3>1, <3>2, MoreRoom
    <3>4. QED  BY <3>2, <3>3
  <2>2. QED  BY <1>2, <1>3, <2>1 DEF IInv, EventPointers, eq_seen, Records
<1>11. EventRecords' /\ CompletionRecords'
  BY <1>2 DEF IInv, EventRecords, EventsBefore, eq_seen, Records, CompletionRecords
<1>12. OneEventPerQueue'
  <2>1. ASSUME NEW q \in CQS PROVE CqTokens(q)' = CqTokens(q)
    <3>1. InDma(q)' = InDma(q) /\ Pending(q)' = Pending(q)
      BY <1>2 DEF InDma, Pending, eq_seen, Records
    <3>2. CountIf(cq_armed'[q]) + InFifo(q)' + Arming(q)' = CountIf(cq_armed[q]) + InFifo(q) + Arming(q)
      BY ArmedOrFired
    <3>3. /\ InFifo(q) \in Nat /\ InFifo(q)' \in Nat /\ Arming(q) \in Nat /\ Arming(q)' \in Nat
          /\ InDma(q) \in Nat /\ Cardinality(Pending(q)) \in Nat
          /\ CountIf(cq_armed[q]) \in Nat /\ CountIf(cq_armed'[q]) \in Nat
      BY <1>1, <1>9, PendingFacts DEF Counted, CountIf
    <3>4. CqTokens(q) = CountIf(cq_armed[q]) + InFifo(q) + InDma(q) + Cardinality(Pending(q)) + Arming(q)
      BY <1>1 DEF Counted
    <3>5. CqTokens(q)' = CountIf(cq_armed'[q]) + InFifo(q)' + InDma(q) + Cardinality(Pending(q)) + Arming(q)'
      BY <1>9, <3>1 DEF Counted
    <3>6. QED  BY <3>2, <3>3, <3>4, <3>5
  <2>2. QED  BY <1>2, <2>1 DEF IInv, OneEventPerQueue
<1>13. OneInterrupt'
  <2>1. task' = task /\ interrupts' = interrupts  BY <1>2
  <2>2. CountIf(eq_armed') \in Nat  BY DEF CountIf
  <2>3. CountIf(eq_armed') + msi' + interrupts + CountIf(task # "idle") + EqArming' = 1
    BY <1>6, <1>7, <2>2, Tokens
  <2>4. QED  BY <1>9, <2>1, <2>3 DEF OneInterrupt, Counted
<1>14. QED  BY <1>3, <1>8, <1>10, <1>11, <1>12, <1>13 DEF IInv

(***************************************************************************)
(* The theorems                                                            *)
(***************************************************************************)
LEMMA NextStep == IInv /\ [Next]_vars => IInv'
<1> SUFFICES ASSUME IInv, [Next]_vars PROVE IInv'
  OBVIOUS
<1>1. ASSUME NEW c \in CQS, Complete(c) PROVE IInv'  BY <1>1, CompleteStep
<1>2. CASE EnqueueEvent  BY <1>2, EnqueueStep, DropStep
<1>3. CASE Deliver  BY <1>3, DeliverStep
<1>4. CASE DeliverMsi  BY <1>4, DeliverMsiStep
<1>5. CASE ApplyWrite  BY <1>5, ApplyWriteStep
<1>6. CASE PortUp \/ PortDown  BY <1>6, PortStep
<1>7. CASE TakeInterrupt  BY <1>7, TakeInterruptStep
<1>8. CASE ProcessEvent  BY <1>8, ProcessEventStep
<1>9. CASE RearmCq  BY <1>9, RearmCqStep
<1>10. CASE EqEmpty  BY <1>10, EqEmptyStep
<1>11. CASE RearmEq  BY <1>11, RearmEqStep
<1>12. CASE UNCHANGED vars
  <2> USE <1>12 DEF vars, driverVars, memoryVars, deviceVars
  <2>1. TypeOK' /\ EventPointers'  BY DEF IInv, TypeOK, EventPointers, eq_seen, Records
  <2>2. EventRecords' /\ CompletionRecords' /\ Reports'
    BY DEF IInv, EventRecords, EventsBefore, eq_seen, Records, CompletionRecords, Reports, Reported
  <2>3. OneEventPerQueue' /\ OneInterrupt'
    BY DEF IInv, OneEventPerQueue, OneInterrupt, CqTokens, Records, eq_seen
  <2>4. QED  BY <2>1, <2>2, <2>3 DEF IInv
<1>13. QED
  BY <1>1, <1>2, <1>3, <1>4, <1>5, <1>6, <1>7, <1>8, <1>9, <1>10, <1>11, <1>12 DEF Next

(* In every reachable state the pointers of process_eq and of the event    *)
(* queue are in their order, the records between them are the events that  *)
(* are still to be handled, and every posted pointer is one the driver     *)
(* came to.                                                                *)
THEOREM EventsInvariant == Spec => []IInv
<1>1. Init => IInv  BY InitInv
<1>2. IInv /\ [Next]_vars => IInv'  BY NextStep
<1>3. QED  BY <1>1, <1>2, PTL DEF Spec

(* Driver, records on their way, host memory and device stay of their      *)
(* type, and a completion queue is handled, seen and filled in this order. *)
THEOREM EventTypeCorrect == Spec => []TypeOK
<1>1. IInv => TypeOK  BY DEF IInv
<1>2. QED  BY <1>1, EventsInvariant, PTL

(* However completions, events, interrupts, register writes and the        *)
(* handler interleave, a completion queue is armed or its event is         *)
(* somewhere on its way, never both and never twice, unless its event met  *)
(* a full event queue.                                                     *)
THEOREM QueuesAreAnnouncedOnce == Spec => []OneEventPerQueue
<1>1. IInv => OneEventPerQueue  BY DEF IInv
<1>2. QED  BY <1>1, EventsInvariant, PTL

(* Interrupt.queue never holds two items, and the handler never runs while *)
(* the event queue could raise another interrupt.                          *)
THEOREM InterruptsAreRaisedOnce == Spec => []OneInterrupt
<1>1. IInv => OneInterrupt  BY DEF IInv
<1>2. QED  BY <1>1, EventsInvariant, PTL

(***************************************************************************)
(* How full the event queue can be                                         *)
(***************************************************************************)
LEMMA AtMostOne ==
    ASSUME NEW S, IsFiniteSet(S), Cardinality(S) \in Nat, Cardinality(S) <= 1
    PROVE  /\ \A x, y \in S : x = y
           /\ \A x \in S : Cardinality(S) = 1
<1>1. Cardinality(S) = 0 \/ Cardinality(S) = 1  OBVIOUS
<1>2. CASE Cardinality(S) = 0
  <2>1. S = {}  BY <1>2, FS_EmptySet
  <2>2. QED  BY <2>1
<1>3. CASE Cardinality(S) = 1
  <2>1. \E z : S = {z}  BY <1>3, FS_Singleton
  <2>2. QED  BY <1>3, <2>1
<1>4. QED  BY <1>1, <1>2, <1>3

(* A function that tells the members of a finite set apart counts them. *)
LEMMA ImageCount ==
    ASSUME NEW S, IsFiniteSet(S), NEW f, NEW T, f \in [S -> T], \A x, y \in S : f[x] = f[y] => x = y
    PROVE  /\ IsFiniteSet({f[x] : x \in S}) /\ {f[x] : x \in S} \subseteq T
           /\ Cardinality({f[x] : x \in S}) = Cardinality(S)
<1> DEFINE A == {f[x] : x \in S}
<1>1. f \in [S -> A]  OBVIOUS
<1>2. \A a \in A : \E x \in S : f[x] = a  OBVIOUS
<1>3. A \subseteq T  OBVIOUS
<1> HIDE DEF A
<1>4. f \in Bijection(S, A)
  BY <1>1, <1>2 DEF Bijection, Injection, Surjection, IsInjective
<1>5. ExistsBijection(S, A)  BY <1>4 DEF ExistsBijection
<1>6. IsFiniteSet(A) /\ Cardinality(A) = Cardinality(S)  BY <1>5, FS_Bijection
<1>7. QED  BY <1>3, <1>6 DEF A

(* Events that are not handled belong to different completion queues.      *)
LEMMA Outstanding ==
    ASSUME IInv
    PROVE  eq_prod - eq_next <= Cardinality(CQS) /\ Cardinality(CQS) \in Nat
<1> DEFINE P == eq_next..eq_seen - 1
           E == Hits(dma, Events, Len(dma))
           f == [p \in P |-> eq_buf[Eq!slot(p)].index]
           g == [i \in E |-> dma[i].cq]
           A == {f[p] : p \in P}
           B == {g[i] : i \in E}
<1>1. TypeOK /\ Counted /\ EventRecords  BY Tokens DEF IInv
<1>2. /\ eq_next \in Nat /\ eq_seen \in Nat /\ eq_prod \in Nat /\ AllInDma \in Nat
      /\ eq_next <= eq_seen /\ eq_seen = eq_prod - AllInDma
  BY Order
<1>3. dma \in Seq(Record) /\ Len(dma) \in Nat  BY <1>1, LenProperties DEF TypeOK, Record
<1>4. IsFiniteSet(CQS) /\ Cardinality(CQS) \in Nat  BY MqnicEventsAssumption, FS_CardinalityType
<1>5. IsFiniteSet(P) /\ Cardinality(P) = eq_seen - eq_next
  <2>1. IsFiniteSet(P) /\ Cardinality(P) = IF eq_next > eq_seen - 1 THEN 0 ELSE eq_seen - 1 - eq_next + 1
    BY <1>2, FS_Interval
  <2>2. QED  BY <1>2, <2>1
<1>6. IsFiniteSet(E) /\ Cardinality(E) = AllInDma  BY <1>3, CountType DEF AllInDma, Count
<1>7. \A p \in P : eq_buf[Eq!slot(p)].index \in CQS  BY <1>1 DEF EventRecords
<1>8. \A i \in E : dma[i] \in Record /\ dma[i].cq \in CQS /\ dma[i] \in Events
  <2>1. \A i \in E : i \in 1..Len(dma) /\ dma[i] \in Events  BY DEF Hits
  <2>2. \A i \in E : dma[i] \in Record  BY <1>3, <2>1, ElementOfSeq
  <2>3. QED  BY <2>1, <2>2 DEF Record
(* A queue has one token, in one of the places. *)
<1>9. ASSUME NEW c \in CQS
      PROVE  /\ IsFiniteSet(Pending(c)) /\ Cardinality(Pending(c)) \in Nat
             /\ IsFiniteSet(Hits(dma, EventsOf(c), Len(dma)))
             /\ Cardinality(Hits(dma, EventsOf(c), Len(dma))) \in Nat
             /\ Cardinality(Pending(c)) + Cardinality(Hits(dma, EventsOf(c), Len(dma))) <= 1
  <2>1. IsFiniteSet(Pending(c)) /\ Cardinality(Pending(c)) \in Nat  BY PendingFacts
  <2>2. IsFiniteSet(Hits(dma, EventsOf(c), Len(dma))) /\ InDma(c) \in Nat
        /\ InDma(c) = Cardinality(Hits(dma, EventsOf(c), Len(dma)))
    BY <1>3, CountType DEF InDma, Count
  <2>3. CqTokens(c) = CountIf(cq_armed[c]) + InFifo(c) + InDma(c) + Cardinality(Pending(c)) + Arming(c)
    BY <1>1 DEF Counted
  <2>4. CqTokens(c) = CountIf(c \notin dropped)  BY Tokens
  <2>5. CountIf(c \notin dropped) \in {0, 1} /\ CountIf(cq_armed[c]) \in Nat  BY DEF CountIf
  <2>6. InFifo(c) \in Nat /\ Arming(c) \in Nat  BY <1>1 DEF Counted
  <2>7. InDma(c) + Cardinality(Pending(c)) <= 1  BY <2>1, <2>2, <2>3, <2>4, <2>5, <2>6
  <2>8. QED  BY <2>1, <2>2, <2>7
<1>10. \A p \in P : p \in Pending(eq_buf[Eq!slot(p)].index)  BY DEF Pending
<1>11. \A i \in E : i \in Hits(dma, EventsOf(dma[i].cq), Len(dma))
  BY <1>8 DEF Hits, Events, EventsOf
<1>12. ASSUME NEW p \in P, NEW q \in P, f[p] = f[q] PROVE p = q
  <2> DEFINE c == eq_buf[Eq!slot(p)].index
  <2>1. c \in CQS /\ p \in Pending(c) /\ q \in Pending(c)  BY <1>7, <1>10, <1>12
  <2> HIDE DEF c
  <2>2. Cardinality(Pending(c)) <= 1  BY <1>9, <2>1
  <2>3. QED  BY <1>9, <2>1, <2>2, AtMostOne
<1>13. ASSUME NEW i \in E, NEW j \in E, g[i] = g[j] PROVE i = j
  <2> DEFINE c == dma[i].cq
             H == Hits(dma, EventsOf(c), Len(dma))
  <2>1. c \in CQS /\ i \in H /\ j \in H  BY <1>8, <1>11, <1>13
  <2> HIDE DEF c
  <2>2. IsFiniteSet(H) /\ Cardinality(H) \in Nat /\ Cardinality(H) <= 1  BY <1>9, <2>1
  <2> HIDE DEF H
  <2>3. QED  BY <2>1, <2>2, AtMostOne
<1>14. f \in [P -> CQS] /\ g \in [E -> CQS]  BY <1>7, <1>8
<1>15. A \cap B = {}
  <2>1. ASSUME NEW p \in P, NEW i \in E, f[p] = g[i] PROVE FALSE
    <3> DEFINE c == dma[i].cq
               H == Hits(dma, EventsOf(c), Len(dma))
    <3>1. c \in CQS /\ p \in Pending(c) /\ i \in H  BY <1>8, <1>10, <1>11, <2>1
    <3> HIDE DEF c
    <3>2. /\ IsFiniteSet(H) /\ Cardinality(H) \in Nat /\ IsFiniteSet(Pending(c))
          /\ Cardinality(Pending(c)) \in Nat /\ Cardinality(Pending(c)) + Cardinality(H) <= 1
      BY <1>9, <3>1
    <3> HIDE DEF H
    <3>3. Cardinality(Pending(c)) = 1 /\ Cardinality(H) = 1
      <4>1. Cardinality(Pending(c)) <= 1 /\ Cardinality(H) <= 1  BY <3>2
      <4>2. QED  BY <3>1, <3>2, <4>1, AtMostOne
    <3>4. QED  BY <3>2, <3>3
  <2>2. QED  BY <2>1
<1> HIDE DEF P, E, f, g
<1>16. /\ IsFiniteSet(A) /\ A \subseteq CQS /\ Cardinality(A) = eq_seen - eq_next
       /\ IsFiniteSet(B) /\ B \subseteq CQS /\ Cardinality(B) = AllInDma
  <2>1. IsFiniteSet(A) /\ A \subseteq CQS /\ Cardinality(A) = Cardinality(P)
    BY <1>5, <1>12, <1>14, ImageCount
  <2>2. IsFiniteSet(B) /\ B \subseteq CQS /\ Cardinality(B) = Cardinality(E)
    BY <1>6, <1>13, <1>14, ImageCount
  <2>3. QED  BY <1>5, <1>6, <2>1, <2>2
<1> HIDE DEF A, B
<1>17. Cardinality(A \cup B) = (eq_seen - eq_next) + AllInDma
  <2>1. Cardinality(A \cup B) = Cardinality(A) + Cardinality(B) - Cardinality(A \cap B)
    BY <1>16, FS_Union
  <2>2. Cardinality(A \cap B) = 0  BY <1>15, FS_EmptySet
  <2>3. QED  BY <1>2, <1>16, <2>1, <2>2
<1>18. Cardinality(A \cup B) <= Cardinality(CQS)
  <2>1. A \cup B \in SUBSET CQS  BY <1>16
  <2>2. QED  BY <1>4, <2>1, FS_Subset
<1>19. QED  BY <1>2, <1>4, <1>17, <1>18

(* An event is only lost when one call of process_eq has handled, without  *)
(* reporting it, all but as many events as there are completion queues.    *)
THEOREM EventQueueFull == Spec => []FullOnlyWhenUnreported
<1>1. ASSUME IInv PROVE FullOnlyWhenUnreported
  <2>1. eq_prod - eq_next <= Cardinality(CQS) /\ Cardinality(CQS) \in Nat  BY <1>1, Outstanding
  <2>2. eq_prod \in Nat /\ eq_next \in Nat /\ eq_cons \in Nat /\ EQ_SIZE \in Nat  BY <1>1, Order
  <2>3. QED  BY <2>1, <2>2 DEF FullOnlyWhenUnreported, Eq!queue_full
<1>2. QED  BY <1>1, EventsInvariant, PTL

(***************************************************************************)
(* Events and interrupts implement CompletionService                       *)
(***************************************************************************)
(* The next event of process_eq: the handler takes what is in memory.      *)
LEMMA ProcessHandles ==
    ASSUME IInv, ProcessEvent
    PROVE  \/ \E c \in CQS : Service!HandleSome(c)
           \/ UNCHANGED <<cq_prod, cq_cons_ptr>>
<1> DEFINE c == eq_buf[Eq!slot(eq_next)].index
<1>1. c \in CQS  BY NextEvent DEF ProcessEvent
<1>2. /\ cq_cons_ptr \in [CQS -> Nat] /\ cq_seen \in [CQS -> Nat] /\ cq_prod \in [CQS -> Nat]
      /\ cq_cons_ptr[c] <= cq_seen[c] /\ cq_seen[c] <= cq_prod[c]
  BY <1>1 DEF IInv, TypeOK
<1>3. cq_prod' = cq_prod  BY DEF ProcessEvent, deviceVars
<1>4. CASE port = "up"
  <2>1. cq_cons_ptr' = [cq_cons_ptr EXCEPT ![c] = cq_seen[c]]  BY <1>4 DEF ProcessEvent
  <2> HIDE DEF c
  <2>2. CASE cq_seen[c] = cq_cons_ptr[c]
    <3>1. cq_cons_ptr' = cq_cons_ptr  BY <1>1, <1>2, <2>1, <2>2
    <3>2. QED  BY <1>3, <3>1
  <2>3. CASE cq_seen[c] # cq_cons_ptr[c]
    <3>1. cq_cons_ptr[c] \in Nat /\ cq_seen[c] \in Nat /\ cq_prod[c] \in Nat  BY <1>1, <1>2
    <3>2. cq_seen[c] \in cq_cons_ptr[c] + 1..cq_prod[c]  BY <1>2, <2>3, <3>1
    <3>3. Service!HandleSome(c)  BY <1>3, <2>1, <3>2 DEF Service!HandleSome
    <3>4. QED  BY <1>1, <3>3
  <2>4. QED  BY <2>2, <2>3
<1>5. CASE port # "up"
  BY <1>3, <1>5 DEF ProcessEvent
<1>6. QED  BY <1>4, <1>5

(* The steps of driver and device are those of the service: a completion   *)
(* is made, or process_eq hands completions of one queue to its handler,   *)
(* in the order of the queue and never before they are made; nothing else  *)
(* shows.  That each is handed on is liveness and left to the run.         *)
THEOREM EventStepsAreService ==
    Spec => /\ Service!ServiceInit
            /\ [][\E c \in CQS : Service!CompleteOne(c) \/ Service!HandleSome(c)]_<<cq_prod, cq_cons_ptr>>
<1>1. Init => Service!ServiceInit  BY DEF Init, Zero, Service!ServiceInit
<1>2. IInv /\ [Next]_vars
      => [\E c \in CQS : Service!CompleteOne(c) \/ Service!HandleSome(c)]_<<cq_prod, cq_cons_ptr>>
  <2> SUFFICES ASSUME IInv, [Next]_vars
               PROVE  \/ \E c \in CQS : Service!CompleteOne(c) \/ Service!HandleSome(c)
                      \/ UNCHANGED <<cq_prod, cq_cons_ptr>>
    OBVIOUS
  <2>1. ASSUME NEW c \in CQS, Complete(c) PROVE Service!CompleteOne(c)
    BY <2>1 DEF Complete, driverVars, Service!CompleteOne
  <2>2. CASE EnqueueEvent \/ Deliver \/ DeliverMsi
    BY <2>2 DEF EnqueueEvent, Deliver, DeliverMsi, driverVars, deviceVars
  <2>3. CASE ApplyWrite  BY <2>3 DEF ApplyWrite, driverVars
  <2>4. CASE PortUp \/ PortDown \/ TakeInterrupt
    BY <2>4 DEF PortUp, PortDown, TakeInterrupt, deviceVars
  <2>5. CASE ProcessEvent  BY <2>5, ProcessHandles
  <2>6. CASE RearmCq \/ EqEmpty \/ RearmEq
    BY <2>6 DEF RearmCq, EqEmpty, RearmEq, deviceVars
  <2>7. CASE UNCHANGED vars  BY <2>7 DEF vars, driverVars, deviceVars
  <2>8. QED  BY <2>1, <2>2, <2>3, <2>4, <2>5, <2>6, <2>7 DEF Next
<1>3. QED  BY <1>1, <1>2, EventsInvariant, PTL DEF Spec
=============================================================================
