------------------------------- MODULE RxRing -------------------------------
(***************************************************************************)
(* One receive ring of the host driver, the device that fills it and the   *)
(* tasks that take packets out of the interface.                           *)
(*                                                                         *)
(* Rxq.open fills the ring with buffers.  The device takes a descriptor    *)
(* for every frame, or drops the frame when it has none, writes the frame  *)
(* into the buffer and then a completion record.  Rxq.process_rx_cq copies *)
(* the packets into pkt_rx_queue, wakes the readers, frees the buffers and *)
(* posts the completion queue's consumer pointer; when that write has      *)
(* returned it moves the ring's consumer pointer and, if at least          *)
(* MIN_REFILL descriptors are missing, refills the ring.                   *)
(*                                                                         *)
(* Atomicity, posted writes and pointers are as in TxRing.                 *)
(***************************************************************************)
EXTENDS Naturals, Sequences, PacketPool

CONSTANTS
    READERS,      \* the tasks that call Interface.recv and Interface.wait
    POLLING,      \* whether some task also calls recv_nowait
    SIZE,         \* descriptors of the ring: 1024
    CQ_SIZE,      \* records of its completion queue: 1024
    MIN_REFILL,   \* fewest missing descriptors that are replaced: 8
    MAX_FRAMES,   \* bound: frames that arrive in a behaviour
    MAX_POSTED    \* bound: posted writes on their way when the handler runs

ASSUME RxRingAssumption ==
    /\ POLLING \in BOOLEAN
    /\ SIZE \in Nat \ {0} /\ CQ_SIZE \in Nat /\ SIZE <= CQ_SIZE
    /\ MIN_REFILL \in 1..SIZE
    /\ MAX_FRAMES \in Nat /\ MAX_POSTED \in Nat

VARIABLES
    \* the driver
    port,          \* "opening", "up" (Interface.port_up)
    handler,       \* "open": before Rxq.open fills the ring; "idle";
                   \* "ring": process_rx_cq at its second half
    prod_ptr, cons_ptr, rx_info,   \* of the Rxq
    buf,           \* descriptors in host memory: the buffer each points at
    data,          \* contents of the packet buffers (0: nothing yet)
    pool,          \* Driver.allocated_packets and Driver.free_packets
    cq_cons_ptr,   \* of the Cq
    pkt_rx_queue,  \* packets nobody has taken yet
    pc,            \* per reader: "idle", "recv" or "wait" on pkt_rx_sync,
                   \* "woken" in recv
    \* between the two
    mmio,          \* posted register writes on their way
    cq_buf,        \* completion records in host memory
    upstream,      \* frames and their completion records on their way to it
    \* the device
    hw_enabled, hw_prod, hw_cons,   \* queue_manager
    hw_cq_prod, hw_cq_cons,         \* cpl_queue_manager
    engine,        \* frames with a descriptor and without a completion yet
    \* history
    arrived,       \* frames that arrived
    received,      \* those that found a descriptor
    taken,         \* packets handed to a reader, in order
    got_none,      \* a call of recv returned None
    overtaken      \* a packet was taken while another reader, woken for it,
                   \* had not run yet

driverVars == <<port, handler, prod_ptr, cons_ptr, rx_info, buf, pool, cq_cons_ptr>>
readerVars == <<pkt_rx_queue, pc, taken, got_none, overtaken>>
deviceVars == <<hw_enabled, hw_prod, hw_cons, hw_cq_prod, hw_cq_cons, engine, arrived, received>>
memoryVars == <<data, cq_buf, upstream>>
vars == <<driverVars, readerVars, deviceVars, memoryVars, mmio>>

Cq == INSTANCE CplQueue WITH SIZE <- CQ_SIZE

Slots == 0..SIZE - 1
slot(ptr) == ptr % SIZE

Init ==
    /\ port = "opening" /\ handler = "open"
    /\ prod_ptr = 0 /\ cons_ptr = 0 /\ rx_info = [s \in Slots |-> None]
    /\ buf = [s \in Slots |-> None] /\ data = <<>> /\ pool = EmptyPool
    /\ cq_cons_ptr = 0 /\ pkt_rx_queue = <<>> /\ pc = [t \in READERS |-> "idle"]
    /\ mmio = <<>> /\ cq_buf = Cq!Zeroed /\ upstream = <<>>
    /\ hw_enabled = FALSE /\ hw_prod = 0 /\ hw_cons = 0 /\ hw_cq_prod = 0 /\ hw_cq_cons = 0
    /\ engine = <<>> /\ arrived = 0 /\ received = <<>> /\ taken = <<>>
    /\ got_none = FALSE /\ overtaken = FALSE

(***************************************************************************)
(* Filling the ring                                                        *)
(***************************************************************************)
write(reg, val) == [reg |-> reg, val |-> val]

(* Mutant of missing: one descriptor too many. *)
missing_over(cons) == SIZE - (prod_ptr - cons) + 1

missing(cons) == SIZE - (prod_ptr - cons)

(* Mutant of worth_refilling: the threshold itself is not enough. *)
worth_refilling_strict(count) == count > MIN_REFILL

worth_refilling(count) == count >= MIN_REFILL

(* refill_buffers, with the ring's consumer pointer at cons, posting what  *)
(* follows it as well: prepare_desc takes a buffer from the pool for every *)
(* missing descriptor.                                                     *)
Refill(cons, follows) ==
    LET count   == missing(cons)
        filled  == {slot(p) : p \in prod_ptr..prod_ptr + count - 1}
        nth(s)  == CHOOSE k \in 1..count : slot(prod_ptr + k - 1) = s
        after   == alloc_pkts(pool, count)
        info(f) == [s \in Slots |-> IF s \in filled THEN nth_pkt(pool, nth(s)) ELSE f[s]]
    IN  IF ~worth_refilling(count)
        THEN UNCHANGED <<prod_ptr, rx_info, buf, data, pool>> /\ mmio' = mmio \o follows
        ELSE /\ prod_ptr' = prod_ptr + count
             /\ rx_info' = info(rx_info)
             /\ buf' = info(buf)
             /\ pool' = after
             /\ data' = data \o [i \in 1..after.allocated - pool.allocated |-> 0]
             /\ mmio' = mmio \o <<write("prod", prod_ptr + count)>> \o follows

(* Rxq.open fills the ring, and Interface.open enables the queue.          *)
OpenRing ==
    /\ handler = "open"
    /\ handler' = "idle"
    /\ Refill(cons_ptr, <<write("enable", 1)>>)
    /\ UNCHANGED <<port, cons_ptr, cq_cons_ptr, readerVars, deviceVars, cq_buf, upstream>>

(* The last statement of Interface.open. *)
PortUp ==
    /\ port = "opening" /\ handler # "open" /\ mmio = <<>>
    /\ port' = "up"
    /\ UNCHANGED <<handler, prod_ptr, cons_ptr, rx_info, buf, pool, cq_cons_ptr,
                   readerVars, deviceVars, memoryVars, mmio>>

(***************************************************************************)
(* process_rx_cq                                                           *)
(***************************************************************************)
cq_end == Cq!first_empty(cq_buf, cq_cons_ptr)

cpl_slot(ptr) == slot(cq_buf[Cq!slot(ptr)].index)

(* Mutant of completed_slots: rx_info is not cleared. *)
completed_slots_kept == {}

completed_slots == {cpl_slot(p) : p \in cq_cons_ptr..cq_end - 1}

completed_pkts == [i \in 1..cq_end - cq_cons_ptr |-> rx_info[cpl_slot(cq_cons_ptr + i - 1)]]

(* The packets of the new records: skb.data is a copy of the buffer.       *)
new_skbs == [i \in 1..Len(completed_pkts) |-> data[completed_pkts[i]]]

(* Mutant of woken: only one reader is woken. *)
woken_one ==
    LET waiters == {t \in READERS : pc[t] \in {"recv", "wait"}}
        first   == CHOOSE t \in waiters : TRUE
    IN  [t \in READERS |-> IF t \in waiters /\ t = first
                           THEN (IF pc[t] = "recv" THEN "woken" ELSE "idle") ELSE pc[t]]

(* pkt_rx_sync.set() wakes every reader.  Interface.wait does nothing      *)
(* after that.                                                             *)
woken == [t \in READERS |-> CASE pc[t] = "recv" -> "woken" [] pc[t] = "wait" -> "idle" [] OTHER -> pc[t]]

(* Mutants of synced: the event is set although there is no packet, or not *)
(* at all.                                                                 *)
synced_always == woken
synced_never  == pc

(* The event is set for every packet. *)
synced == IF new_skbs # <<>> THEN woken ELSE pc

(* Mutant of cq_report: the pointer is posted before it is moved. *)
cq_report_old == write("cq_cons", cq_cons_ptr)

cq_report == write("cq_cons", cq_end)

(* Up to `await cq.write_cons_ptr()`.                                      *)
ProcessCq ==
    /\ port = "up" /\ handler = "idle" /\ Len(mmio) < MAX_POSTED
    /\ pkt_rx_queue' = pkt_rx_queue \o new_skbs
    /\ pc' = synced
    /\ rx_info' = [s \in Slots |-> IF s \in completed_slots THEN None ELSE rx_info[s]]
    /\ pool' = free_pkts(pool, completed_pkts)
    /\ cq_cons_ptr' = cq_end
    /\ mmio' = Append(mmio, cq_report)
    /\ handler' = "ring"
    /\ UNCHANGED <<port, prod_ptr, cons_ptr, buf, taken, got_none, overtaken, deviceVars, memoryVars>>

(* Mutant of ring_end: slots in use are not looked for. *)
ring_end_all == prod_ptr

(* The first pointer from cons_ptr on whose buffer is still in use.        *)
ring_end ==
    CHOOSE p \in cons_ptr..prod_ptr :
        /\ p = prod_ptr \/ rx_info[slot(p)] # None
        /\ \A q \in cons_ptr..p - 1 : rx_info[slot(q)] = None

(* After it: process the ring and refill it. *)
ProcessRing ==
    /\ handler = "ring"
    /\ handler' = "idle"
    /\ cons_ptr' = ring_end
    /\ Refill(ring_end, <<>>)
    /\ UNCHANGED <<port, cq_cons_ptr, readerVars, deviceVars, cq_buf, upstream>>

(***************************************************************************)
(* The readers                                                             *)
(***************************************************************************)
(* The packet at the head of the queue, past the readers in others.        *)
Take(others) ==
    /\ pkt_rx_queue' = Tail(pkt_rx_queue)
    /\ taken' = Append(taken, Head(pkt_rx_queue))
    /\ overtaken' = (overtaken \/ \E t \in others : pc[t] = "woken")
    /\ UNCHANGED got_none

(* recv: a packet at once, or clear the event and wait for it.             *)
Recv(t) ==
    /\ pc[t] = "idle"
    /\ \/ pkt_rx_queue # <<>> /\ Take(READERS) /\ UNCHANGED pc
       \/ pkt_rx_queue = <<>> /\ pc' = [pc EXCEPT ![t] = "recv"]
          /\ UNCHANGED <<pkt_rx_queue, taken, got_none, overtaken>>
    /\ UNCHANGED <<driverVars, deviceVars, memoryVars, mmio>>

(* recv goes on with recv_nowait, whatever has become of the queue.        *)
RecvWoken(t) ==
    /\ pc[t] = "woken"
    /\ pc' = [pc EXCEPT ![t] = "idle"]
    /\ \/ pkt_rx_queue # <<>> /\ Take(READERS \ {t})
       \/ pkt_rx_queue = <<>> /\ got_none' = TRUE /\ UNCHANGED <<pkt_rx_queue, taken, overtaken>>
    /\ UNCHANGED <<driverVars, deviceVars, memoryVars, mmio>>

RecvNowait ==
    /\ POLLING /\ pkt_rx_queue # <<>>
    /\ Take(READERS)
    /\ UNCHANGED <<pc, driverVars, deviceVars, memoryVars, mmio>>

(* Interface.wait *)
WaitPacket(t) ==
    /\ pc[t] = "idle" /\ pkt_rx_queue = <<>>
    /\ pc' = [pc EXCEPT ![t] = "wait"]
    /\ UNCHANGED <<pkt_rx_queue, taken, got_none, overtaken, driverVars, deviceVars, memoryVars, mmio>>

(***************************************************************************)
(* The device                                                              *)
(***************************************************************************)
ApplyWrite ==
    /\ mmio # <<>>
    /\ mmio' = Tail(mmio)
    /\ LET w == Head(mmio) IN
        /\ hw_prod' = IF w.reg = "prod" THEN w.val ELSE hw_prod
        /\ hw_cq_cons' = IF w.reg = "cq_cons" THEN w.val ELSE hw_cq_cons
        /\ hw_enabled' = IF w.reg = "enable" THEN TRUE ELSE hw_enabled
    /\ UNCHANGED <<hw_cons, hw_cq_prod, engine, arrived, received, driverVars, readerVars, memoryVars>>

(* A frame arrives; rx_engine dequeues a descriptor for it, or drops it.   *)
Receive ==
    /\ arrived < MAX_FRAMES
    /\ arrived' = arrived + 1
    /\ IF hw_enabled /\ hw_cons # hw_prod
       THEN /\ engine' = Append(engine, [index |-> hw_cons, pkt |-> buf[slot(hw_cons)], frame |-> arrived'])
            /\ hw_cons' = hw_cons + 1
            /\ received' = Append(received, arrived')
       ELSE UNCHANGED <<engine, hw_cons, received>>
    /\ UNCHANGED <<hw_enabled, hw_prod, hw_cq_prod, hw_cq_cons, driverVars, readerVars, memoryVars, mmio>>

(* The oldest frame is written to its buffer, and its completion enqueued  *)
(* behind it; a full completion queue drops the record.                    *)
Complete ==
    /\ engine # <<>>
    /\ engine' = Tail(engine)
    /\ IF Cq!queue_full(hw_cq_prod, hw_cq_cons)
       THEN UNCHANGED <<hw_cq_prod, upstream>>
       ELSE /\ hw_cq_prod' = hw_cq_prod + 1
            /\ upstream' = Append(upstream, [ptr |-> hw_cq_prod, cpl |-> Head(engine)])
    /\ UNCHANGED <<hw_enabled, hw_prod, hw_cons, hw_cq_cons, arrived, received,
                   data, cq_buf, driverVars, readerVars, mmio>>

Deliver ==
    /\ upstream # <<>>
    /\ upstream' = Tail(upstream)
    /\ LET u == Head(upstream) IN
        /\ data' = [data EXCEPT ![u.cpl.pkt] = u.cpl.frame]
        /\ cq_buf' = Cq!written(cq_buf, u.ptr, u.cpl.index)
    /\ UNCHANGED <<driverVars, readerVars, deviceVars, mmio>>

Next ==
    \/ OpenRing \/ PortUp
    \/ ProcessCq \/ ProcessRing
    \/ \E t \in READERS : Recv(t) \/ RecvWoken(t) \/ WaitPacket(t)
    \/ RecvNowait
    \/ ApplyWrite \/ Receive \/ Complete \/ Deliver

Spec == Init /\ [][Next]_vars

(* As in TxRing; the reader keeps calling recv. *)
ProcessNew == Cq!is_new(cq_buf, cq_cons_ptr) /\ ProcessCq

Fairness ==
    /\ WF_vars(OpenRing) /\ WF_vars(PortUp)
    /\ WF_vars(ProcessNew) /\ WF_vars(ProcessRing)
    /\ \A t \in READERS : WF_vars(Recv(t)) /\ WF_vars(RecvWoken(t))
    /\ WF_vars(ApplyWrite) /\ WF_vars(Complete) /\ WF_vars(Deliver)

LiveSpec == Spec /\ Fairness

(***************************************************************************)
(* Properties                                                              *)
(***************************************************************************)
Frame == Nat \ {0}

TypeOK ==
    /\ port \in {"opening", "up"} /\ handler \in {"open", "idle", "ring"}
    /\ prod_ptr \in Nat /\ cons_ptr \in Nat /\ cq_cons_ptr \in Nat
    /\ pool.allocated \in Nat /\ pool.free \in Seq(Buffers(pool))
    /\ pool = [allocated |-> pool.allocated, free |-> pool.free]
    /\ data \in Seq(Nat) /\ Len(data) = pool.allocated
    /\ rx_info \in [Slots -> Buffers(pool) \cup {None}]
    /\ buf \in [Slots -> Buffers(pool) \cup {None}]
    /\ pkt_rx_queue \in Seq(Frame) /\ taken \in Seq(Frame) /\ got_none \in BOOLEAN /\ overtaken \in BOOLEAN
    /\ pc \in [READERS -> {"idle", "recv", "wait", "woken"}]
    /\ mmio \in Seq([reg : {"prod", "cq_cons", "enable"}, val : Nat])
    /\ cq_buf \in [Cq!Slots -> [phase : {0, 1}, index : Nat]]
    /\ upstream \in Seq([ptr : Nat, cpl : [index : Nat, pkt : Buffers(pool), frame : Frame]])
    /\ engine \in Seq([index : Nat, pkt : Buffers(pool), frame : Frame])
    /\ hw_enabled \in BOOLEAN /\ hw_prod \in Nat /\ hw_cons \in Nat
    /\ hw_cq_prod \in Nat /\ hw_cq_cons \in Nat
    /\ arrived \in Nat /\ received \in Seq(Frame)

(* A completion queue as long as the ring is just large enough: no         *)
(* completion is dropped, because the consumer pointer of the completion   *)
(* queue is posted before the descriptors it makes room for.               *)
NoCompletionDropped == hw_cq_prod + Len(engine) = Len(received)

(* Every completion names a buffer in use, once (`assert pkt is not None`  *)
(* in free_pkt), and prepare_desc, which asserts nothing, overwrites no    *)
(* buffer in rx_info.                                                      *)
AssertionsHold ==
    /\ \A p \in cq_cons_ptr..cq_end - 1 : rx_info[cpl_slot(p)] # None
    /\ \A p, q \in cq_cons_ptr..cq_end - 1 : p # q => cpl_slot(p) # cpl_slot(q)
    /\ \A p \in prod_ptr..cons_ptr + SIZE - 1 : rx_info[slot(p)] = None

(* A buffer is free or in one slot of rx_info; the device writes into none *)
(* that is free or belongs to another descriptor.                          *)
BuffersOwned ==
    /\ IsInjective(pool.free)
    /\ \A s \in Slots : rx_info[s] \notin FreeBuffers(pool)
    /\ \A s, u \in Slots : s # u /\ rx_info[s] # None => rx_info[s] # rx_info[u]
    /\ \A b \in Buffers(pool) : b \in FreeBuffers(pool) \/ \E s \in Slots : rx_info[s] = b
    /\ \A i \in 1..Len(engine) : engine[i].pkt = rx_info[slot(engine[i].index)]
    /\ \A i \in 1..Len(upstream) : upstream[i].cpl.pkt = rx_info[slot(upstream[i].cpl.index)]

(* When nothing is under way the device has all but at most                *)
(* MIN_REFILL - 1 descriptors: however completions and refills interleave, *)
(* the ring never settles at a lower level.                                *)
Quiescent ==
    /\ port = "up" /\ handler = "idle" /\ mmio = <<>> /\ engine = <<>> /\ upstream = <<>>
    /\ ~Cq!is_new(cq_buf, cq_cons_ptr)
RingKeptFull == Quiescent => hw_prod - hw_cons > SIZE - MIN_REFILL

(* No reader waits while there is a packet to take: the check of the queue *)
(* and the wait cannot be separated by the packet's arrival.               *)
NoLostWakeup == \A t \in READERS : pc[t] \in {"recv", "wait"} => pkt_rx_queue = <<>>

(* recv returns no packet only if another task took one between the packet *)
(* that woke the reader and the reader's turn: a wakeup always stands for  *)
(* a packet.                                                               *)
RecvGetsPacket == got_none => overtaken

(* What the ring promises: the frames that found a descriptor reach the    *)
(* readers, all of them, once and in order, none with the bytes of another *)
(* although the buffers are refilled behind the copy.                      *)
Unsealed(frame, place) == frame
Line == INSTANCE SealedLine WITH
            Frames <- 1..MAX_FRAMES, Sealed <- Unsealed, accepted <- received, sent <- taken
RingIsLine == Line!LineSpec

(***************************************************************************)
(* The inductive invariant: what each pointer counts, what the slots       *)
(* between two pointers hold, and what a woken reader may count on.        *)
(***************************************************************************)
(* Completion records that have reached host memory. *)
delivered == hw_cq_prod - Len(upstream)

(* The ring's pointers trail one another, the driver's at most a ring      *)
(* apart, and after a refill with few descriptors missing.                 *)
Pointers ==
    /\ hw_cons = Len(received) /\ hw_cq_prod + Len(engine) = Len(received)
    /\ cons_ptr <= cq_cons_ptr /\ cq_cons_ptr <= delivered /\ Len(upstream) <= hw_cq_prod
    /\ hw_cons <= hw_prod /\ hw_prod <= prod_ptr /\ prod_ptr <= cons_ptr + SIZE
    /\ handler # "ring" => cons_ptr = cq_cons_ptr
    /\ handler = "idle" => ~worth_refilling(missing(cons_ptr))

(* What a write of a register in the queue m of posted writes is between:  *)
(* the register's value and the driver's, in the order of the posts.       *)
PostedInOrder(m, reg, low, high) ==
    /\ low <= high
    /\ \A i \in 1..Len(m) : m[i].reg = reg =>
        /\ low <= m[i].val /\ m[i].val <= high
        /\ \A j \in 1..i : m[j].reg = reg => m[j].val <= m[i].val

(* The driver's value of a register is the device's, or on its way.        *)
Latest(m, reg, value, posted) == value = posted \/ \E j \in 1..Len(m) : m[j] = write(reg, posted)

(* When the device gets to the producer pointer v that is the i-th of the  *)
(* posted writes m, it knows of the room in the completion queue v was     *)
(* counted on; room is the consumer pointer it has now.                    *)
RoomKnown(m, room, i, v) ==
    \/ v <= room + SIZE
    \/ \E j \in 1..i - 1 : m[j].reg = "cq_cons" /\ v <= m[j].val + SIZE

PostedWrites(m, prod, cons, prod_posted, cons_posted) ==
    /\ PostedInOrder(m, "prod", prod, prod_posted) /\ Latest(m, "prod", prod, prod_posted)
    /\ PostedInOrder(m, "cq_cons", cons, cons_posted) /\ Latest(m, "cq_cons", cons, cons_posted)
    /\ prod <= cons + SIZE
    /\ \A i \in 1..Len(m) : m[i].reg = "prod" => RoomKnown(m, cons, i, m[i].val)

Posted == PostedWrites(mmio, hw_prod, hw_cq_cons, prod_ptr, cq_cons_ptr)

(* The records the driver has not seen are new to it, those beyond are     *)
(* not, up to one turn of the queue.                                       *)
Records ==
    /\ \A p \in cq_cons_ptr..delivered - 1 :
        cq_buf[Cq!slot(p)].phase = Cq!phase(p) /\ cq_buf[Cq!slot(p)].index = p
    /\ \A p \in delivered..cq_cons_ptr + CQ_SIZE - 1 : cq_buf[Cq!slot(p)].phase # Cq!phase(p)
    /\ \A i \in 1..Len(upstream) : upstream[i].ptr = delivered + i - 1

(* Which slots of the ring are in use, and with what. *)
InUse ==
    /\ \A p \in cq_cons_ptr..prod_ptr - 1 : rx_info[slot(p)] # None
    /\ \A p \in prod_ptr..cq_cons_ptr + SIZE - 1 : rx_info[slot(p)] = None
    /\ \A p \in hw_cons..prod_ptr - 1 : buf[slot(p)] = rx_info[slot(p)]

(* A completion on its way is that of pointer p. *)
CompletionOf(cpl, p) == cpl = [index |-> p, pkt |-> rx_info[slot(p)], frame |-> received[p + 1]]

(* Where the frames are that have a descriptor and that the driver has not *)
(* taken: in the engine, on their way to memory, in their buffers.         *)
Frames ==
    /\ \A i \in 1..Len(engine) : CompletionOf(engine[i], hw_cq_prod + i - 1)
    /\ \A i \in 1..Len(upstream) : CompletionOf(upstream[i].cpl, delivered + i - 1)
    /\ \A p \in cq_cons_ptr..delivered - 1 : data[rx_info[slot(p)]] = received[p + 1]

(* And those it has taken. *)
TakenInOrder ==
    /\ Len(taken) + Len(pkt_rx_queue) = cq_cons_ptr
    /\ \A i \in 1..Len(taken) : taken[i] = received[i]
    /\ \A i \in 1..Len(pkt_rx_queue) : pkt_rx_queue[i] = received[Len(taken) + i]

(* A reader that was woken finds a packet, unless it was overtaken.        *)
WokenForPacket == (\E t \in READERS : pc[t] = "woken") => pkt_rx_queue # <<>> \/ overtaken

IInv ==
    /\ TypeOK /\ Pointers /\ Posted /\ Records /\ InUse /\ Frames /\ TakenInOrder
    /\ BuffersOwned /\ NoLostWakeup /\ WokenForPacket /\ RecvGetsPacket
=============================================================================
